----------------------------- MODULE RbacProofs -----------------------------
(***************************************************************************)
(* Proofs about the Role and the RoleBinding of a Cluster, for every set   *)
(* of ObjectStores and every bound.                                        *)
(***************************************************************************)
EXTENDS Rbac, TLAPS

-----------------------------------------------------------------------------
(* The operators the actions are built from *)

\* BuildRoleRules yields the rules of a Role.
LEMMA RulesType ==
    ASSUME NEW names \in SUBSET Stores, NEW known \in Rules
    PROVE  BuildRoleRules(names, known) \in Rules
  BY ConstantsAssumption DEF BuildRoleRules, Rules, Versions

\* A writer that does nothing is a Job, and so is one that retries: RetryOnConflict
\* never makes more attempts than it has.
LEMMA RetryType ==
    /\ JobIdle \in Job
    /\ \A job \in Job : Retry(job) \in Job
  BY ConstantsAssumption
     DEF JobIdle, Job, Retry, NoRules, Rules, Versions, Idle

\* What is not there has the type of what is.
LEMMA MissingType == NoRole \in Role /\ NoBinding \in Binding
  BY ConstantsAssumption
     DEF NoRole, Role, NoRules, Rules, Versions, NoBinding, Binding, Subjects

\* patchRole writes a Role.
LEMMA PatchRoleType ==
    ASSUME TypeOK, NEW rules \in Rules, NEW labels \in BOOLEAN,
           PatchRole(rules, labels)
    PROVE  role' \in Role
<1>1. role.rv \in Nat /\ role.labelled \in BOOLEAN
  BY DEF TypeOK, Role
<1>2. role.rv + 1 \in Nat
  BY <1>1
<1>3. (role.labelled \/ labels) \in BOOLEAN
  OBVIOUS
<1> QED
  BY <1>2, <1>3, Zenon DEF PatchRole, Role

\* The Pre hook goes on to its next step with no attempt made.
LEMMA PreGotoType ==
    ASSUME pre \in Job, NEW pc \in {Idle, "role", "patch", "binding", "bind"}, PreGoto(pc)
    PROVE  pre' \in Job
<1>1. 0 \in 0 .. RetrySteps - 1
  BY ConstantsAssumption
<1>2. pre' = [pc |-> pc, rules |-> pre.rules, tries |-> 0, keys |-> pre.keys]
  BY DEF PreGoto, Job
<1> QED
  BY <1>1, <1>2 DEF Job

-----------------------------------------------------------------------------
(* Type correctness *)

\* The states the plugin starts in have their types.
LEMMA InitTypeOK == Init => TypeOK
<1> SUFFICES ASSUME Init PROVE TypeOK
  OBVIOUS
<1>1. specs \in Rules /\ refs \subseteq Stores /\ queue \subseteq Stores
  BY ConstantsAssumption DEF Init, Rules, Versions
<1>2. [s \in Stores |-> 1] \in Rules
  BY ConstantsAssumption DEF Rules, Versions
<1>3. role \in Role
  BY <1>2, MissingType DEF Init, Role
<1>4. binding \in Binding
  <2>1. {ClusterSubject} \in SUBSET Subjects
    BY ConstantsAssumption DEF Subjects, ClusterSubject
  <2>2. {FALSE} \subseteq BOOLEAN /\ {1} \subseteq Nat
    OBVIOUS
  <2>3. [rv : {1}, subjects : {{ClusterSubject}}, labelled : {FALSE}, refOK : BOOLEAN]
           \subseteq Binding
    BY <2>1, <2>2, Zenon DEF Binding
  <2> QED
    BY <2>3, MissingType DEF Init
<1>5. view \in [specs : Rules, role : Role, binding : Binding]
  BY <1>1, <1>3, <1>4 DEF Init
<1> QED
  BY <1>1, <1>3, <1>4, <1>5, RetryType DEF Init, TypeOK

\* Every step of the Pre hook keeps the types.
LEMMA PreTypeOK == ASSUME TypeOK, PreStart \/ Pre PROVE TypeOK'
<1> USE RetryType
<1>1. ASSUME PreStart PROVE TypeOK'
  <2>1. BuildRoleRules(refs, view.specs) \in Rules
    BY RulesType DEF TypeOK
  <2>2. pre' \in Job
    <3>1. pre' = [pc |-> "role", rules |-> BuildRoleRules(refs, view.specs),
                  tries |-> 0, keys |-> {}]
      BY <1>1 DEF PreStart, JobIdle
    <3> QED
      BY <3>1, <2>1, ConstantsAssumption DEF Job
  <2> QED
    BY <1>1, <2>2 DEF PreStart, TypeOK
<1>2. ASSUME ensureRoleExists PROVE TypeOK'
  <2>1. pre' \in Job
    BY <1>2, PreGotoType DEF ensureRoleExists, TypeOK
  <2>2. role' \in Role
    BY <1>2 DEF ensureRoleExists, TypeOK, Role, Job
  <2> QED
    BY <1>2, <2>1, <2>2 DEF ensureRoleExists, TypeOK
<1>3. ASSUME PreRoleNotFound PROVE TypeOK'
  BY <1>3 DEF PreRoleNotFound, TypeOK
<1>4. ASSUME PrePatchRole PROVE TypeOK'
  <2>1. pre' \in Job
    BY <1>4, PreGotoType DEF PrePatchRole, TypeOK
  <2>2. pre.rules \in Rules
    BY DEF TypeOK, Job
  <2>3. role' \in Role
    BY <1>4, <2>2, PatchRoleType DEF PrePatchRole, TypeOK
  <2> QED
    BY <1>4, <2>1, <2>3 DEF PrePatchRole, TypeOK
<1>5. ASSUME PreRoleConflict PROVE TypeOK'
  BY <1>5 DEF PreRoleConflict, TypeOK
<1>6. ASSUME PreGetBinding PROVE TypeOK'
  BY <1>6, PreGotoType DEF PreGetBinding, TypeOK
<1>7. ASSUME CreateRoleBinding PROVE TypeOK'
  <2>1. binding' \in Binding
    BY <1>7, ConstantsAssumption DEF CreateRoleBinding, Binding, Subjects, ClusterSubject
  <2> QED
    BY <1>7, <2>1 DEF CreateRoleBinding, TypeOK
<1>8. ASSUME PreBindingNotFound PROVE TypeOK'
  BY <1>8 DEF PreBindingNotFound, TypeOK
<1>9. ASSUME PreBindingDone PROVE TypeOK'
  BY <1>9 DEF PreBindingDone, TypeOK
<1>10. ASSUME PatchRoleBinding PROVE TypeOK'
  <2>1. view.binding.subjects \cup {ClusterSubject} \subseteq Subjects
    BY ConstantsAssumption DEF TypeOK, Binding, Subjects, ClusterSubject
  <2>2. binding' = [rv |-> binding.rv + 1,
                    subjects |-> view.binding.subjects \cup {ClusterSubject},
                    labelled |-> TRUE, refOK |-> binding.refOK]
    BY <1>10 DEF PatchRoleBinding, TypeOK, Binding
  <2>3. binding.rv + 1 \in Nat /\ binding.refOK \in BOOLEAN
    BY DEF TypeOK, Binding
  <2>4. binding' \in Binding
    BY <2>1, <2>2, <2>3 DEF Binding
  <2> QED
    BY <1>10, <2>4 DEF PatchRoleBinding, TypeOK
<1>11. ASSUME PreBindingConflict PROVE TypeOK'
  BY <1>11 DEF PreBindingConflict, TypeOK
<1> QED
  BY <1>1, <1>2, <1>3, <1>4, <1>5, <1>6, <1>7, <1>8, <1>9, <1>10, <1>11 DEF Pre

\* Every step of the ObjectStore controller keeps the types.
LEMMA ControllerTypeOK == ASSUME TypeOK, Controller PROVE TypeOK'
<1> USE RetryType
<1>1. ASSUME NEW s \in Stores, Reconcile(s) PROVE TypeOK'
  <2> DEFINE rules == BuildRoleRules(ObjectStoreNamesFromRole(view.role), view.specs)
  <2>1. rules \in Rules
    BY RulesType DEF TypeOK, ObjectStoreNamesFromRole
  <2>2. [pc |-> "patch", rules |-> rules, tries |-> 0, keys |-> {s}] \in Job
    BY <2>1, ConstantsAssumption DEF Job
  <2>3. recon' \in Job
    BY <1>1, <2>2 DEF Reconcile
  <2> QED
    BY <1>1, <2>3 DEF Reconcile, TypeOK
<1>2. ASSUME EnsureRoleRules PROVE TypeOK'
  <2>1. recon.rules \in Rules
    BY DEF TypeOK, Job
  <2>2. role' \in Role
    BY <1>2, <2>1, PatchRoleType DEF EnsureRoleRules, TypeOK
  <2> QED
    BY <1>2, <2>2 DEF EnsureRoleRules, TypeOK
<1>3. ASSUME ReconcileConflict PROVE TypeOK'
  <2>1. recon.keys \subseteq Stores
    BY DEF TypeOK, Job
  <2> QED
    BY <1>3, <2>1 DEF ReconcileConflict, TypeOK
<1> QED
  BY <1>1, <1>2, <1>3 DEF Controller

\* What users, other actors and the informers do keeps the types.
LEMMA OthersTypeOK == ASSUME TypeOK, Users \/ Informers PROVE TypeOK'
<1>1. ASSUME NEW s \in Stores, EditStore(s) PROVE TypeOK'
  <2>1. specs' \in Rules
    BY <1>1 DEF EditStore, TypeOK, Rules
  <2> QED
    BY <1>1, <2>1 DEF EditStore, TypeOK
<1>2. ASSUME EditCluster PROVE TypeOK'
  BY <1>2 DEF EditCluster, TypeOK
<1>3. ASSUME Grant PROVE TypeOK'
  <2>1. grants' \in Nat /\ grants' \in Subjects
    BY <1>3, ConstantsAssumption DEF Grant, TypeOK, Subjects, ClusterSubject
  <2>2. binding' = [rv |-> binding.rv + 1, subjects |-> binding.subjects \cup {grants'},
                    labelled |-> binding.labelled, refOK |-> binding.refOK]
    BY <1>3 DEF Grant, TypeOK, Binding
  <2>3. /\ binding.rv + 1 \in Nat /\ binding.subjects \subseteq Subjects
        /\ binding.labelled \in BOOLEAN /\ binding.refOK \in BOOLEAN
    BY DEF TypeOK, Binding
  <2>4. binding' \in Binding
    BY <2>1, <2>2, <2>3 DEF Binding
  <2> QED
    BY <1>3, <2>1, <2>4 DEF Grant, TypeOK
<1>4. ASSUME DeleteDivergentBinding PROVE TypeOK'
  BY <1>4, MissingType DEF DeleteDivergentBinding, TypeOK
<1>5. ASSUME NEW s \in Stores, SyncStore(s) PROVE TypeOK'
  <2>1. [view.specs EXCEPT ![s] = specs[s]] \in Rules
    BY DEF TypeOK, Rules
  <2>2. view' = [specs |-> [view.specs EXCEPT ![s] = specs[s]],
                 role |-> view.role, binding |-> view.binding]
    BY <1>5 DEF SyncStore, TypeOK
  <2>3. view' \in [specs : Rules, role : Role, binding : Binding]
    BY <2>1, <2>2 DEF TypeOK
  <2> QED
    BY <1>5, <2>3 DEF SyncStore, TypeOK
<1>6. ASSUME SyncRole PROVE TypeOK'
  BY <1>6 DEF SyncRole, TypeOK
<1>7. ASSUME SyncBinding PROVE TypeOK'
  BY <1>7 DEF SyncBinding, TypeOK
<1> QED
  BY <1>1, <1>2, <1>3, <1>4, <1>5, <1>6, <1>7 DEF Users, Informers

\* The types are an inductive invariant: among others, no retry loop exceeds its
\* attempts, and only known subjects are bound.
THEOREM TypeCorrect == Spec => []TypeOK
<1>1. TypeOK /\ [Next]_vars => TypeOK'
  <2> SUFFICES ASSUME TypeOK, [Next]_vars PROVE TypeOK'
    OBVIOUS
  <2>1. CASE UNCHANGED vars
    BY <2>1 DEF vars, TypeOK
  <2> QED
    BY <2>1, PreTypeOK, ControllerTypeOK, OthersTypeOK DEF Next
<1> QED
  BY InitTypeOK, <1>1, PTL DEF Spec

-----------------------------------------------------------------------------
(* The discovery label *)

\* A patch of the Role merges the labels it carries with those of the Role.
LEMMA PatchRoleLabel ==
    ASSUME TypeOK, NEW rules, NEW labels \in BOOLEAN, PatchRole(rules, labels), role.labelled
    PROVE  role'.labelled
  BY Zenon DEF PatchRole

\* Whichever writer writes the Role, and however stale its view, a label that is
\* there stays: proved for LabelSurvives, which the run of this module checks.
THEOREM LabelSafety == Spec => LabelSurvives
<1>1. TypeOK /\ [Next]_vars => [role.labelled => role'.labelled]_vars
  <2> SUFFICES ASSUME TypeOK, [Next]_vars, role.labelled PROVE role'.labelled
    OBVIOUS
  <2>1. CASE UNCHANGED role
    BY <2>1
  <2>2. ASSUME ensureRoleExists PROVE role'.labelled
    BY <2>2 DEF ensureRoleExists
  <2>3. ASSUME PrePatchRole PROVE role'.labelled
    BY <2>3, PatchRoleLabel DEF PrePatchRole
  <2>4. ASSUME EnsureRoleRules PROVE role'.labelled
    BY <2>4, PatchRoleLabel DEF EnsureRoleRules
  <2> QED
    BY <2>1, <2>2, <2>3, <2>4
       DEF Next, vars, Pre, Controller, Users, Informers, PreStart, PreRoleNotFound,
           PreRoleConflict, PreGetBinding, CreateRoleBinding, PreBindingNotFound,
           PreBindingDone, PatchRoleBinding, PreBindingConflict, Reconcile,
           ReconcileConflict, EditStore, EditCluster, Grant, DeleteDivergentBinding,
           SyncStore, SyncRole, SyncBinding
<1> QED
  BY TypeCorrect, <1>1, PTL DEF Spec, LabelSurvives

-----------------------------------------------------------------------------
(* The subjects others have bound *)

\* A RoleBinding that does not exist has no subjects.
MissingHasNoSubjects == binding.rv = 0 => binding.subjects = {}

\* The versions of a RoleBinding start again when it has been deleted by hand, which
\* happens only to one with a divergent RoleRef.  A view the hook may patch from is
\* therefore a view of this RoleBinding and not of a deleted one: it is not newer, and
\* at the same version it knows all the subjects.
ViewOfThisBinding ==
    view.binding.refOK /\ view.binding.rv # 0 =>
        /\ binding.refOK
        /\ view.binding.rv <= binding.rv
        /\ view.binding.rv = binding.rv => view.binding.subjects = binding.subjects

BindingInv == MissingHasNoSubjects /\ ViewOfThisBinding

\* Every step keeps the invariant of the RoleBinding.
LEMMA BindingStep == ASSUME TypeOK, BindingInv, [Next]_vars PROVE BindingInv'
<1> USE DEF BindingInv, MissingHasNoSubjects, ViewOfThisBinding
<1>0. /\ binding.rv \in Nat /\ view.binding.rv \in Nat
      /\ DOMAIN binding = {"rv", "subjects", "labelled", "refOK"}
  BY DEF TypeOK, Binding
<1>1. CASE UNCHANGED <<binding, view.binding>>
  BY <1>1
<1>2. ASSUME CreateRoleBinding PROVE BindingInv'
  BY <1>0, <1>2 DEF CreateRoleBinding
<1>3. ASSUME PatchRoleBinding PROVE BindingInv'
  <2>1. /\ binding'.rv = binding.rv + 1 /\ binding'.refOK = binding.refOK
        /\ view' = view
    BY <1>3 DEF PatchRoleBinding, TypeOK, Binding
  <2> QED
    BY <1>0, <2>1
<1>4. ASSUME Grant PROVE BindingInv'
  <2>1. /\ binding'.rv = binding.rv + 1 /\ binding'.refOK = binding.refOK
        /\ view' = view
    BY <1>4 DEF Grant, TypeOK, Binding
  <2> QED
    BY <1>0, <2>1
<1>5. ASSUME DeleteDivergentBinding PROVE BindingInv'
  BY <1>0, <1>5 DEF DeleteDivergentBinding, NoBinding
<1>6. ASSUME SyncBinding PROVE BindingInv'
  <2>1. view'.binding = binding /\ binding' = binding
    BY <1>6 DEF SyncBinding, TypeOK
  <2> QED
    BY <1>0, <2>1
<1>7. ASSUME NEW s \in Stores, SyncStore(s) PROVE BindingInv'
  BY <1>1, <1>7 DEF SyncStore, TypeOK
<1>8. ASSUME SyncRole PROVE BindingInv'
  BY <1>1, <1>8 DEF SyncRole, TypeOK
<1> QED
  BY <1>1, <1>2, <1>3, <1>4, <1>5, <1>6, <1>7, <1>8
     DEF Next, vars, Pre, Controller, Users, Informers, PreStart, PreRoleNotFound,
         PreRoleConflict, PreGetBinding, ensureRoleExists, PrePatchRole,
         PreBindingNotFound, PreBindingDone, PreBindingConflict, Reconcile,
         EnsureRoleRules, ReconcileConflict, EditStore, EditCluster

\* The lost update of the subjects, excluded for every interleaving: proved for
\* SubjectsKept, which the run of this module checks.
THEOREM SubjectSafety == Spec => SubjectsKept
<1>1. Init => BindingInv
  <2> SUFFICES ASSUME Init PROVE BindingInv
    OBVIOUS
  <2>1. view.binding = binding
    BY DEF Init
  <2>2. binding.rv \in Nat
    BY InitTypeOK DEF TypeOK, Binding
  <2>3. binding = NoBinding \/ binding.rv = 1
    BY Zenon DEF Init
  <2>4. binding.rv = 0 => binding.subjects = {}
    BY <2>3 DEF NoBinding
  <2>5. view.binding.refOK => binding.refOK
    BY <2>1
  <2> QED
    BY <2>1, <2>2, <2>4, <2>5 DEF BindingInv, MissingHasNoSubjects, ViewOfThisBinding
<1>2. TypeOK /\ BindingInv /\ [Next]_vars =>
        [binding.subjects \subseteq binding'.subjects \/ ~binding.refOK]_vars
  <2> SUFFICES ASSUME TypeOK, BindingInv, [Next]_vars, binding.refOK
               PROVE  binding.subjects \subseteq binding'.subjects
    OBVIOUS
  <2> USE DEF BindingInv, MissingHasNoSubjects, ViewOfThisBinding
  <2>1. CASE UNCHANGED binding
    BY <2>1
  <2>2. ASSUME CreateRoleBinding PROVE binding.subjects \subseteq binding'.subjects
    BY <2>2 DEF CreateRoleBinding
  <2>3. ASSUME PatchRoleBinding PROVE binding.subjects \subseteq binding'.subjects
    BY <2>3 DEF PatchRoleBinding, TypeOK, Binding
  <2>4. ASSUME Grant PROVE binding.subjects \subseteq binding'.subjects
    BY <2>4 DEF Grant, TypeOK, Binding
  <2> QED
    BY <2>1, <2>2, <2>3, <2>4
       DEF Next, vars, Pre, Controller, Users, Informers, PreStart, PreRoleNotFound,
           PreRoleConflict, PreGetBinding, ensureRoleExists, PrePatchRole,
           PreBindingNotFound, PreBindingDone, PreBindingConflict, Reconcile,
           EnsureRoleRules, ReconcileConflict, EditStore, EditCluster,
           DeleteDivergentBinding, SyncStore, SyncRole, SyncBinding
<1>3. TypeOK /\ BindingInv /\ [Next]_vars => BindingInv'
  BY BindingStep
<1> QED
  BY TypeCorrect, <1>1, <1>2, <1>3, PTL DEF Spec, SubjectsKept

=============================================================================
