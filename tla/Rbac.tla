-------------------------------- MODULE Rbac --------------------------------
(***************************************************************************)
(* The Role and the RoleBinding of a Cluster, kept by two writers: the Pre *)
(* hook (reconciler.go, rbac/ensure.go) that the operator calls with the   *)
(* Cluster definition, and the ObjectStore controller                      *)
(* (internal/controller/objectstore_controller.go) that knows no Cluster   *)
(* and finds the ObjectStores in the rules of the Role itself.             *)
(*                                                                         *)
(* Both read through the informers of the plugin, which lag behind the API *)
(* server, and write patches that carry the version they have read.        *)
(***************************************************************************)
EXTENDS Naturals

CONSTANTS
    Stores,         \* names of ObjectStores
    MaxVersion,     \* bound: the secrets an ObjectStore may name
    RetrySteps,     \* attempts made by RetryOnConflict
    MaxEdits,       \* bound: changes users make to ObjectStores and Cluster
    MaxGrants       \* bound: subjects other actors bind

ASSUME ConstantsAssumption ==
    /\ Stores # {}
    /\ MaxVersion \in Nat \ {0} /\ RetrySteps \in Nat \ {0}
    /\ {MaxEdits, MaxGrants} \subseteq Nat

VARIABLES
    specs,       \* per ObjectStore, the secrets it names; 0 when it does not exist
    refs,        \* the ObjectStores the Cluster refers to
    role,        \* the Role in the API server
    binding,     \* the RoleBinding in the API server
    view,        \* what the informers know of specs, role and binding
    queue,       \* ObjectStores waiting for a reconciliation
    pre,         \* the Pre hook
    recon,       \* the reconciliation of an ObjectStore
    edits, grants

vars == <<specs, refs, role, binding, view, queue, pre, recon, edits, grants>>

-----------------------------------------------------------------------------
(* Objects; version 0 is an object that does not exist *)

Versions == 0 .. MaxVersion

\* The rules of a Role: the ObjectStores it names and the secrets they led to.
Rules == [Stores -> Versions]

Role == [rv : Nat, rules : Rules, labelled : BOOLEAN]

NoRules == [s \in Stores |-> 0]

NoRole == [rv |-> 0, rules |-> NoRules, labelled |-> FALSE]

\* The subject of the Cluster, its ServiceAccount, and those others have bound.
ClusterSubject == 0

Subjects == ClusterSubject .. MaxGrants

Binding == [rv : Nat, subjects : SUBSET Subjects, labelled : BOOLEAN, refOK : BOOLEAN]

NoBinding == [rv |-> 0, subjects |-> {}, labelled |-> FALSE, refOK |-> TRUE]

BuildRoleRules(names, known) == [s \in Stores |-> IF s \in names THEN known[s] ELSE 0]

ObjectStoreNamesFromRole(r) == {s \in Stores : r.rules[s] # 0}

Idle == "idle"

\* A hook or a reconciliation under way: the rules it has computed, the attempts
\* of its RetryOnConflict, and the ObjectStore it has taken from the queue.
Job == [pc : {Idle, "role", "patch", "binding", "bind"}, rules : Rules,
        tries : 0 .. RetrySteps - 1, keys : SUBSET Stores]

JobIdle == [pc |-> Idle, rules |-> NoRules, tries |-> 0, keys |-> {}]

\* The plugin starts: the informers are filled, and every ObjectStore is queued.
\* An ObjectStore may have been deleted meanwhile.  The Role and the RoleBinding are
\* missing, or those an earlier process made, perhaps of a version that set no
\* labels; a RoleBinding of that name may also refer to another Role.
Init ==
    /\ specs \in [Stores -> {0, 1}]
    /\ refs = Stores
    /\ role \in {NoRole} \cup
          [rv : {1}, rules : {[s \in Stores |-> 1]}, labelled : BOOLEAN]
    /\ binding \in {NoBinding} \cup
          [rv : {1}, subjects : {{ClusterSubject}}, labelled : {FALSE}, refOK : BOOLEAN]
    /\ view = [specs |-> specs, role |-> role, binding |-> binding]
    /\ queue = {s \in Stores : specs[s] # 0}
    /\ pre = JobIdle
    /\ recon = JobIdle
    /\ edits = 0
    /\ grants = 0

-----------------------------------------------------------------------------
(* patchRole, for both writers *)

\* Mutant: the rules are taken to match when they name the same ObjectStores.
Mut_NamesMatch(rules, labels) ==
    /\ {s \in Stores : rules[s] # 0} = ObjectStoreNamesFromRole(view.role)
    /\ labels => view.role.labelled

\* Nothing to do, as far as the informer knows.
RoleMatches(rules, labels) == view.role.rules = rules /\ (labels => view.role.labelled)

\* Mutant: the labels of the Role are replaced by the desired ones, if any.
Mut_ReplaceLabels(rules, labels) ==
    /\ view.role.rv = role.rv
    /\ role' = [rv |-> role.rv + 1, rules |-> rules, labelled |-> labels]

\* A patch with optimistic lock; labels are merged.
PatchRole(rules, labels) ==
    /\ view.role.rv = role.rv
    /\ role' = [rv |-> role.rv + 1, rules |-> rules, labelled |-> role.labelled \/ labels]

RoleConflicts(rules, labels) == ~RoleMatches(rules, labels) /\ view.role.rv # role.rv

\* Mutant: one attempt too many.
Mut_ExtraAttempt(job) ==
    IF job.tries < RetrySteps THEN [job EXCEPT !.tries = @ + 1] ELSE JobIdle

\* A conflict is retried with the same rules, and given up after RetrySteps.
Retry(job) ==
    IF job.tries + 1 < RetrySteps THEN [job EXCEPT !.tries = @ + 1] ELSE JobIdle

-----------------------------------------------------------------------------
(* The Pre hook *)

PreGoto(pc) == pre' = [pre EXCEPT !.pc = pc, !.tries = 0]

\* Every ObjectStore the Cluster refers to is known: the rules are computed.
PreStart ==
    /\ pre.pc = Idle
    /\ \A s \in refs : view.specs[s] # 0
    /\ pre' = [JobIdle EXCEPT !.pc = "role", !.rules = BuildRoleRules(refs, view.specs)]
    /\ UNCHANGED <<specs, refs, role, binding, view, queue, recon, edits, grants>>

\* ensureRoleExists: created when the informer knows none; an object that is
\* there already is as good.
ensureRoleExists ==
    /\ pre.pc = "role"
    /\ role' = IF view.role.rv = 0 /\ role.rv = 0
               THEN [rv |-> 1, rules |-> pre.rules, labelled |-> TRUE]
               ELSE role
    /\ PreGoto("patch")
    /\ UNCHANGED <<specs, refs, binding, view, queue, recon, edits, grants>>

\* patchRole fails when the informer has not seen the Role yet.
PreRoleNotFound ==
    /\ pre.pc = "patch" /\ view.role.rv = 0
    /\ pre' = JobIdle
    /\ UNCHANGED <<specs, refs, role, binding, view, queue, recon, edits, grants>>

PrePatchRole ==
    /\ pre.pc = "patch" /\ view.role.rv # 0
    /\ \/ RoleMatches(pre.rules, TRUE) /\ UNCHANGED role
       \/ ~RoleMatches(pre.rules, TRUE) /\ PatchRole(pre.rules, TRUE)
    /\ PreGoto("binding")
    /\ UNCHANGED <<specs, refs, binding, view, queue, recon, edits, grants>>

PreRoleConflict ==
    /\ pre.pc = "patch" /\ view.role.rv # 0
    /\ RoleConflicts(pre.rules, TRUE)
    /\ pre' = Retry(pre)
    /\ UNCHANGED <<specs, refs, role, binding, view, queue, recon, edits, grants>>

\* getOrCreateRoleBinding: a RoleBinding the informer knows is reconciled.
PreGetBinding ==
    /\ pre.pc = "binding" /\ view.binding.rv # 0
    /\ PreGoto("bind")
    /\ UNCHANGED <<specs, refs, role, binding, view, queue, recon, edits, grants>>

CreateRoleBinding ==
    /\ pre.pc = "binding" /\ view.binding.rv = 0
    /\ binding.rv = 0
    /\ binding' = [rv |-> 1, subjects |-> {ClusterSubject}, labelled |-> TRUE, refOK |-> TRUE]
    /\ pre' = JobIdle
    /\ UNCHANGED <<specs, refs, role, view, queue, recon, edits, grants>>

\* Create finds it there and the Get that follows does not, or it has been deleted
\* when it is read again: an error.
PreBindingNotFound ==
    /\ view.binding.rv = 0
    /\ \/ pre.pc = "binding" /\ binding.rv # 0
       \/ pre.pc = "bind"
    /\ pre' = JobIdle
    /\ UNCHANGED <<specs, refs, role, binding, view, queue, recon, edits, grants>>

roleBindingNeedsUpdate == ClusterSubject \notin view.binding.subjects \/ ~view.binding.labelled

\* reconcileRoleBinding: a divergent RoleRef is an error, an up-to-date object is
\* left alone.
PreBindingDone ==
    /\ pre.pc = "bind"
    /\ view.binding.refOK => ~roleBindingNeedsUpdate
    /\ pre' = JobIdle
    /\ UNCHANGED <<specs, refs, role, binding, view, queue, recon, edits, grants>>

\* Mutant: the patch does not carry the version it is based on.
Mut_UnlockedPatch ==
    /\ pre.pc = "bind" /\ view.binding.rv # 0
    /\ view.binding.refOK /\ roleBindingNeedsUpdate
    /\ binding' = [binding EXCEPT !.rv = @ + 1, !.labelled = TRUE,
                                  !.subjects = view.binding.subjects \cup {ClusterSubject}]
    /\ pre' = JobIdle
    /\ UNCHANGED <<specs, refs, role, view, queue, recon, edits, grants>>

\* The list of subjects is sent whole: the one that was read, and ours.
PatchRoleBinding ==
    /\ pre.pc = "bind" /\ view.binding.rv # 0
    /\ view.binding.refOK /\ roleBindingNeedsUpdate
    /\ view.binding.rv = binding.rv
    /\ binding' = [binding EXCEPT !.rv = @ + 1, !.labelled = TRUE,
                                  !.subjects = view.binding.subjects \cup {ClusterSubject}]
    /\ pre' = JobIdle
    /\ UNCHANGED <<specs, refs, role, view, queue, recon, edits, grants>>

PreBindingConflict ==
    /\ pre.pc = "bind" /\ view.binding.rv # 0
    /\ view.binding.refOK /\ roleBindingNeedsUpdate
    /\ view.binding.rv # binding.rv
    /\ pre' = Retry(pre)
    /\ UNCHANGED <<specs, refs, role, binding, view, queue, recon, edits, grants>>

Pre ==
    \/ ensureRoleExists \/ PreRoleNotFound \/ PrePatchRole \/ PreRoleConflict
    \/ PreGetBinding \/ CreateRoleBinding \/ PreBindingNotFound
    \/ PreBindingDone \/ PatchRoleBinding \/ PreBindingConflict

-----------------------------------------------------------------------------
(* The ObjectStore controller *)

\* Reconcile: the Role is considered when it carries the label and its rules name
\* the ObjectStore; what no longer exists is left out of the new rules.
Reconcile(s) ==
    LET names == ObjectStoreNamesFromRole(view.role) IN
    /\ recon.pc = Idle /\ s \in queue
    /\ queue' = queue \ {s}
    /\ recon' = IF view.role.rv # 0 /\ view.role.labelled /\ s \in names
                THEN [pc |-> "patch", rules |-> BuildRoleRules(names, view.specs),
                      tries |-> 0, keys |-> {s}]
                ELSE JobIdle
    /\ UNCHANGED <<specs, refs, role, binding, view, pre, edits, grants>>

\* EnsureRoleRules.
EnsureRoleRules ==
    /\ recon.pc = "patch"
    /\ \/ RoleMatches(recon.rules, FALSE) /\ UNCHANGED role
       \/ ~RoleMatches(recon.rules, FALSE) /\ PatchRole(recon.rules, FALSE)
    /\ recon' = JobIdle
    /\ UNCHANGED <<specs, refs, binding, view, queue, pre, edits, grants>>

\* After the last attempt the error puts the ObjectStore back in the queue.
ReconcileConflict ==
    /\ recon.pc = "patch"
    /\ RoleConflicts(recon.rules, FALSE)
    /\ recon' = Retry(recon)
    /\ queue' = IF recon'.pc = Idle THEN queue \cup recon.keys ELSE queue
    /\ UNCHANGED <<specs, refs, role, binding, view, pre, edits, grants>>

Controller == (\E s \in Stores : Reconcile(s)) \/ EnsureRoleRules \/ ReconcileConflict

-----------------------------------------------------------------------------
(* Users, other actors and the informers (external) *)

\* An ObjectStore is changed, deleted or created again.
EditStore(s) ==
    /\ edits < MaxEdits /\ edits' = edits + 1
    /\ specs' \in {[specs EXCEPT ![s] = v] : v \in Versions \ {specs[s]}}
    /\ UNCHANGED <<refs, role, binding, view, queue, pre, recon, grants>>

EditCluster ==
    /\ edits < MaxEdits /\ edits' = edits + 1
    /\ refs' \in (SUBSET Stores) \ {{}, refs}
    /\ UNCHANGED <<specs, role, binding, view, queue, pre, recon, grants>>

\* Somebody binds another subject to the Role.
Grant ==
    /\ grants < MaxGrants /\ grants' = grants + 1
    /\ binding.rv # 0
    /\ binding' = [binding EXCEPT !.rv = @ + 1, !.subjects = @ \cup {grants'}]
    /\ UNCHANGED <<specs, refs, role, view, queue, pre, recon, edits>>

\* A RoleBinding with a divergent RoleRef is deleted by hand, as the error asks.
DeleteDivergentBinding ==
    /\ ~binding.refOK
    /\ binding' = NoBinding
    /\ UNCHANGED <<specs, refs, role, view, queue, pre, recon, edits, grants>>

\* The informer of ObjectStores catches up; the change is queued, for it passes
\* the predicate on the generation.
SyncStore(s) ==
    /\ view.specs[s] # specs[s]
    /\ view' = [view EXCEPT !.specs[s] = specs[s]]
    /\ queue' = queue \cup {s}
    /\ UNCHANGED <<specs, refs, role, binding, pre, recon, edits, grants>>

SyncRole ==
    /\ view.role # role
    /\ view' = [view EXCEPT !.role = role]
    /\ UNCHANGED <<specs, refs, role, binding, queue, pre, recon, edits, grants>>

SyncBinding ==
    /\ view.binding # binding
    /\ view' = [view EXCEPT !.binding = binding]
    /\ UNCHANGED <<specs, refs, role, binding, queue, pre, recon, edits, grants>>

Informers == (\E s \in Stores : SyncStore(s)) \/ SyncRole \/ SyncBinding

Users ==
    \/ \E s \in Stores : EditStore(s)
    \/ EditCluster \/ Grant \/ DeleteDivergentBinding

Next == PreStart \/ Pre \/ Controller \/ Users \/ Informers

Spec == Init /\ [][Next]_vars

\* The hooks and the controller go on, the operator reconciles the Cluster again
\* and again, the informers deliver, and a divergent RoleBinding is deleted one day.
Fairness ==
    /\ WF_vars(PreStart) /\ WF_vars(Pre) /\ WF_vars(Controller)
    /\ \A s \in Stores : WF_vars(SyncStore(s))
    /\ WF_vars(SyncRole) /\ WF_vars(SyncBinding)
    /\ WF_vars(DeleteDivergentBinding)

FairSpec == Spec /\ Fairness

-----------------------------------------------------------------------------
(* Properties *)

\* Every variable has its type.
TypeOK ==
    /\ specs \in Rules /\ refs \subseteq Stores
    /\ role \in Role /\ binding \in Binding
    /\ view \in [specs : Rules, role : Role, binding : Binding]
    /\ queue \subseteq Stores
    /\ pre \in Job /\ recon \in Job
    /\ edits \in Nat /\ grants \in Nat

\* Neither writer takes the discovery label off a Role, though only the Pre hook
\* knows it: the ObjectStore controller would never find the Role again.
LabelSurvives == [][role.labelled => role'.labelled]_vars

\* A subject another actor has bound is never revoked by a patch made from an
\* older list, unless the whole RoleBinding is deleted by hand.
SubjectsKept == [][binding.subjects \subseteq binding'.subjects \/ ~binding.refOK]_vars

UpToDate ==
    /\ role.rv # 0 /\ role.labelled
    /\ role.rules = BuildRoleRules(refs, specs)
    /\ binding.refOK /\ ClusterSubject \in binding.subjects

\* However stale the views of the two writers are when they overwrite each other,
\* the Role and the RoleBinding end up as the Cluster and its ObjectStores ask
\* for, provided these exist and the operator keeps calling the Pre hook.
RoleConverges == <>[](\A s \in refs : specs[s] # 0) => <>[]UpToDate

=============================================================================
