------------------------ MODULE BackupCatalogProofs ------------------------
(***************************************************************************)
(* Proofs about the recovery window in the status of the ObjectStore, for  *)
(* every number of pods, of backups and of maintenance cycles at once.     *)
(***************************************************************************)
EXTENDS BackupCatalog, OrderFacts, TLAPS

-----------------------------------------------------------------------------
(* The operators the actions are built from *)

\* The two ends of a catalog are times.
LEMMA EndsType ==
    ASSUME NEW list \in SUBSET Time
    PROVE  /\ GetFirstRecoverabilityPoint(list) \in Time
           /\ GetLastSuccessfulBackupTime(list) \in Time
<1>1. MaxTime \in Nat /\ 0 \in Time
  BY ConstantsAssumption DEF Time
<1>2. list # {} => Max(list) \in list /\ Min(list) \in list
  BY <1>1, MaxMin DEF Time
<1> QED
  BY <1>1, <1>2 DEF GetFirstRecoverabilityPoint, GetLastSuccessfulBackupTime

\* updateRecoveryWindow sets the two ends of the window and keeps the rest.
LEMMA WindowFields ==
    ASSUME NEW status \in Status, NEW list \in SUBSET Time
    PROVE  LET s == updateRecoveryWindow(status, list)
           IN  /\ s \in Status
               /\ s.own.first = GetFirstRecoverabilityPoint(list)
               /\ s.own.last = GetLastSuccessfulBackupTime(list)
               /\ s.own.failed = status.own.failed
               /\ s.other = status.other
<1> DEFINE f == GetFirstRecoverabilityPoint(list)
           l == GetLastSuccessfulBackupTime(list)
           o == [status.own EXCEPT !.set = TRUE, !.first = f, !.last = l]
<1>1. f \in Time /\ l \in Time
  BY EndsType
<1>2. status.own \in RecoveryWindow /\ status.other \in 0 .. MaxForeign
  BY DEF Status
<1>3. updateRecoveryWindow(status, list) = [status EXCEPT !.own = o]
  BY DEF updateRecoveryWindow, Status
<1> HIDE DEF f, l
<1>4. /\ o \in RecoveryWindow
      /\ o.first = f /\ o.last = l /\ o.failed = status.own.failed
  BY <1>1, <1>2 DEF RecoveryWindow
<1> HIDE DEF o
<1> QED
  BY <1>2, <1>3, <1>4 DEF f, l, Status

\* setLastFailedBackupTime sets the time of the failure and keeps the rest.
LEMMA FailedFields ==
    ASSUME NEW status \in Status, NEW time \in Time
    PROVE  LET s == setLastFailedBackupTime(status, time)
           IN  /\ s \in Status
               /\ s.own.first = status.own.first
               /\ s.own.last = status.own.last
               /\ s.own.failed = time
               /\ s.other = status.other
<1> DEFINE o == [status.own EXCEPT !.set = TRUE, !.failed = time]
<1>1. status.own \in RecoveryWindow /\ status.other \in 0 .. MaxForeign
  BY DEF Status
<1>2. setLastFailedBackupTime(status, time) = [status EXCEPT !.own = o]
  BY DEF setLastFailedBackupTime, Status
<1>3. /\ o \in RecoveryWindow
      /\ o.first = status.own.first /\ o.last = status.own.last /\ o.failed = time
  BY <1>1 DEF RecoveryWindow
<1> HIDE DEF o
<1> QED
  BY <1>1, <1>2, <1>3 DEF Status

Entry == [rv : Nat, status : Status, expired : BOOLEAN]

\* What is missing or idle has the type of what is there.
LEMMA IdleType ==
    /\ NoStatus \in Status /\ NoObject \in Object /\ NoEntry \in Entry
    /\ MaintIdle \in MaintState /\ BackIdle \in BackState
<1>1. 0 \in Time /\ 0 \in 0 .. MaxForeign
  BY ConstantsAssumption DEF Time
<1>2. NoStatus.own \in RecoveryWindow
  BY <1>1 DEF NoStatus, RecoveryWindow
<1>3. NoStatus \in Status
  BY <1>1, <1>2 DEF NoStatus, Status
<1>4. NoObject \in Object /\ NoEntry \in Entry
  BY <1>3 DEF NoObject, Object, NoEntry, Entry
<1>5. MaintIdle \in MaintState
  BY <1>4 DEF MaintIdle, MaintState, Idle
<1>6. BackIdle \in BackState
  BY <1>1, <1>4 DEF BackIdle, BackState, Idle
<1> QED
  BY <1>3, <1>4, <1>5, <1>6

\* A job that keeps the map of a replaced entry keeps all the rest.
LEMMA DetachedFields ==
    ASSUME TypeOK, NEW p \in Pods, NEW job \in MaintState \cup BackState,
           ~isCached(p), job.obj.shared
    PROVE  \E o \in Object :
               /\ Detached(p, job) = [job EXCEPT !.obj = o]
               /\ o.rv = job.obj.rv /\ o.status = cache[p].status /\ ~o.shared
<1> DEFINE o == [job.obj EXCEPT !.status = cache[p].status, !.shared = FALSE]
<1>1. job.obj \in Object /\ cache[p].status \in Status
  BY DEF TypeOK, MaintState, BackState
<1>2. Detached(p, job) = [job EXCEPT !.obj.status = cache[p].status, !.obj.shared = FALSE]
  BY DEF Detached
<1>3. CASE job \in MaintState
  <2>1. Detached(p, job) = [job EXCEPT !.obj = o]
    BY <1>2, <1>3 DEF MaintState
  <2>2. o \in Object /\ o.rv = job.obj.rv /\ o.status = cache[p].status /\ ~o.shared
    BY <1>1 DEF Object
  <2> QED
    BY <2>1, <2>2
<1>4. CASE job \in BackState
  <2>1. Detached(p, job) = [job EXCEPT !.obj = o]
    BY <1>2, <1>4 DEF BackState
  <2>2. o \in Object /\ o.rv = job.obj.rv /\ o.status = cache[p].status /\ ~o.shared
    BY <1>1 DEF Object
  <2> QED
    BY <2>1, <2>2
<1> QED
  BY <1>3, <1>4

\* Whatever entry a job of the pod finds or replaces, the other job is the same but
\* for the map it holds.
LEMMA DetachedMaint ==
    ASSUME TypeOK, NEW p \in Pods, NEW m \in MaintState
    PROVE  LET d == Detached(p, m)
           IN  /\ d \in MaintState /\ d.pc = m.pc /\ d.list = m.list
               /\ d.obj.rv = m.obj.rv
               /\ \/ d = m /\ (isCached(p) \/ ~m.obj.shared)
                  \/ ~d.obj.shared /\ d.obj.status = cache[p].status /\ m.obj.shared
<1>1. CASE isCached(p) \/ ~m.obj.shared
  BY <1>1 DEF Detached
<1>2. CASE ~isCached(p) /\ m.obj.shared
  <2>1. PICK o \in Object : /\ Detached(p, m) = [m EXCEPT !.obj = o]
                            /\ o.rv = m.obj.rv /\ o.status = cache[p].status /\ ~o.shared
    BY <1>2, DetachedFields
  <2>2. Detached(p, m).obj = o
    BY <2>1 DEF MaintState
  <2>3. ~Detached(p, m).obj.shared
    BY <2>1, <2>2
  <2> QED
    BY <1>2, <2>1, <2>2, <2>3 DEF MaintState
<1> QED
  BY <1>1, <1>2

LEMMA DetachedBack ==
    ASSUME TypeOK, NEW p \in Pods, NEW j \in BackState
    PROVE  LET d == Detached(p, j)
           IN  /\ d \in BackState /\ d.pc = j.pc /\ d.list = j.list
               /\ d.id = j.id /\ d.tries = j.tries /\ d.obj.rv = j.obj.rv
               /\ \/ d = j /\ (isCached(p) \/ ~j.obj.shared)
                  \/ ~d.obj.shared /\ d.obj.status = cache[p].status /\ j.obj.shared
<1>1. CASE isCached(p) \/ ~j.obj.shared
  BY <1>1 DEF Detached
<1>2. CASE ~isCached(p) /\ j.obj.shared
  <2>1. PICK o \in Object : /\ Detached(p, j) = [j EXCEPT !.obj = o]
                            /\ o.rv = j.obj.rv /\ o.status = cache[p].status /\ ~o.shared
    BY <1>2, DetachedFields
  <2>2. Detached(p, j).obj = o
    BY <2>1 DEF BackState
  <2>3. ~Detached(p, j).obj.shared
    BY <2>1, <2>2
  <2> QED
    BY <1>2, <2>1, <2>2, <2>3 DEF BackState
<1> QED
  BY <1>1, <1>2

\* Get answers with an object and leaves an entry.
LEMMA GetType ==
    ASSUME TypeOK, NEW p \in Pods
    PROVE  Get(p) \in Object /\ CacheAfterGet(p) \in [Pods -> Entry]
<1>1. cache[p].rv \in Nat /\ store.rv \in Nat /\ store.status \in Status
  BY DEF TypeOK
<1>2. CacheHit(p) \in Object
  BY <1>1, IdleType DEF CacheHit, Object
<1>3. CacheMiss \in Object
  BY <1>1 DEF CacheMiss, Object
<1>4. [rv |-> store.rv, status |-> store.status, expired |-> FALSE] \in Entry
  BY <1>1 DEF Entry
<1> QED
  BY <1>2, <1>3, <1>4 DEF Get, CacheAfterGet, TypeOK, Entry

\* The status a job sees is a status, and writing one leaves the cache a cache.
LEMMA WriteType ==
    ASSUME TypeOK, NEW p \in Pods, NEW job \in MaintState \cup BackState
    PROVE  /\ StatusOf(p, job) \in Status
           /\ \A s \in Status : CacheAfterWrite(p, job, s) \in [Pods -> Entry]
<1>1. job.obj \in Object
  BY DEF MaintState, BackState
<1>2. StatusOf(p, job) \in Status
  BY <1>1 DEF StatusOf, TypeOK, Object
<1>3. ASSUME NEW s \in Status PROVE CacheAfterWrite(p, job, s) \in [Pods -> Entry]
  <2>1. cache[p] \in Entry
    BY DEF TypeOK, Entry
  <2>2. [cache[p] EXCEPT !.status = s] \in Entry
    BY <2>1 DEF Entry
  <2>3. [cache EXCEPT ![p].status = s] = [cache EXCEPT ![p] = [cache[p] EXCEPT !.status = s]]
    BY DEF TypeOK
  <2> QED
    BY <2>2, <2>3 DEF CacheAfterWrite, TypeOK, Entry
<1> QED
  BY <1>2, <1>3

\* An update leaves an ObjectStore.
LEMMA UpdateType ==
    ASSUME TypeOK, NEW rv, NEW s \in Status, StatusUpdate(rv, s) \/ UNCHANGED store
    PROVE  store' \in [rv : Nat, status : Status]
<1>1. store.rv + 1 \in Nat
  BY DEF TypeOK
<1> QED
  BY <1>1 DEF StatusUpdate, TypeOK

-----------------------------------------------------------------------------
(* Type correctness *)

\* One Backup call at a time, as the operator makes them: it has a time left to take
\* its backup at, and while it records a failure no later one has begun.  Without this
\* the clock could pass its bound.
TurnInv ==
    /\ \A p, q \in Pods : back[p].pc # Idle /\ back[q].pc # Idle => p = q
    /\ \A p \in Pods :
          /\ back[p].pc = "take" => clock < MaxTime
          /\ back[p].pc \in {"failGet", "failUpdate"} => back[p].id = clock

\* The states the pods start in have their types.
LEMMA InitTypeOK == Init => TypeOK /\ TurnInv
<1> SUFFICES ASSUME Init PROVE TypeOK /\ TurnInv
  OBVIOUS
<1>1. clock \in Time /\ lastFailure \in Time /\ bucket \subseteq Time /\ completed \subseteq Time
  BY ConstantsAssumption DEF Init, Time
<1>2. store \in [rv : Nat, status : Status]
  BY IdleType DEF Init
<1>3. cache \in [Pods -> Entry] /\ maint \in [Pods -> MaintState] /\ back \in [Pods -> BackState]
  BY IdleType DEF Init
<1>4. TurnInv
  BY DEF Init, TurnInv, BackIdle, Idle
<1> QED
  BY <1>1, <1>2, <1>3, <1>4 DEF Init, TypeOK, Entry

\* The maintenance cycles keep the types.
LEMMA MaintenanceTypeOK ==
    ASSUME TypeOK, NEW p \in Pods, Maintenance(p) \/ MaintenanceFault(p)
    PROVE  TypeOK'
<1> USE DEF envVars
<1>1. /\ maint[p] \in MaintState /\ back[p] \in BackState
      /\ maint \in [Pods -> MaintState] /\ back \in [Pods -> BackState]
  BY DEF TypeOK
<1>2. ASSUME MaintenanceGet(p) PROVE TypeOK'
  <2>1. [MaintIdle EXCEPT !.pc = "policy", !.obj = Get(p)] \in MaintState
    BY GetType, IdleType DEF MaintState
  <2>2. maint' \in [Pods -> MaintState] /\ back' \in [Pods -> BackState]
    BY <1>1, <1>2, <2>1, DetachedBack DEF MaintenanceGet
  <2>3. cache' \in [Pods -> Entry]
    BY <1>2, GetType DEF MaintenanceGet
  <2> QED
    BY <1>2, <2>2, <2>3 DEF MaintenanceGet, TypeOK, Entry
<1>3. ASSUME MaintenanceSkipped(p) PROVE TypeOK'
  <2>1. back' \in [Pods -> BackState] /\ cache' \in [Pods -> Entry]
    BY <1>1, <1>3, DetachedBack, GetType DEF MaintenanceSkipped
  <2> QED
    BY <1>3, <2>1 DEF MaintenanceSkipped, TypeOK, Entry
<1>4. ASSUME DeleteBackupsByPolicy(p) PROVE TypeOK'
  <2>1. maint' \in [Pods -> MaintState]
    BY <1>1, <1>4 DEF DeleteBackupsByPolicy, MaintenanceGoto, MaintState
  <2>2. bucket' \subseteq Time
    BY <1>4 DEF DeleteBackupsByPolicy, TypeOK
  <2> QED
    BY <1>4, <2>1, <2>2 DEF DeleteBackupsByPolicy, MaintenanceGoto, TypeOK
<1>5. ASSUME MaintenanceList(p) PROVE TypeOK'
  <2>1. [maint[p] EXCEPT !.pc = "delete", !.list = bucket] \in MaintState
    BY <1>1 DEF MaintState, TypeOK
  <2>2. maint' = [maint EXCEPT ![p] = [maint[p] EXCEPT !.pc = "delete", !.list = bucket]]
    BY <1>1, <1>5 DEF MaintenanceList
  <2>3. maint' \in [Pods -> MaintState]
    BY <1>1, <2>1, <2>2
  <2> QED
    BY <1>5, <2>3 DEF MaintenanceList, TypeOK
<1>6. ASSUME deleteBackupsNotInCatalog(p) PROVE TypeOK'
  <2>1. maint' \in [Pods -> MaintState]
    BY <1>1, <1>6 DEF deleteBackupsNotInCatalog, MaintState
  <2> QED
    BY <1>6, <2>1 DEF deleteBackupsNotInCatalog, TypeOK
<1>7. ASSUME MaintenanceFails(p) \/ DeleteBackupsFails(p) PROVE TypeOK'
  <2>1. maint' \in [Pods -> MaintState]
    BY <1>1, <1>7, IdleType DEF MaintenanceFails, DeleteBackupsFails
  <2> QED
    BY <1>7, <2>1 DEF MaintenanceFails, DeleteBackupsFails, TypeOK
<1>8. ASSUME MaintenanceUpdate(p) \/ MaintenanceUpdateFails(p) PROVE TypeOK'
  <2> DEFINE status == updateRecoveryWindow(StatusOf(p, maint[p]), maint[p].list)
  <2>1. status \in Status
    BY <1>1, WriteType, WindowFields DEF MaintState
  <2>2. cache' = CacheAfterWrite(p, maint[p], status)
    BY <1>8 DEF MaintenanceUpdate, MaintenanceUpdateFails
  <2>3. StatusUpdate(maint[p].obj.rv, status) \/ UNCHANGED store
    BY <1>8 DEF MaintenanceUpdate, MaintenanceUpdateFails
  <2> HIDE DEF status
  <2>4. cache' \in [Pods -> Entry]
    BY <1>1, <2>1, <2>2, WriteType
  <2>5. store' \in [rv : Nat, status : Status]
    BY <2>1, <2>3, UpdateType
  <2>6. maint' \in [Pods -> MaintState]
    BY <1>1, <1>8, IdleType DEF MaintenanceUpdate, MaintenanceUpdateFails
  <2> QED
    BY <1>8, <2>4, <2>5, <2>6 DEF MaintenanceUpdate, MaintenanceUpdateFails, TypeOK, Entry
<1>9. ASSUME MaintenanceStart(p) PROVE TypeOK'
  <2>1. [MaintIdle EXCEPT !.pc = "get"] \in MaintState
    BY IdleType DEF MaintState
  <2>2. maint' \in [Pods -> MaintState]
    BY <1>1, <1>9, <2>1 DEF MaintenanceStart
  <2> QED
    BY <1>9, <2>2 DEF MaintenanceStart, TypeOK
<1> QED
  BY <1>2, <1>3, <1>4, <1>5, <1>6, <1>7, <1>8, <1>9 DEF Maintenance, MaintenanceFault

\* So does a Backup call.
LEMMA BackupTypeOK ==
    ASSUME TypeOK, TurnInv, NEW p \in Pods, BackupStart(p) \/ Backup(p) \/ BackupFault(p)
    PROVE  TypeOK'
<1> USE DEF envVars
<1>1. /\ maint[p] \in MaintState /\ back[p] \in BackState
      /\ maint \in [Pods -> MaintState] /\ back \in [Pods -> BackState]
  BY DEF TypeOK
<1>2. ASSUME BackupStart(p) PROVE TypeOK'
  <2>1. [BackIdle EXCEPT !.pc = "take", !.obj = Get(p)] \in BackState
    BY GetType, IdleType DEF BackState
  <2>2. maint' \in [Pods -> MaintState] /\ back' \in [Pods -> BackState]
    BY <1>1, <1>2, <2>1, DetachedMaint DEF BackupStart
  <2>3. cache' \in [Pods -> Entry]
    BY <1>2, GetType DEF BackupStart
  <2> QED
    BY <1>2, <2>2, <2>3 DEF BackupStart, TypeOK, Entry
<1>3. ASSUME Take(p) PROVE TypeOK'
  <2>1. clock' \in Time
    BY <1>3, ConstantsAssumption DEF Take, TurnInv, TypeOK, Time
  <2>2. [back[p] EXCEPT !.pc = "list", !.id = clock'] \in BackState
    BY <1>1, <2>1 DEF BackState
  <2>3. back' = [back EXCEPT ![p] = [back[p] EXCEPT !.pc = "list", !.id = clock']]
    BY <1>1, <1>3 DEF Take
  <2>4. back' \in [Pods -> BackState]
    BY <1>1, <2>2, <2>3
  <2>5. bucket' \subseteq Time
    BY <1>3, <2>1 DEF Take, TypeOK
  <2> QED
    BY <1>3, <2>1, <2>4, <2>5 DEF Take, TypeOK
<1>4. ASSUME TakeFails(p) PROVE TypeOK'
  <2>1. clock' \in Time
    BY <1>4, ConstantsAssumption DEF TakeFails, TurnInv, TypeOK, Time
  <2> DEFINE j == [back[p] EXCEPT !.pc = "failGet", !.id = clock', !.obj = NoObject]
  <2>2. j \in BackState
    BY <1>1, <2>1, IdleType DEF BackState
  <2>3. back' = [back EXCEPT ![p] = j]
    BY <1>1, <1>4 DEF TakeFails
  <2>4. back' \in [Pods -> BackState]
    BY <1>1, <2>2, <2>3
  <2> QED
    BY <1>4, <2>1, <2>4 DEF TakeFails, TypeOK
<1>5. ASSUME BackupList(p) PROVE TypeOK'
  <2>1. [back[p] EXCEPT !.pc = "update", !.list = bucket] \in BackState
    BY <1>1 DEF BackState, TypeOK
  <2>2. back' = [back EXCEPT ![p] = [back[p] EXCEPT !.pc = "update", !.list = bucket]]
    BY <1>1, <1>5 DEF BackupList
  <2>3. back' \in [Pods -> BackState]
    BY <1>1, <2>1, <2>2
  <2> QED
    BY <1>5, <2>3 DEF BackupList, TypeOK
<1>6. ASSUME BackupListFails(p) \/ BackupAnswer(p) PROVE TypeOK'
  <2>1. back' \in [Pods -> BackState]
    BY <1>1, <1>6, IdleType DEF BackupListFails, BackupAnswer
  <2>2. back[p].id \in Time
    BY <1>1 DEF BackState
  <2> QED
    BY <1>6, <2>1, <2>2 DEF BackupListFails, BackupAnswer, TypeOK
<1>7. ASSUME BackupUpdate(p) PROVE TypeOK'
  <2> DEFINE status == updateRecoveryWindow(StatusOf(p, back[p]), back[p].list)
  <2>1. status \in Status
    BY <1>1, WriteType, WindowFields DEF BackState
  <2>2. /\ cache' = CacheAfterWrite(p, back[p], status)
        /\ StatusUpdate(back[p].obj.rv, status) \/ UNCHANGED store
    BY <1>7 DEF BackupUpdate
  <2> HIDE DEF status
  <2>3. cache' \in [Pods -> Entry] /\ store' \in [rv : Nat, status : Status]
    BY <1>1, <2>1, <2>2, WriteType, UpdateType
  <2>4. [BackIdle EXCEPT !.pc = "answer", !.id = back[p].id] \in BackState
    BY <1>1, IdleType DEF BackState
  <2>5. back' \in [Pods -> BackState]
    BY <1>1, <1>7, <2>4 DEF BackupUpdate
  <2> QED
    BY <1>7, <2>3, <2>5 DEF BackupUpdate, TypeOK, Entry
<1>8. ASSUME FailureGet(p) PROVE TypeOK'
  <2>1. [back[p] EXCEPT !.pc = "failUpdate", !.obj = Get(p)] \in BackState
    BY <1>1, GetType DEF BackState
  <2>2. back' = [back EXCEPT ![p] = [back[p] EXCEPT !.pc = "failUpdate", !.obj = Get(p)]]
    BY <1>1, <1>8 DEF FailureGet
  <2>3. maint' \in [Pods -> MaintState] /\ back' \in [Pods -> BackState]
    BY <1>1, <1>8, <2>1, <2>2, DetachedMaint DEF FailureGet
  <2>4. cache' \in [Pods -> Entry]
    BY <1>8, GetType DEF FailureGet
  <2> QED
    BY <1>8, <2>3, <2>4 DEF FailureGet, TypeOK, Entry
<1>9. ASSUME FailureUpdate(p) \/ FailureLost(p) PROVE TypeOK'
  <2> DEFINE status == setLastFailedBackupTime(StatusOf(p, back[p]), back[p].id)
  <2>1. status \in Status /\ back[p].id \in Time
    BY <1>1, WriteType, FailedFields DEF BackState
  <2>2. /\ cache' = cache \/ cache' = CacheAfterWrite(p, back[p], status)
        /\ StatusUpdate(back[p].obj.rv, status) \/ UNCHANGED store
    BY <1>9 DEF FailureUpdate, FailureLost
  <2> HIDE DEF status
  <2>3. cache' \in [Pods -> Entry] /\ store' \in [rv : Nat, status : Status]
    <3>1. cache \in [Pods -> Entry]
      BY DEF TypeOK, Entry
    <3>2. cache' \in [Pods -> Entry]
      BY <1>1, <2>1, <2>2, <3>1, WriteType
    <3>3. store' \in [rv : Nat, status : Status]
      BY <2>1, <2>2, UpdateType
    <3> QED
      BY <3>2, <3>3
  <2> DEFINE j == [back[p] EXCEPT !.pc = "failGet", !.obj = NoObject, !.tries = @ + 1]
  <2>4. j \in BackState
    <3>1. back[p].tries + 1 \in Nat
      BY <1>1 DEF BackState
    <3>2. j = [back[p] EXCEPT !.pc = "failGet", !.obj = NoObject, !.tries = back[p].tries + 1]
      BY <1>1 DEF BackState
    <3> QED
      BY <1>1, <3>1, <3>2, IdleType DEF BackState
  <2>5. back' = [back EXCEPT ![p] = j] \/ back' = [back EXCEPT ![p] = BackIdle]
    BY <1>1, <1>9 DEF FailureUpdate, FailureLost
  <2> HIDE DEF j
  <2>6. back' \in [Pods -> BackState]
    BY <1>1, <2>4, <2>5, IdleType
  <2> QED
    BY <1>9, <2>1, <2>3, <2>6 DEF FailureUpdate, FailureLost, TypeOK, Entry
<1> QED
  BY <1>2, <1>3, <1>4, <1>5, <1>6, <1>7, <1>8, <1>9 DEF Backup, BackupFault

\* And whatever happens around the pods.
LEMMA OthersTypeOK ==
    ASSUME TypeOK,
           \/ \E p \in Pods : Collect(p) \/ isExpired(p) \/ SidecarCrash(p)
           \/ ForeignUpdate \/ Failover
    PROVE  TypeOK'
<1> USE DEF envVars
<1>1. /\ cache \in [Pods -> Entry]
      /\ maint \in [Pods -> MaintState] /\ back \in [Pods -> BackState]
  BY DEF TypeOK, Entry
<1>2. ASSUME NEW p \in Pods, Collect(p) PROVE TypeOK'
  <2>1. maint' \in [Pods -> MaintState] /\ back' \in [Pods -> BackState]
    BY <1>1, <1>2, DetachedMaint, DetachedBack DEF Collect
  <2>2. cache' \in [Pods -> Entry]
    BY <1>2, GetType DEF Collect
  <2> QED
    BY <1>2, <2>1, <2>2 DEF Collect, TypeOK, Entry
<1>3. ASSUME NEW p \in Pods, isExpired(p) PROVE TypeOK'
  <2>1. [cache[p] EXCEPT !.expired = TRUE] \in Entry
    BY <1>1 DEF Entry
  <2>2. \/ cache' = [cache EXCEPT ![p] = [cache[p] EXCEPT !.expired = TRUE]]
        \/ cache' = [cache EXCEPT ![p] = NoEntry]
    BY <1>1, <1>3 DEF isExpired
  <2>3. cache' \in [Pods -> Entry]
    BY <1>1, <2>1, <2>2, IdleType
  <2> QED
    BY <1>3, <2>3 DEF isExpired, TypeOK, Entry
<1>4. ASSUME NEW p \in Pods, SidecarCrash(p) PROVE TypeOK'
  <2>1. /\ cache' \in [Pods -> Entry]
        /\ maint' \in [Pods -> MaintState] /\ back' \in [Pods -> BackState]
    BY <1>1, <1>4, IdleType DEF SidecarCrash
  <2> QED
    BY <1>4, <2>1 DEF SidecarCrash, TypeOK, Entry
<1>5. ASSUME ForeignUpdate PROVE TypeOK'
  <2>1. store.status \in Status /\ store.rv + 1 \in Nat
    BY DEF TypeOK
  <2>2. [store.status EXCEPT !.other = @ + 1] \in Status
    BY <1>5, <2>1, ConstantsAssumption DEF ForeignUpdate, Status
  <2> QED
    BY <1>5, <2>1, <2>2 DEF ForeignUpdate, TypeOK
<1>6. ASSUME Failover PROVE TypeOK'
  BY <1>6 DEF Failover, TypeOK
<1> QED
  BY <1>2, <1>3, <1>4, <1>5, <1>6

\* A step that leaves the Backup calls where they are, or ends one, keeps TurnInv.
LEMMA TurnKept ==
    ASSUME TypeOK, TurnInv, clock' = clock,
           \A q \in Pods : \/ back'[q].pc \in {Idle, "list", "update", "answer"}
                              /\ (back[q].pc = Idle => back'[q].pc = Idle)
                           \/ back'[q].pc = back[q].pc /\ back'[q].id = back[q].id
                           \/ /\ {back[q].pc, back'[q].pc} = {"failGet", "failUpdate"}
                              /\ back'[q].id = back[q].id
    PROVE  TurnInv'
  BY DEF TurnInv, Idle

\* The maintenance, the cache and the rest leave the Backup calls where they are.
LEMMA OthersTurn ==
    ASSUME TypeOK, TurnInv,
           \/ \E p \in Pods : \/ Maintenance(p) \/ MaintenanceFault(p)
                              \/ Collect(p) \/ isExpired(p) \/ SidecarCrash(p)
           \/ ForeignUpdate \/ Failover
    PROVE  TurnInv'
<1> USE DEF envVars
<1>0. back \in [Pods -> BackState]
  BY DEF TypeOK
<1>1. ASSUME NEW p \in Pods,
             MaintenanceGet(p) \/ MaintenanceSkipped(p) \/ Collect(p)
      PROVE  TurnInv'
  <2>1. back' = [back EXCEPT ![p] = Detached(p, back[p])] /\ clock' = clock
    BY <1>0, <1>1 DEF MaintenanceGet, MaintenanceSkipped, Collect
  <2>2. Detached(p, back[p]).pc = back[p].pc /\ Detached(p, back[p]).id = back[p].id
    BY <1>0, DetachedBack
  <2>3. \A q \in Pods : back'[q].pc = back[q].pc /\ back'[q].id = back[q].id
    BY <1>0, <2>1, <2>2
  <2> QED
    BY <2>1, <2>3, TurnKept
<1>2. ASSUME NEW p \in Pods, SidecarCrash(p) PROVE TurnInv'
  BY <1>0, <1>2, TurnKept DEF SidecarCrash, BackIdle
<1>3. CASE UNCHANGED <<back, clock>>
  BY <1>3, TurnKept
<1>4. ASSUME NEW p \in Pods, Maintenance(p) \/ MaintenanceFault(p) \/ isExpired(p)
      PROVE  TurnInv'
  <2>1. \/ MaintenanceGet(p) \/ MaintenanceSkipped(p)
        \/ UNCHANGED <<back, clock>>
    BY <1>4 DEF Maintenance, MaintenanceFault, MaintenanceStart, DeleteBackupsByPolicy, MaintenanceGoto,
        MaintenanceList, deleteBackupsNotInCatalog, MaintenanceUpdate, MaintenanceFails,
        DeleteBackupsFails, MaintenanceUpdateFails, isExpired
  <2> QED
    BY <1>1, <1>3, <2>1
<1>5. CASE ForeignUpdate \/ Failover
  BY <1>3, <1>5 DEF ForeignUpdate, Failover
<1> QED
  BY <1>1, <1>2, <1>4, <1>5

\* A Backup call begins when there is no other, and is alone while the clock moves.
LEMMA BackupTurn ==
    ASSUME TypeOK, TurnInv, NEW p \in Pods, BackupStart(p) \/ Backup(p) \/ BackupFault(p)
    PROVE  TurnInv'
<1>0. back \in [Pods -> BackState] /\ clock \in Nat
  BY ConstantsAssumption DEF TypeOK, Time
<1>1. ASSUME BackupStart(p) PROVE TurnInv'
  <2>1. \A q \in Pods : back'[q] = IF q = p THEN [BackIdle EXCEPT !.pc = "take", !.obj = Get(p)]
                                   ELSE back[q]
    BY <1>0, <1>1 DEF BackupStart
  <2>2. back'[p].pc = "take" /\ \A q \in Pods \ {p} : back'[q].pc = Idle
    <3>1. [BackIdle EXCEPT !.pc = "take", !.obj = Get(p)].pc = "take"
      BY DEF BackIdle
    <3> QED
      BY <1>1, <2>1, <3>1 DEF BackupStart
  <2> QED
    BY <1>1, <2>2 DEF BackupStart, TurnInv, Idle
<1>2. ASSUME Take(p) \/ TakeFails(p) PROVE TurnInv'
  <2>1. /\ back[p].pc = "take"
        /\ back'[p].pc \in {"list", "failGet"} /\ back'[p].id = clock'
        /\ \A q \in Pods \ {p} : back'[q] = back[q]
    BY <1>0, <1>2 DEF Take, TakeFails, BackState
  <2>2. \A q \in Pods \ {p} : back[q].pc = Idle
    BY <2>1 DEF TurnInv, Idle
  <2> QED
    BY <2>1, <2>2 DEF TurnInv, Idle
<1>3. ASSUME \/ BackupList(p) \/ BackupListFails(p) \/ BackupUpdate(p) \/ BackupAnswer(p)
             \/ FailureGet(p) \/ FailureUpdate(p) \/ FailureLost(p)
      PROVE  TurnInv'
  <2>1. clock' = clock /\ \A q \in Pods \ {p} : back'[q] = back[q]
    BY <1>0, <1>3 DEF BackupList, BackupListFails, BackupUpdate, BackupAnswer, FailureGet,
        FailureUpdate, FailureLost
  <2>2. \/ back[p].pc # Idle /\ back'[p].pc \in {Idle, "update", "answer"}
        \/ /\ {back[p].pc, back'[p].pc} = {"failGet", "failUpdate"}
           /\ back'[p].id = back[p].id
    <3>1. /\ BackIdle.pc = Idle
          /\ [BackIdle EXCEPT !.pc = "answer", !.id = back[p].id].pc = "answer"
      BY DEF BackIdle
    <3>2. CASE BackupListFails(p) \/ BackupUpdate(p) \/ BackupAnswer(p) \/ FailureLost(p)
      BY <1>0, <3>1, <3>2 DEF BackupListFails, BackupUpdate, BackupAnswer, FailureLost, Idle
    <3>3. CASE BackupList(p) \/ FailureGet(p)
      BY <1>0, <3>3 DEF BackupList, FailureGet, BackState, Idle
    <3>4. CASE FailureUpdate(p)
      BY <1>0, <3>1, <3>4 DEF FailureUpdate, BackState, Idle
    <3> QED
      BY <1>3, <3>2, <3>3, <3>4
  <2> QED
    BY <2>1, <2>2, TurnKept
<1> QED
  BY <1>1, <1>2, <1>3 DEF Backup, BackupFault

\* The types, with the turns of the Backup calls, are an invariant.
LEMMA TypeInvariant == Spec => [](TypeOK /\ TurnInv)
<1>1. TypeOK /\ TurnInv /\ [Next]_vars => (TypeOK /\ TurnInv)'
  <2> SUFFICES ASSUME TypeOK, TurnInv, [Next]_vars PROVE TypeOK' /\ TurnInv'
    OBVIOUS
  <2>1. CASE UNCHANGED vars
    BY <2>1 DEF vars, envVars, TypeOK, TurnInv
  <2>2. CASE Next
    BY <2>2, MaintenanceTypeOK, BackupTypeOK, OthersTypeOK, OthersTurn, BackupTurn DEF Next
  <2> QED
    BY <2>1, <2>2
<1> QED
  BY InitTypeOK, <1>1, PTL DEF Spec

\* Every variable keeps its type: among others, the window is made of times of backups
\* and never of the zero date of an empty catalog.
THEOREM TypeCorrect == Spec => []TypeOK
  BY TypeInvariant, PTL

-----------------------------------------------------------------------------
(* The recovery window: the invariant.                                       *)
(* Its parts are stated of values, an ObjectStore st, a catalog b and a time *)
(* k among them, so that they can be read before and after a step.           *)

\* A status no newer than the catalog and the clock.
AtMost(s, b, k) ==
    /\ s.own.first <= GetFirstRecoverabilityPoint(b)
    /\ s.own.last <= GetLastSuccessfulBackupTime(b)
    /\ s.own.failed <= k

\* A status that undoes nothing of another one.
Covers(s, t) ==
    /\ s.own.first >= t.own.first /\ s.own.last >= t.own.last
    /\ s.own.failed >= t.own.failed /\ s.other >= t.other

\* A catalog that has been read since a status was computed.
Fresh(list, t) ==
    /\ GetFirstRecoverabilityPoint(list) >= t.own.first
    /\ GetLastSuccessfulBackupTime(list) >= t.own.last

\* The ends of a catalog move forward only.
Grows(b, c) ==
    /\ GetFirstRecoverabilityPoint(b) <= GetFirstRecoverabilityPoint(c)
    /\ GetLastSuccessfulBackupTime(b) <= GetLastSuccessfulBackupTime(c)

\* A cached entry of the current version may be ahead of the ObjectStore, when its map
\* was written and the update lost, and is never behind it.
EntryInv(c, st, b, k) ==
    /\ c.rv <= st.rv
    /\ AtMost(c.status, b, k)
    /\ c.rv = st.rv => Covers(c.status, st.status)

\* So is the object a job holds, whose map may be the one of the entry.
ObjectInv(o, c, st, b, k) ==
    /\ o.rv <= st.rv
    /\ AtMost(o.status, b, k)
    /\ o.shared => o.rv = c.rv
    /\ ~o.shared /\ o.rv = st.rv => Covers(o.status, st.status)

\* A job that will write from its catalog with an object of the current version has
\* read that catalog after the current status was written.
MaintInv(m, c, st, b, k) ==
    /\ ObjectInv(m.obj, c, st, b, k)
    /\ Grows(m.list, b)
    /\ m.pc = Idle => ~m.obj.shared
    /\ m.pc \in {"delete", "update"} /\ m.obj.rv = st.rv => Fresh(m.list, st.status)

BackInv(j, c, st, b, k) ==
    /\ ObjectInv(j.obj, c, st, b, k)
    /\ Grows(j.list, b)
    /\ j.pc = "update" /\ j.obj.rv = st.rv => Fresh(j.list, st.status)

PodInv(p) ==
    /\ EntryInv(cache[p], store, bucket, clock)
    /\ MaintInv(maint[p], cache[p], store, bucket, clock)
    /\ BackInv(back[p], cache[p], store, bucket, clock)

WindowInv ==
    /\ store.rv >= 1 /\ AtMost(store.status, bucket, clock)
    /\ bucket \subseteq 1 .. clock
    /\ \A p \in Pods : PodInv(p)

-----------------------------------------------------------------------------
(* Facts about the parts of the invariant *)

\* What is compared are numbers.
LEMMA StatusNat ==
    ASSUME NEW s \in Status
    PROVE  /\ s.own.first \in Nat /\ s.own.last \in Nat /\ s.own.failed \in Nat
           /\ s.other \in Nat
<1>1. s.own \in RecoveryWindow /\ s.other \in 0 .. MaxForeign
  BY DEF Status
<1> QED
  BY <1>1, ConstantsAssumption DEF RecoveryWindow, Time

LEMMA EndsNat ==
    ASSUME NEW list \in SUBSET Time
    PROVE  /\ GetFirstRecoverabilityPoint(list) \in Nat
           /\ GetLastSuccessfulBackupTime(list) \in Nat
  BY EndsType, ConstantsAssumption DEF Time

\* A new backup is the latest one; the first one stays, if there was any.
LEMMA TakeGrows ==
    ASSUME NEW k \in Nat, k + 1 \in Time, NEW b \in SUBSET (1 .. k)
    PROVE  Grows(b, b \cup {k + 1})
<1> DEFINE c == b \cup {k + 1}
<1>1. c \in SUBSET (0 .. k + 1) /\ c # {} /\ k + 1 \in Nat
  OBVIOUS
<1>2. Max(c) \in c /\ (\A y \in c : y <= Max(c)) /\ Min(c) \in c /\ (\A y \in c : Min(c) <= y)
  BY <1>1, MaxMin
<1>3. b # {} => Max(b) \in b /\ Min(b) \in b /\ (\A y \in b : Min(b) <= y)
  <2>1. b \in SUBSET (0 .. k)
    OBVIOUS
  <2> QED
    BY <2>1, MaxMin
<1>4. b = {} => 0 <= Min(c) /\ 0 <= Max(c)
  BY <1>1, <1>2
<1>5. ASSUME b # {} PROVE Min(b) <= Min(c) /\ Max(b) <= Max(c)
  <2>1. Min(b) \in 1 .. k /\ Max(b) \in c
    BY <1>3, <1>5
  <2>2. Min(c) \in b \/ Min(c) = k + 1
    BY <1>2
  <2> HIDE DEF c
  <2>3. Max(b) <= Max(c)
    BY <1>2, <2>1
  <2>4. Min(c) \in b => Min(b) <= Min(c)
    BY <1>3, <1>5
  <2>5. Min(c) = k + 1 => Min(b) <= Min(c)
    BY <2>1
  <2> QED
    BY <2>2, <2>3, <2>4, <2>5
<1> QED
  BY <1>1, <1>4, <1>5 DEF Grows, GetFirstRecoverabilityPoint, GetLastSuccessfulBackupTime

\* DeleteBackupsByPolicy takes from the old end.
LEMMA DeleteGrows ==
    ASSUME NEW k \in Nat, NEW b \in SUBSET (1 .. k), NEW t \in b
    PROVE  Grows(b, {x \in b : x >= t})
<1> DEFINE c == {x \in b : x >= t}
<1>1. b \in SUBSET (0 .. k) /\ c \in SUBSET (0 .. k) /\ c # {} /\ b # {}
  <2>1. t \in 1 .. k /\ t >= t
    OBVIOUS
  <2>2. t \in c
    BY <2>1
  <2>3. 1 .. k \subseteq 0 .. k
    OBVIOUS
  <2> QED
    BY <2>2, <2>3
<1>2. Max(c) \in c /\ (\A y \in c : y <= Max(c)) /\ Min(c) \in c
  BY <1>1, MaxMin
<1>3. Max(b) \in b /\ (\A y \in b : y <= Max(b)) /\ (\A y \in b : Min(b) <= y)
  BY <1>1, MaxMin
<1>4. Max(b) \in c
  BY <1>3
<1> QED
  BY <1>1, <1>2, <1>3, <1>4
     DEF Grows, GetFirstRecoverabilityPoint, GetLastSuccessfulBackupTime

\* As the catalog and the clock go on, what was not newer stays so.
LEMMA AtMostGrows ==
    ASSUME NEW s \in Status, NEW b \in SUBSET Time, NEW c \in SUBSET Time,
           NEW k \in Nat, NEW l \in Nat,
           AtMost(s, b, k), Grows(b, c), k <= l
    PROVE  AtMost(s, c, l)
  BY StatusNat, EndsNat DEF AtMost, Grows

LEMMA GrowsGrows ==
    ASSUME NEW a \in SUBSET Time, NEW b \in SUBSET Time, NEW c \in SUBSET Time,
           Grows(a, b), Grows(b, c)
    PROVE  Grows(a, c)
  BY EndsNat DEF Grows

\* Nothing covers less than the initial status.
LEMMA NoStatusLeast ==
    /\ \A b \in SUBSET Time, k \in Nat : AtMost(NoStatus, b, k)
    /\ \A s \in Status : Covers(s, NoStatus)
    /\ \A b \in SUBSET Time : Grows({}, b) /\ Grows(b, b)
    /\ \A s, t \in Status : Covers(NoStatus, t) => Covers(s, t)
<1>1. /\ NoStatus.own.first = 0 /\ NoStatus.own.last = 0 /\ NoStatus.own.failed = 0
      /\ NoStatus.other = 0
  BY DEF NoStatus
<1>2. GetFirstRecoverabilityPoint({}) = 0 /\ GetLastSuccessfulBackupTime({}) = 0
  BY DEF GetFirstRecoverabilityPoint, GetLastSuccessfulBackupTime
<1>3. \A b \in SUBSET Time, k \in Nat : AtMost(NoStatus, b, k)
  BY <1>1, EndsNat DEF AtMost
<1>4. \A s \in Status : Covers(s, NoStatus)
  BY <1>1, StatusNat DEF Covers
<1>5. \A b \in SUBSET Time : Grows({}, b) /\ Grows(b, b)
  BY <1>2, EndsNat DEF Grows
<1>6. \A s, t \in Status : Covers(NoStatus, t) => Covers(s, t)
  BY <1>1, StatusNat DEF Covers
<1> QED
  BY <1>3, <1>4, <1>5, <1>6

\* Every status covers itself.
LEMMA CoversItself == ASSUME NEW s \in Status PROVE Covers(s, s)
  BY StatusNat DEF Covers

ObjectStore == [rv : Nat, status : Status]

\* The catalog and the clock go on: a pod keeps its invariant.
LEMMA PodGrows ==
    ASSUME NEW b \in SUBSET Time, NEW b2 \in SUBSET Time, NEW k \in Nat, NEW k2 \in Nat,
           Grows(b, b2), k <= k2,
           NEW st \in ObjectStore, NEW c \in Entry, NEW m \in MaintState, NEW j \in BackState
    PROVE  /\ EntryInv(c, st, b, k) => EntryInv(c, st, b2, k2)
           /\ MaintInv(m, c, st, b, k) => MaintInv(m, c, st, b2, k2)
           /\ BackInv(j, c, st, b, k) => BackInv(j, c, st, b2, k2)
<1>1. /\ c.status \in Status /\ m.obj.status \in Status /\ j.obj.status \in Status
      /\ m.list \in SUBSET Time /\ j.list \in SUBSET Time
  BY DEF Entry, MaintState, BackState, Object
<1>2. EntryInv(c, st, b, k) => EntryInv(c, st, b2, k2)
  BY <1>1, AtMostGrows DEF EntryInv
<1>3. ASSUME NEW o \in Object
      PROVE  ObjectInv(o, c, st, b, k) => ObjectInv(o, c, st, b2, k2)
  BY AtMostGrows DEF ObjectInv, Object
<1>4. MaintInv(m, c, st, b, k) => MaintInv(m, c, st, b2, k2)
  BY <1>1, <1>3, GrowsGrows DEF MaintInv, MaintState
<1>5. BackInv(j, c, st, b, k) => BackInv(j, c, st, b2, k2)
  BY <1>1, <1>3, GrowsGrows DEF BackInv, BackState
<1> QED
  BY <1>2, <1>4, <1>5

\* The ObjectStore gets a new version: nobody has an object of that version yet.
LEMMA PodNewVersion ==
    ASSUME NEW st \in ObjectStore, NEW st2 \in ObjectStore, st2.rv = st.rv + 1,
           NEW c \in Entry, NEW m \in MaintState, NEW j \in BackState,
           NEW b, NEW k
    PROVE  /\ EntryInv(c, st, b, k) => EntryInv(c, st2, b, k)
           /\ MaintInv(m, c, st, b, k) => MaintInv(m, c, st2, b, k)
           /\ BackInv(j, c, st, b, k) => BackInv(j, c, st2, b, k)
<1>1. /\ st.rv \in Nat /\ st2.rv \in Nat /\ c.rv \in Nat
      /\ m.obj.rv \in Nat /\ j.obj.rv \in Nat /\ m.obj \in Object /\ j.obj \in Object
  BY DEF ObjectStore, Entry, MaintState, BackState, Object
<1>2. EntryInv(c, st, b, k) => EntryInv(c, st2, b, k)
  BY <1>1 DEF EntryInv
<1>3. ASSUME NEW o \in Object, o.rv \in Nat, ObjectInv(o, c, st, b, k)
      PROVE  ObjectInv(o, c, st2, b, k) /\ o.rv # st2.rv
  BY <1>1, <1>3 DEF ObjectInv
<1>4. MaintInv(m, c, st, b, k) => MaintInv(m, c, st2, b, k)
  BY <1>1, <1>3 DEF MaintInv
<1>5. BackInv(j, c, st, b, k) => BackInv(j, c, st2, b, k)
  BY <1>1, <1>3 DEF BackInv
<1> QED
  BY <1>2, <1>4, <1>5

\* An idle job has nothing to keep but the version it starts from.
LEMMA IdleInv ==
    ASSUME NEW st \in ObjectStore, st.rv >= 1, NEW b \in SUBSET Time, NEW k \in Nat, NEW c
    PROVE  /\ EntryInv(NoEntry, st, b, k)
           /\ ObjectInv(NoObject, c, st, b, k)
           /\ MaintInv(MaintIdle, c, st, b, k)
           /\ BackInv(BackIdle, c, st, b, k)
           /\ \A i : BackInv([BackIdle EXCEPT !.pc = "answer", !.id = i], c, st, b, k)
<1>1. st.rv \in Nat
  BY DEF ObjectStore
<1>2. NoEntry.rv = 0 /\ NoEntry.status = NoStatus
  BY DEF NoEntry
<1>3. NoObject.rv = 0 /\ NoObject.status = NoStatus /\ ~NoObject.shared
  BY DEF NoObject
<1>4. EntryInv(NoEntry, st, b, k)
  BY <1>1, <1>2, NoStatusLeast DEF EntryInv
<1>5. ObjectInv(NoObject, c, st, b, k)
  BY <1>1, <1>3, NoStatusLeast DEF ObjectInv
<1>6. MaintInv(MaintIdle, c, st, b, k)
  <2>1. MaintIdle.obj = NoObject /\ MaintIdle.list = {} /\ MaintIdle.pc = Idle
    BY DEF MaintIdle
  <2> QED
    BY <1>3, <1>5, <2>1, NoStatusLeast DEF MaintInv, Idle
<1>7. ASSUME NEW j, j.obj = NoObject, j.list = {}, j.pc # "update"
      PROVE  BackInv(j, c, st, b, k)
  BY <1>5, <1>7, NoStatusLeast DEF BackInv
<1>8. BackIdle.obj = NoObject /\ BackIdle.list = {} /\ BackIdle.pc = Idle
  BY DEF BackIdle
<1>9. ASSUME NEW i
      PROVE  BackInv([BackIdle EXCEPT !.pc = "answer", !.id = i], c, st, b, k)
  <2> DEFINE j == [BackIdle EXCEPT !.pc = "answer", !.id = i]
  <2>1. j.obj = NoObject /\ j.list = {} /\ j.pc = "answer"
    BY DEF BackIdle
  <2> HIDE DEF j
  <2>2. BackInv(j, c, st, b, k)
    BY <1>7, <2>1
  <2> QED
    BY <2>2 DEF j
<1> QED
  BY <1>4, <1>5, <1>6, <1>7, <1>8, <1>9 DEF Idle

-----------------------------------------------------------------------------
(* The recovery window: every step *)

\* The types of what the invariant talks about.
LEMMA WindowTypes ==
    ASSUME TypeOK
    PROVE  /\ store \in ObjectStore /\ store.rv \in Nat /\ store.status \in Status
           /\ bucket \in SUBSET Time /\ clock \in Nat
           /\ cache \in [Pods -> Entry] /\ maint \in [Pods -> MaintState]
           /\ back \in [Pods -> BackState]
           /\ \A p \in Pods : /\ cache[p] \in Entry
                              /\ maint[p] \in MaintState /\ maint[p].obj \in Object
                              /\ back[p] \in BackState /\ back[p].obj \in Object
  BY ConstantsAssumption DEF TypeOK, ObjectStore, Entry, Time, MaintState, BackState

\* A step of one pod that leaves the ObjectStore, the catalog and the clock.
LEMMA PodStep ==
    ASSUME WindowInv, NEW p \in Pods, UNCHANGED <<store, bucket, clock>>,
           \A q \in Pods \ {p} : /\ cache'[q] = cache[q] /\ maint'[q] = maint[q]
                                 /\ back'[q] = back[q],
           EntryInv(cache'[p], store, bucket, clock),
           MaintInv(maint'[p], cache'[p], store, bucket, clock),
           BackInv(back'[p], cache'[p], store, bucket, clock)
    PROVE  WindowInv'
  BY DEF WindowInv, PodInv

\* Only the version of the entry matters to an object, and only if it shares its map.
LEMMA ObjectEntry ==
    ASSUME NEW o, NEW c, NEW c2, NEW st, NEW b, NEW k,
           ObjectInv(o, c, st, b, k), c.rv = c2.rv \/ ~o.shared
    PROVE  ObjectInv(o, c2, st, b, k)
  BY DEF ObjectInv

\* Get, on a hit and on a miss: the object, the entry left behind and the jobs of the
\* pod are as the invariant says.
LEMMA GetInv ==
    ASSUME TypeOK, WindowInv, NEW p \in Pods
    PROVE  /\ EntryInv(CacheAfterGet(p)[p], store, bucket, clock)
           /\ ObjectInv(Get(p), CacheAfterGet(p)[p], store, bucket, clock)
           /\ MaintInv(Detached(p, maint[p]), CacheAfterGet(p)[p], store, bucket, clock)
           /\ BackInv(Detached(p, back[p]), CacheAfterGet(p)[p], store, bucket, clock)
<1> DEFINE c == CacheAfterGet(p)[p]
           m == Detached(p, maint[p])
           j == Detached(p, back[p])
<1>1. /\ store.rv \in Nat /\ store.status \in Status /\ bucket \in SUBSET Time /\ clock \in Nat
      /\ cache \in [Pods -> Entry] /\ cache[p] \in Entry
      /\ maint[p] \in MaintState /\ back[p] \in BackState
      /\ cache[p].status \in Status
  BY WindowTypes DEF Entry
<1>2. /\ EntryInv(cache[p], store, bucket, clock)
      /\ MaintInv(maint[p], cache[p], store, bucket, clock)
      /\ BackInv(back[p], cache[p], store, bucket, clock)
      /\ AtMost(store.status, bucket, clock)
  BY DEF WindowInv, PodInv
<1>3. CASE isCached(p)
  <2>1. c = cache[p] /\ m = maint[p] /\ j = back[p] /\ Get(p) = CacheHit(p)
    BY <1>3 DEF CacheAfterGet, Detached, Get
  <2>2. /\ CacheHit(p).rv = cache[p].rv /\ CacheHit(p).status = NoStatus
        /\ ~CacheHit(p).shared => cache[p].status = NoStatus
    BY DEF CacheHit
  <2>3. ObjectInv(CacheHit(p), cache[p], store, bucket, clock)
    BY <1>1, <1>2, <2>2, NoStatusLeast DEF ObjectInv, EntryInv
  <2> QED
    BY <1>2, <2>1, <2>3
<1>4. CASE ~isCached(p)
  <2>1. c = [rv |-> store.rv, status |-> store.status, expired |-> FALSE]
    BY <1>1, <1>4 DEF CacheAfterGet
  <2>2. c.rv = store.rv /\ c.status = store.status
    BY <2>1
  <2>3. EntryInv(c, store, bucket, clock)
    BY <1>1, <1>2, <2>2, CoversItself DEF EntryInv
  <2>4. Get(p) = CacheMiss
    BY <1>4 DEF Get
  <2>5. CacheMiss.rv = store.rv /\ CacheMiss.status = store.status /\ ~CacheMiss.shared
    BY DEF CacheMiss
  <2>6. ObjectInv(CacheMiss, c, store, bucket, clock)
    BY <1>1, <1>2, <2>5, CoversItself DEF ObjectInv
  <2> HIDE DEF c
  <2>7. ASSUME NEW o \in Object, ObjectInv(o, cache[p], store, bucket, clock),
               NEW d, d.rv = o.rv,
               \/ d = o /\ ~o.shared
               \/ ~d.shared /\ d.status = cache[p].status /\ o.shared
        PROVE  ObjectInv(d, c, store, bucket, clock)
    <3>1. CASE d = o /\ ~o.shared
      BY <2>7, <3>1 DEF ObjectInv
    <3>2. CASE ~d.shared /\ d.status = cache[p].status /\ o.shared
      BY <1>2, <2>7, <3>2 DEF ObjectInv, EntryInv
    <3> QED
      BY <2>7, <3>1, <3>2
  <2>8. MaintInv(m, c, store, bucket, clock)
    <3>1. /\ m.pc = maint[p].pc /\ m.list = maint[p].list /\ m.obj.rv = maint[p].obj.rv
          /\ \/ m = maint[p] /\ ~maint[p].obj.shared
             \/ ~m.obj.shared /\ m.obj.status = cache[p].status /\ maint[p].obj.shared
      BY <1>1, <1>4, DetachedMaint
    <3> HIDE DEF m
    <3>2. maint[p].obj \in Object /\ ObjectInv(maint[p].obj, cache[p], store, bucket, clock)
      BY <1>2, WindowTypes DEF MaintInv
    <3>3. ObjectInv(m.obj, c, store, bucket, clock)
      BY <2>7, <3>1, <3>2
    <3> QED
      BY <1>2, <3>1, <3>3 DEF MaintInv
  <2>9. BackInv(j, c, store, bucket, clock)
    <3>1. /\ j.pc = back[p].pc /\ j.list = back[p].list /\ j.obj.rv = back[p].obj.rv
          /\ \/ j = back[p] /\ ~back[p].obj.shared
             \/ ~j.obj.shared /\ j.obj.status = cache[p].status /\ back[p].obj.shared
      BY <1>1, <1>4, DetachedBack
    <3> HIDE DEF j
    <3>2. back[p].obj \in Object /\ ObjectInv(back[p].obj, cache[p], store, bucket, clock)
      BY <1>2, WindowTypes DEF BackInv
    <3>3. ObjectInv(j.obj, c, store, bucket, clock)
      BY <2>7, <3>1, <3>2
    <3> QED
      BY <1>2, <3>1, <3>3 DEF BackInv
  <2> QED
    BY <2>3, <2>4, <2>6, <2>8, <2>9 DEF c
<1> QED
  BY <1>3, <1>4

\* The steps that get the ObjectStore: the start of a cycle and of a backup, a retry of
\* handleBackupError, and Collect.
LEMMA GetWindow ==
    ASSUME TypeOK, WindowInv, NEW p \in Pods,
           \/ MaintenanceGet(p) \/ MaintenanceSkipped(p) \/ BackupStart(p)
           \/ FailureGet(p) \/ Collect(p)
    PROVE  WindowInv'
<1> DEFINE c == CacheAfterGet(p)[p]
<1>1. /\ store.rv \in Nat /\ store.status \in Status /\ bucket \in SUBSET Time /\ clock \in Nat
      /\ cache \in [Pods -> Entry] /\ maint \in [Pods -> MaintState]
      /\ back \in [Pods -> BackState]
  BY WindowTypes
<1>2. UNCHANGED <<store, bucket, clock>> /\ cache' = CacheAfterGet(p)
  BY DEF MaintenanceGet, MaintenanceSkipped, BackupStart, FailureGet, Collect
<1>3. cache'[p] = c /\ \A q \in Pods \ {p} : cache'[q] = cache[q]
  BY <1>1, <1>2 DEF CacheAfterGet
<1> HIDE DEF c
<1>4. /\ EntryInv(c, store, bucket, clock)
      /\ ObjectInv(Get(p), c, store, bucket, clock)
      /\ MaintInv(Detached(p, maint[p]), c, store, bucket, clock)
      /\ BackInv(Detached(p, back[p]), c, store, bucket, clock)
  BY GetInv DEF c
<1>5. ASSUME MaintenanceGet(p) PROVE WindowInv'
  <2> DEFINE m == [MaintIdle EXCEPT !.pc = "policy", !.obj = Get(p)]
  <2>1. /\ maint'[p] = m /\ back'[p] = Detached(p, back[p])
        /\ \A q \in Pods \ {p} : maint'[q] = maint[q] /\ back'[q] = back[q]
    BY <1>1, <1>5 DEF MaintenanceGet
  <2>2. m.pc = "policy" /\ m.obj = Get(p) /\ m.list = {}
    BY DEF MaintIdle
  <2> HIDE DEF m
  <2>3. MaintInv(m, c, store, bucket, clock)
    BY <1>1, <1>4, <2>2, NoStatusLeast DEF MaintInv, Idle
  <2> QED
    BY <1>2, <1>3, <1>4, <2>1, <2>3, PodStep
<1>6. ASSUME MaintenanceSkipped(p) PROVE WindowInv'
  <2>1. /\ maint' = maint /\ back'[p] = Detached(p, back[p])
        /\ \A q \in Pods \ {p} : back'[q] = back[q]
    BY <1>1, <1>6 DEF MaintenanceSkipped
  <2>2. ~maint[p].obj.shared /\ MaintInv(maint[p], cache[p], store, bucket, clock)
    BY <1>6 DEF MaintenanceSkipped, WindowInv, PodInv, MaintInv
  <2>3. MaintInv(maint[p], c, store, bucket, clock)
    BY <2>2, ObjectEntry DEF MaintInv
  <2> QED
    BY <1>2, <1>3, <1>4, <2>1, <2>3, PodStep
<1>7. ASSUME BackupStart(p) PROVE WindowInv'
  <2> DEFINE j == [BackIdle EXCEPT !.pc = "take", !.obj = Get(p)]
  <2>1. /\ back'[p] = j /\ maint'[p] = Detached(p, maint[p])
        /\ \A q \in Pods \ {p} : maint'[q] = maint[q] /\ back'[q] = back[q]
    BY <1>1, <1>7 DEF BackupStart
  <2>2. j.pc = "take" /\ j.obj = Get(p) /\ j.list = {}
    BY DEF BackIdle
  <2> HIDE DEF j
  <2>3. BackInv(j, c, store, bucket, clock)
    BY <1>1, <1>4, <2>2, NoStatusLeast DEF BackInv
  <2> QED
    BY <1>2, <1>3, <1>4, <2>1, <2>3, PodStep
<1>8. ASSUME FailureGet(p) PROVE WindowInv'
  <2>1. /\ back'[p].pc = "failUpdate" /\ back'[p].obj = Get(p) /\ back'[p].list = back[p].list
        /\ maint'[p] = Detached(p, maint[p])
        /\ \A q \in Pods \ {p} : maint'[q] = maint[q] /\ back'[q] = back[q]
    BY <1>1, <1>8 DEF FailureGet, BackState
  <2>2. Grows(back[p].list, bucket)
    BY DEF WindowInv, PodInv, BackInv
  <2>3. BackInv(back'[p], c, store, bucket, clock)
    BY <1>4, <2>1, <2>2 DEF BackInv
  <2> QED
    BY <1>2, <1>3, <1>4, <2>1, <2>3, PodStep
<1>9. ASSUME Collect(p) PROVE WindowInv'
  <2>1. /\ maint'[p] = Detached(p, maint[p]) /\ back'[p] = Detached(p, back[p])
        /\ \A q \in Pods \ {p} : maint'[q] = maint[q] /\ back'[q] = back[q]
    BY <1>1, <1>9 DEF Collect
  <2> QED
    BY <1>2, <1>3, <1>4, <2>1, PodStep
<1> QED
  BY <1>5, <1>6, <1>7, <1>8, <1>9

\* The steps that change no more than where the jobs of a pod stand: the catalog is
\* read, a step is over, or the job ends.
LEMMA JobWindow ==
    ASSUME TypeOK, WindowInv, NEW p \in Pods,
           \/ MaintenanceStart(p) \/ MaintenanceList(p) \/ deleteBackupsNotInCatalog(p)
           \/ MaintenanceFails(p) \/ DeleteBackupsFails(p)
           \/ BackupList(p) \/ BackupListFails(p) \/ BackupAnswer(p)
    PROVE  WindowInv'
<1>1. /\ store \in ObjectStore /\ store.status \in Status
      /\ bucket \in SUBSET Time /\ clock \in Nat
      /\ maint \in [Pods -> MaintState] /\ back \in [Pods -> BackState]
  BY WindowTypes
<1>2. /\ EntryInv(cache[p], store, bucket, clock)
      /\ MaintInv(maint[p], cache[p], store, bucket, clock)
      /\ BackInv(back[p], cache[p], store, bucket, clock)
      /\ store.rv >= 1 /\ AtMost(store.status, bucket, clock)
  BY DEF WindowInv, PodInv
<1>3. UNCHANGED <<store, bucket, clock, cache>>
  BY DEF MaintenanceStart, MaintenanceList, deleteBackupsNotInCatalog, MaintenanceFails,
         DeleteBackupsFails, BackupList, BackupListFails, BackupAnswer
<1>4. Fresh(bucket, store.status) /\ Grows(bucket, bucket)
  BY <1>1, <1>2, StatusNat, EndsNat, NoStatusLeast DEF Fresh, AtMost
<1>5. ASSUME MaintenanceList(p) PROVE WindowInv'
  <2>1. /\ maint'[p].pc = "delete" /\ maint'[p].list = bucket /\ maint'[p].obj = maint[p].obj
        /\ back' = back /\ \A q \in Pods \ {p} : maint'[q] = maint[q]
    BY <1>1, <1>5 DEF MaintenanceList, MaintState
  <2>2. MaintInv(maint'[p], cache[p], store, bucket, clock)
    BY <1>2, <1>4, <2>1 DEF MaintInv, Idle
  <2> QED
    BY <1>2, <1>3, <2>1, <2>2, PodStep
<1>6. ASSUME deleteBackupsNotInCatalog(p) PROVE WindowInv'
  <2>1. /\ maint[p].pc = "delete" /\ maint'[p].pc = "update"
        /\ maint'[p].list = maint[p].list /\ maint'[p].obj = maint[p].obj
        /\ back' = back /\ \A q \in Pods \ {p} : maint'[q] = maint[q]
    BY <1>1, <1>6 DEF deleteBackupsNotInCatalog, MaintState
  <2>2. MaintInv(maint'[p], cache[p], store, bucket, clock)
    BY <1>2, <2>1 DEF MaintInv, Idle
  <2> QED
    BY <1>2, <1>3, <2>1, <2>2, PodStep
<1>7. ASSUME MaintenanceFails(p) \/ DeleteBackupsFails(p) PROVE WindowInv'
  <2>1. /\ maint'[p] = MaintIdle /\ back' = back
        /\ \A q \in Pods \ {p} : maint'[q] = maint[q]
    BY <1>1, <1>7 DEF MaintenanceFails, DeleteBackupsFails
  <2>2. MaintInv(maint'[p], cache[p], store, bucket, clock)
    BY <1>1, <1>2, <2>1, IdleInv
  <2> QED
    BY <1>2, <1>3, <2>1, <2>2, PodStep
<1>8. ASSUME BackupList(p) PROVE WindowInv'
  <2>1. /\ back'[p].pc = "update" /\ back'[p].list = bucket /\ back'[p].obj = back[p].obj
        /\ maint' = maint /\ \A q \in Pods \ {p} : back'[q] = back[q]
    BY <1>1, <1>8 DEF BackupList, BackState
  <2>2. BackInv(back'[p], cache[p], store, bucket, clock)
    BY <1>2, <1>4, <2>1 DEF BackInv
  <2> QED
    BY <1>2, <1>3, <2>1, <2>2, PodStep
<1>9. ASSUME BackupListFails(p) \/ BackupAnswer(p) PROVE WindowInv'
  <2>1. /\ back'[p] = BackIdle /\ maint' = maint
        /\ \A q \in Pods \ {p} : back'[q] = back[q]
    BY <1>1, <1>9 DEF BackupListFails, BackupAnswer
  <2>2. BackInv(back'[p], cache[p], store, bucket, clock)
    BY <1>1, <1>2, <2>1, IdleInv
  <2> QED
    BY <1>2, <1>3, <2>1, <2>2, PodStep
<1>10. ASSUME MaintenanceStart(p) PROVE WindowInv'
  <2> DEFINE m == [MaintIdle EXCEPT !.pc = "get"]
  <2>1. /\ maint'[p] = m /\ back' = back
        /\ \A q \in Pods \ {p} : maint'[q] = maint[q]
    BY <1>1, <1>10 DEF MaintenanceStart
  <2>2. m.pc = "get" /\ m.obj = MaintIdle.obj /\ m.list = MaintIdle.list
    BY DEF MaintIdle
  <2> HIDE DEF m
  <2>3. MaintInv(MaintIdle, cache[p], store, bucket, clock)
    BY <1>1, <1>2, IdleInv
  <2>4. MaintInv(m, cache[p], store, bucket, clock)
    BY <2>2, <2>3 DEF MaintInv, Idle
  <2> QED
    BY <1>2, <1>3, <2>1, <2>4, PodStep
<1> QED
  BY <1>5, <1>6, <1>7, <1>8, <1>9, <1>10

\* The steps that change the catalog or the clock: both go on, and every pod may have
\* read the catalog before.
LEMMA BucketWindow ==
    ASSUME TypeOK, TurnInv, WindowInv, NEW p \in Pods,
           DeleteBackupsByPolicy(p) \/ Take(p) \/ TakeFails(p)
    PROVE  WindowInv'
<1>1. /\ store \in ObjectStore /\ store.status \in Status
      /\ bucket \in SUBSET Time /\ clock \in Nat /\ bucket \subseteq 1 .. clock
      /\ cache \in [Pods -> Entry]
      /\ maint \in [Pods -> MaintState] /\ back \in [Pods -> BackState]
      /\ MaxTime \in Nat
  BY WindowTypes, ConstantsAssumption DEF WindowInv
<1>2. UNCHANGED <<store, cache>>
  BY DEF DeleteBackupsByPolicy, MaintenanceGoto, Take, TakeFails
<1>3. /\ Grows(bucket, bucket') /\ bucket' \in SUBSET Time /\ bucket' \subseteq 1 .. clock'
      /\ clock' \in Nat /\ clock <= clock'
  <2>1. CASE DeleteBackupsByPolicy(p)
    <3>1. clock' = clock
      BY <2>1 DEF DeleteBackupsByPolicy, MaintenanceGoto
    <3>2. CASE bucket' = bucket
      BY <1>1, <3>1, <3>2, NoStatusLeast
    <3>3. CASE \E t \in bucket : bucket' = {b \in bucket : b >= t}
      <4>1. PICK t \in bucket : bucket' = {b \in bucket : b >= t}
        BY <3>3
      <4>2. Grows(bucket, {b \in bucket : b >= t})
        BY <1>1, DeleteGrows
      <4>3. bucket' \subseteq bucket
        BY <4>1
      <4>4. Grows(bucket, bucket')
        BY <4>1, <4>2
      <4> QED
        BY <1>1, <3>1, <4>3, <4>4
    <3> QED
      BY <2>1, <3>2, <3>3 DEF DeleteBackupsByPolicy
  <2>2. CASE Take(p)
    <3>1. clock' = clock + 1 /\ bucket' = bucket \cup {clock + 1} /\ clock < MaxTime
      BY <2>2 DEF Take, TurnInv
    <3>2. clock + 1 \in Time
      BY <1>1, <3>1 DEF Time
    <3>3. Grows(bucket, bucket')
      BY <1>1, <3>1, <3>2, TakeGrows
    <3>4. bucket' \subseteq 1 .. clock'
      BY <1>1, <3>1
    <3> QED
      BY <1>1, <3>1, <3>2, <3>3, <3>4
  <2>3. CASE TakeFails(p)
    BY <1>1, <2>3, NoStatusLeast DEF TakeFails
  <2> QED
    BY <2>1, <2>2, <2>3
<1>4. store'.rv >= 1 /\ AtMost(store.status, bucket', clock')
  BY <1>1, <1>2, <1>3, AtMostGrows DEF WindowInv
<1>5. ASSUME NEW q \in Pods
      PROVE  /\ EntryInv(cache[q], store, bucket', clock')
             /\ MaintInv(maint[q], cache[q], store, bucket', clock')
             /\ BackInv(back[q], cache[q], store, bucket', clock')
  <2>1. PodInv(q) /\ cache[q] \in Entry /\ maint[q] \in MaintState /\ back[q] \in BackState
    BY <1>1 DEF WindowInv
  <2> QED
    BY <1>1, <1>3, <2>1, PodGrows DEF PodInv
<1>6. ASSUME NEW q \in Pods PROVE MaintInv(maint'[q], cache[q], store, bucket', clock')
  <2>1. CASE maint'[q] = maint[q]
    BY <1>5, <2>1
  <2>2. CASE DeleteBackupsByPolicy(p) /\ q = p
    <3>1. maint'[p].pc = "list" /\ maint'[p].list = maint[p].list /\ maint'[p].obj = maint[p].obj
      BY <1>1, <2>2 DEF DeleteBackupsByPolicy, MaintenanceGoto, MaintState
    <3> QED
      BY <1>5, <2>2, <3>1 DEF MaintInv, Idle
  <2> QED
    BY <1>1, <2>1, <2>2 DEF DeleteBackupsByPolicy, MaintenanceGoto, Take, TakeFails
<1>7. ASSUME NEW q \in Pods PROVE BackInv(back'[q], cache[q], store, bucket', clock')
  <2>1. CASE back'[q] = back[q]
    BY <1>5, <2>1
  <2>2. CASE Take(p) /\ q = p
    <3>1. back'[p].pc = "list" /\ back'[p].list = back[p].list /\ back'[p].obj = back[p].obj
      BY <1>1, <2>2 DEF Take, BackState
    <3> QED
      BY <1>5, <2>2, <3>1 DEF BackInv
  <2>3. CASE TakeFails(p) /\ q = p
    <3>1. back'[p].pc = "failGet" /\ back'[p].list = back[p].list /\ back'[p].obj = NoObject
      BY <1>1, <2>3 DEF TakeFails, BackState
    <3>2. ObjectInv(NoObject, cache[p], store, bucket', clock')
      BY <1>1, <1>2, <1>3, <1>4, IdleInv
    <3> QED
      BY <1>5, <2>3, <3>1, <3>2 DEF BackInv
  <2> QED
    BY <1>1, <2>1, <2>2, <2>3 DEF DeleteBackupsByPolicy, MaintenanceGoto, Take, TakeFails
<1>8. \A q \in Pods : PodInv(q)'
  BY <1>2, <1>5, <1>6, <1>7 DEF PodInv
<1> QED
  BY <1>2, <1>3, <1>4, <1>8 DEF WindowInv

\* A status is written in the map of an object, and maybe sent to the API server, which
\* takes it if the object has the current version: it undoes nothing.
LEMMA WriteWindow ==
    ASSUME TypeOK, WindowInv, NEW p \in Pods, NEW job \in MaintState \cup BackState,
           ObjectInv(job.obj, cache[p], store, bucket, clock),
           NEW s \in Status, AtMost(s, bucket, clock),
           job.obj.rv = store.rv => Covers(s, store.status),
           cache' = CacheAfterWrite(p, job, s),
           StatusUpdate(job.obj.rv, s) \/ UNCHANGED store,
           UNCHANGED <<bucket, clock>>, TypeOK',
           \A q \in Pods \ {p} : maint'[q] = maint[q] /\ back'[q] = back[q],
           MaintInv(maint'[p], cache[p], store, bucket, clock),
           BackInv(back'[p], cache[p], store, bucket, clock)
    PROVE  WindowInv' /\ Covers(store'.status, store.status)
<1>1. /\ store \in ObjectStore /\ store.status \in Status /\ store.rv \in Nat
      /\ bucket \in SUBSET Time /\ clock \in Nat /\ cache \in [Pods -> Entry]
  BY WindowTypes
<1>2. /\ store' \in ObjectStore
      /\ cache' \in [Pods -> Entry] /\ maint' \in [Pods -> MaintState]
      /\ back' \in [Pods -> BackState]
  BY DEF TypeOK, ObjectStore, Entry
<1>3. ASSUME NEW q \in Pods
      PROVE  /\ cache'[q].rv = cache[q].rv
             /\ \/ cache'[q] = cache[q]
                \/ job.obj.shared /\ q = p /\ cache'[q].status = s
  BY <1>1 DEF CacheAfterWrite, Entry
<1>4. ASSUME NEW q \in Pods
      PROVE  /\ EntryInv(cache'[q], store, bucket, clock)
             /\ MaintInv(maint'[q], cache'[q], store, bucket, clock)
             /\ BackInv(back'[q], cache'[q], store, bucket, clock)
  <2>1. EntryInv(cache[q], store, bucket, clock)
    BY DEF WindowInv, PodInv
  <2>2. EntryInv(cache'[q], store, bucket, clock)
    <3>1. CASE cache'[q] = cache[q]
      BY <2>1, <3>1
    <3>2. CASE job.obj.shared /\ q = p /\ cache'[q].status = s
      <4>1. job.obj.rv = cache[q].rv
        BY <3>2 DEF ObjectInv
      <4> QED
        BY <1>3, <2>1, <3>2, <4>1 DEF EntryInv
    <3> QED
      BY <1>3, <3>1, <3>2
  <2>3. /\ MaintInv(maint'[q], cache[q], store, bucket, clock)
        /\ BackInv(back'[q], cache[q], store, bucket, clock)
    BY DEF WindowInv, PodInv
  <2>4. /\ MaintInv(maint'[q], cache'[q], store, bucket, clock)
        /\ BackInv(back'[q], cache'[q], store, bucket, clock)
    BY <1>3, <2>3, ObjectEntry DEF MaintInv, BackInv
  <2> QED
    BY <2>2, <2>4
<1>5. CASE store' = store
  <2>1. Covers(store'.status, store.status)
    BY <1>1, <1>5, CoversItself
  <2>2. \A q \in Pods : PodInv(q)'
    BY <1>4, <1>5 DEF PodInv
  <2> QED
    BY <1>5, <2>1, <2>2 DEF WindowInv
<1>6. CASE store' # store
  <2>1. store'.rv = store.rv + 1 /\ store'.status = s /\ job.obj.rv = store.rv
    BY <1>6 DEF StatusUpdate
  <2>2. store'.rv >= 1 /\ AtMost(store'.status, bucket, clock)
    BY <1>1, <2>1
  <2>3. ASSUME NEW q \in Pods PROVE PodInv(q)'
    <3>1. cache'[q] \in Entry /\ maint'[q] \in MaintState /\ back'[q] \in BackState
      BY <1>2
    <3> QED
      BY <1>1, <1>2, <1>4, <2>1, <3>1, PodNewVersion DEF PodInv
  <2>4. Covers(store'.status, store.status)
    BY <2>1
  <2> QED
    BY <2>2, <2>3, <2>4 DEF WindowInv
<1> QED
  BY <1>5, <1>6

\* The status a job sees covers the current one, if its object is current.
LEMMA StatusSeen ==
    ASSUME TypeOK, WindowInv, NEW p \in Pods, NEW job \in MaintState \cup BackState,
           ObjectInv(job.obj, cache[p], store, bucket, clock)
    PROVE  LET s == StatusOf(p, job)
           IN  /\ s \in Status /\ AtMost(s, bucket, clock)
               /\ job.obj.rv = store.rv => Covers(s, store.status)
<1>1. EntryInv(cache[p], store, bucket, clock)
  BY DEF WindowInv, PodInv
<1>2. StatusOf(p, job) \in Status
  BY WriteType
<1> QED
  BY <1>1, <1>2 DEF StatusOf, EntryInv, ObjectInv

\* The window computed from a catalog that is no older than the object.
LEMMA WindowWritten ==
    ASSUME NEW s \in Status, NEW list \in SUBSET Time, NEW st \in ObjectStore,
           NEW b \in SUBSET Time, NEW k \in Nat, NEW rv,
           AtMost(s, b, k), rv = st.rv => Covers(s, st.status),
           Grows(list, b), rv = st.rv => Fresh(list, st.status)
    PROVE  LET u == updateRecoveryWindow(s, list)
           IN  /\ u \in Status /\ AtMost(u, b, k)
               /\ rv = st.rv => Covers(u, st.status)
<1> DEFINE u == updateRecoveryWindow(s, list)
<1>1. /\ u \in Status
      /\ u.own.first = GetFirstRecoverabilityPoint(list)
      /\ u.own.last = GetLastSuccessfulBackupTime(list)
      /\ u.own.failed = s.own.failed /\ u.other = s.other
  BY WindowFields
<1> HIDE DEF u
<1>2. AtMost(u, b, k)
  BY <1>1 DEF AtMost, Grows
<1>3. rv = st.rv => Covers(u, st.status)
  BY <1>1 DEF Covers, Fresh
<1> QED
  BY <1>1, <1>2, <1>3 DEF u

\* The time of a failure that no later attempt has passed.
LEMMA FailureWritten ==
    ASSUME NEW s \in Status, NEW st \in ObjectStore, NEW b \in SUBSET Time,
           NEW k \in Time, NEW rv, AtMost(st.status, b, k),
           AtMost(s, b, k), rv = st.rv => Covers(s, st.status)
    PROVE  LET u == setLastFailedBackupTime(s, k)
           IN  /\ u \in Status /\ AtMost(u, b, k)
               /\ rv = st.rv => Covers(u, st.status)
<1> DEFINE u == setLastFailedBackupTime(s, k)
<1>1. /\ u \in Status
      /\ u.own.first = s.own.first /\ u.own.last = s.own.last
      /\ u.own.failed = k /\ u.other = s.other
  BY FailedFields
<1> HIDE DEF u
<1>2. k \in Nat /\ st.status \in Status
  BY ConstantsAssumption DEF Time, ObjectStore
<1>3. AtMost(u, b, k)
  BY <1>1, <1>2 DEF AtMost
<1>4. rv = st.rv => Covers(u, st.status)
  BY <1>1, <1>2, StatusNat DEF Covers, AtMost
<1> QED
  BY <1>1, <1>3, <1>4 DEF u

\* The updates of the status, the ones that are lost included.
LEMMA UpdateWindow ==
    ASSUME TypeOK, TurnInv, WindowInv, TypeOK', NEW p \in Pods,
           \/ MaintenanceUpdate(p) \/ MaintenanceUpdateFails(p) \/ BackupUpdate(p)
           \/ FailureUpdate(p) \/ FailureLost(p)
    PROVE  WindowInv' /\ Covers(store'.status, store.status)
<1>1. /\ store \in ObjectStore /\ store.status \in Status
      /\ bucket \in SUBSET Time /\ clock \in Nat /\ clock \in Time
      /\ maint \in [Pods -> MaintState] /\ back \in [Pods -> BackState]
      /\ maint[p] \in MaintState /\ back[p] \in BackState
  BY WindowTypes DEF TypeOK
<1>2. /\ MaintInv(maint[p], cache[p], store, bucket, clock)
      /\ BackInv(back[p], cache[p], store, bucket, clock)
      /\ store.rv >= 1 /\ AtMost(store.status, bucket, clock)
  BY DEF WindowInv, PodInv
<1>3. UNCHANGED <<bucket, clock>>
  BY DEF MaintenanceUpdate, MaintenanceUpdateFails, BackupUpdate, FailureUpdate, FailureLost
<1>4. ASSUME MaintenanceUpdate(p) \/ MaintenanceUpdateFails(p)
      PROVE  WindowInv' /\ Covers(store'.status, store.status)
  <2> DEFINE s == updateRecoveryWindow(StatusOf(p, maint[p]), maint[p].list)
  <2>1. /\ cache' = CacheAfterWrite(p, maint[p], s)
        /\ StatusUpdate(maint[p].obj.rv, s) \/ UNCHANGED store
        /\ maint[p].pc = "update"
        /\ maint'[p] = MaintIdle /\ back' = back
        /\ \A q \in Pods \ {p} : maint'[q] = maint[q]
    BY <1>1, <1>4 DEF MaintenanceUpdate, MaintenanceUpdateFails
  <2>2. /\ ObjectInv(maint[p].obj, cache[p], store, bucket, clock)
        /\ Grows(maint[p].list, bucket)
        /\ maint[p].obj.rv = store.rv => Fresh(maint[p].list, store.status)
    BY <1>2, <2>1 DEF MaintInv
  <2>3. maint[p].list \in SUBSET Time
    BY <1>1 DEF MaintState
  <2>4. /\ StatusOf(p, maint[p]) \in Status
        /\ AtMost(StatusOf(p, maint[p]), bucket, clock)
        /\ maint[p].obj.rv = store.rv => Covers(StatusOf(p, maint[p]), store.status)
    BY <1>1, <2>2, StatusSeen
  <2>5. /\ s \in Status /\ AtMost(s, bucket, clock)
        /\ maint[p].obj.rv = store.rv => Covers(s, store.status)
    BY <1>1, <2>2, <2>3, <2>4, WindowWritten
  <2> HIDE DEF s
  <2>6. MaintInv(maint'[p], cache[p], store, bucket, clock)
    BY <1>1, <1>2, <2>1, IdleInv
  <2> QED
    BY <1>1, <1>2, <1>3, <2>1, <2>2, <2>5, <2>6, WriteWindow
<1>5. ASSUME BackupUpdate(p)
      PROVE  WindowInv' /\ Covers(store'.status, store.status)
  <2> DEFINE s == updateRecoveryWindow(StatusOf(p, back[p]), back[p].list)
  <2>1. /\ cache' = CacheAfterWrite(p, back[p], s)
        /\ StatusUpdate(back[p].obj.rv, s) \/ UNCHANGED store
        /\ back[p].pc = "update"
        /\ back'[p] = [BackIdle EXCEPT !.pc = "answer", !.id = back[p].id] /\ maint' = maint
        /\ \A q \in Pods \ {p} : back'[q] = back[q]
    BY <1>1, <1>5 DEF BackupUpdate
  <2>2. /\ ObjectInv(back[p].obj, cache[p], store, bucket, clock)
        /\ Grows(back[p].list, bucket)
        /\ back[p].obj.rv = store.rv => Fresh(back[p].list, store.status)
    BY <1>2, <2>1 DEF BackInv
  <2>3. back[p].list \in SUBSET Time
    BY <1>1 DEF BackState
  <2>4. /\ StatusOf(p, back[p]) \in Status
        /\ AtMost(StatusOf(p, back[p]), bucket, clock)
        /\ back[p].obj.rv = store.rv => Covers(StatusOf(p, back[p]), store.status)
    BY <1>1, <2>2, StatusSeen
  <2>5. /\ s \in Status /\ AtMost(s, bucket, clock)
        /\ back[p].obj.rv = store.rv => Covers(s, store.status)
    BY <1>1, <2>2, <2>3, <2>4, WindowWritten
  <2> HIDE DEF s
  <2>6. BackInv(back'[p], cache[p], store, bucket, clock)
    <3>1. \A i : BackInv([BackIdle EXCEPT !.pc = "answer", !.id = i], cache[p], store,
                         bucket, clock)
      BY <1>1, <1>2, IdleInv
    <3> QED
      BY <2>1, <3>1
  <2> QED
    BY <1>1, <1>2, <1>3, <2>1, <2>2, <2>5, <2>6, WriteWindow
<1>6. ASSUME \/ FailureUpdate(p)
             \/ FailureLost(p) /\ back[p].pc = "failUpdate"
      PROVE  WindowInv' /\ Covers(store'.status, store.status)
  <2> DEFINE s == setLastFailedBackupTime(StatusOf(p, back[p]), back[p].id)
  <2>1. /\ cache' = CacheAfterWrite(p, back[p], s)
        /\ StatusUpdate(back[p].obj.rv, s) \/ UNCHANGED store
        /\ back[p].pc = "failUpdate" /\ maint' = maint
        /\ \A q \in Pods \ {p} : back'[q] = back[q]
    <3>1. CASE FailureUpdate(p)
      BY <1>1, <3>1 DEF FailureUpdate
    <3>2. CASE FailureLost(p) /\ back[p].pc = "failUpdate"
      BY <1>1, <3>2 DEF FailureLost
    <3> QED
      BY <1>6, <3>1, <3>2
  <2>2. back[p].id = clock
    BY <2>1 DEF TurnInv
  <2>3. /\ ObjectInv(back[p].obj, cache[p], store, bucket, clock)
        /\ Grows(back[p].list, bucket)
    BY <1>2 DEF BackInv
  <2>4. /\ StatusOf(p, back[p]) \in Status
        /\ AtMost(StatusOf(p, back[p]), bucket, clock)
        /\ back[p].obj.rv = store.rv => Covers(StatusOf(p, back[p]), store.status)
    BY <1>1, <2>3, StatusSeen
  <2>5. /\ s \in Status /\ AtMost(s, bucket, clock)
        /\ back[p].obj.rv = store.rv => Covers(s, store.status)
    BY <1>1, <1>2, <2>2, <2>4, FailureWritten
  <2> HIDE DEF s
  <2>6. \/ back'[p] = BackIdle
        \/ /\ back'[p].pc = "failGet" /\ back'[p].obj = NoObject
           /\ back'[p].list = back[p].list
    BY <1>1, <1>6 DEF FailureUpdate, FailureLost, BackState
  <2>7. BackInv(back'[p], cache[p], store, bucket, clock)
    <3>1. /\ ObjectInv(NoObject, cache[p], store, bucket, clock)
          /\ BackInv(BackIdle, cache[p], store, bucket, clock)
      BY <1>1, <1>2, IdleInv
    <3> QED
      BY <2>3, <2>6, <3>1 DEF BackInv
  <2> QED
    BY <1>1, <1>2, <1>3, <2>1, <2>3, <2>5, <2>7, WriteWindow
<1>7. ASSUME FailureLost(p), back[p].pc = "failGet"
      PROVE  WindowInv' /\ Covers(store'.status, store.status)
  <2>1. /\ back'[p] = BackIdle /\ UNCHANGED <<store, cache, maint>>
        /\ \A q \in Pods \ {p} : back'[q] = back[q]
    BY <1>1, <1>7 DEF FailureLost
  <2>2. BackInv(back'[p], cache[p], store, bucket, clock)
    BY <1>1, <1>2, <2>1, IdleInv
  <2>3. EntryInv(cache[p], store, bucket, clock)
    BY DEF WindowInv, PodInv
  <2>4. WindowInv'
    BY <1>2, <1>3, <2>1, <2>2, <2>3, PodStep
  <2> QED
    BY <1>1, <2>1, <2>4, CoversItself
<1>8. ASSUME FailureLost(p)
      PROVE  WindowInv' /\ Covers(store'.status, store.status)
  <2>1. back[p].pc = "failGet" \/ back[p].pc = "failUpdate"
    BY <1>8 DEF FailureLost
  <2> QED
    BY <1>6, <1>7, <1>8, <2>1
<1> QED
  BY <1>4, <1>5, <1>6, <1>8

\* What happens around the pods: an entry expires, a sidecar crashes, another server's
\* window is updated, the primary changes.
LEMMA AroundWindow ==
    ASSUME TypeOK, WindowInv, TypeOK',
           (\E p \in Pods : isExpired(p) \/ SidecarCrash(p)) \/ ForeignUpdate \/ Failover
    PROVE  WindowInv' /\ Covers(store'.status, store.status)
<1>1. /\ store \in ObjectStore /\ store.status \in Status /\ store.rv \in Nat
      /\ bucket \in SUBSET Time /\ clock \in Nat
      /\ cache \in [Pods -> Entry]
      /\ maint \in [Pods -> MaintState] /\ back \in [Pods -> BackState]
      /\ store.rv >= 1
  BY WindowTypes DEF WindowInv
<1>2. ASSUME NEW p \in Pods, isExpired(p)
      PROVE  WindowInv' /\ Covers(store'.status, store.status)
  <2>1. /\ UNCHANGED <<store, bucket, clock, maint, back>>
        /\ \A q \in Pods \ {p} : cache'[q] = cache[q]
    BY <1>1, <1>2 DEF isExpired
  <2>2. /\ EntryInv(cache[p], store, bucket, clock)
        /\ MaintInv(maint[p], cache[p], store, bucket, clock)
        /\ BackInv(back[p], cache[p], store, bucket, clock)
    BY DEF WindowInv, PodInv
  <2>3. \/ cache'[p] = NoEntry /\ ~maint[p].obj.shared /\ ~back[p].obj.shared
        \/ cache'[p].rv = cache[p].rv /\ cache'[p].status = cache[p].status
    BY <1>1, <1>2 DEF isExpired, Entry
  <2>4. EntryInv(cache'[p], store, bucket, clock)
    BY <1>1, <2>2, <2>3, IdleInv DEF EntryInv
  <2>5. /\ MaintInv(maint[p], cache'[p], store, bucket, clock)
        /\ BackInv(back[p], cache'[p], store, bucket, clock)
    BY <2>2, <2>3, ObjectEntry DEF MaintInv, BackInv
  <2>6. WindowInv'
    BY <2>1, <2>4, <2>5, PodStep
  <2> QED
    BY <1>1, <2>1, <2>6, CoversItself
<1>3. ASSUME NEW p \in Pods, SidecarCrash(p)
      PROVE  WindowInv' /\ Covers(store'.status, store.status)
  <2>1. /\ UNCHANGED <<store, bucket, clock>>
        /\ cache'[p] = NoEntry /\ maint'[p] = MaintIdle /\ back'[p] = BackIdle
        /\ \A q \in Pods \ {p} : /\ cache'[q] = cache[q] /\ maint'[q] = maint[q]
                                 /\ back'[q] = back[q]
    BY <1>1, <1>3 DEF SidecarCrash
  <2>2. /\ EntryInv(NoEntry, store, bucket, clock)
        /\ MaintInv(MaintIdle, NoEntry, store, bucket, clock)
        /\ BackInv(BackIdle, NoEntry, store, bucket, clock)
    BY <1>1, IdleInv
  <2>3. WindowInv'
    BY <2>1, <2>2, PodStep
  <2> QED
    BY <1>1, <2>1, <2>3, CoversItself
<1>4. ASSUME ForeignUpdate
      PROVE  WindowInv' /\ Covers(store'.status, store.status)
  <2>1. /\ UNCHANGED <<bucket, clock, cache, maint, back>>
        /\ store'.rv = store.rv + 1
        /\ store'.status = [store.status EXCEPT !.other = @ + 1]
    BY <1>4 DEF ForeignUpdate
  <2>2. store'.status.own = store.status.own /\ store'.status.other = store.status.other + 1
    BY <1>1, <2>1 DEF Status
  <2>3. Covers(store'.status, store.status)
    BY <1>1, <2>2, StatusNat DEF Covers
  <2>4. AtMost(store'.status, bucket, clock) /\ store'.rv >= 1
    BY <1>1, <2>1, <2>2 DEF AtMost, WindowInv
  <2>5. ASSUME NEW q \in Pods PROVE PodInv(q)'
    <3>1. store' \in ObjectStore
      BY DEF TypeOK, ObjectStore
    <3>2. cache[q] \in Entry /\ maint[q] \in MaintState /\ back[q] \in BackState /\ PodInv(q)
      BY <1>1 DEF WindowInv
    <3> QED
      BY <1>1, <2>1, <3>1, <3>2, PodNewVersion DEF PodInv
  <2> QED
    BY <2>1, <2>3, <2>4, <2>5 DEF WindowInv
<1>5. ASSUME Failover
      PROVE  WindowInv' /\ Covers(store'.status, store.status)
  <2>1. UNCHANGED <<store, bucket, clock, cache, maint, back>>
    BY <1>5 DEF Failover
  <2>2. WindowInv'
    BY <2>1 DEF WindowInv, PodInv
  <2> QED
    BY <1>1, <2>1, <2>2, CoversItself
<1> QED
  BY <1>2, <1>3, <1>4, <1>5

\* The first state: nothing is recorded, and nobody holds an object.
LEMMA InitWindow == Init => WindowInv
<1> SUFFICES ASSUME Init PROVE WindowInv
  OBVIOUS
<1>1. store.rv = 1 /\ store.status = NoStatus /\ bucket = {} /\ clock = 0
  BY DEF Init
<1>2. store \in ObjectStore /\ bucket \in SUBSET Time /\ clock \in Nat /\ store.rv >= 1
  BY <1>1, IdleType DEF Init, ObjectStore
<1>3. AtMost(store.status, bucket, clock)
  BY <1>1, <1>2, NoStatusLeast
<1>4. ASSUME NEW p \in Pods PROVE PodInv(p)
  <2>1. cache[p] = NoEntry /\ maint[p] = MaintIdle /\ back[p] = BackIdle
    BY DEF Init
  <2>2. /\ EntryInv(NoEntry, store, bucket, clock)
        /\ MaintInv(MaintIdle, NoEntry, store, bucket, clock)
        /\ BackInv(BackIdle, NoEntry, store, bucket, clock)
    BY <1>2, IdleInv
  <2> QED
    BY <2>1, <2>2 DEF PodInv
<1> QED
  BY <1>1, <1>2, <1>3, <1>4 DEF WindowInv

\* Every step keeps the invariant, and undoes nothing in the status.
LEMMA WindowStep ==
    ASSUME TypeOK, TurnInv, WindowInv, TypeOK', [Next]_vars
    PROVE  WindowInv' /\ Covers(store'.status, store.status)
<1>1. store.status \in Status
  BY DEF TypeOK
<1>2. CASE UNCHANGED vars
  <2>1. UNCHANGED <<store, bucket, clock, cache, maint, back>>
    BY <1>2 DEF vars
  <2>2. WindowInv'
    BY <2>1 DEF WindowInv, PodInv
  <2> QED
    BY <1>1, <2>1, <2>2, CoversItself
<1>3. ASSUME NEW p \in Pods,
             \/ MaintenanceGet(p) \/ MaintenanceSkipped(p) \/ BackupStart(p)
             \/ FailureGet(p) \/ Collect(p)
      PROVE  WindowInv' /\ Covers(store'.status, store.status)
  <2>1. store' = store
    BY <1>3 DEF MaintenanceGet, MaintenanceSkipped, BackupStart, FailureGet, Collect
  <2> QED
    BY <1>1, <1>3, <2>1, GetWindow, CoversItself
<1>4. ASSUME NEW p \in Pods,
             \/ MaintenanceStart(p) \/ MaintenanceList(p) \/ deleteBackupsNotInCatalog(p)
             \/ MaintenanceFails(p) \/ DeleteBackupsFails(p)
             \/ BackupList(p) \/ BackupListFails(p) \/ BackupAnswer(p)
      PROVE  WindowInv' /\ Covers(store'.status, store.status)
  <2>1. store' = store
    BY <1>4 DEF MaintenanceStart, MaintenanceList, deleteBackupsNotInCatalog,
                MaintenanceFails, DeleteBackupsFails, BackupList, BackupListFails, BackupAnswer
  <2> QED
    BY <1>1, <1>4, <2>1, JobWindow, CoversItself
<1>5. ASSUME NEW p \in Pods, DeleteBackupsByPolicy(p) \/ Take(p) \/ TakeFails(p)
      PROVE  WindowInv' /\ Covers(store'.status, store.status)
  <2>1. store' = store
    BY <1>5 DEF DeleteBackupsByPolicy, MaintenanceGoto, Take, TakeFails
  <2> QED
    BY <1>1, <1>5, <2>1, BucketWindow, CoversItself
<1>6. CASE Next
  <2>1. CASE ForeignUpdate \/ Failover
    BY <2>1, AroundWindow
  <2>2. ASSUME NEW p \in Pods, isExpired(p) \/ SidecarCrash(p)
        PROVE  WindowInv' /\ Covers(store'.status, store.status)
    BY <2>2, AroundWindow
  <2>3. ASSUME NEW p \in Pods, Maintenance(p) \/ MaintenanceFault(p)
        PROVE  WindowInv' /\ Covers(store'.status, store.status)
    BY <1>3, <1>4, <1>5, <2>3, UpdateWindow DEF Maintenance, MaintenanceFault
  <2>4. ASSUME NEW p \in Pods, Backup(p) \/ BackupFault(p)
        PROVE  WindowInv' /\ Covers(store'.status, store.status)
    BY <1>3, <1>4, <1>5, <2>4, UpdateWindow DEF Backup, BackupFault
  <2> QED
    BY <1>3, <1>6, <2>1, <2>2, <2>3, <2>4 DEF Next
<1> QED
  BY <1>2, <1>6

\* The recovery window never goes back in time and nobody undoes what another server
\* wrote, however many maintenance cycles and backups of however many pods overlap: an
\* object of the current version can only have been read after the status it holds was
\* written, and the catalog it is updated from was read later still.
THEOREM WindowSafety == Spec => WindowNeverRegresses
<1> DEFINE Kept == /\ store'.status.own.last >= store.status.own.last
                   /\ store'.status.own.first >= store.status.own.first
                   /\ store'.status.own.failed >= store.status.own.failed
                   /\ store'.status.other >= store.status.other
<1>1. Init => TypeOK /\ TurnInv /\ WindowInv
  BY InitTypeOK, InitWindow
<1>2. TypeOK /\ TurnInv /\ WindowInv /\ TypeOK' /\ [Next]_vars => WindowInv' /\ [Kept]_vars
  BY WindowStep DEF Covers
<1>3. WindowNeverRegresses <=> [][Kept]_vars
  BY DEF WindowNeverRegresses
<1> QED
  BY <1>1, <1>2, <1>3, TypeInvariant, PTL DEF Spec

=============================================================================
