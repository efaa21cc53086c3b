---------------------------- MODULE BackupCatalog ----------------------------
(***************************************************************************)
(* Backups, the maintenance of their catalog and the recovery window in    *)
(* the status of the ObjectStore: the Backup handler (backup.go), the      *)
(* CatalogMaintenanceRunnable (retention.go), recovery_window.go and the   *)
(* caching client they share in a pod (internal/client/client.go).         *)
(*                                                                         *)
(* Every instance pod has its own cache and runs the maintenance loop; the *)
(* backup may be taken on any pod.  The API server compares the            *)
(* resourceVersion of an update with the one it holds, and an update that  *)
(* changes nothing keeps the version.  A backup is its completion time.    *)
(***************************************************************************)
EXTENDS Naturals, FiniteSetsExt

CONSTANTS
    Pods,             \* the instance pods of the cluster
    RetentionPolicy,  \* spec.retentionPolicy is set
    RetrySteps,       \* attempts made by the two nested RetryOnConflict
    MaxTime,          \* bound: backups taken, failed ones included
    MaxForeign,       \* bound: updates made on behalf of another server
    MaxFailovers,     \* bound: changes of the current primary
    MaxCrashes        \* bound: sidecar crashes

ASSUME ConstantsAssumption ==
    /\ Pods # {}
    /\ RetentionPolicy \in BOOLEAN
    /\ RetrySteps \in Nat \ {0}
    /\ {MaxTime, MaxForeign, MaxFailovers, MaxCrashes} \subseteq Nat

VARIABLES
    clock,       \* the time of the latest backup attempt
    bucket,      \* the backups in the object store
    completed,   \* the backups with a Backup object in phase completed
    store,       \* the ObjectStore in the API server: its version and status
    cache,       \* per pod, the ObjectStore in the client's cache
    maint,       \* per pod, the maintenance cycle
    back,        \* per pod, the Backup call
    lastFailure, \* the latest failure the Backup handler has dealt with
    primary,     \* the current primary of the cluster
    failovers, crashes

envVars == <<primary, failovers, crashes>>
vars == <<clock, bucket, completed, store, cache, maint, back, lastFailure, envVars>>

-----------------------------------------------------------------------------
(* The status of an ObjectStore; 0 is a time that is not set *)

Time == 0 .. MaxTime

\* set: the map of the status has an entry for the server.
RecoveryWindow == [set : BOOLEAN, first : Time, last : Time, failed : Time]

\* The window of this cluster's server name, and what another server wrote.
Status == [own : RecoveryWindow, other : 0 .. MaxForeign]

NoStatus == [own |-> [set |-> FALSE, first |-> 0, last |-> 0, failed |-> 0], other |-> 0]

GetFirstRecoverabilityPoint(list) == IF list = {} THEN 0 ELSE Min(list)

GetLastSuccessfulBackupTime(list) == IF list = {} THEN 0 ELSE Max(list)

-----------------------------------------------------------------------------
(* Jobs: a job holds the ObjectStore it got.  After a cache hit its status   *)
(* map is the very map of the cached entry (shared), after a miss its own.   *)

Idle == "idle"

Object == [rv : Nat, status : Status, shared : BOOLEAN]

NoObject == [rv |-> 0, status |-> NoStatus, shared |-> FALSE]

MaintState ==
    [pc : {Idle, "get", "policy", "list", "delete", "update"}, obj : Object,
     list : SUBSET Time]    \* the catalog that was read

BackState ==
    [pc : {Idle, "take", "list", "update", "answer", "failGet", "failUpdate"},
     obj : Object, list : SUBSET Time,
     id : Time, tries : Nat]

MaintIdle == [pc |-> Idle, obj |-> NoObject, list |-> {}]

BackIdle == [pc |-> Idle, obj |-> NoObject, list |-> {}, id |-> 0, tries |-> 0]

NoEntry == [rv |-> 0, status |-> NoStatus, expired |-> FALSE]

Init ==
    /\ clock = 0
    /\ bucket = {}
    /\ completed = {}
    /\ store = [rv |-> 1, status |-> NoStatus]
    /\ cache = [p \in Pods |-> NoEntry]
    /\ maint = [p \in Pods |-> MaintIdle]
    /\ back = [p \in Pods |-> BackIdle]
    /\ lastFailure = 0
    /\ primary \in Pods
    /\ failovers = 0
    /\ crashes = 0

-----------------------------------------------------------------------------
(* The caching client *)

isCached(p) == cache[p].rv # 0 /\ ~cache[p].expired

\* getCachedObject, a hit: a shallow copy.  The map is read through the entry, but
\* a nil map cannot be shared.
CacheHit(p) ==
    [rv |-> cache[p].rv, status |-> NoStatus, shared |-> cache[p].status # NoStatus]

\* getCachedObject, a miss: the object goes to the caller, a deep copy of it to
\* the cache.
CacheMiss == [rv |-> store.rv, status |-> store.status, shared |-> FALSE]

Get(p) == IF isCached(p) THEN CacheHit(p) ELSE CacheMiss

\* What Get leaves in the cache.
CacheAfterGet(p) ==
    IF isCached(p) THEN cache
    ELSE [cache EXCEPT ![p] = [rv |-> store.rv, status |-> store.status,
                               expired |-> FALSE]]

\* The job that does not call Get: it alone keeps the map of an entry that is
\* replaced.
Detached(p, job) ==
    IF isCached(p) \/ ~job.obj.shared THEN job
    ELSE [job EXCEPT !.obj.status = cache[p].status, !.obj.shared = FALSE]

\* The status a job sees in its object.
StatusOf(p, job) == IF job.obj.shared THEN cache[p].status ELSE job.obj.status

\* The entry of a pod once a job has written its status map.
CacheAfterWrite(p, job, status) ==
    IF job.obj.shared THEN [cache EXCEPT ![p].status = status] ELSE cache

\* Mutant: an entry is kept for ever.
Mut_NeverExpires(p) == FALSE /\ UNCHANGED vars

\* Ten seconds after the fetch.  Nothing reads the entry any more but a job that
\* still shares its map.
isExpired(p) ==
    /\ isCached(p)
    /\ cache' = [cache EXCEPT ![p] =
                    IF maint[p].obj.shared \/ back[p].obj.shared
                    THEN [@ EXCEPT !.expired = TRUE] ELSE NoEntry]
    /\ UNCHANGED <<clock, bucket, completed, store, maint, back, lastFailure, envVars>>

\* Status().Update: not intercepted by the caching client.
StatusUpdate(rv, status) ==
    IF rv = store.rv /\ status # store.status
    THEN store' = [rv |-> store.rv + 1, status |-> status]
    ELSE UNCHANGED store

Conflict(rv) == rv # store.rv

\* Mutant: without backups, the zero date (here, a time out of range) and not nil.
Mut_ZeroDate(status, list) ==
    [status EXCEPT !.own.set = TRUE,
                   !.own.first = IF list = {} THEN MaxTime + 1 ELSE Min(list),
                   !.own.last = GetLastSuccessfulBackupTime(list)]

\* updateRecoveryWindow: the window computed from a catalog, the rest kept.
updateRecoveryWindow(status, list) ==
    [status EXCEPT !.own.set = TRUE,
                   !.own.first = GetFirstRecoverabilityPoint(list),
                   !.own.last = GetLastSuccessfulBackupTime(list)]

-----------------------------------------------------------------------------
(* CatalogMaintenanceRunnable *)

\* cycle reads the Cluster; only the pod it names as the current primary will go
\* on, also when another pod has been promoted since.
MaintenanceStart(p) ==
    /\ maint[p].pc = Idle
    /\ primary = p
    /\ maint' = [maint EXCEPT ![p] = [MaintIdle EXCEPT !.pc = "get"]]
    /\ UNCHANGED <<clock, bucket, completed, store, cache, back, lastFailure, envVars>>

\* Then it gets the ObjectStore.
MaintenanceGet(p) ==
    /\ maint[p].pc = "get"
    /\ maint' = [maint EXCEPT ![p] = [MaintIdle EXCEPT !.pc = "policy", !.obj = Get(p)]]
    /\ cache' = CacheAfterGet(p)
    /\ back' = [back EXCEPT ![p] = Detached(p, @)]
    /\ UNCHANGED <<clock, bucket, completed, store, lastFailure, envVars>>

\* A pod that is not the current primary has read the ObjectStore all the same.
MaintenanceSkipped(p) ==
    /\ maint[p].pc = Idle
    /\ primary # p
    /\ ~isCached(p)
    /\ cache' = CacheAfterGet(p)
    /\ back' = [back EXCEPT ![p] = Detached(p, @)]
    /\ UNCHANGED <<clock, bucket, completed, store, maint, lastFailure, envVars>>

MaintenanceGoto(p, pc) ==
    /\ maint' = [maint EXCEPT ![p].pc = pc]
    /\ UNCHANGED <<clock, completed, store, cache, back, lastFailure, envVars>>

\* DeleteBackupsByPolicy: the oldest backups go, the newest one never does.
DeleteBackupsByPolicy(p) ==
    /\ maint[p].pc = "policy"
    /\ IF RetentionPolicy /\ bucket # {}
       THEN \E t \in bucket : bucket' = {b \in bucket : b >= t}
       ELSE UNCHANGED bucket
    /\ MaintenanceGoto(p, "list")

\* GetBackupList.
MaintenanceList(p) ==
    /\ maint[p].pc = "list"
    /\ maint' = [maint EXCEPT ![p].pc = "delete", ![p].list = bucket]
    /\ UNCHANGED <<clock, bucket, completed, store, cache, back, lastFailure, envVars>>

\* Mutant: the test on the catalog is inverted.
Mut_BackupsInCatalog(p) == completed \cap maint[p].list

\* deleteBackupsNotInCatalog: the Backup objects are listed after the catalog,
\* and the ones missing from it are deleted.
BackupsNotInCatalog(p) == completed \ maint[p].list

deleteBackupsNotInCatalog(p) ==
    /\ maint[p].pc = "delete"
    /\ completed' = completed \ BackupsNotInCatalog(p)
    /\ maint' = [maint EXCEPT ![p].pc = "update"]
    /\ UNCHANGED <<clock, bucket, store, cache, back, lastFailure, envVars>>

\* Some of the deletions fail: the others are still made, and the cycle ends.
DeleteBackupsFails(p) ==
    /\ maint[p].pc = "delete"
    /\ \E deleted \in SUBSET BackupsNotInCatalog(p) : completed' = completed \ deleted
    /\ maint' = [maint EXCEPT ![p] = MaintIdle]
    /\ UNCHANGED <<clock, bucket, store, cache, back, lastFailure, envVars>>

\* Mutant: the object is read again before the update, and the catalog is not.
Mut_RefreshedObject(p) ==
    /\ maint[p].pc = "update"
    /\ StatusUpdate(store.rv, updateRecoveryWindow(store.status, maint[p].list))
    /\ maint' = [maint EXCEPT ![p] = MaintIdle]
    /\ UNCHANGED <<clock, bucket, completed, cache, back, lastFailure, envVars>>

\* updateRecoveryWindow: the status map is written in place before the update is
\* sent; a conflict ends the cycle.
MaintenanceUpdate(p) ==
    LET status == updateRecoveryWindow(StatusOf(p, maint[p]), maint[p].list) IN
    /\ maint[p].pc = "update"
    /\ cache' = CacheAfterWrite(p, maint[p], status)
    /\ StatusUpdate(maint[p].obj.rv, status)
    /\ maint' = [maint EXCEPT ![p] = MaintIdle]
    /\ UNCHANGED <<clock, bucket, completed, back, lastFailure, envVars>>

\* Any of the calls fails: the cycle ends, the next one comes after the interval.
MaintenanceFails(p) ==
    /\ maint[p].pc \in {"get", "policy", "list"}
    /\ maint' = [maint EXCEPT ![p] = MaintIdle]
    /\ UNCHANGED <<clock, bucket, completed, store, cache, back, lastFailure, envVars>>

\* An update that would change the status does not reach the API server; the map
\* is written all the same.
MaintenanceUpdateFails(p) ==
    LET status == updateRecoveryWindow(StatusOf(p, maint[p]), maint[p].list) IN
    /\ maint[p].pc = "update"
    /\ ~Conflict(maint[p].obj.rv) /\ status # store.status
    /\ cache' = CacheAfterWrite(p, maint[p], status)
    /\ maint' = [maint EXCEPT ![p] = MaintIdle]
    /\ UNCHANGED <<clock, bucket, completed, store, back, lastFailure, envVars>>

Maintenance(p) ==
    \/ MaintenanceStart(p) \/ MaintenanceGet(p) \/ MaintenanceSkipped(p)
    \/ DeleteBackupsByPolicy(p) \/ MaintenanceList(p)
    \/ deleteBackupsNotInCatalog(p) \/ MaintenanceUpdate(p)

MaintenanceFault(p) ==
    MaintenanceFails(p) \/ DeleteBackupsFails(p) \/ MaintenanceUpdateFails(p)

-----------------------------------------------------------------------------
(* Backup *)

\* The operator calls Backup on one pod at a time.
BackupStart(p) ==
    /\ \A q \in Pods : back[q].pc = Idle
    /\ clock < MaxTime
    /\ back' = [back EXCEPT ![p] = [BackIdle EXCEPT !.pc = "take", !.obj = Get(p)]]
    /\ cache' = CacheAfterGet(p)
    /\ maint' = [maint EXCEPT ![p] = Detached(p, @)]
    /\ UNCHANGED <<clock, bucket, completed, store, lastFailure, envVars>>

\* Take succeeds: the backup is in the bucket.
Take(p) ==
    /\ back[p].pc = "take"
    /\ clock' = clock + 1
    /\ bucket' = bucket \cup {clock'}
    /\ back' = [back EXCEPT ![p].pc = "list", ![p].id = clock']
    /\ UNCHANGED <<completed, store, cache, maint, lastFailure, envVars>>

\* Take fails: handleBackupError follows.
TakeFails(p) ==
    /\ back[p].pc = "take"
    /\ clock' = clock + 1
    /\ back' = [back EXCEPT ![p].pc = "failGet", ![p].id = clock', ![p].obj = NoObject]
    /\ UNCHANGED <<bucket, completed, store, cache, maint, lastFailure, envVars>>

\* GetExecutedBackupInfo and GetBackupList.
BackupList(p) ==
    /\ back[p].pc = "list"
    /\ back' = [back EXCEPT ![p].pc = "update", ![p].list = bucket]
    /\ UNCHANGED <<clock, bucket, completed, store, cache, maint, lastFailure, envVars>>

\* One of the two fails: the operator is told that the backup failed.
BackupListFails(p) ==
    /\ back[p].pc = "list"
    /\ back' = [back EXCEPT ![p] = BackIdle]
    /\ UNCHANGED <<clock, bucket, completed, store, cache, maint, lastFailure, envVars>>

\* updateRecoveryWindow with the object got before the backup was taken; an
\* update that conflicts or does not reach the API server is logged and skipped.
BackupUpdate(p) ==
    LET status == updateRecoveryWindow(StatusOf(p, back[p]), back[p].list) IN
    /\ back[p].pc = "update"
    /\ cache' = CacheAfterWrite(p, back[p], status)
    /\ StatusUpdate(back[p].obj.rv, status) \/ UNCHANGED store
    /\ back' = [back EXCEPT ![p] = [BackIdle EXCEPT !.pc = "answer", !.id = back[p].id]]
    /\ UNCHANGED <<clock, bucket, completed, maint, lastFailure, envVars>>

\* The operator takes the answer and completes the Backup object.
BackupAnswer(p) ==
    /\ back[p].pc = "answer"
    /\ completed' = completed \cup {back[p].id}
    /\ back' = [back EXCEPT ![p] = BackIdle]
    /\ UNCHANGED <<clock, bucket, store, cache, maint, lastFailure, envVars>>

\* setLastFailedBackupTime: the time of the failure, the rest kept.
setLastFailedBackupTime(status, time) ==
    [status EXCEPT !.own.set = TRUE, !.own.failed = time]

\* Every attempt gets the ObjectStore again, ...
FailureGet(p) ==
    /\ back[p].pc = "failGet"
    /\ back' = [back EXCEPT ![p].pc = "failUpdate", ![p].obj = Get(p)]
    /\ cache' = CacheAfterGet(p)
    /\ maint' = [maint EXCEPT ![p] = Detached(p, @)]
    /\ UNCHANGED <<clock, bucket, completed, store, lastFailure, envVars>>

\* ... writes the time and sends the update; a conflict is retried.
FailureUpdate(p) ==
    LET status == setLastFailedBackupTime(StatusOf(p, back[p]), back[p].id) IN
    /\ back[p].pc = "failUpdate"
    /\ cache' = CacheAfterWrite(p, back[p], status)
    /\ StatusUpdate(back[p].obj.rv, status)
    /\ IF Conflict(back[p].obj.rv) /\ back[p].tries + 1 < RetrySteps
       THEN /\ back' = [back EXCEPT ![p].pc = "failGet", ![p].obj = NoObject,
                                    ![p].tries = @ + 1]
            /\ UNCHANGED lastFailure
       ELSE /\ back' = [back EXCEPT ![p] = BackIdle]
            /\ lastFailure' = back[p].id
    /\ UNCHANGED <<clock, bucket, completed, maint, envVars>>

\* The API server cannot be reached: the failure is not recorded, as logged.
FailureLost(p) ==
    LET status == setLastFailedBackupTime(StatusOf(p, back[p]), back[p].id) IN
    /\ back[p].pc \in {"failGet", "failUpdate"}
    /\ cache' = IF back[p].pc = "failGet" THEN cache
                ELSE CacheAfterWrite(p, back[p], status)
    /\ back' = [back EXCEPT ![p] = BackIdle]
    /\ UNCHANGED <<clock, bucket, completed, store, maint, lastFailure, envVars>>

Backup(p) ==
    \/ Take(p) \/ BackupList(p) \/ BackupUpdate(p) \/ BackupAnswer(p)
    \/ FailureGet(p) \/ FailureUpdate(p)

BackupFault(p) == TakeFails(p) \/ BackupListFails(p) \/ FailureLost(p)

-----------------------------------------------------------------------------
(* Metrics, and what happens around the pods *)

\* Collect reads the ObjectStore through the cache.
Collect(p) ==
    /\ ~isCached(p)
    /\ cache' = CacheAfterGet(p)
    /\ maint' = [maint EXCEPT ![p] = Detached(p, @)]
    /\ back' = [back EXCEPT ![p] = Detached(p, @)]
    /\ UNCHANGED <<clock, bucket, completed, store, lastFailure, envVars>>

\* The sidecar of another cluster updates the window of its own server.
ForeignUpdate ==
    /\ store.status.other < MaxForeign
    /\ store' = [rv |-> store.rv + 1, status |-> [store.status EXCEPT !.other = @ + 1]]
    /\ UNCHANGED <<clock, bucket, completed, cache, maint, back, lastFailure, envVars>>

Failover ==
    /\ failovers < MaxFailovers /\ failovers' = failovers + 1
    /\ primary' \in Pods \ {primary}
    /\ UNCHANGED <<clock, bucket, completed, store, cache, maint, back, lastFailure, crashes>>

SidecarCrash(p) ==
    /\ crashes < MaxCrashes /\ crashes' = crashes + 1
    /\ cache' = [cache EXCEPT ![p] = NoEntry]
    /\ maint' = [maint EXCEPT ![p] = MaintIdle]
    /\ back' = [back EXCEPT ![p] = BackIdle]
    /\ UNCHANGED <<clock, bucket, completed, store, lastFailure, primary, failovers>>

Next ==
    \/ \E p \in Pods :
          \/ Maintenance(p) \/ MaintenanceFault(p)
          \/ BackupStart(p) \/ Backup(p) \/ BackupFault(p)
          \/ Collect(p) \/ isExpired(p) \/ SidecarCrash(p)
    \/ ForeignUpdate \/ Failover

Spec == Init /\ [][Next]_vars

\* The loops run, entries expire, and the API server and the object store are
\* reachable from some time on.
Fairness ==
    /\ \A p \in Pods : /\ WF_vars(Maintenance(p)) /\ WF_vars(Backup(p))
                       /\ WF_vars(isExpired(p))
    /\ <>[][\A p \in Pods : ~MaintenanceFault(p)]_vars

FairSpec == Spec /\ Fairness

-----------------------------------------------------------------------------
(* Properties *)

\* Every variable has its type.
TypeOK ==
    /\ clock \in Time /\ lastFailure \in Time
    /\ bucket \subseteq Time /\ completed \subseteq Time
    /\ store \in [rv : Nat, status : Status]
    /\ cache \in [Pods -> [rv : Nat, status : Status, expired : BOOLEAN]]
    /\ maint \in [Pods -> MaintState]
    /\ back \in [Pods -> BackState]
    /\ primary \in Pods
    /\ failovers \in Nat /\ crashes \in Nat

\* The recovery window never goes back in time, and nobody undoes what another
\* server wrote: an update computed from an older catalog, or made with an older
\* object, never overwrites a newer one, however many pods, backups and
\* maintenance cycles overlap.
WindowNeverRegresses ==
    [][/\ store'.status.own.last >= store.status.own.last
       /\ store'.status.own.first >= store.status.own.first
       /\ store'.status.own.failed >= store.status.own.failed
       /\ store'.status.other >= store.status.other]_vars

\* Once backups stop, the status describes the catalog: a conflict with a stale
\* cached object delays the maintenance, and never makes it fail for ever.
StatusCatchesUp ==
    <>[](/\ store.status.own.first = GetFirstRecoverabilityPoint(bucket)
         /\ store.status.own.last = GetLastSuccessfulBackupTime(bucket))

\* A completed Backup object whose backup is gone from the bucket goes too
\* ("all backups in the cluster should be in the bucket").
StaleObjectsGo ==
    \A b \in 1 .. MaxTime : (b \in completed \ bucket) ~> (b \notin completed)

\* Maintenance never deletes the Backup object of a backup that is in the bucket
\* ("all backups in the bucket should be also in the cluster").
BackupObjectsKept ==
    [][completed \cap bucket \subseteq completed']_vars

\* The status records the latest failed backup whose failure was handled.
FailureRecorded == store.status.own.failed >= lastFailure

=============================================================================
