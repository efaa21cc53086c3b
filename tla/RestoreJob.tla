----------------------------- MODULE RestoreJob -----------------------------
(***************************************************************************)
(* The recovery job of a new cluster: the Restore hook of                  *)
(* internal/cnpgi/restore/restore.go and the WAL files PostgreSQL asks for *)
(* while the job replays.                                                  *)
(*                                                                         *)
(* The job may fail or be killed between any two steps and is run again on *)
(* what it left on disk, cleaned up or not.  Meanwhile the cluster it      *)
(* recovers from takes backups and applies its retention policy.           *)
(*                                                                         *)
(* An archive is an object store and a server name.  A backup is its       *)
(* completion time, and stands also for the first WAL file it needs.       *)
(***************************************************************************)
EXTENDS PluginConfig

CONSTANTS
    Clusters,      \* the Cluster objects considered
    Stores,        \* the ObjectStores that exist
    Servers,       \* server names
    Used,          \* archives some cluster has written before the job starts
    Files,         \* the entries of pg_wal in a base backup
    MaxBackups     \* bound: backups the source takes

Archives == [store : Stores, server : Servers]

NoBackup == 0

Backups == 1 .. MaxBackups

VARIABLES
    cluster,    \* the Cluster being created
    decision,   \* CheckEmptyWalArchive of the request: "nil", "true" or "false"
    backups,    \* the catalog of each archive
    wals,       \* the WAL files of each archive
    pc,         \* where the job is
    backup,     \* the backup it has chosen
    pgdata,     \* what the data directory holds
    pgWal,      \* pg_wal in the data directory: "none", "dir" or "link"
    dir,        \* the entries of the pg_wal directory
    vol,        \* the entries of the directory in the WAL volume
    moving,     \* the entry being moved
    fetched     \* archives WAL files were restored from by this attempt

input == <<cluster, decision>>
source == <<backups, wals>>
disk == <<pgdata, pgWal, dir, vol>>
vars == <<input, source, disk, pc, backup, moving, fetched>>

Content == {"none", "partial", "whole"}

NoData == [from |-> [store |-> "", server |-> ""], backup |-> NoBackup, whole |-> FALSE]

NoFile == "nofile"

ASSUME FilesAssumption == NoFile \notin Files

Every(content) == [f \in Files |-> content]

Steps ==
    {"get", "check", "load", "verify", "restore", "download", "link", "move", "symlink",
     "replied"}

configuration == NewFromCluster(cluster)

\* What PostgreSQL finds behind pg_wal.
walEntries == IF pgWal = "link" THEN vol ELSE dir

\* The job pod gets the sidecar when the cluster is recovered by this plugin.
HasSidecar(c) ==
    /\ Validate(NewFromCluster(c))
    /\ getRecoverySourcePlugin(c).name = PluginName

\* Servers has every name the Clusters give to a server, and the archives in use are
\* archives.
ASSUME ArchivesAssumption ==
    /\ \A c \in Clusters :
          /\ ServerName(c) \in Servers
          /\ HasSidecar(c) => NewFromCluster(c).recovery.server \in Servers
    /\ Used \subseteq Archives
    /\ MaxBackups \in Nat \ {0}

Init ==
    /\ cluster \in {c \in Clusters : HasSidecar(c)}
    /\ decision \in {"nil", "true", "false"}
    /\ backups = [a \in Archives |-> IF a \in Used THEN {1} ELSE {}]
    /\ wals = backups
    /\ pc = "start"
    /\ backup = NoBackup
    /\ pgdata = NoData /\ pgWal = "none"
    /\ dir = Every("none") /\ vol = Every("none")
    /\ moving = NoFile
    /\ fetched = {}

-----------------------------------------------------------------------------
(* Running the job *)

\* A pod of the job starts, on a disk that is as the last one left it or has
\* been cleaned up by the instance manager.
StartJob ==
    /\ pc \in {"start", "failed"}
    /\ pc' = "get"
    /\ backup' = NoBackup /\ moving' = NoFile /\ fetched' = {}
    /\ \/ UNCHANGED disk
       \/ pgdata' = NoData /\ pgWal' = "none" /\ dir' = Every("none") /\ vol' = Every("none")
    /\ UNCHANGED <<input, source>>

Fail ==
    /\ pc' = "failed"
    /\ UNCHANGED <<input, source, disk, backup, moving, fetched>>

\* A call fails, or the pod dies.
JobFails == pc \in Steps /\ Fail

-----------------------------------------------------------------------------
(* The Restore hook *)

\* The ObjectStore to recover from, and the one to archive to if there is one.
StoresFound ==
    /\ configuration.recovery.store \in Stores
    /\ configuration.archive.store \in Stores \cup {""}

GetStores ==
    /\ pc = "get"
    /\ StoresFound
    /\ pc' = IF configuration.archive.store # "" THEN "check" ELSE "load"
    /\ UNCHANGED <<input, source, disk, backup, moving, fetched>>

\* Mutant: the name of the Cluster, whatever the parameters of the plugin say.
Mut_ClusterName(c) == c.name

\* The server name is looked for again here, the same way the configuration
\* does it.
checkServerName(c) == ServerName(c)

\* The operator decides; "nil" comes from one that predates the field.
resolveRestoreEmptyWalArchiveCheck(operatorDecision, checkEnabled) ==
    IF operatorDecision # "nil" THEN operatorDecision = "true" ELSE checkEnabled

DestinationRefused ==
    /\ resolveRestoreEmptyWalArchiveCheck(decision, cluster.checkEnabled)
    /\ wals[[store |-> configuration.archive.store, server |-> checkServerName(cluster)]] # {}

\* The environment is never empty here: it starts from that of the process.
checkBackupDestination ==
    /\ pc = "check"
    /\ ~DestinationRefused
    /\ pc' = "load"
    /\ UNCHANGED <<input, source, disk, backup, moving, fetched>>

\* Mutant: the recovery target is not looked at.
Mut_NoTarget == backups[configuration.recovery]

\* The latest backup, or the latest one before the recovery target.
TargetBackups ==
    {b \in backups[configuration.recovery] : cluster.targetTime > 0 => b <= cluster.targetTime}

\* Mutant: no backup is found and nobody looks.
Mut_NilBackup ==
    /\ pc = "load"
    /\ backup' = Max(TargetBackups \cup {NoBackup})
    /\ pc' = "verify"
    /\ UNCHANGED <<input, source, disk, moving, fetched>>

loadBackupObjectFromExternalCluster ==
    /\ pc = "load"
    /\ TargetBackups # {}
    /\ backup' = Max(TargetBackups)
    /\ pc' = "verify"
    /\ UNCHANGED <<input, source, disk, moving, fetched>>

\* The first WAL file of the backup is downloaded and thrown away.
ensureArchiveContainsLastCheckpointRedoWAL ==
    /\ pc = "verify"
    /\ backup \in wals[configuration.recovery]
    /\ pc' = "restore"
    /\ UNCHANGED <<input, source, disk, backup, moving, fetched>>

\* barman-cloud-restore creates or overwrites files of the data directory one
\* after the other.  A link found in the place of pg_wal is followed or replaced.
RestoreBegins ==
    /\ pc = "restore"
    /\ backup \in backups[configuration.recovery]
    /\ pgdata' = [from |-> configuration.recovery, backup |-> backup, whole |-> FALSE]
    /\ \/ pgWal = "link" /\ vol' = Every("partial") /\ UNCHANGED <<pgWal, dir>>
       \/ pgWal' = "dir" /\ dir' = Every("partial") /\ UNCHANGED vol
    /\ pc' = "download"
    /\ UNCHANGED <<input, source, backup, moving, fetched>>

\* It ends with success only if the backup was there to its end.
restoreDataDir ==
    /\ pc = "download"
    /\ backup \in backups[configuration.recovery]
    /\ pgdata' = [pgdata EXCEPT !.whole = TRUE]
    /\ IF pgWal = "link" THEN vol' = Every("whole") /\ UNCHANGED dir
                         ELSE dir' = Every("whole") /\ UNCHANGED vol
    /\ pc' = IF cluster.walStorage THEN "link" ELSE "replied"
    /\ UNCHANGED <<input, source, backup, moving, fetched, pgWal>>

\* What makes the hook return an error of its own.
Rejected ==
    \/ pc = "get" /\ ~StoresFound
    \/ pc = "check" /\ DestinationRefused
    \/ pc = "load" /\ TargetBackups = {}
    \/ pc = "verify" /\ backup \notin wals[configuration.recovery]
    \/ pc \in {"restore", "download"} /\ backup \notin backups[configuration.recovery]

JobRejected == Rejected /\ Fail

-----------------------------------------------------------------------------
(* restoreCustomWalDir *)

\* Mutant: a directory with files in the WAL volume passes for a finished move.
Mut_VolumeInUse ==
    /\ pc = "link"
    /\ pc' = IF pgWal = "link" \/ vol # Every("none") THEN "replied" ELSE "move"
    /\ UNCHANGED <<input, source, disk, backup, moving, fetched>>

\* With the link in place there is nothing to do; otherwise both directories are
\* made to exist.
ReadLink ==
    /\ pc = "link"
    /\ pc' = IF pgWal = "link" THEN "replied" ELSE "move"
    /\ UNCHANGED <<input, source, disk, backup, moving, fetched>>

\* The entries go to another volume: each one is copied ...
MoveCopies(f) ==
    /\ pc = "move" /\ moving = NoFile
    /\ dir[f] # "none"
    /\ vol' = [vol EXCEPT ![f] = "partial"]
    /\ moving' = f
    /\ UNCHANGED <<input, source, pgdata, pgWal, dir, pc, backup, fetched>>

\* ... and then removed.
MoveDeletes(f) ==
    /\ pc = "move" /\ moving = f
    /\ vol' = [vol EXCEPT ![f] = dir[f]]
    /\ dir' = [dir EXCEPT ![f] = "none"]
    /\ moving' = NoFile
    /\ UNCHANGED <<input, source, pgdata, pgWal, pc, backup, fetched>>

\* Mutant: the empty directory is left where it is.
Mut_DirectoryStays ==
    /\ pc = "move" /\ dir = Every("none")
    /\ pc' = "symlink"
    /\ UNCHANGED <<input, source, disk, backup, moving, fetched>>

RemoveDirectory ==
    /\ pc = "move" /\ dir = Every("none")
    /\ pgWal' = "none"
    /\ pc' = "symlink"
    /\ UNCHANGED <<input, source, pgdata, dir, vol, backup, moving, fetched>>

Symlink ==
    /\ pc = "symlink"
    /\ pgWal = "none"
    /\ pgWal' = "link"
    /\ pc' = "replied"
    /\ UNCHANGED <<input, source, pgdata, dir, vol, backup, moving, fetched>>

restoreCustomWalDir ==
    \/ ReadLink \/ RemoveDirectory \/ Symlink
    \/ \E f \in Files : MoveCopies(f) \/ MoveDeletes(f)

Restore ==
    \/ GetStores \/ checkBackupDestination \/ loadBackupObjectFromExternalCluster
    \/ ensureArchiveContainsLastCheckpointRedoWAL \/ RestoreBegins \/ restoreDataDir
    \/ restoreCustomWalDir \/ JobRejected

-----------------------------------------------------------------------------
(* Replaying the WAL files in the job *)

\* The job runs while the Cluster has no primary, under the name of its pod.
JobPod == "c-1-full-recovery"

\* Mutant: the replica source comes first, whoever asks.
Mut_ReplicaSourceFirst(conf, currentPrimary, instanceName) ==
    IF conf.replicaSource.store # "" THEN conf.replicaSource
    ELSE IF currentPrimary = "" THEN conf.recovery ELSE conf.archive

resolveRestoreObjectStore(conf, currentPrimary, instanceName) ==
    IF currentPrimary = instanceName /\ conf.replicaSource.store # "" THEN conf.replicaSource
    ELSE IF currentPrimary = "" THEN conf.recovery ELSE conf.archive

\* restore_command, as set by the response of the hook.
PgRestore ==
    /\ pc = "replied"
    /\ fetched' = fetched \cup {resolveRestoreObjectStore(configuration, "", JobPod)}
    /\ UNCHANGED <<input, source, disk, pc, backup, moving>>

PgRecovered ==
    /\ pc = "replied" /\ fetched # {}
    /\ pc' = "recovered"
    /\ UNCHANGED <<input, source, disk, backup, moving, fetched>>

-----------------------------------------------------------------------------
(* The cluster that is recovered from (external) *)

LastBackup == Max(backups[configuration.recovery] \cup {NoBackup})

SourceBackup ==
    /\ configuration.recovery \in Used /\ pc # "recovered"
    /\ LastBackup < MaxBackups
    /\ backups' = [backups EXCEPT ![configuration.recovery] = @ \cup {LastBackup + 1}]
    /\ wals' = [wals EXCEPT ![configuration.recovery] = @ \cup {LastBackup + 1}]
    /\ UNCHANGED <<input, disk, pc, backup, moving, fetched>>

\* The retention policy: a backup goes, never the last one, ...
SourceDeletesBackup ==
    /\ configuration.recovery \in Used /\ pc # "recovered"
    /\ \E b \in backups[configuration.recovery] \ {LastBackup} :
          backups' = [backups EXCEPT ![configuration.recovery] = @ \ {b}]
    /\ UNCHANGED <<input, wals, disk, pc, backup, moving, fetched>>

\* ... and then the WAL files only it needed.
SourceDeletesWal ==
    /\ configuration.recovery \in Used /\ pc # "recovered"
    /\ \E b \in wals[configuration.recovery] \ backups[configuration.recovery] :
          wals' = [wals EXCEPT ![configuration.recovery] = @ \ {b}]
    /\ UNCHANGED <<input, backups, disk, pc, backup, moving, fetched>>

Source == SourceBackup \/ SourceDeletesBackup \/ SourceDeletesWal

Next == StartJob \/ JobFails \/ Restore \/ PgRestore \/ PgRecovered \/ Source

Spec == Init /\ [][Next]_vars

\* A failure that the state of the stores and of the disk does not call for.
Fault == JobFails /\ ~Rejected

\* The job is run again until it succeeds, and faults stop one day.
Fairness ==
    /\ WF_vars(StartJob) /\ WF_vars(Restore) /\ WF_vars(PgRestore) /\ WF_vars(PgRecovered)
    /\ <>[][~Fault]_vars

FairSpec == Spec /\ Fairness

-----------------------------------------------------------------------------
(* Properties *)

\* Every variable has its type, and past loadBackupObjectFromExternalCluster the
\* job has a backup to restore.
TypeOK ==
    /\ cluster \in Clusters /\ decision \in {"nil", "true", "false"}
    /\ backups \in [Archives -> SUBSET Backups] /\ wals \in [Archives -> SUBSET Backups]
    /\ pc \in Steps \cup {"start", "failed", "recovered"}
    /\ backup \in Backups \cup {NoBackup}
    /\ pc \in Steps \ {"get", "check", "load"} => backup # NoBackup
    /\ pgdata.backup \in Backups \cup {NoBackup} /\ pgdata.whole \in BOOLEAN
    /\ pgWal \in {"none", "dir", "link"}
    /\ dir \in [Files -> Content] /\ vol \in [Files -> Content]
    /\ moving \in Files \cup {NoFile}
    /\ fetched \subseteq Archives

\* A job that answers has the whole of the chosen backup on disk, pg_wal on the
\* WAL volume when the Cluster has one, and every entry of pg_wal complete: no
\* death of an earlier attempt in the middle of a download, of a move or before
\* the link, and no backup deleted during its download, leaves a hole.
RestoreComplete ==
    pc \in {"replied", "recovered"} =>
        /\ pgdata = [from |-> configuration.recovery, backup |-> backup, whole |-> TRUE]
        /\ cluster.walStorage => pgWal = "link"
        /\ walEntries = Every("whole")

\* The check is on, and the cluster would archive where another one has.
Blocked ==
    /\ decision = "true" \/ (decision = "nil" /\ cluster.checkEnabled)
    /\ configuration.archive.store # ""
    /\ configuration.archive \in Used

\* With the check on, a job never touches the data directory of a cluster that
\* would archive next to the WAL files already in its destination, which is
\* the one Archive will write, whatever entries the list of plugins has.
UsedDestinationBlocksRestore ==
    [][Blocked => pgdata' = pgdata]_vars

\* The WAL files replayed in the job are those of the server the base backup
\* was taken from, also in a replica cluster, whose designated primary will
\* follow another archive once it runs.
RecoversOneDatabase == fetched \subseteq {pgdata.from}

Answered == pc \in {"replied", "recovered"}

\* The data directory behind an answer; one that is not complete counts as a backup
\* that nobody has taken.
HandedOver ==
    IF Answered
    THEN {[from |-> pgdata.from,
           backup |-> IF /\ pgdata.whole /\ walEntries = Every("whole")
                         /\ cluster.walStorage => pgWal = "link"
                      THEN pgdata.backup ELSE NoBackup]}
    ELSE {}

\* A blocked job has nothing to recover from.
Sources == IF Blocked THEN {} ELSE {configuration.recovery}

\* The backups of the source, the deleted ones included.
Taken == IF configuration.recovery \in Used THEN 1 .. LastBackup ELSE {}

Replayed == IF Answered THEN fetched ELSE {}

R == INSTANCE Recovery WITH
    sources <- Sources,
    target <- cluster.targetTime,
    taken <- Taken,
    data <- HandedOver,
    replayed <- Replayed,
    phase <- IF pc = "recovered" THEN "recovered" ELSE "recovering"

\* The job, with its checks, its attempts that die at any step and what they leave on
\* two volumes, is a recovery: one that is allowed gets a whole backup of its
\* source, taken and ended before the recovery target, and nothing touches the data
\* directory while PostgreSQL replays the WAL files of that source on it.
ImplementsRecovery == R!Spec

\* What the job needs: its stores, a destination it may use, a backup.
Restorable ==
    /\ StoresFound
    /\ configuration.archive.store # "" => ~DestinationRefused
    /\ TargetBackups # {}

\* Whatever was left on disk by the attempts that failed, and whatever the
\* source deleted under them, the job completes in the end.
RestoreSucceeds == <>[]Restorable => <>(pc = "recovered")

=============================================================================
