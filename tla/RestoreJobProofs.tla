-------------------------- MODULE RestoreJobProofs --------------------------
(***************************************************************************)
(* Theorems about RestoreJob, for every set of Clusters, every number of   *)
(* backups and of entries of pg_wal, and any number of attempts that died  *)
(* on the way: what the job answers is complete, belongs to one database   *)
(* and respects a destination in use, and the job implements Recovery.     *)
(***************************************************************************)
EXTENDS RestoreJob, OrderFacts, TLAPS

RestoredData == [from |-> configuration.recovery, backup |-> backup, whole |-> TRUE]

\* While the move goes on, every entry is whole on one side at least, and on the
\* side of the data directory while it is being copied.
MoveInv ==
    /\ pgWal = "dir"
    /\ \A f \in Files :
          /\ dir[f] = "whole" \/ (dir[f] = "none" /\ vol[f] = "whole")
          /\ moving = f => dir[f] = "whole"

\* What the disk holds at each step after barman-cloud-restore has begun.
DiskInv ==
    /\ dir \in [Files -> Content] /\ vol \in [Files -> Content]
    /\ pgWal \in {"none", "dir", "link"}
    /\ pc = "download" => /\ pgdata = [from |-> configuration.recovery,
                                        backup |-> backup, whole |-> FALSE]
                          /\ pgWal \in {"dir", "link"}
    /\ pc \in {"link", "move", "symlink", "replied", "recovered"} => pgdata = RestoredData
    /\ pc \in {"link", "move", "symlink"} => cluster.walStorage
    /\ pc = "link" => pgWal \in {"dir", "link"} /\ walEntries = Every("whole")
    /\ pc = "move" => MoveInv
    /\ pc = "symlink" => vol = Every("whole")
    /\ pc \in {"replied", "recovered"} =>
          (cluster.walStorage => pgWal = "link") /\ walEntries = Every("whole")

\* The invariant holds before the first attempt.
LEMMA DiskInit == Init => DiskInv
BY DEF Init, DiskInv, Every, Content

\* Starting the job, or failing, leaves no claim about the disk to keep.
LEMMA DiskStart == DiskInv /\ (StartJob \/ Fail) => DiskInv'
BY DEF DiskInv, StartJob, Fail, Every, Content, disk

\* The steps before the download, and those after the answer, leave the disk.
LEMMA DiskChecks ==
    ASSUME DiskInv,
           \/ GetStores \/ checkBackupDestination \/ loadBackupObjectFromExternalCluster
           \/ ensureArchiveContainsLastCheckpointRedoWAL
    PROVE  DiskInv'
BY DEF DiskInv, GetStores, checkBackupDestination, loadBackupObjectFromExternalCluster,
       ensureArchiveContainsLastCheckpointRedoWAL, disk, input

\* barman-cloud-restore: at its end every entry is whole, behind a link or not.
LEMMA DiskDownload == DiskInv /\ (RestoreBegins \/ restoreDataDir) => DiskInv'
<1> SUFFICES ASSUME DiskInv, RestoreBegins \/ restoreDataDir PROVE DiskInv'
    OBVIOUS
<1>1. configuration' = configuration /\ cluster' = cluster
    BY DEF RestoreBegins, restoreDataDir, input, configuration
<1>2. CASE RestoreBegins
    BY <1>1, <1>2 DEF DiskInv, RestoreBegins, RestoredData, Every, Content
<1>3. CASE restoreDataDir
  <2>1. /\ dir' \in [Files -> Content] /\ vol' \in [Files -> Content]
        /\ pgWal' \in {"dir", "link"}
        /\ walEntries' = Every("whole")
      BY <1>3 DEF DiskInv, restoreDataDir, Every, Content, walEntries
  <2>2. pgdata' = RestoredData'
    <3>1. pgdata = [from |-> configuration.recovery, backup |-> backup, whole |-> FALSE]
        BY <1>3 DEF DiskInv, restoreDataDir
    <3>2. pgdata' = [pgdata EXCEPT !.whole = TRUE] /\ backup' = backup
        BY <1>3 DEF restoreDataDir
    <3>3. pgdata' = RestoredData
        BY <3>1, <3>2 DEF RestoredData
    <3>4. RestoredData' = RestoredData
        BY <1>1, <3>2 DEF RestoredData
    <3> QED BY <3>3, <3>4
  <2>3. pc' \in {"link", "replied"} /\ (pc' = "link" <=> cluster.walStorage)
      BY <1>3 DEF restoreDataDir
  <2> QED BY <1>1, <2>1, <2>2, <2>3 DEF DiskInv, Every
<1> QED BY <1>2, <1>3

\* restoreCustomWalDir: the early return, the move and the link.
LEMMA DiskMove == DiskInv /\ restoreCustomWalDir => DiskInv'
<1> SUFFICES ASSUME DiskInv, restoreCustomWalDir PROVE DiskInv'
    OBVIOUS
<1>1. configuration' = configuration /\ cluster' = cluster /\ RestoredData' = RestoredData
    BY DEF restoreCustomWalDir, ReadLink, MoveCopies, MoveDeletes, RemoveDirectory, Symlink,
           input, configuration, RestoredData
<1>2. CASE ReadLink
  <2>1. pgWal = "link" \/ MoveInv
      BY <1>2 DEF ReadLink, DiskInv, MoveInv, walEntries, Every
  <2> QED BY <1>1, <1>2, <2>1 DEF DiskInv, ReadLink, disk, MoveInv, walEntries
<1>3. ASSUME NEW f \in Files, MoveCopies(f) PROVE DiskInv'
    BY <1>1, <1>3 DEF DiskInv, MoveCopies, MoveInv, Content
<1>4. ASSUME NEW f \in Files, MoveDeletes(f) PROVE DiskInv'
    BY <1>1, <1>4, FilesAssumption DEF DiskInv, MoveDeletes, MoveInv, Content
<1>5. CASE RemoveDirectory
  <2>1. vol = Every("whole")
      BY <1>5 DEF DiskInv, RemoveDirectory, MoveInv, Every
  <2> QED BY <1>1, <1>5, <2>1 DEF DiskInv, RemoveDirectory, Every
<1>6. CASE Symlink
    BY <1>1, <1>6 DEF DiskInv, Symlink, Every, walEntries
<1> QED BY <1>2, <1>3, <1>4, <1>5, <1>6 DEF restoreCustomWalDir

\* Replaying WAL files and the life of the source leave the disk alone.
LEMMA DiskOthers == DiskInv /\ (PgRestore \/ PgRecovered \/ Source) => DiskInv'
<1> SUFFICES ASSUME DiskInv, PgRestore \/ PgRecovered \/ Source PROVE DiskInv'
    OBVIOUS
<1>1. UNCHANGED <<cluster, pgdata, pgWal, dir, vol, backup, moving>>
    BY DEF PgRestore, PgRecovered, Source, SourceBackup, SourceDeletesBackup,
           SourceDeletesWal, input, disk
<1>2. pc' = pc \/ (pc = "replied" /\ pc' = "recovered")
    BY DEF PgRestore, PgRecovered, Source, SourceBackup, SourceDeletesBackup, SourceDeletesWal
<1>3. UNCHANGED <<RestoredData, configuration, walEntries>>
    BY <1>1 DEF RestoredData, configuration, walEntries
<1> QED BY <1>1, <1>2, <1>3 DEF DiskInv, MoveInv

\* Every step keeps the invariant.
LEMMA DiskNext == DiskInv /\ [Next]_vars => DiskInv'
<1> SUFFICES ASSUME DiskInv, [Next]_vars PROVE DiskInv'
    OBVIOUS
<1>1. CASE Next
    BY <1>1, DiskStart, DiskChecks, DiskDownload, DiskMove, DiskOthers
       DEF Next, Restore, JobFails, JobRejected
<1>2. CASE UNCHANGED vars
  <2>1. UNCHANGED <<cluster, pgdata, pgWal, dir, vol, backup, moving, pc>>
      BY <1>2 DEF vars, input, disk
  <2>2. UNCHANGED <<RestoredData, configuration, walEntries>>
      BY <2>1 DEF RestoredData, configuration, walEntries
  <2> QED BY <2>1, <2>2 DEF DiskInv, MoveInv
<1> QED BY <1>1, <1>2

\* A job that answers has restored the whole backup it chose, with every entry of
\* pg_wal complete and on the WAL volume if there is one, whatever attempts
\* died before (restoreDataDir and restoreCustomWalDir of restore.go).
THEOREM RestoreIsComplete == Spec => []RestoreComplete
<1>1. DiskInv => RestoreComplete
    BY DEF DiskInv, RestoreComplete, RestoredData
<1> QED BY <1>1, DiskInit, DiskNext, PTL DEF Spec

-----------------------------------------------------------------------------
(* One database *)

\* Nothing is fetched before the hook has answered.  RecoversOneDatabase alone is not
\* inductive: the data directory of an attempt that has fetched could be replaced.
FetchInv ==
    /\ fetched # {} => pc \in {"replied", "recovered", "failed"}
    /\ RecoversOneDatabase

\* In the job restore_command reads the archive of the recovery source, also when the
\* Cluster has a replica source.
LEMMA JobReadsRecovery ==
    resolveRestoreObjectStore(configuration, "", JobPod) = configuration.recovery
  BY DEF resolveRestoreObjectStore, JobPod

\* Every step keeps it: a new attempt starts with nothing fetched.
LEMMA FetchNext == DiskInv /\ FetchInv /\ [Next]_vars => FetchInv'
<1> SUFFICES ASSUME DiskInv, FetchInv, [Next]_vars PROVE FetchInv'
  OBVIOUS
<1> USE DEF FetchInv, RecoversOneDatabase, disk
<1>1. CASE StartJob
  BY <1>1 DEF StartJob
<1>2. CASE Fail
  BY <1>2 DEF Fail
<1>3. CASE PgRestore
  <2>1. pgdata = RestoredData
    BY <1>3 DEF PgRestore, DiskInv
  <2>2. configuration.recovery = pgdata.from
    BY <2>1 DEF RestoredData
  <2>3. fetched' = fetched \cup {pgdata.from} /\ pc' = "replied" /\ pgdata' = pgdata
    BY <1>3, <2>2, JobReadsRecovery DEF PgRestore
  <2> QED
    BY <2>3
<1>4. CASE PgRecovered
  BY <1>4 DEF PgRecovered
<1>5. CASE Restore /\ ~JobRejected
  <2>1. pc \notin {"replied", "recovered", "failed"} /\ fetched' = fetched
    BY <1>5 DEF Restore, GetStores, checkBackupDestination,
        loadBackupObjectFromExternalCluster, ensureArchiveContainsLastCheckpointRedoWAL,
        RestoreBegins, restoreDataDir, restoreCustomWalDir, ReadLink, RemoveDirectory,
        Symlink, MoveCopies, MoveDeletes
  <2> QED
    BY <2>1
<1>6. CASE Source \/ UNCHANGED vars
  BY <1>6 DEF Source, SourceBackup, SourceDeletesBackup, SourceDeletesWal, vars
<1> QED
  BY <1>1, <1>2, <1>3, <1>4, <1>5, <1>6 DEF Next, JobFails, JobRejected

\* The WAL files the job replays come from the server the base backup was taken from,
\* in every attempt and in every shape of the Cluster.
THEOREM OneDatabase == Spec => []RecoversOneDatabase
<1>1. Init => FetchInv
  BY DEF Init, FetchInv, RecoversOneDatabase
<1>2. FetchInv => RecoversOneDatabase
  BY DEF FetchInv
<1> QED
  BY <1>1, <1>2, DiskInit, DiskNext, FetchNext, PTL DEF Spec

-----------------------------------------------------------------------------
(* What no step changes *)

\* The Cluster and the decision are those of the request; only the source changes the
\* archives.
LEMMA JobConstants ==
    ASSUME [Next]_vars
    PROVE  /\ UNCHANGED <<cluster, decision, configuration>>
           /\ ~Source => UNCHANGED <<backups, wals>>
<1>1. UNCHANGED <<cluster, decision>> /\ (~Source => UNCHANGED <<backups, wals>>)
  BY DEF Next, Restore, JobRejected, Fail, GetStores, checkBackupDestination,
      loadBackupObjectFromExternalCluster, ensureArchiveContainsLastCheckpointRedoWAL,
      RestoreBegins, restoreDataDir, restoreCustomWalDir, ReadLink, RemoveDirectory,
      Symlink, MoveCopies, MoveDeletes, StartJob, JobFails, PgRestore, PgRecovered,
      Source, SourceBackup, SourceDeletesBackup, SourceDeletesWal, vars, input, source
<1> QED
  BY <1>1 DEF configuration

-----------------------------------------------------------------------------
(* Type correctness *)

\* The steps of an attempt that has found its ObjectStores.
AfterGet == (Steps \ {"get"}) \cup {"recovered"}

\* Past its first step the job recovers from an ObjectStore that exists: what the
\* backups and the WAL files it looks at belong to is an archive.
FoundInv ==
    /\ HasSidecar(cluster)
    /\ pc \in AfterGet => configuration.recovery \in Archives

JobInv == TypeOK /\ DiskInv /\ FoundInv

\* The archive of the recovery source is one when its ObjectStore exists.
LEMMA RecoveryArchive ==
    ASSUME cluster \in Clusters, HasSidecar(cluster), configuration.recovery.store \in Stores
    PROVE  configuration.recovery \in Archives
<1>1. configuration.recovery =
          [store |-> configuration.recovery.store, server |-> configuration.recovery.server]
  BY DEF configuration, NewFromCluster, SourceArchive
<1>2. configuration.recovery.server \in Servers
  BY ArchivesAssumption DEF configuration
<1> QED
  BY <1>1, <1>2 DEF Archives

\* The latest backup of a catalog is a backup, or there is none.
LEMMA LatestOf ==
    ASSUME NEW S \in SUBSET Backups
    PROVE  /\ Max(S \cup {NoBackup}) \in Backups \cup {NoBackup}
           /\ \A b \in S : b <= Max(S \cup {NoBackup})
           /\ S # {} => Max(S \cup {NoBackup}) \in S
<1> DEFINE m == Max(S \cup {0})
<1>1. S \cup {0} \in SUBSET (0 .. MaxBackups) /\ MaxBackups \in Nat
  BY ArchivesAssumption DEF Backups
<1>2. m \in S \cup {0} /\ \A y \in S \cup {0} : y <= m
  BY <1>1, MaxMin
<1> HIDE DEF m
<1>3. m \in Nat /\ \A y \in S : y \in Nat /\ y > 0 /\ y <= m
  BY <1>1, <1>2 DEF Backups
<1>4. ASSUME NEW y \in S PROVE m \in S
  <2>1. m # 0
    BY <1>3
  <2> QED
    BY <1>2, <2>1
<1> QED
  BY <1>2, <1>3, <1>4 DEF m, NoBackup, Backups

\* So it is for the source of the job.
LEMMA LastBackupType ==
    ASSUME TypeOK, configuration.recovery \in Archives
    PROVE  /\ LastBackup \in Backups \cup {NoBackup}
           /\ \A b \in backups[configuration.recovery] : b <= LastBackup
           /\ backups[configuration.recovery] # {} =>
                  LastBackup \in backups[configuration.recovery]
  BY LatestOf DEF TypeOK, LastBackup

\* The chosen backup is one of the catalog.
LEMMA ChosenBackupType ==
    ASSUME TypeOK, configuration.recovery \in Archives, TargetBackups # {}
    PROVE  Max(TargetBackups) \in TargetBackups /\ Max(TargetBackups) \in Backups
<1>1. TargetBackups \subseteq Backups
  BY DEF TargetBackups, TypeOK
<1>2. TargetBackups \in SUBSET (0 .. MaxBackups) /\ MaxBackups \in Nat
  BY <1>1, ArchivesAssumption DEF Backups
<1>3. Max(TargetBackups) \in TargetBackups
  BY <1>2, MaxMin
<1> QED
  BY <1>1, <1>3

\* The states before the first attempt have their types.
LEMMA InitJobInv == Init => JobInv
<1> SUFFICES ASSUME Init PROVE JobInv
  OBVIOUS
<1>1. cluster \in Clusters /\ HasSidecar(cluster) /\ decision \in {"nil", "true", "false"}
  BY DEF Init
<1>2. 1 \in Backups
  BY ArchivesAssumption DEF Backups
<1>3. backups \in [Archives -> SUBSET Backups] /\ wals \in [Archives -> SUBSET Backups]
  BY <1>2 DEF Init
<1>4. pgdata.backup = NoBackup /\ pgdata.whole \in BOOLEAN
  BY DEF Init, NoData
<1>5. /\ pc = "start" /\ backup = NoBackup /\ pgWal = "none"
      /\ dir = Every("none") /\ vol = Every("none") /\ moving = NoFile /\ fetched = {}
  BY DEF Init
<1>6. TypeOK
  BY <1>1, <1>3, <1>4, <1>5 DEF TypeOK, Every, Content, Steps
<1> QED
  BY <1>1, <1>5, <1>6, DiskInit DEF JobInv, FoundInv, AfterGet, Steps

\* The parts of the type that no step of the handler touches, and those it does.
LEMMA StepTypeOK ==
    ASSUME JobInv, Restore \/ StartJob \/ JobFails \/ PgRestore \/ PgRecovered
    PROVE  TypeOK'
<1> USE DEF JobInv, input, source
<1>1. UNCHANGED <<cluster, decision, backups, wals>>
  BY DEF Restore, JobRejected, Fail, GetStores, checkBackupDestination,
      loadBackupObjectFromExternalCluster, ensureArchiveContainsLastCheckpointRedoWAL,
      RestoreBegins, restoreDataDir, restoreCustomWalDir, ReadLink, RemoveDirectory,
      Symlink, MoveCopies, MoveDeletes, StartJob, JobFails, PgRestore, PgRecovered
<1>2. dir' \in [Files -> Content] /\ vol' \in [Files -> Content] /\ pgWal' \in {"none", "dir", "link"}
  <2>1. DiskInv'
    BY DiskNext DEF Next
  <2> QED
    BY <2>1 DEF DiskInv
<1>3. CASE StartJob
  <2>1. NoData.backup = NoBackup /\ NoData.whole \in BOOLEAN
    BY DEF NoData
  <2>2. pgdata' = pgdata \/ pgdata' = NoData
    BY <1>3 DEF StartJob, disk
  <2>3. pgdata'.backup \in Backups \cup {NoBackup} /\ pgdata'.whole \in BOOLEAN
    BY <2>1, <2>2 DEF TypeOK
  <2> QED
    BY <1>1, <1>2, <1>3, <2>3 DEF TypeOK, StartJob, Steps
<1>4. CASE Fail
  BY <1>1, <1>2, <1>4 DEF TypeOK, Fail, Steps, disk
<1>5. CASE GetStores \/ checkBackupDestination
  BY <1>1, <1>2, <1>5 DEF TypeOK, GetStores, checkBackupDestination, Steps, disk
<1>6. CASE loadBackupObjectFromExternalCluster
  <2>1. configuration.recovery \in Archives
    BY <1>6 DEF FoundInv, AfterGet, Steps, loadBackupObjectFromExternalCluster
  <2>2. backup' \in Backups /\ backup' # NoBackup
    BY <1>6, <2>1, ChosenBackupType, ArchivesAssumption
       DEF loadBackupObjectFromExternalCluster, Backups, NoBackup
  <2> QED
    BY <1>1, <1>2, <1>6, <2>2 DEF TypeOK, loadBackupObjectFromExternalCluster, Steps, disk
<1>7. CASE ensureArchiveContainsLastCheckpointRedoWAL
  BY <1>1, <1>2, <1>7 DEF TypeOK, ensureArchiveContainsLastCheckpointRedoWAL, Steps, disk
<1>8. CASE RestoreBegins
  <2>1. pgdata'.backup = backup /\ pgdata'.whole \in BOOLEAN
    BY <1>8 DEF RestoreBegins
  <2> QED
    BY <1>1, <1>2, <1>8, <2>1 DEF TypeOK, RestoreBegins, Steps
<1>9. CASE restoreDataDir
  <2>1. pgdata = [from |-> configuration.recovery, backup |-> backup, whole |-> FALSE]
    BY <1>9 DEF DiskInv, restoreDataDir
  <2>2. pgdata'.backup = backup /\ pgdata'.whole \in BOOLEAN
    BY <1>9, <2>1 DEF restoreDataDir
  <2> QED
    BY <1>1, <1>2, <1>9, <2>2 DEF TypeOK, restoreDataDir, Steps
<1>10. CASE ReadLink \/ RemoveDirectory \/ Symlink
  BY <1>1, <1>2, <1>10 DEF TypeOK, ReadLink, RemoveDirectory, Symlink, Steps, disk
<1>11. ASSUME NEW f \in Files, MoveCopies(f) \/ MoveDeletes(f) PROVE TypeOK'
  BY <1>1, <1>2, <1>11 DEF TypeOK, MoveCopies, MoveDeletes, Steps
<1>12. CASE PgRestore
  <2>1. configuration.recovery \in Archives
    BY <1>12 DEF PgRestore, FoundInv, AfterGet, Steps
  <2>2. fetched' \subseteq Archives
    BY <1>12, <2>1, JobReadsRecovery DEF PgRestore, TypeOK
  <2> QED
    BY <1>1, <1>2, <1>12, <2>2 DEF TypeOK, PgRestore, disk
<1>13. CASE PgRecovered
  BY <1>1, <1>2, <1>13 DEF TypeOK, PgRecovered, Steps, disk
<1> QED
  BY <1>3, <1>4, <1>5, <1>6, <1>7, <1>8, <1>9, <1>10, <1>11, <1>12, <1>13
     DEF Restore, restoreCustomWalDir, JobRejected, JobFails

\* The source adds a backup after the latest one, and deletes.
LEMMA SourceTypeOK == ASSUME JobInv, Source PROVE TypeOK'
<1>1. configuration.recovery \in Archives
  BY ArchivesAssumption DEF Source, SourceBackup, SourceDeletesBackup, SourceDeletesWal
<1>2. CASE SourceBackup
  <2>1. LastBackup + 1 \in Backups
    BY <1>1, <1>2, LastBackupType, ArchivesAssumption
       DEF JobInv, SourceBackup, Backups, NoBackup
  <2> QED
    BY <1>1, <1>2, <2>1 DEF JobInv, TypeOK, SourceBackup, input, disk
<1>3. CASE SourceDeletesBackup
  BY <1>1, <1>3 DEF JobInv, TypeOK, SourceDeletesBackup, input, disk
<1>4. CASE SourceDeletesWal
  BY <1>1, <1>4 DEF JobInv, TypeOK, SourceDeletesWal, input, disk
<1> QED
  BY <1>2, <1>3, <1>4 DEF Source

\* GetStores is the only way past the first step.
LEMMA FoundNext == ASSUME JobInv, [Next]_vars PROVE FoundInv'
<1> USE DEF JobInv, FoundInv, AfterGet, Steps, input
<1>1. UNCHANGED <<cluster, configuration>>
  BY JobConstants
<1>2. CASE GetStores
  <2>1. configuration.recovery \in Archives
    BY <1>2, RecoveryArchive DEF GetStores, StoresFound, TypeOK
  <2> QED
    BY <1>1, <2>1
<1>3. CASE ~GetStores
  <2>1. pc' \in AfterGet => pc \in AfterGet
    BY <1>3 DEF Next, Restore, JobRejected, Fail, checkBackupDestination,
        loadBackupObjectFromExternalCluster, ensureArchiveContainsLastCheckpointRedoWAL,
        RestoreBegins, restoreDataDir, restoreCustomWalDir, ReadLink, RemoveDirectory,
        Symlink, MoveCopies, MoveDeletes, StartJob, JobFails, PgRestore, PgRecovered,
        Source, SourceBackup, SourceDeletesBackup, SourceDeletesWal, vars
  <2> QED
    BY <1>1, <2>1
<1> QED
  BY <1>2, <1>3

\* Every step keeps the invariant of the job.
LEMMA JobNext == JobInv /\ [Next]_vars => JobInv'
<1> SUFFICES ASSUME JobInv, [Next]_vars PROVE JobInv'
  OBVIOUS
<1>1. TypeOK'
  <2>1. CASE UNCHANGED vars
    BY <2>1 DEF JobInv, TypeOK, vars, input, source, disk
  <2> QED
    BY <2>1, StepTypeOK, SourceTypeOK DEF Next
<1> QED
  BY <1>1, DiskNext, FoundNext DEF JobInv

\* The types are an invariant of the job: among others, past
\* loadBackupObjectFromExternalCluster it always has a backup to restore.
THEOREM TypeCorrect == Spec => []TypeOK
<1>1. JobInv => TypeOK
  BY DEF JobInv
<1> QED
  BY <1>1, InitJobInv, JobNext, PTL DEF Spec

-----------------------------------------------------------------------------
(* A destination in use *)

\* An archive in use never looks empty, whatever its retention policy deletes: a backup
\* is left, and with it the WAL files it needs.
CatalogInv == \A a \in Used : backups[a] # {} /\ backups[a] \subseteq wals[a]

\* No attempt gets past the check, so that the data directory is still empty when a new
\* attempt may clean it up.
BlockInv ==
    /\ CatalogInv
    /\ Blocked => pc \in {"start", "failed", "get", "check"} /\ pgdata = NoData

\* The source keeps its archive in use.
LEMMA CatalogSource == ASSUME TypeOK, CatalogInv, Source PROVE CatalogInv'
<1> DEFINE r == configuration.recovery
<1>1. r \in Archives /\ r \in Used /\ Used \subseteq Archives
  BY ArchivesAssumption DEF Source, SourceBackup, SourceDeletesBackup, SourceDeletesWal
<1>2. /\ DOMAIN backups = Archives /\ DOMAIN wals = Archives
      /\ backups[r] # {} /\ backups[r] \subseteq wals[r]
  BY <1>1 DEF TypeOK, CatalogInv
<1>3. LastBackup \in backups[r]
  BY <1>1, <1>2, LastBackupType
<1> SUFFICES backups'[r] # {} /\ backups'[r] \subseteq wals'[r]
  BY <1>1, <1>2 DEF CatalogInv, Source, SourceBackup, SourceDeletesBackup, SourceDeletesWal
<1>4. CASE SourceBackup
  BY <1>1, <1>2, <1>4 DEF SourceBackup
<1>5. CASE SourceDeletesBackup
  BY <1>1, <1>2, <1>3, <1>5 DEF SourceDeletesBackup
<1>6. CASE SourceDeletesWal
  BY <1>1, <1>2, <1>6 DEF SourceDeletesWal
<1> QED
  BY <1>4, <1>5, <1>6 DEF Source

\* A blocked attempt does not get past the check, which looks at the archive the
\* configuration names.
LEMMA BlockedStays ==
    ASSUME TypeOK, BlockInv, Blocked, [Next]_vars
    PROVE  pc' \in {"start", "failed", "get", "check"} /\ pgdata' = NoData
<1> USE DEF BlockInv, disk
<1>1. configuration.archive =
          [store |-> configuration.archive.store, server |-> checkServerName(cluster)]
  BY DEF configuration, NewFromCluster, checkServerName
<1>2. resolveRestoreEmptyWalArchiveCheck(decision, cluster.checkEnabled)
  BY DEF Blocked, resolveRestoreEmptyWalArchiveCheck
<1>3. wals[configuration.archive] # {}
  BY DEF CatalogInv, Blocked
<1>4. DestinationRefused
  BY <1>1, <1>2, <1>3 DEF DestinationRefused
<1>5. CASE StartJob
  BY <1>5 DEF StartJob
<1>6. CASE Fail
  BY <1>6 DEF Fail
<1>7. CASE GetStores
  BY <1>7 DEF GetStores, Blocked
<1>8. CASE Source \/ UNCHANGED vars
  BY <1>8 DEF Source, SourceBackup, SourceDeletesBackup, SourceDeletesWal, vars
<1>9. /\ ~checkBackupDestination /\ ~loadBackupObjectFromExternalCluster
      /\ ~ensureArchiveContainsLastCheckpointRedoWAL /\ ~RestoreBegins /\ ~restoreDataDir
      /\ ~restoreCustomWalDir /\ ~PgRestore /\ ~PgRecovered
  BY <1>4 DEF checkBackupDestination, loadBackupObjectFromExternalCluster,
      ensureArchiveContainsLastCheckpointRedoWAL, RestoreBegins, restoreDataDir,
      restoreCustomWalDir, ReadLink, RemoveDirectory, Symlink, MoveCopies, MoveDeletes,
      PgRestore, PgRecovered
<1> QED
  BY <1>5, <1>6, <1>7, <1>8, <1>9 DEF Next, Restore, JobFails, JobRejected

\* Every step keeps the invariant.
LEMMA BlockNext == TypeOK /\ BlockInv /\ [Next]_vars => BlockInv'
<1> SUFFICES ASSUME TypeOK, BlockInv, [Next]_vars PROVE BlockInv'
  OBVIOUS
<1>1. CatalogInv'
  <2>1. CASE Source
    BY <2>1, CatalogSource DEF BlockInv
  <2>2. CASE ~Source
    <3>1. UNCHANGED <<backups, wals>>
      BY <2>2, JobConstants
    <3> QED
      BY <3>1 DEF BlockInv, CatalogInv
  <2> QED
    BY <2>1, <2>2
<1>2. UNCHANGED <<cluster, decision, configuration>>
  BY JobConstants
<1>3. Blocked' => Blocked
  BY <1>2 DEF Blocked, configuration
<1> QED
  BY <1>1, <1>3, BlockedStays DEF BlockInv

\* The invariant holds before the first attempt.
LEMMA InitBlockInv == Init => BlockInv
<1> SUFFICES ASSUME Init PROVE BlockInv
  OBVIOUS
<1>1. CatalogInv
  BY ArchivesAssumption DEF Init, CatalogInv
<1>2. pc = "start" /\ pgdata = NoData
  BY DEF Init
<1> QED
  BY <1>1, <1>2 DEF BlockInv

\* With the check on, no attempt touches the data directory of a cluster that would
\* archive next to the WAL files of another one.
THEOREM DestinationSafety == Spec => UsedDestinationBlocksRestore
<1>1. Init => BlockInv
  BY InitBlockInv
<1>2. TypeOK /\ BlockInv /\ [Next]_vars =>
        [Blocked => pgdata' = pgdata]_vars
  <2>1. ASSUME TypeOK, BlockInv, [Next]_vars, Blocked PROVE pgdata' = pgdata
    BY <2>1, BlockedStays DEF BlockInv
  <2> QED
    BY <2>1
<1> QED
  BY <1>1, <1>2, BlockNext, TypeCorrect, PTL DEF Spec, UsedDestinationBlocksRestore

-----------------------------------------------------------------------------
(* The job is a recovery *)

\* The steps of an attempt that has chosen its backup.
AfterLoad == AfterGet \ {"check", "load"}

\* The chosen backup is one that the source took, within the recovery target; it may
\* have been deleted since.
ChosenInv ==
    /\ \A a \in Archives \ Used : backups[a] = {}
    /\ pc \in AfterLoad =>
          /\ backup \in Taken
          /\ cluster.targetTime > 0 => backup <= cluster.targetTime

\* Only SourceBackup changes the latest backup of the source: the retention policy
\* does not delete it.
LEMMA TakenNext ==
    ASSUME TypeOK, TypeOK', CatalogInv, [Next]_vars
    PROVE  Taken \subseteq Taken' /\ (~SourceBackup => Taken' = Taken)
<1> DEFINE r == configuration.recovery
<1>1. UNCHANGED configuration
  BY JobConstants
<1>2. CASE ~Source
  <2>1. UNCHANGED backups
    BY <1>2, JobConstants
  <2> QED
    BY <1>1, <2>1 DEF Taken, LastBackup, Source
<1>3. CASE Source
  <2>1. r \in Used /\ r \in Archives /\ r' = r
    BY <1>1, <1>3, ArchivesAssumption
       DEF Source, SourceBackup, SourceDeletesBackup, SourceDeletesWal
  <2>2. /\ LastBackup \in Nat /\ LastBackup \in backups[r]
        /\ \A b \in backups[r] : b <= LastBackup
    BY <2>1, LastBackupType, ArchivesAssumption DEF CatalogInv, Backups, NoBackup
  <2>3. backups' \in [Archives -> SUBSET Backups] /\ backups \in [Archives -> SUBSET Backups]
    BY DEF TypeOK
  <2>4. /\ LastBackup' \in Nat
        /\ \A b \in backups'[r] : b <= LastBackup'
        /\ backups'[r] # {} => LastBackup' \in backups'[r]
    <3>1. backups'[r] \subseteq Backups /\ LastBackup' = Max(backups'[r] \cup {NoBackup})
      BY <2>1, <2>3 DEF LastBackup
    <3> DEFINE S == backups'[r]
    <3>2. /\ Max(S \cup {NoBackup}) \in Backups \cup {NoBackup}
          /\ \A b \in S : b <= Max(S \cup {NoBackup})
          /\ S # {} => Max(S \cup {NoBackup}) \in S
      <4> HIDE DEF r
      <4> QED
        BY <3>1, LatestOf
    <3> QED
      BY <3>1, <3>2, ArchivesAssumption DEF Backups, NoBackup
  <2>5. LastBackup \in backups'[r]
    BY <1>3, <2>1, <2>2, <2>3 DEF Source, SourceBackup, SourceDeletesBackup, SourceDeletesWal
  <2>6. ~SourceBackup => backups'[r] \subseteq backups[r]
    BY <1>3, <2>1, <2>3 DEF Source, SourceDeletesBackup, SourceDeletesWal
  <2>7. LastBackup <= LastBackup' /\ (~SourceBackup => LastBackup' = LastBackup)
    BY <2>2, <2>4, <2>5, <2>6
  <2>8. Taken = 1 .. LastBackup /\ Taken' = 1 .. LastBackup'
    BY <2>1 DEF Taken
  <2> QED
    BY <2>2, <2>4, <2>7, <2>8
<1> QED
  BY <1>2, <1>3

\* loadBackupObjectFromExternalCluster chooses among the backups of the source.
LEMMA ChosenNext ==
    ASSUME JobInv, JobInv', BlockInv, ChosenInv, [Next]_vars
    PROVE  ChosenInv'
<1> DEFINE r == configuration.recovery
<1>1. UNCHANGED <<cluster, configuration>> /\ (~Source => UNCHANGED backups)
  BY JobConstants
<1>2. \A a \in Archives \ Used : backups'[a] = {}
  BY <1>1 DEF ChosenInv, JobInv, TypeOK, Source, SourceBackup, SourceDeletesBackup,
      SourceDeletesWal
<1>3. Taken \subseteq Taken'
  BY TakenNext DEF JobInv, BlockInv
<1>4. CASE loadBackupObjectFromExternalCluster
  <2>1. r \in Archives
    BY <1>4 DEF loadBackupObjectFromExternalCluster, JobInv, FoundInv, AfterGet, Steps
  <2>2. backup' \in TargetBackups /\ backup' \in Backups
    BY <1>4, <2>1, ChosenBackupType DEF loadBackupObjectFromExternalCluster, JobInv
  <2>3. backup' \in backups[r] /\ (cluster.targetTime > 0 => backup' <= cluster.targetTime)
    BY <2>2 DEF TargetBackups
  <2>4. r \in Used
    BY <2>1, <2>3 DEF ChosenInv
  <2>5. backup' <= LastBackup /\ LastBackup \in Nat
    BY <2>1, <2>3, LastBackupType, ArchivesAssumption DEF JobInv, Backups, NoBackup
  <2>6. backup' \in Taken
    BY <2>2, <2>4, <2>5, ArchivesAssumption DEF Taken, Backups
  <2> QED
    BY <1>1, <1>2, <1>3, <2>3, <2>6 DEF ChosenInv
<1>5. CASE ~loadBackupObjectFromExternalCluster
  <2>1. pc' \in AfterLoad => pc \in AfterLoad /\ backup' = backup
    BY <1>5 DEF AfterLoad, AfterGet, Steps, Next, Restore, JobRejected, Fail, GetStores,
        checkBackupDestination, ensureArchiveContainsLastCheckpointRedoWAL, RestoreBegins,
        restoreDataDir, restoreCustomWalDir, ReadLink, RemoveDirectory, Symlink,
        MoveCopies, MoveDeletes, StartJob, JobFails, PgRestore, PgRecovered, Source,
        SourceBackup, SourceDeletesBackup, SourceDeletesWal, vars
  <2> QED
    BY <1>1, <1>2, <1>3, <2>1 DEF ChosenInv
<1> QED
  BY <1>4, <1>5

RecoveryInv == JobInv /\ FetchInv /\ BlockInv /\ ChosenInv

\* What a recovery shows of a job changes only when the job answers, and while it is
\* at that.
LEMMA HiddenStep ==
    ASSUME [Next]_vars, ~Answered, ~Answered', Taken' = Taken
    PROVE  UNCHANGED R!vars
<1>1. UNCHANGED <<cluster, decision, configuration>>
  BY JobConstants
<1> QED
  BY <1>1 DEF R!vars, Sources, Blocked, HandedOver, Replayed, Answered

\* The steps that answer: the data directory they hand over is whole, and holds the
\* backup that was chosen.
LEMMA HandOverRefines ==
    ASSUME RecoveryInv, RecoveryInv',
           restoreDataDir \/ ReadLink \/ Symlink, pc' = "replied"
    PROVE  R!HandOver
<1>1. Next /\ ~Source /\ ~Answered
  BY DEF Next, Restore, restoreCustomWalDir, restoreDataDir, ReadLink, Symlink, Source,
      SourceBackup, SourceDeletesBackup, SourceDeletesWal, Answered, disk, source
<1>2. UNCHANGED <<cluster, decision, configuration, backups>>
  BY <1>1, JobConstants
<1>3. UNCHANGED <<Sources, Taken>>
  BY <1>2 DEF Sources, Blocked, Taken, LastBackup
<1>4. Sources = {configuration.recovery}
  BY <1>2 DEF Sources, RecoveryInv, BlockInv, Blocked
<1>5. HandedOver = {} /\ Replayed = {} /\ Replayed' = {}
  BY <1>1 DEF HandedOver, Replayed, RecoveryInv, FetchInv, Answered, restoreDataDir,
      ReadLink, Symlink
<1>6. /\ backup' \in Taken
      /\ cluster.targetTime > 0 => backup' <= cluster.targetTime
  BY <1>2, <1>3 DEF RecoveryInv, ChosenInv, AfterLoad, AfterGet, Steps
<1>7. HandedOver' = {[from |-> configuration.recovery, backup |-> backup']}
  <2>1. pgdata' = [from |-> configuration.recovery, backup |-> backup', whole |-> TRUE]
    BY <1>2 DEF RecoveryInv, JobInv, DiskInv, RestoredData
  <2>2. /\ cluster'.walStorage => pgWal' = "link"
        /\ walEntries' = Every("whole")
    BY DEF RecoveryInv, JobInv, DiskInv, Every
  <2> QED
    BY <2>1, <2>2 DEF HandedOver, Answered, Every
<1> QED
  BY <1>1, <1>2, <1>3, <1>4, <1>5, <1>6, <1>7 DEF R!HandOver, Answered

\* PostgreSQL replays the WAL files of the server the data directory came from.
LEMMA ReplayRefines == ASSUME RecoveryInv, PgRestore PROVE R!Replay
<1>1. UNCHANGED <<cluster, decision, configuration, backups>>
  BY DEF PgRestore, input, source, configuration
<1>2. pc = "replied" /\ pc' = "replied" /\ UNCHANGED <<pgdata, pgWal, dir, vol>>
  BY DEF PgRestore, disk
<1>3. UNCHANGED <<Sources, Taken, HandedOver>>
  BY <1>1, <1>2 DEF Sources, Blocked, Taken, LastBackup, HandedOver, Answered, walEntries
<1>4. \E d \in HandedOver : d.from = configuration.recovery
  <2>1. pgdata = RestoredData
    BY <1>2 DEF RecoveryInv, JobInv, DiskInv
  <2>2. pgdata.from = configuration.recovery
    BY <2>1 DEF RestoredData
  <2>3. \E d \in HandedOver : d.from = pgdata.from
    BY <1>2 DEF HandedOver, Answered
  <2> QED
    BY <2>2, <2>3
<1>5. Replayed' = Replayed \cup {configuration.recovery}
  BY <1>2, JobReadsRecovery DEF PgRestore, Replayed, Answered
<1> QED
  BY <1>1, <1>2, <1>3, <1>4, <1>5 DEF R!Replay

\* The recovery ends after a WAL file was fetched, and an attempt that dies once it
\* has answered takes what it handed over with it.
LEMMA EndRefines ==
    ASSUME RecoveryInv, PgRecovered \/ (Fail /\ pc = "replied")
    PROVE  R!Complete \/ R!Abandon
<1>1. UNCHANGED <<cluster, decision, configuration, backups, pgdata, pgWal, dir, vol, fetched>>
  BY DEF PgRecovered, Fail, input, source, disk, configuration
<1>2. UNCHANGED <<Sources, Taken>>
  BY <1>1 DEF Sources, Blocked, Taken, LastBackup
<1>3. CASE PgRecovered
  <2>1. UNCHANGED <<HandedOver, Replayed>> /\ Replayed # {}
    BY <1>1, <1>3 DEF PgRecovered, HandedOver, Replayed, Answered, walEntries
  <2> QED
    BY <1>1, <1>2, <1>3, <2>1 DEF PgRecovered, R!Complete
<1>4. CASE Fail /\ pc = "replied"
  <2>1. HandedOver' = {} /\ Replayed' = {}
    BY <1>4 DEF Fail, HandedOver, Replayed, Answered
  <2> QED
    BY <1>1, <1>2, <1>4, <2>1 DEF Fail, R!Abandon
<1> QED
  BY <1>3, <1>4

\* The source takes backups; what it deletes is not seen.
LEMMA SourceRefines ==
    ASSUME RecoveryInv, RecoveryInv', Source
    PROVE  R!TakeBackup \/ UNCHANGED R!vars
<1>1. UNCHANGED <<cluster, decision, configuration, pgdata, pgWal, dir, vol, fetched, pc>>
  BY DEF Source, SourceBackup, SourceDeletesBackup, SourceDeletesWal, input, disk,
      configuration
<1>2. UNCHANGED <<Sources, HandedOver, Replayed>>
  BY <1>1 DEF Sources, Blocked, HandedOver, Replayed, Answered, walEntries
<1>3. Taken \subseteq Taken'
  BY TakenNext DEF Next, RecoveryInv, JobInv, BlockInv
<1> QED
  BY <1>1, <1>2, <1>3 DEF R!TakeBackup

\* Every step of the job is a step of the recovery, or is not seen there.
LEMMA StepRefines ==
    ASSUME RecoveryInv, RecoveryInv', [Next]_vars
    PROVE  [R!Next]_R!vars
<1> USE DEF R!Next
<1>1. CASE Source
  BY <1>1, SourceRefines
<1>2. CASE PgRestore
  BY <1>2, ReplayRefines
<1>3. CASE PgRecovered \/ (Fail /\ pc = "replied")
  BY <1>3, EndRefines
<1>4. CASE (restoreDataDir \/ ReadLink \/ Symlink) /\ pc' = "replied"
  BY <1>4, HandOverRefines
<1>5. CASE UNCHANGED vars
  <2>1. UNCHANGED <<Sources, Taken, HandedOver, Replayed, cluster, pc>>
    BY <1>5 DEF vars, input, source, disk, Sources, Blocked, Taken, LastBackup, HandedOver,
        Replayed, Answered, walEntries, configuration
  <2> QED
    BY <2>1 DEF R!vars
<1>6. CASE /\ Next /\ ~Source /\ ~PgRestore /\ ~PgRecovered /\ ~(Fail /\ pc = "replied")
           /\ ~((restoreDataDir \/ ReadLink \/ Symlink) /\ pc' = "replied")
  <2>1. ~Answered /\ ~Answered'
    BY <1>6 DEF Next, Restore, JobRejected, Rejected, Fail, GetStores,
        checkBackupDestination, loadBackupObjectFromExternalCluster,
        ensureArchiveContainsLastCheckpointRedoWAL, RestoreBegins, restoreDataDir,
        restoreCustomWalDir, ReadLink, RemoveDirectory, Symlink, MoveCopies, MoveDeletes,
        StartJob, JobFails, Steps, Answered
  <2>2. Taken' = Taken
    BY <1>6, TakenNext DEF Source, RecoveryInv, JobInv, BlockInv
  <2> QED
    BY <1>6, <2>1, <2>2, HiddenStep
<1> QED
  BY <1>1, <1>2, <1>3, <1>4, <1>5, <1>6

\* The Restore hook, with its checks, the attempts that die at any step and what they
\* leave on two volumes, implements a recovery that hands over a data directory in one
\* step: for every set of Clusters, every number of backups and of entries of pg_wal.
THEOREM Refinement == Spec => ImplementsRecovery
<1>1. Init => R!Init
  BY DEF Init, R!Init, HandedOver, Replayed, Answered
<1>2. Init => RecoveryInv
  <2> SUFFICES ASSUME Init PROVE RecoveryInv
    OBVIOUS
  <2>1. FetchInv
    BY DEF Init, FetchInv, RecoversOneDatabase
  <2>2. BlockInv
    BY InitBlockInv
  <2>3. ChosenInv
    BY DEF Init, ChosenInv, AfterLoad, AfterGet, Steps
  <2> QED
    BY <2>1, <2>2, <2>3, InitJobInv DEF RecoveryInv
<1>3. RecoveryInv /\ [Next]_vars => RecoveryInv'
  BY JobNext, FetchNext, BlockNext, ChosenNext DEF RecoveryInv, JobInv
<1>4. RecoveryInv /\ RecoveryInv' /\ [Next]_vars => [R!Next]_R!vars
  BY StepRefines
<1> QED
  BY <1>1, <1>2, <1>3, <1>4, PTL DEF Spec, ImplementsRecovery, R!Spec

=============================================================================
