# TLA+ models of the Barman Cloud plugin

The plugin archives and restores PostgreSQL WAL files, takes and retires base
backups, and keeps the RBAC objects its sidecars need. It runs in three places:
an **operator plugin** (one process), a **sidecar in every instance pod** and a
**sidecar in the restore job**. What is hard in it is what happens *between*
calls: two handlers of one sidecar share a spool directory without a lock,
sidecars of several pods and clusters write one ObjectStore status through a
cache, and two writers of the operator plugin patch one Role from lagging views.

## Inventory

| Component | State it keeps | Operations | Interacts with |
|---|---|---|---|
| WAL service (`common/wal.go`, `check.go`, `errors.go`) | spool directory, end-of-wal-stream flag, empty-archive check file | `Archive`, `Restore` | PostgreSQL (archiver, startup process), pg_rewind, object stores, the spool |
| WAL segment names (`common/wal_import.go`) | none | `IsWALFile`, `SegmentFromName`, `NextSegments` | WAL service |
| Backup service (`instance/backup.go`, `recovery_window.go`) | ObjectStore status | `Backup`, failure handling | operator, object store, API server |
| Catalog maintenance (`instance/retention.go`) | backups in the bucket, Backup objects, ObjectStore status | `cycle` every few minutes on every pod | object store, API server |
| Caching client (`instance/internal/client`) | entries with a 10 s TTL | `Get` | backup, maintenance, metrics, WAL service |
| Metrics (`instance/metrics.go`) | none | `Collect` | caching client |
| RBAC (`operator/rbac/ensure.go`, `operator/specs`) | Role, RoleBinding of a Cluster | `EnsureRole`, `EnsureRoleRules`, `EnsureRoleBinding` | API server, informers |
| Reconciler hooks (`operator/reconciler.go`) | none | `Pre` | operator, RBAC |
| ObjectStore controller (`internal/controller`) | work queue | `Reconcile` | informers, RBAC |
| Plugin configuration (`operator/config`) | none | `NewFromCluster`, `Validate` | everything |
| Lifecycle hooks (`operator/lifecycle*.go`) | none (patches Pods and Jobs) | `LifecycleHook` | operator |
| Restore job hook (`restore/restore.go`) | PGDATA, pg_wal link | `Restore` | object store, operator |
| Identity, health, managers, commands, API types | none | constant answers, wiring, declarations | |

What makes each part correct:

* WAL service: a file is acknowledged only when it is stored; a restore delivers
  a real segment; a flag meant to push a standby to streaming never starves it,
  and never reaches pg_rewind; two clusters never share an archive.
* Backups: the published recovery window only moves forward, converges to the
  catalog, and Backup objects and the bucket agree.
* Lifecycle hooks: what is injected depends on the object and the ObjectStores and on
  nothing else, the sidecar sees the directories PostgreSQL sees, and Pods follow
  their ObjectStores without being rolled out for ever.
* Restore job: what it answers is complete whatever died before it; it never
  starts a cluster that would archive into a used destination; base backup and WAL
  files come from one server.
* RBAC: the Role converges to what the Cluster and its ObjectStores ask for, and
  no patch takes away what another writer has put there.

`PROJECT.json` lists every hazard at its line.

## Modules

| Module | Models | Main state | Actions |
|---|---|---|---|
| `WalService` | `Archive` and `Restore` of one pod, its role changes | `ready`, `acked`, `archive`, `source`, `markers`/`staged` (the spool, by who wrote the file), `endOfWALStream`, `arch`, `rest` (the two invocations) | one per step that reads or writes shared state |
| `WalArchive` | abstract: what `Archive` and `Restore` promise together | `pending`, `acknowledged`, `stored`, `upstream`, `answer` | `Produce`, `Store`, `Acknowledge`, `Deliver`, `Take` |
| `WalServiceProofs` | theorems about `WalService`, its refinement of `WalArchive` included | | |
| `WalSegments` | names and `NextSegments` | the loop of `NextSegments` | one per turn of the loop |
| `WalSegmentsProofs` | theorems about `WalSegments` | | |
| `BackupCatalog` | `Backup`, the maintenance cycle, the recovery window, the cache | `bucket`, `completed` (Backup objects), `store` (ObjectStore with its version), `cache`, `maint`, `back` per pod | one per call to the object store or the API server |
| `BackupCatalogProofs` | theorems about `BackupCatalog` | | |
| `PluginConfig` | `NewFromCluster`, `Validate` | none: operators on a Cluster | |
| `RestoreJob` | the `Restore` hook of the recovery job, extends `PluginConfig` | `pc`, `backup` (the attempt), `pgdata`, `pgWal`, `dir`, `vol` (the disk), `backups`, `wals` (the archives) | one per step that reads an archive or changes the disk |
| `Recovery` | abstract: what the recovery job promises | `sources`, `taken`, `data`, `replayed`, `phase` | `HandOver`, `Replay`, `Complete`, `Abandon`, `TakeBackup` |
| `RestoreJobProofs` | theorems about `RestoreJob`, its refinement of `Recovery` included | | |
| `Lifecycle` | the lifecycle hook, extends `PluginConfig` | `request` (Cluster and object), `stores`, `hook` (the invocation), `object`, `recorded` | one per Get, the injection, the operator's calls |
| `LifecycleProofs` | theorems about `Lifecycle` | | |
| `Rbac` | the Pre hook and the ObjectStore controller | `role`, `binding`, `view` (the informers), `queue`, `pre`, `recon` | one per call that writes, or that decides |
| `RbacProofs` | theorems about `Rbac` | | |
| `OrderFacts` | lemmas on least elements, `Max` and `Min` that several proofs use | | |

`MC_*` modules and their configurations are the instances TLC checks. Operators
named `Mut_...` are faulty variants of the definition that follows them; they are
not used by any specification and serve to show that a property can fail.

### WalService

`arch` and `rest` are the program counters and locals of the two handlers. The
archiver of PostgreSQL and its startup process (or pg_rewind) call them; they hold
no lock, so every step interleaves. A spool file is just a name to the code; the
model keeps who wrote it in two disjoint sets, `markers` (the empty files
`ArchiveList` touches after an upload ahead of its request) and `staged` (the
segments `RestoreList` prefetches), because what is behind a name decides whether
the handlers are right. Uploads and downloads of a list end one by one, in any
order, each with its own outcome. Any answer can be lost, and the sidecar can
crash between two steps; the spool survives. A file name is a timeline and a
segment; segment 0 stands for the history file.

`InitialRoles` says what the pod may be: a primary, a standby, the designated
primary of a replica cluster, or the job that recovers a new cluster, for which
`CurrentPrimary` is empty. The sidecar does not know `wal_segment_size`: with
`SegmentsInFile` smaller than a prefetch, the names past the end of a log file are
names PostgreSQL never uses and nobody ever stores.

External, and modelled from how the code uses it: the barman-cloud library
(`ArchiveList`, `GatherReadyWALFiles`, the restorer), PostgreSQL, the instance
manager and the other pods. Assumptions made there:

* the instance manager archives every ready file before it runs pg_rewind;
* the library removes `.check-empty-wal-archive`, whose path `Archive` gives it, after
  an upload and in a step of its own (`ArchiveRemoveCheckFile`); an upload may also
  land in the object store and report an error, and then removes nothing;
* other primaries archive in order, up to `maxParallel` files at a time;
* the recovery job ends its recovery when a segment is reported missing
  (`NotFound`, `OutOfRange`) and repeats the request after any other error; the
  archive it is recovered from does not change meanwhile. `RecoversToTheEnd` rests on
  that: `errors.go:86-88` and `99-102` call `InvalidArgument` and `Internal` terminal, and
  a caller that ended the recovery on them would end it early.

`WalArchive` forgets spool, transfers, flag, crashes and retries. `pending` is
`ready`, `acknowledged` is `acked`, `stored` and `upstream` are the two object stores,
and `answer` is the file of a successful reply that PostgreSQL has not taken yet; a
success without a segment maps to a file nobody stored, so that it is no step of the
abstract archive. Uploads and the files other pods archive are `Store`; everything
else the handlers do is a stutter.

### BackupCatalog

A backup is its completion time. The API server accepts a status update only with
the current `resourceVersion`, and one that changes nothing keeps the version. A
cache hit returns a shallow copy: the job then works on the very map of the cache
entry (`shared`), and what it writes there is seen by everybody who hits the entry,
even when the update fails afterwards. `lastFailure` is a history variable: the
latest failure whose handling ran to its end. The retention policy removes some
oldest backups and never the newest one. A maintenance cycle reads the Cluster and the
ObjectStore in two steps: what it decides from the Cluster may be old when it gets the
ObjectStore. On a pod that is not the primary, where it goes no further than that Get, it
is one step.

### PluginConfig and RestoreJob

A Cluster is a record with its list of plugins, its external clusters and its
sources; `NewFromCluster` derives three archives from it (written, recovered from,
followed), each an ObjectStore and a server name. `RestoreJob` runs the hook
on such a Cluster: stores, destination check, choice of the backup, presence of its
first WAL file, `barman-cloud-restore`, then `restoreCustomWalDir`. A failure or
the death of the pod is possible at every step, and the next attempt starts on
the disk as it was left or cleaned up. Moving an entry of pg_wal to the WAL volume
is a copy and a removal. After the answer PostgreSQL asks for WAL files, which
`resolveRestoreObjectStore` serves from the recovery archive.

`Recovery` forgets the steps of an attempt, what a failed one leaves on the two
volumes, the checks, the move and the deletions of the retention policy. `sources` is the recovery
archive, or nothing when the destination is in use and checked (`Blocked`); `taken` are the
backups of that archive, the deleted ones included; `data` is the data directory once the
hook has answered. One that lacks an entry of pg_wal, or its link, maps to a backup nobody
took, so that answering with it is no step of the abstract recovery. The step that answers
is `HandOver`, a failure after it `Abandon`; before it nothing of the job is seen.

External: the job controller and the instance manager, `barman-cloud-restore`
(overwrites files one by one, follows or replaces a link left in the place of
pg_wal, succeeds only if the backup stays to the end), the choice of a backup before
a recovery target (the latest one that ended by then), and the source cluster,
whose retention policy deletes a backup and later its WAL files, never the last one.

### Lifecycle

`request` is a Cluster and the definition of a Pod or a Job by the operator: main
container with its variables and mounts (the scratch volume is mounted twice), init
containers, volumes. An invocation gets the ObjectStores one at a time, for the
variables, the certificates, the resources and the arguments; a Get of a missing
ObjectStore ends it with an error, and so may any other. An ObjectStore is known by
its version and by whether it has a certificate; which variables it sets is fixed by
`StoreEnv`, and where the value of a variable comes from is what the model keeps of
it. Variables and volumes are functions from names (their order does not matter to
anybody), mounts and init containers are sequences as in the code. Certificates are
read in any order, which includes the sorted one of the code.

External: the operator evaluates a Pod from its own definition again and again,
creates a missing one from the evaluated definition, through the hook once more, keeps
that definition with it, and deletes a Pod when today's differs. Users write and
delete ObjectStores. Every write is a new version: an edit that is undone exactly
between evaluation and creation is outside of what `PodConverges` claims.

What the operator defines is constrained by two named assumptions, which TLC checks on
the instance: the ObjectStores a Cluster names are among `StoreNames`, existing or not
(`ReferencesAssumption`), and PostgreSQL's container mounts the data directory and the
scratch volume, which is mounted at `/run` first and at `/controller` afterwards
(`DefinitionsAssumption`). The order matters: `ensureVolumeMount` keeps the last mount
of a volume, and the spool of the sidecar is below `/controller`.

### Rbac

What a Role says of an ObjectStore is a version of the secrets it names; 0 is
absent. Both writers read through `view`. A read followed by a patch with an
optimistic lock is one step: it succeeds exactly when the version read is still
the current one. The controller's List of Roles and its Gets of the ObjectStores are
one step; since the informer of the
model learns of each of them separately, every mix of old and new is still read.

### WalSegments

A word has `WordSize` values and a segment has `SegmentSize` bytes, where the code has
2^32 and 2^24; the model keeps the sign, the wrap-around and the relation of a file to
its segments. Nothing depends on the two being powers of two, only on an even
`WordSize` (half of the words are negative) that `SegmentSize` divides, so they are
numbers: the prover does not reason about exponents. The reference is the numbering of PostgreSQL:
segment *n* of a timeline has the name `n / SegmentsInFile`, `n % SegmentsInFile`.

## Runs

| Run | Shows | Bounds |
|---|---|---|
| `wal_service` | over role changes, crashes and lost answers: acknowledged files are stored; a foreign archive is refused; a restore delivers a segment; pg_rewind meets no stale flag and no unchecked "not found"; a recovery does not end early; `WalService` implements `WalArchive` | 3 segments, 3 parallel transfers, 3 timelines, 1 demotion, 1 crash, both kinds of operator; primary, standby or recovery job at first |
| `wal_live` | a standby catches up, a recovery job ends, a primary archives everything unless its check file stayed behind a first upload | 3 segments, 2 to a log file, prefetch of 3, 1 crash |
| `wal_replica` | a designated primary catches up from its source | 2 segments, prefetch of 2, 2 timelines, 1 crash |
| `wal_segments` | prefetched names are the names PostgreSQL asks for | words of 64 values, 4 segments to a file, up to 6 names, names around every limit |
| `catalog_window` | no field of the status goes back | 2 pods, 1 backup, 1 failover, 1 crash |
| `catalog_live` | the same; status and Backup objects converge to the catalog | 1 pod, 2 backups, 1 foreign update, 2 attempts |
| `rbac` | labels and subjects survive; Role and RoleBinding converge | 2 ObjectStores, possibly missing at first, 1 edit, 1 foreign subject, 2 attempts |
| `restore_job` | answers are complete, a used destination blocks the job, one source of WAL files, the job gets there; `RestoreJob` implements `Recovery` | 12 shapes of Cluster, 3 decisions of the operator, 2 entries of pg_wal, 2 backups of the source, any number of attempts |
| `lifecycle` | a Pod built in two passes is as built in one; the sidecar shares the paths of PostgreSQL; Pods converge and stay | 14 Clusters and objects, 2 ObjectStores that may be missing at first, 1 edit anywhere, any number of failing Gets, evaluations and rollouts |

Runs that refute what the repository says of itself:

* `wal_designated`: in a replica cluster a segment prefetched from the source and
  then received by streaming is still in the spool when it is to be archived;
  `Archive` says "already archived" and uploads nothing.
  The reverse happens too: when such a pod restarts and replays again, `Restore`
  serves an empty archive marker as a segment (`RestoredIsSegment` fails with
  `SourceStreaming = FALSE`, `LastTimeline = 2` and `MaxCrashes = 1`).
* `catalog_objects`: a backup completed between the two listings of a maintenance
  cycle loses its Backup object, against "B satisfies 1 and 2".
* `catalog_failure`: with all 16 attempts of the two nested retries (4 each) made
  before the cache entry expires, the time of a failed backup is not recorded.

`ReadyIsArchived` has one exception, which the model reaches in ten steps: the first
file is stored, the sidecar dies before the check file is removed (or the upload reports
an error although it landed), and from then on `Archive` finds the cluster's own files in
the destination and refuses it (wal.go:169-178) until somebody removes the check file. The
exception is a state predicate (`ChecksOwnArchive`) of an invocation that is about to
check; it never holds on the way of an upload that goes well. Nothing in the repository
promises otherwise, so it is an exception and not a finding.

The bounds let every interesting case occur: a list of uploads or downloads with a
success, a failure and a missing file; a marker or segment left behind by an earlier
role; two writers with objects of different ages; a retry that succeeds and one
that gives up. Every action fires in some passing run. Deadlock checking is off
where the system really rests: the bounded database has no more segments, the list
of names is complete, the recovery job is over, the Job is created, or the operator is told to requeue until an ObjectStore
exists.

### Fairness

* `WalService`: the handlers run to their end; PostgreSQL repeats
  `archive_command` and `restore_command` until they succeed (strong fairness on the
  request for the needed segment, as it alternates with streaming and with the
  history file); streaming connections that deliver nothing are dropped; faults of
  the API server, network and object store stop one day (`<>[][~Fault]_vars`).
  Streaming is not assumed to deliver anything.
* `BackupCatalog`: the maintenance loop is an endless loop with a timer, cache
  entries expire by the clock, and maintenance calls stop failing one day.
* `RestoreJob`: the job is run again until it succeeds, and failures that the state
  of the stores does not call for stop one day. `RestoreSucceeds` is claimed only
  where the destination may be used and a backup for the target remains.
* `Lifecycle`: an invocation runs to its end and the operator reconciles again and
  again; Gets of ObjectStores that exist stop failing one day. `PodConverges` is
  claimed for ObjectStores that exist from some time on.
* `Rbac`: the operator reconciles a Cluster again and again, the controller works
  on its queue, informers deliver. `RoleConverges` rests on the repeated calls of
  the Pre hook: a stale revert made by it is repaired by its next call, since no
  event of an unchanged ObjectStore passes the controller's predicate.

## Proofs

`WalServiceProofs` holds for every value of the constants: any number of segments,
timelines, parallel transfers, demotions and crashes. It assumes the types of the
constants (`ConstantsAssumption`) and nothing else, unless stated.

* `TypeCorrect`: `TypeOK` is inductive, one lemma per group of actions.
* `ArchiveSafety` (outside a replica cluster): `ArchivedIsStored` is not inductive,
  since `Archive` acknowledges a file because of a file in the spool. The
  strengthening `StoreInv` adds that everything in the spool, prefetched or marked, and
  every stored upload is in the object store of the cluster (outside the recovery
  job, which never archives and whose pod is gone when the cluster starts), and that a list
  without a failure has uploaded or still uploads the requested file. The step that
  fails in a replica cluster is the prefetch from another store.
* `RestoreSafety` (outside a replica cluster): `SpoolInv` says that a marker
  belongs to a file that is still ready (or uploaded by the running invocation) and
  that a pod which restores has no ready files, so that no marker is left when
  `Restore` looks into the spool.
* `Refinement` (outside a replica cluster): `Spec => ImplementsWalArchive`, one lemma
  per group of actions, from `TypeOK`, `StoreInv` and `SpoolInv`: the first two make
  an acknowledgement a step of the abstract archive (the file is pending and stored),
  the last one a delivery (what is staged was stored, and no marker is served).
* `RewindFlagSafety` (every cluster): `FlagInv` says that from the moment the flag
  is cleared none is there while a Restore on behalf of pg_rewind goes on.
* `RewindSafety` and `RecoverySafety` (every cluster): `EndInv` says that a recovery
  job never streams and asks for the segment it needs, and that neither it nor pg_rewind
  gets "not found" or "end of WAL" from an invocation that has not looked for the
  file, since neither uses the flag and only a missing file is classified as one.

`RestoreJobProofs` holds for any Clusters, archives, backups, entries of pg_wal and
number of attempts; it assumes that the value for "no file" is not a file.

* `RestoreIsComplete`: `RestoreComplete` speaks of the end; `DiskInv` says what the
  disk holds at each step after the download has begun, and in particular
  (`MoveInv`) that during the move every entry is whole on one of the two volumes,
  on the first one while it is copied. An attempt that dies leaves nothing to
  assume: the next one overwrites before it claims.
* `OneDatabase`: `RecoversOneDatabase` alone is not inductive, since the data
  directory of an attempt that has fetched WAL files could be replaced; `FetchInv` adds
  that nothing is fetched before the hook has answered. `JobReadsRecovery` is the fact
  about `resolveRestoreObjectStore` behind it: without a current primary it gives the
  recovery archive, also to a Cluster with a replica source.
* `TypeCorrect`: the backups and WAL files a step looks at belong to an archive only
  because the first step found its ObjectStore (`FoundInv`).
* `DestinationSafety`: `UsedDestinationBlocksRestore` speaks of single steps; `BlockInv`
  says that no attempt gets beyond the check, because an archive in use never looks
  empty (`CatalogInv`: the retention policy leaves a backup and its WAL files).
* `Refinement`: `Spec => ImplementsRecovery`, one lemma for each abstract step and one
  (`HiddenStep`) for all the steps that are not seen. It combines `DiskInv` (what is handed
  over is whole), `FetchInv` (nothing was replayed before), `BlockInv` (a blocked job hands
  over nothing) and `ChosenInv`: the chosen backup is one the source took, within the
  recovery target. `ChosenInv` is kept because the latest backup only moves forward
  (`TakenNext`), though the chosen one may be deleted.

The last three also assume `ArchivesAssumption`: the server a Cluster recovers from is
one of the servers, and a destination in use is an archive.

`LifecycleProofs` holds for any Clusters, definitions, ObjectStores and edits; it
assumes that a definition has its three fields, with the init containers a sequence.

* `InjectionSafety`: `BuiltOnce` rests on `InjectionAbsorbs`: `reconcilePodSpec` over
  its own output, with any other configuration, equals `reconcilePodSpec` over the
  first definition. It is shown field by field (`ReconciledFields`): the socket volume
  and its mount are added once, the certificates are set or removed each time, and a
  sidecar replaces a sidecar. What `ensureVolumeMount` computes does not matter. The
  invariant `BuildInv` adds what an invocation works on while it reads.
* `TypeCorrect` (with `ReferencesAssumption`): what is collected comes from versions
  that existed. `HookInv` adds what keeps the steps defined: an invocation that goes on
  has a valid configuration, hence an ObjectStore to take the resources from, and one
  left to read while it collects variables.
* `PathSafety` (with `DefinitionsAssumption`): `SharedPaths` needs what the loop of
  `ensureVolumeMount` computes. `MountRun` shows that the recursive function has a run,
  and `LastMounts` what is there at its end: the last mount of each volume among those
  put, and the earlier ones whose volume is not among them. There is no induction
  in either: the least turn that goes wrong is contradicted by the turn before it
  (`LeastNatural`). A shared path is the same in both containers as the last mount of
  its volume is there.

`RbacProofs` holds for any ObjectStores, versions, edits and subjects.

* `TypeCorrect`: `TypeOK` is inductive; it bounds the attempts of a retry.
* `LabelSafety`: every patch of a Role takes its labels from the Role (`PatchRoleLabel`).
* `SubjectSafety`: a patch under an optimistic lock is made from a view of the same
  version, but a RoleBinding deleted by hand starts its versions again. `BindingInv`
  says that a view the hook may patch from is one of the present RoleBinding: not newer,
  and at the same version with the same subjects.

`BackupCatalogProofs` holds for any number of pods, backups, failovers, foreign updates
and retries; it assumes `ConstantsAssumption`.

* `TypeCorrect`: `TypeOK` is inductive together with `TurnInv`: the operator makes one
  `Backup` call at a time, which keeps the times it reserves within the bound.
* `WindowSafety`: `WindowNeverRegresses` compares what is written with what is there, of
  which the writer knows nothing but a version. `WindowInv` has three parts per pod.
  `EntryInv`: a cached status of the current version is never behind the ObjectStore; it
  may be ahead of it, when a job wrote to the map it shares with the entry and its update
  was refused. `ObjectInv`: the same of an object that is not shared, and a shared one
  has the version of the entry. `MaintInv` and `BackInv`: a job that is about to write
  with an object of the current version has a catalog no older than what that version
  says (`Fresh`), since it lists the catalog after it has read the object. Nothing
  written is ahead of the catalog in the bucket or of the clock (`AtMost`), and the ends of
  that catalog only move forward (`TakeGrows`, `DeleteGrows`: the retention policy takes
  the oldest backups and never the newest).

`WalSegmentsProofs` holds for every even size of words, every segment size from 4 that
divides it, and lists of at most as many names as a word has values (in the code the
length is the number of parallel transfers).

* `TypeCorrect`: `TypeOK` is inductive; an increment wraps around within the word.
* `PrefetchSafety`: `PrefetchInv` says that the loop holds the number that comes next as
  long as it is going to append another; past the last one the word may have wrapped.
  `NextNumber` shows by uniqueness of quotient and remainder that a step of the
  code is a step of PostgreSQL's numbering.
* `FirstSafety`: that no name comes twice also holds outside that numbering, for a segment
  past the end of its file or a file number that wraps around. `OrderInv` orders the names
  by the increments that lead to them (`Before`) and bounds how far the loop is, so that
  neither number comes round before the list ends.

`WalServiceProofs` also has `MixSafety` (every cluster): `MixInv` says that no invocation
has got past the check of a destination that is occupied and still to be checked. As an
upload does not remove the check file in the same step, that needs `OwnInv`: the pod
completes and uploads only segments of its own database, hence never the file that occupies
the destination, because a replayed segment was asked for while it was still needed.

Only model-checked:

* liveness (`CatchesUp`, `ReadyIsArchived`, `StatusCatchesUp`, `StaleObjectsGo`,
  `RoleConverges`, `RestoreSucceeds`, `PodConverges`), which needs fairness and ENABLED
  and is beyond the prover;
* the three properties the code violates, which are no theorems. `ArchivedIsStored` is
  proved outside a replica cluster.

Every safety property that a passing run checks is a theorem. In `catalog_window` no
other server writes (`MaxForeign = 0`), so what `WindowNeverRegresses` says of the
fields of other servers is checked by `catalog_live` and by the theorem.

## Not modelled

* Reading configuration and credentials is one step that may fail; the environment
  variables and barman-cloud options are data no property depends on.
* In the restore job: the temporary copy of the first WAL file (a crash leaves it
  behind, nobody reads it), the options of barman-cloud-restore and the wording of
  the recovery configuration.
* In the lifecycle hook: image, probe, security context, log level and the values of
  variables, which are copied; decoding and the JSON patch.
* In `WalService`, a `wal_segment_size` smaller than the default one: the sidecar then
  prefetches real segments of a later log file, which are served when their turn comes
  or raise the flag like any missing file.
* `Update`, `Delete` and `Patch` of the caching client: nobody calls them on a kind
  it caches. Secrets in the cache are only read.
* Owner references, the wording of labels, events and metrics.
* Identity, health, managers, commands, generated code, manifests, documentation.

## Plan

Every safety property has its proof. What could be added are abstract specifications of
the other components with their refinements: the recovery window as a register that only
moves forward (from `WindowInv`), and the lifecycle hook as one read of the ObjectStores.
