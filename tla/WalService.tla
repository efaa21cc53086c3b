----------------------------- MODULE WalService -----------------------------
(***************************************************************************)
(* The WAL service of one instance pod: the Archive and Restore handlers   *)
(* of internal/cnpgi/common/wal.go, the spool directory and the            *)
(* end-of-wal-stream flag they share, and the object stores they reach.    *)
(*                                                                         *)
(* The two handlers are called by different PostgreSQL processes (the      *)
(* archiver and the startup process, or pg_rewind) and hold no lock: they  *)
(* interleave freely, one action per step that reads or writes shared      *)
(* state.  The sidecar container may crash between any two steps; the      *)
(* spool lives in a volume of the pod and survives.                        *)
(*                                                                         *)
(* A file name is a timeline and a segment number; segment 0 stands for    *)
(* the history file of the timeline, the one non-segment file PostgreSQL   *)
(* asks for during recovery.                                               *)
(***************************************************************************)
EXTENDS Naturals, FiniteSets

CONSTANTS
    InitialRoles,     \* what the pod may be for; "designated" in a replica cluster
    SourceStreaming,  \* the replica source has connection parameters
    WalMaxParallel,   \* spec.configuration.wal.maxParallel, 0 when it is unset
    Operators,        \* operator releases in use: "current" ones send a decision
    CheckEnabled,     \* the Cluster does not opt out of the empty-archive check
    SegmentsInFile,   \* segments to a log file, by the wal_segment_size in use
    LastSegment,      \* bound: segments the database produces
    LastTimeline,     \* bound: timelines the database goes through
    MaxDemotions,     \* bound: times the pod is demoted and rewound
    MaxCrashes        \* bound: sidecar crashes and PostgreSQL restarts

ASSUME ConstantsAssumption ==
    /\ InitialRoles \subseteq {"primary", "standby", "designated", "recovering"}
    /\ SourceStreaming \in BOOLEAN
    /\ CheckEnabled \in BOOLEAN
    /\ Operators \subseteq {"legacy", "current"}
    /\ SegmentsInFile \in Nat \ {0}
    /\ {WalMaxParallel, LastSegment, LastTimeline, MaxDemotions, MaxCrashes}
           \subseteq Nat

VARIABLES
    role,        \* what PostgreSQL does in this pod
    tli,         \* the timeline PostgreSQL is on
    next,        \* the segment PostgreSQL fills or needs next
    streaming,   \* a standby that follows its upstream instead of the archive
    ready,       \* files with a .ready status, waiting for archive_command
    acked,       \* files whose archive_command returned success
    archive,     \* files in the object store of the cluster
    source,      \* files in the object store of the replica source
    checkFile,   \* .check-empty-wal-archive is present in PGDATA
    markers,     \* spool: empty files touched by the archiver
    staged,      \* spool: segments prefetched by the restorer
    endOfWALStream, \* spool: the end-of-wal-stream flag file
    arch,        \* the Archive invocation in progress
    rest,        \* the Restore invocation in progress
    demotions, crashes

pgVars == <<role, tli, next, streaming, demotions>>
storeVars == <<archive, source>>
spoolVars == <<markers, staged, endOfWALStream>>
ackVars == <<ready, acked>>
vars == <<pgVars, storeVars, spoolVars, ackVars, checkFile, arch, rest, crashes>>

-----------------------------------------------------------------------------
(* File names *)

Wal == [tli : Nat, seg : Nat]

HistoryFile(t) == [tli |-> t, seg |-> 0]

IsWALFile(w) == w.seg > 0

\* The order of the names, timeline first.
Before(v, w) == v.tli < w.tli \/ (v.tli = w.tli /\ v.seg < w.seg)

\* Segments of one log file; numbers start from 1.
SameFile(s, t) == (s - 1) \div SegmentsInFile = (t - 1) \div SegmentsInFile

\* The names from w on, never leaving the timeline.  They are counted with the
\* default segment size: past the end of a shorter file they are names that
\* PostgreSQL does not use, out of the range of its segments.
NextSegments(w, size) ==
    {[tli |-> w.tli,
      seg |-> IF SameFile(w.seg, w.seg + i) THEN w.seg + i
              ELSE LastSegment + 1 + w.seg + i] : i \in 0 .. size - 1}

\* The files a Restore invocation fetches: a segment and its successors, or
\* any other file alone.
gatherWALFilesToRestore(w, parallel) ==
    IF IsWALFile(w) THEN NextSegments(w, parallel) ELSE {w}

-----------------------------------------------------------------------------
(* Configuration of an invocation *)

archiveMaxParallel == IF WalMaxParallel > 0 THEN WalMaxParallel ELSE 1

maxWALFilesPerInvocation(rewindMode) ==
    IF ~rewindMode /\ WalMaxParallel > 1 THEN WalMaxParallel ELSE 1

\* Mutant: an empty CurrentPrimary passes for another pod.
Mut_EmptyPrimaryStreams ==
    \/ role \in {"standby", "rewinding", "recovering"}
    \/ role = "designated" /\ SourceStreaming

\* CurrentPrimary is this pod for a primary and a designated primary, and empty
\* while the job of a new cluster recovers; a standby and a pod being rewound
\* have another pod to stream from.
isStreamingAvailable ==
    \/ role \in {"standby", "rewinding"}
    \/ role = "designated" /\ SourceStreaming

shouldUseEndOfWALStreamFlag(rewindMode) == ~rewindMode /\ isStreamingAvailable

\* The designated primary reads from the replica source and the job of a new
\* cluster from the recovery source, every other pod from the store of its own
\* cluster.
restoreStore == IF role \in {"designated", "recovering"} THEN source ELSE archive

\* Mutant: an operator that predates the field gets no check at all.
Mut_NoFallbackCheck(operatorDecision, checkEnabled, markerFilePresent) ==
    operatorDecision = "true"

\* Mutant: the annotation alone decides, the marker file is not looked at.
Mut_CheckWithoutMarker(operatorDecision, checkEnabled, markerFilePresent) ==
    IF operatorDecision # "nil" THEN operatorDecision = "true" ELSE checkEnabled

\* The operator's decision is obeyed; "nil" comes from an operator that
\* predates the field.
resolveArchiveEmptyWalArchiveCheck(operatorDecision, checkEnabled, markerFilePresent) ==
    IF operatorDecision # "nil" THEN operatorDecision = "true"
    ELSE checkEnabled /\ markerFilePresent

\* What the operator sends: a decision that already accounts for the file, or
\* nothing at all.
operatorDecisions ==
    {IF o = "legacy" THEN "nil" ELSE IF CheckEnabled /\ checkFile THEN "true" ELSE "false" :
        o \in Operators}

-----------------------------------------------------------------------------
(* The state of the two handlers *)

Idle == "idle"

ArchiveState ==
    [pc : {Idle, "prepare", "spool", "gather", "upload"},
     wal : Wal,             \* the requested file
     pend : SUBSET Wal,     \* uploads still running
     sent : SUBSET Wal,     \* files stored, the check file not yet removed
     up : SUBSET Wal,       \* files archived ahead, marker not yet touched
     failed : BOOLEAN]      \* some file of the list failed

RestoreCode ==
    {"none", "OK", "OutOfRange", "NotFound", "Unavailable", "InvalidArgument",
     "Internal", "error"}

RestoreState ==
    [pc : {Idle, "prepare", "spool", "flag", "download", "replied"},
     wal : Wal, rewindMode : BOOLEAN,
     pend : SUBSET Wal,     \* downloads still running
     missing : BOOLEAN,     \* some download ended with ErrWALNotFound
     err : {"none", "ErrWALNotFound", "ErrInvalidWALName", "ErrConnectivity",
            "ErrGeneric", "other"},       \* outcome of the requested file
     code : RestoreCode,    \* the reply
     content : {"none", "segment", "empty"}]  \* what the destination file holds

NoWal == [tli |-> 0, seg |-> 0]

ArchiveIdle ==
    [pc |-> Idle, wal |-> NoWal, pend |-> {}, sent |-> {}, up |-> {},
     failed |-> FALSE]

RestoreIdle ==
    [pc |-> Idle, wal |-> NoWal, rewindMode |-> FALSE, pend |-> {}, missing |-> FALSE,
     err |-> "none", code |-> "none", content |-> "none"]

\* A file some other cluster left in the destination before this one was born.
ForeignWal == [tli |-> 1, seg |-> LastSegment + 1]

\* What the cluster that a new one is recovered from may have archived.
SourceFiles == [tli : {1}, seg : 1 .. LastSegment]

Init ==
    /\ role \in InitialRoles
    /\ tli = 1
    /\ next = 1
    /\ streaming = FALSE
    /\ ready = {}
    /\ acked = {}
    /\ archive \in {{}, {ForeignWal}}
    /\ source \in IF role = "recovering" THEN SUBSET SourceFiles ELSE {{}}
    /\ checkFile \in IF role = "standby" THEN {FALSE} ELSE BOOLEAN
    /\ markers = {}
    /\ staged = {}
    /\ endOfWALStream = FALSE
    /\ arch = ArchiveIdle
    /\ rest = RestoreIdle
    /\ demotions = 0
    /\ crashes = 0

-----------------------------------------------------------------------------
(* Archive *)

\* PostgreSQL's archiver asks for the oldest ready file.
PgArchive ==
    /\ role \in {"primary", "designated"}
    /\ arch.pc = Idle
    /\ \E w \in ready :
          /\ \A v \in ready : ~Before(v, w)
          /\ arch' = [ArchiveIdle EXCEPT !.pc = "prepare", !.wal = w]
    /\ UNCHANGED <<pgVars, storeVars, spoolVars, ackVars, checkFile, rest, crashes>>

\* The invocation ends with an error: the file stays ready and is retried.
ArchiveError ==
    /\ arch' = ArchiveIdle
    /\ UNCHANGED <<pgVars, storeVars, spoolVars, ackVars, checkFile, rest, crashes>>

\* The invocation ends with success; the answer may be lost on the way.
ArchiveSuccess ==
    /\ arch' = ArchiveIdle
    /\ \/ ready' = ready \ {arch.wal} /\ acked' = acked \cup {arch.wal}
       \/ UNCHANGED ackVars

\* Reading the configuration, the ObjectStore or the credentials fails, or the
\* destination cannot be checked, or the spool read, or the options computed.
ArchiveFails ==
    /\ arch.pc \in {"prepare", "spool", "gather"}
    /\ ArchiveError

\* The destination is accepted when nothing was ever archived there.
CheckBackupDestination == archive = {}

\* Step 2: the destination is checked and holds the files of another cluster.
DestinationRefused ==
    /\ \E d \in operatorDecisions :
          resolveArchiveEmptyWalArchiveCheck(d, CheckEnabled, checkFile)
    /\ ~CheckBackupDestination

ArchiveRefused ==
    /\ arch.pc = "prepare"
    /\ DestinationRefused
    /\ ArchiveError

\* Steps 1 and 2: the configuration is read and the destination checked.
ArchivePrepare ==
    /\ arch.pc = "prepare"
    /\ \E d \in operatorDecisions :
          resolveArchiveEmptyWalArchiveCheck(d, CheckEnabled, checkFile)
              => CheckBackupDestination
    /\ arch' = [arch EXCEPT !.pc = "spool"]
    /\ UNCHANGED <<pgVars, storeVars, spoolVars, ackVars, checkFile, rest, crashes>>

\* Mutant: the file in the spool is looked at and left there.
Mut_ContainsInSpool ==
    /\ arch.pc = "spool"
    /\ arch.wal \in markers \cup staged
    /\ ArchiveSuccess
    /\ UNCHANGED <<pgVars, storeVars, spoolVars, checkFile, rest, crashes>>

\* Step 3: a file with the requested name in the spool is removed, and taken as
\* the proof that an earlier invocation archived it.
ArchiveDeleteFromSpool ==
    /\ arch.pc = "spool"
    /\ arch.wal \in markers \cup staged
    /\ markers' = markers \ {arch.wal}
    /\ staged' = staged \ {arch.wal}
    /\ ArchiveSuccess
    /\ UNCHANGED <<pgVars, storeVars, endOfWALStream, checkFile, rest, crashes>>

ArchiveNotInSpool ==
    /\ arch.pc = "spool"
    /\ arch.wal \notin markers \cup staged
    /\ arch' = [arch EXCEPT !.pc = "gather"]
    /\ UNCHANGED <<pgVars, storeVars, spoolVars, ackVars, checkFile, rest, crashes>>

\* The oldest maxResults ready files, the requested one left out.
GatherReadyWALFiles(maxResults, w) ==
    LET others == ready \ {w}
    IN  {v \in others : Cardinality({u \in others : Before(u, v)}) < maxResults}

\* Step 4: the requested file and up to maxParallel - 1 other ready files.
ArchiveGather ==
    /\ arch.pc = "gather"
    /\ arch' = [arch EXCEPT
                    !.pc = "upload",
                    !.pend = {arch.wal} \cup
                             GatherReadyWALFiles(archiveMaxParallel - 1, arch.wal)]
    /\ UNCHANGED <<pgVars, storeVars, spoolVars, ackVars, checkFile, rest, crashes>>

\* ArchiveList: one of the parallel uploads stores its file.
ArchiveUpload(v) ==
    /\ arch.pc = "upload" /\ v \in arch.pend
    /\ archive' = archive \cup {v}
    /\ arch' = [arch EXCEPT !.pend = @ \ {v}, !.sent = @ \cup {v}]
    /\ UNCHANGED <<pgVars, source, spoolVars, ackVars, checkFile, rest, crashes>>

\* Only then, in a step of its own, is the empty-archive check file removed.
ArchiveRemoveCheckFile(v) ==
    /\ arch.pc = "upload" /\ v \in arch.sent
    /\ checkFile' = FALSE
    /\ arch' = [arch EXCEPT !.sent = @ \ {v},
                            !.up = IF v = arch.wal THEN @ ELSE @ \cup {v}]
    /\ UNCHANGED <<pgVars, storeVars, spoolVars, ackVars, rest, crashes>>

\* An upload reports an error, stored or not, or the check file is not removed.
ArchiveUploadFails(v) ==
    /\ arch.pc = "upload" /\ v \in arch.pend \cup arch.sent
    /\ archive' \in {archive, archive \cup {v}}
    /\ arch' = [arch EXCEPT !.pend = @ \ {v}, !.sent = @ \ {v}, !.failed = TRUE]
    /\ UNCHANGED <<pgVars, source, spoolVars, ackVars, checkFile, rest, crashes>>

\* Every file of the list is done with.
ArchiveListDone == arch.pc = "upload" /\ arch.pend \cup arch.sent \cup arch.up = {}

\* ArchiveList: a file archived ahead of its request leaves an empty file of
\* its name in the spool; a segment staged there under that name is truncated.
ArchiveTouch(v) ==
    /\ arch.pc = "upload" /\ v \in arch.up
    /\ markers' = markers \cup {v}
    /\ staged' = staged \ {v}
    /\ arch' = [arch EXCEPT !.up = @ \ {v}]
    /\ UNCHANGED <<pgVars, storeVars, endOfWALStream, ackVars, checkFile, rest, crashes>>

\* Mutant: the errors of the list are not looked at.
Mut_ErrorsIgnored ==
    /\ ArchiveListDone
    /\ ArchiveSuccess
    /\ UNCHANGED <<pgVars, storeVars, spoolVars, checkFile, rest, crashes>>

\* The handler returns the first error of the list, or success.
ArchiveReturns ==
    /\ ArchiveListDone
    /\ ~arch.failed
    /\ ArchiveSuccess
    /\ UNCHANGED <<pgVars, storeVars, spoolVars, checkFile, rest, crashes>>

ArchiveReturnsError ==
    /\ ArchiveListDone
    /\ arch.failed
    /\ ArchiveError

Archive ==
    \/ ArchiveFails \/ ArchiveRefused \/ ArchivePrepare
    \/ ArchiveDeleteFromSpool \/ ArchiveNotInSpool \/ ArchiveGather
    \/ \E v \in arch.pend : ArchiveUpload(v)
    \/ \E v \in arch.sent : ArchiveRemoveCheckFile(v)
    \/ \E v \in arch.pend \cup arch.sent : ArchiveUploadFails(v)
    \/ \E v \in arch.up : ArchiveTouch(v)
    \/ ArchiveReturns \/ ArchiveReturnsError

-----------------------------------------------------------------------------
(* Restore *)

NeededSegment == [tli |-> tli, seg |-> next]

\* What PostgreSQL may ask for: the segment it needs or the history file of the
\* next timeline; pg_rewind walks back over the segments of its own timeline.
RestoreRequests ==
    CASE role = "rewinding" -> {[tli |-> tli, seg |-> s] : s \in 1 .. next - 1}
      [] role \in {"standby", "designated"} /\ next <= LastSegment ->
            {NeededSegment, HistoryFile(tli + 1)}
      [] role = "recovering" -> {NeededSegment, HistoryFile(tli + 1)}
      [] OTHER -> {}

PgRestore(w) ==
    /\ rest.pc = Idle
    /\ ~streaming
    /\ w \in RestoreRequests
    /\ rest' = [RestoreIdle EXCEPT !.pc = "prepare", !.wal = w,
                                   !.rewindMode = (role = "rewinding")]
    /\ UNCHANGED <<pgVars, storeVars, spoolVars, ackVars, checkFile, arch, crashes>>

RestoreReply(code, content) ==
    rest' = [rest EXCEPT !.pc = "replied", !.code = code, !.content = content,
                         !.pend = {}, !.missing = FALSE]

\* Reading the configuration, the ObjectStore or the credentials fails, or the
\* spool or the flag cannot be read, or the flag cannot be set at the end.
RestoreFails ==
    /\ \/ rest.pc \in {"prepare", "spool", "flag"}
       \/ rest.pc = "download" /\ rest.pend = {} /\ rest.err = "none"
          /\ rest.missing /\ shouldUseEndOfWALStreamFlag(rest.rewindMode)
    /\ RestoreReply("error", "none")
    /\ UNCHANGED <<pgVars, storeVars, spoolVars, ackVars, checkFile, arch, crashes>>

\* Mutant: pg_rewind does not check the flag, and leaves it behind.
Mut_KeepFlag ==
    /\ rest.pc = "prepare"
    /\ rest' = [rest EXCEPT !.pc = "spool"]
    /\ UNCHANGED <<pgVars, storeVars, spoolVars, ackVars, checkFile, arch, crashes>>

\* On behalf of pg_rewind the flag is cleared before anything else is looked at.
RestorePrepare ==
    /\ rest.pc = "prepare"
    /\ endOfWALStream' = (endOfWALStream /\ ~rest.rewindMode)
    /\ rest' = [rest EXCEPT !.pc = "spool"]
    /\ UNCHANGED <<pgVars, storeVars, markers, staged, ackVars, checkFile, arch, crashes>>

\* Step 1: a file with the requested name in the spool is moved to the
\* destination, whoever left it there.
RestoreFromSpool ==
    /\ rest.pc = "spool"
    /\ rest.wal \in markers \cup staged
    /\ markers' = markers \ {rest.wal}
    /\ staged' = staged \ {rest.wal}
    /\ RestoreReply("OK", IF rest.wal \in staged THEN "segment" ELSE "empty")
    /\ UNCHANGED <<pgVars, storeVars, endOfWALStream, ackVars, checkFile, arch, crashes>>

RestoreNotInSpool ==
    /\ rest.pc = "spool"
    /\ rest.wal \notin markers \cup staged
    /\ rest' = [rest EXCEPT !.pc = "flag"]
    /\ UNCHANGED <<pgVars, storeVars, spoolVars, ackVars, checkFile, arch, crashes>>

\* Mutant: the flag is checked and not reset.
Mut_FlagNotReset ==
    /\ rest.pc = "flag"
    /\ shouldUseEndOfWALStreamFlag(rest.rewindMode) /\ endOfWALStream
    /\ RestoreReply("OutOfRange", "none")
    /\ UNCHANGED <<pgVars, storeVars, spoolVars, ackVars, checkFile, arch, crashes>>

\* Step 2: the flag makes one invocation fail and is consumed by it.
checkEndOfWALStreamFlag ==
    /\ rest.pc = "flag"
    /\ shouldUseEndOfWALStreamFlag(rest.rewindMode) /\ endOfWALStream
    /\ endOfWALStream' = FALSE
    /\ RestoreReply("OutOfRange", "none")
    /\ UNCHANGED <<pgVars, storeVars, markers, staged, ackVars, checkFile, arch, crashes>>

\* Step 3: without the flag, the list of files to fetch is made.
RestoreGather ==
    /\ rest.pc = "flag"
    /\ ~(shouldUseEndOfWALStreamFlag(rest.rewindMode) /\ endOfWALStream)
    /\ rest' = [rest EXCEPT
                    !.pc = "download",
                    !.pend = gatherWALFilesToRestore(
                                 rest.wal, maxWALFilesPerInvocation(rest.rewindMode))]
    /\ UNCHANGED <<pgVars, storeVars, spoolVars, ackVars, checkFile, arch, crashes>>

\* Step 4, RestoreList: a download of the requested file goes to the
\* destination, any other to the spool.
RestoreDownload(v) ==
    /\ rest.pc = "download" /\ v \in rest.pend
    /\ v \in restoreStore
    /\ IF v = rest.wal
       THEN UNCHANGED <<markers, staged>>
       ELSE markers' = markers \ {v} /\ staged' = staged \cup {v}
    /\ rest' = [rest EXCEPT !.pend = @ \ {v},
                            !.content = IF v = rest.wal THEN "segment" ELSE @]
    /\ UNCHANGED <<pgVars, storeVars, endOfWALStream, ackVars, checkFile, arch, crashes>>

RestoreDownloadNotFound(v) ==
    /\ rest.pc = "download" /\ v \in rest.pend
    /\ v \notin restoreStore
    /\ rest' = [rest EXCEPT
                    !.pend = @ \ {v}, !.missing = TRUE,
                    !.err = IF v = rest.wal THEN "ErrWALNotFound" ELSE @]
    /\ UNCHANGED <<pgVars, storeVars, spoolVars, ackVars, checkFile, arch, crashes>>

RestoreDownloadFails(v) ==
    /\ rest.pc = "download" /\ v \in rest.pend
    /\ \E e \in {"ErrInvalidWALName", "ErrConnectivity", "ErrGeneric", "other"} :
          rest' = [rest EXCEPT !.pend = @ \ {v},
                               !.err = IF v = rest.wal THEN e ELSE @]
    /\ UNCHANGED <<pgVars, storeVars, spoolVars, ackVars, checkFile, arch, crashes>>

\* Mutant: an error that is not classified is returned as it is.
Mut_Unclassified(err) ==
    CASE err = "ErrWALNotFound" -> "NotFound"
      [] err = "ErrInvalidWALName" -> "InvalidArgument"
      [] err \in {"ErrConnectivity", "ErrGeneric"} -> "Unavailable"
      [] OTHER -> err

\* Mutant: a store that cannot be reached passes for one without the file.
Mut_ConnectivityIsNotFound(err) ==
    CASE err \in {"ErrWALNotFound", "ErrConnectivity"} -> "NotFound"
      [] err = "ErrInvalidWALName" -> "InvalidArgument"
      [] err = "ErrGeneric" -> "Unavailable"
      [] OTHER -> "Internal"

classifyWALRestoreError(err) ==
    CASE err = "ErrWALNotFound" -> "NotFound"
      [] err = "ErrInvalidWALName" -> "InvalidArgument"
      [] err \in {"ErrConnectivity", "ErrGeneric"} -> "Unavailable"
      [] OTHER -> "Internal"

\* The requested file is not there: its error decides, whatever was prefetched.
RestoreReturnsError ==
    /\ rest.pc = "download" /\ rest.pend = {}
    /\ rest.err # "none"
    /\ RestoreReply(classifyWALRestoreError(rest.err), "none")
    /\ UNCHANGED <<pgVars, storeVars, spoolVars, ackVars, checkFile, arch, crashes>>

isEndOfWALStream == rest.missing

\* Mutant: the error of the requested file is not looked at.
Mut_FirstErrorIgnored ==
    /\ rest.pc = "download" /\ rest.pend = {}
    /\ RestoreReply("OK", rest.content)
    /\ UNCHANGED <<pgVars, storeVars, spoolVars, ackVars, checkFile, arch, crashes>>

\* Success; a prefetched file that was not found raises the flag.
RestoreReturns ==
    /\ rest.pc = "download" /\ rest.pend = {}
    /\ rest.err = "none"
    /\ endOfWALStream' = \/ endOfWALStream
                         \/ shouldUseEndOfWALStreamFlag(rest.rewindMode)
                            /\ isEndOfWALStream
    /\ RestoreReply("OK", rest.content)
    /\ UNCHANGED <<pgVars, storeVars, markers, staged, ackVars, checkFile, arch, crashes>>

Restore ==
    \/ RestoreFails \/ RestorePrepare
    \/ RestoreFromSpool \/ RestoreNotInSpool
    \/ checkEndOfWALStreamFlag \/ RestoreGather
    \/ \E v \in rest.pend :
          RestoreDownload(v) \/ RestoreDownloadNotFound(v) \/ RestoreDownloadFails(v)
    \/ RestoreReturnsError \/ RestoreReturns

-----------------------------------------------------------------------------
(* PostgreSQL and the rest of the cluster (external) *)

\* A segment is complete in pg_wal: a primary archives the segments it fills,
\* a designated primary (archive_mode=always) every segment it replays.
SegmentComplete ==
    /\ next' = next + 1
    /\ ready' = IF role \in {"standby", "recovering"} THEN ready
                ELSE ready \cup {NeededSegment}

PgFill ==
    /\ role = "primary" /\ next <= LastSegment
    /\ SegmentComplete
    /\ UNCHANGED <<role, tli, streaming, demotions, storeVars, spoolVars, acked,
                   checkFile, arch, rest, crashes>>

\* The startup process takes the reply: it replays a segment it got, ...
PgReplay ==
    /\ rest.pc = "replied"
    /\ rest.code = "OK" /\ rest.content = "segment"
    /\ IF IsWALFile(rest.wal) /\ ~rest.rewindMode
       THEN SegmentComplete
       ELSE UNCHANGED <<next, ready>>
    /\ rest' = RestoreIdle
    /\ UNCHANGED <<role, tli, streaming, demotions, storeVars, spoolVars, acked,
                   checkFile, arch, crashes>>

\* ... and otherwise, for a segment it needs, turns to streaming where it can.
\* The recovery of a new cluster ends with the first segment that is reported to
\* be missing; any other error is retried.
PgRestoreFailed ==
    /\ rest.pc = "replied"
    /\ ~(rest.code = "OK" /\ rest.content = "segment")
    /\ streaming' = /\ IsWALFile(rest.wal)
                    /\ role = "standby" \/ (role = "designated" /\ SourceStreaming)
    /\ role' = IF /\ role = "recovering" /\ IsWALFile(rest.wal)
                  /\ rest.code \in {"NotFound", "OutOfRange"}
               THEN "recovered" ELSE role
    /\ rest' = RestoreIdle
    /\ UNCHANGED <<tli, next, demotions, storeVars, spoolVars, ackVars,
                   checkFile, arch, crashes>>

PgStream ==
    /\ streaming /\ next <= LastSegment
    /\ SegmentComplete
    /\ UNCHANGED <<role, tli, streaming, demotions, storeVars, spoolVars, acked,
                   checkFile, arch, rest, crashes>>

\* The streaming connection is lost or refused: back to the archive.
PgStreamLost ==
    /\ streaming
    /\ streaming' = FALSE
    /\ UNCHANGED <<role, tli, next, demotions, storeVars, spoolVars, ackVars,
                   checkFile, arch, rest, crashes>>

\* A standby restarts and replays again from its last restartpoint.
PgRestart ==
    /\ role \in {"standby", "designated"} /\ rest.pc = Idle
    /\ crashes < MaxCrashes /\ crashes' = crashes + 1
    /\ next' \in 1 .. next
    /\ streaming' = FALSE
    /\ UNCHANGED <<role, tli, demotions, storeVars, spoolVars, ackVars, checkFile,
                   arch, rest>>

\* The pod becomes a primary, on a new timeline.
Promote ==
    /\ role \in {"standby", "designated"} /\ rest.pc = Idle
    /\ tli < LastTimeline
    /\ role' = "primary"
    /\ tli' = tli + 1
    /\ streaming' = FALSE
    /\ UNCHANGED <<next, demotions, storeVars, spoolVars, ackVars, checkFile, arch,
                   rest, crashes>>

\* Another pod was promoted: once every ready file is archived, which the
\* instance manager makes sure of, this one runs pg_rewind, ...
Demote ==
    /\ role = "primary" /\ tli < LastTimeline
    /\ ready = {} /\ arch.pc = Idle
    /\ demotions < MaxDemotions /\ demotions' = demotions + 1
    /\ role' = "rewinding"
    /\ UNCHANGED <<tli, next, streaming, storeVars, spoolVars, ackVars, checkFile,
                   arch, rest, crashes>>

\* ... and follows the new primary from a point before the divergence.
RewindDone ==
    /\ role = "rewinding" /\ rest.pc = Idle
    /\ role' = "standby"
    /\ tli' = tli + 1
    /\ next' \in 1 .. next
    /\ UNCHANGED <<streaming, demotions, storeVars, spoolVars, ackVars, checkFile,
                   arch, rest, crashes>>

\* What the current primary elsewhere archives, up to archiveMaxParallel files
\* at a time: the file itself, with every file too old to be in flight stored.
UpstreamFiles(store) ==
    {w \in [tli : {tli}, seg : 1 .. LastSegment] :
        \A s \in 1 .. w.seg :
            s + archiveMaxParallel <= w.seg => [tli |-> tli, seg |-> s] \in store}

UpstreamArchive ==
    /\ role = "standby"
    /\ \E w \in UpstreamFiles(archive) \ archive : archive' = archive \cup {w}
    /\ UNCHANGED <<pgVars, source, spoolVars, ackVars, checkFile, arch, rest, crashes>>

SourceArchive ==
    /\ role = "designated"
    /\ \E w \in UpstreamFiles(source) \ source : source' = source \cup {w}
    /\ UNCHANGED <<pgVars, archive, spoolVars, ackVars, checkFile, arch, rest, crashes>>

\* The sidecar container crashes: both invocations fail, the spool stays.
SidecarCrash ==
    /\ crashes < MaxCrashes /\ crashes' = crashes + 1
    /\ arch' = ArchiveIdle
    /\ IF rest.pc \in {Idle, "replied"} THEN UNCHANGED rest
                                       ELSE RestoreReply("error", "none")
    /\ UNCHANGED <<pgVars, storeVars, spoolVars, ackVars, checkFile>>

Postgres ==
    \/ PgArchive \/ (\E w \in RestoreRequests : PgRestore(w))
    \/ PgFill \/ PgReplay \/ PgRestoreFailed
    \/ PgStream \/ PgStreamLost

Environment ==
    \/ PgRestart \/ Promote \/ Demote \/ RewindDone
    \/ UpstreamArchive \/ SourceArchive \/ SidecarCrash

Next == Archive \/ Restore \/ Postgres \/ Environment

Spec == Init /\ [][Next]_vars

\* A step that fails for a reason outside the handlers: the API server, the
\* credentials, the network or the object store, or a crash.
Fault ==
    \/ ArchiveFails /\ ~DestinationRefused
    \/ \E v \in arch.pend \cup arch.sent : ArchiveUploadFails(v)
    \/ arch.pc # Idle /\ arch'.pc = Idle /\ UNCHANGED ready /\ ~arch.failed
       /\ arch.pc # "prepare"
    \/ RestoreFails
    \/ RestoreDownloadFails(rest.wal)

\* The handlers run to their end and PostgreSQL keeps calling them; the other
\* pods keep archiving; faults stop one day.
Fairness ==
    /\ WF_vars(Archive) /\ WF_vars(Restore)
    /\ WF_vars(PgArchive) /\ SF_vars(PgRestore(NeededSegment))
    /\ WF_vars(PgReplay) /\ WF_vars(PgRestoreFailed) /\ WF_vars(PgStreamLost)
    /\ WF_vars(UpstreamArchive) /\ WF_vars(SourceArchive)
    /\ <>[][~Fault]_vars

FairSpec == Spec /\ Fairness

-----------------------------------------------------------------------------
(* Properties *)

\* Every variable has its type: the state of the handlers is one the code of
\* Archive and Restore can be in.
TypeOK ==
    /\ role \in {"primary", "standby", "designated", "rewinding", "recovering",
                 "recovered"}
    /\ tli \in Nat /\ next \in Nat /\ streaming \in BOOLEAN
    /\ ready \subseteq Wal /\ acked \subseteq Wal
    /\ archive \subseteq Wal /\ source \subseteq Wal
    /\ checkFile \in BOOLEAN
    /\ markers \subseteq Wal /\ staged \subseteq Wal
    /\ endOfWALStream \in BOOLEAN
    /\ arch \in ArchiveState
    /\ rest \in RestoreState
    /\ demotions \in Nat /\ crashes \in Nat

\* A file whose archive_command returned success is in the object store of the
\* cluster, through crashes, lost answers, partial failures of the parallel
\* uploads and the "already archived" shortcut of Archive (step 3).
\* PostgreSQL recycles the file after that: a hole would never be filled.
ArchivedIsStored == acked \subseteq archive

\* A Restore that returns success has put a real segment at the destination,
\* also when step 1 serves it from the spool.
RestoredIsSegment ==
    rest.pc = "replied" /\ rest.code = "OK" => rest.content = "segment"

\* The answer PostgreSQL is about to take; a success that put no segment at the
\* destination is the delivery of a file that nobody ever stored.
Delivered ==
    IF rest.pc = "replied" /\ rest.code = "OK"
    THEN {IF rest.content = "segment" THEN rest.wal ELSE NoWal} ELSE {}

WA == INSTANCE WalArchive WITH
    pending <- ready, acknowledged <- acked, stored <- archive, upstream <- source,
    answer <- Delivered

\* Outside a replica cluster the two handlers together, with their spool, parallel
\* transfers, flag, crashes and retries, are an archive: Archive acknowledges a
\* file that PostgreSQL waits for and that is stored, once, and Restore delivers
\* files that were stored and nothing else.
ImplementsWalArchive == WA!Spec

\* Once a Restore on behalf of pg_rewind succeeded, no end-of-wal-stream flag of
\* an earlier recovery is left to abort the recovery that follows the rewind.
RewindLeavesNoFlag ==
    rest.pc = "replied" /\ rest.code = "OK" /\ rest.rewindMode => ~endOfWALStream

\* pg_rewind, which cannot fall back to streaming, is told that a segment is not
\* available only after this invocation looked for it in the object store.
RewindSeesArchive ==
    rest.pc = "replied" /\ rest.rewindMode /\ rest.code \in {"OutOfRange", "NotFound"}
        => rest.err = "ErrWALNotFound"

\* A new cluster that checks its destination never archives a file next to the
\* files another cluster left there.
NeverMixesArchives ==
    [][CheckEnabled /\ checkFile /\ ForeignWal \in archive
          => (archive' = archive \/ role = "standby") /\ acked' = acked]_vars

\* The recovery of a new cluster, which has nobody to stream from, does not end
\* before a segment that the archive of its source has.
RecoversToTheEnd == role = "recovered" => NeededSegment \notin source

\* A standby or designated primary whose streaming connection never delivers
\* still replays the whole archive, also across the end of a log file that is
\* shorter than NextSegments thinks: the end-of-wal-stream flag delays a request
\* for a stored segment, and never starves it.  A recovery job gets to its end.
CatchesUp ==
    /\ role \in {"standby", "designated"} ~>
          (role \notin {"standby", "designated"} \/ next > LastSegment)
    /\ role = "recovering" ~> role = "recovered"

\* An invocation finds the check file and files in the destination.
ChecksOwnArchive ==
    CheckEnabled /\ arch.pc = "prepare" /\ checkFile /\ archive # {}

\* A primary that was given an empty destination gets every file archived: no
\* crash, partial failure, lost answer or marker left in the spool wedges it, with
\* one exception.  When the first file was stored and the check file stayed (the
\* sidecar died before it removed it, or the upload reported an error although
\* the file had landed), every later Archive finds the cluster's own files in the
\* destination and is refused.
ReadyIsArchived ==
    archive = {} => \A w \in [tli : 1 .. LastTimeline, seg : 1 .. LastSegment] :
        w \in ready ~>
            (w \in acked \/ role \in {"rewinding", "standby"} \/ ChecksOwnArchive)

=============================================================================
