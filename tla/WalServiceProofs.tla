-------------------------- MODULE WalServiceProofs --------------------------
(***************************************************************************)
(* Proofs about the WAL service, for every value of its constants.         *)
(***************************************************************************)
EXTENDS WalService, TLAPS

\* The lists the two handlers work on are lists of file names: what is gathered
\* for a download by gatherWALFilesToRestore and for an upload by
\* GatherReadyWALFiles.
LEMMA GatherType ==
    ASSUME NEW w \in Wal, NEW n \in Nat
    PROVE  gatherWALFilesToRestore(w, n) \subseteq Wal
  BY ConstantsAssumption DEF gatherWALFilesToRestore, NextSegments, Wal

\* A Restore invocation always fetches the file that PostgreSQL requested.
LEMMA GatherRequested ==
    ASSUME NEW w \in Wal, NEW n \in Nat \ {0}
    PROVE  w \in gatherWALFilesToRestore(w, n)
<1>1. w = [tli |-> w.tli, seg |-> w.seg + 0] /\ w.seg + 0 = w.seg
  BY DEF Wal
<1>2. SameFile(w.seg, w.seg + 0)
  BY <1>1 DEF SameFile
<1>3. 0 \in 0 .. n - 1
  OBVIOUS
<1> QED
  BY <1>1, <1>2, <1>3 DEF gatherWALFilesToRestore, NextSegments

\* maxWALFilesPerInvocation is at least one file, with and without pg_rewind.
LEMMA MaxWALFilesType ==
    ASSUME NEW b \in BOOLEAN
    PROVE  maxWALFilesPerInvocation(b) \in Nat \ {0}
  BY ConstantsAssumption DEF maxWALFilesPerInvocation

\* classifyWALRestoreError always answers with one of the codes the caller knows.
LEMMA ClassifyType ==
    ASSUME NEW err
    PROVE  classifyWALRestoreError(err) \in RestoreCode \ {"OK"}
  BY DEF classifyWALRestoreError, RestoreCode

-----------------------------------------------------------------------------
(* Type correctness *)

\* A reply is a state of the Restore handler.
LEMMA ReplyType ==
    ASSUME rest \in RestoreState,
           NEW code \in RestoreCode, NEW content \in {"none", "segment", "empty"},
           RestoreReply(code, content)
    PROVE  rest' \in RestoreState
  BY DEF RestoreReply, RestoreState

\* The states the pod starts in have their types.
LEMMA InitTypeOK == Init => TypeOK
<1> SUFFICES ASSUME Init PROVE TypeOK
  OBVIOUS
<1>1. ForeignWal \in Wal
  BY ConstantsAssumption DEF ForeignWal, Wal
<1>2. ArchiveIdle \in ArchiveState /\ RestoreIdle \in RestoreState
  BY DEF ArchiveIdle, ArchiveState, RestoreIdle, RestoreState, RestoreCode, NoWal, Wal, Idle
<1>3. tli \in Nat /\ next \in Nat /\ demotions \in Nat /\ crashes \in Nat
  BY DEF Init
<1>4. archive \subseteq Wal
  BY <1>1 DEF Init
<1>5. checkFile \in BOOLEAN
  <2>1. CASE role = "standby"
    BY <2>1 DEF Init
  <2>2. CASE role # "standby"
    BY <2>2 DEF Init
  <2> QED
    BY <2>1, <2>2
<1>6. role \in {"primary", "standby", "designated", "recovering"}
  BY ConstantsAssumption DEF Init
<1>7. source \subseteq Wal
  <2>1. SourceFiles \subseteq Wal
    BY ConstantsAssumption DEF SourceFiles, Wal
  <2> QED
    BY <2>1 DEF Init
<1> QED
  BY <1>2, <1>3, <1>4, <1>5, <1>6, <1>7 DEF Init, TypeOK

\* Every step of the Archive handler keeps the types.
LEMMA ArchiveTypeOK == TypeOK /\ Archive => TypeOK'
<1> SUFFICES ASSUME TypeOK, Archive PROVE TypeOK'
  OBVIOUS
<1> USE DEF TypeOK, ArchiveState, Idle, vars, pgVars, storeVars, spoolVars, ackVars
<1>i. ArchiveIdle \in ArchiveState
  BY DEF ArchiveIdle, NoWal, Wal
<1>1. CASE ArchiveFails \/ ArchiveRefused
  BY <1>1, <1>i DEF ArchiveFails, ArchiveRefused, ArchiveError
<1>2. CASE ArchivePrepare
  BY <1>2 DEF ArchivePrepare
<1>3. CASE ArchiveDeleteFromSpool
  BY <1>3, <1>i DEF ArchiveDeleteFromSpool, ArchiveSuccess
<1>4. CASE ArchiveNotInSpool
  BY <1>4 DEF ArchiveNotInSpool
<1>5. CASE ArchiveGather
  BY <1>5 DEF ArchiveGather, GatherReadyWALFiles
<1>6. ASSUME NEW v \in arch.pend, ArchiveUpload(v) PROVE TypeOK'
  BY <1>6 DEF ArchiveUpload
<1>7. ASSUME NEW v \in arch.pend \cup arch.sent, ArchiveUploadFails(v) PROVE TypeOK'
  BY <1>7 DEF ArchiveUploadFails
<1>8. ASSUME NEW v \in arch.up, ArchiveTouch(v) PROVE TypeOK'
  BY <1>8 DEF ArchiveTouch
<1>9. ASSUME NEW v \in arch.sent, ArchiveRemoveCheckFile(v) PROVE TypeOK'
  BY <1>9 DEF ArchiveRemoveCheckFile
<1>10. CASE ArchiveReturns
  BY <1>10, <1>i DEF ArchiveReturns, ArchiveListDone, ArchiveSuccess
<1>11. CASE ArchiveReturnsError
  BY <1>11, <1>i DEF ArchiveReturnsError, ArchiveListDone, ArchiveError
<1> QED
  BY <1>1, <1>2, <1>3, <1>4, <1>5, <1>6, <1>7, <1>8, <1>9, <1>10, <1>11 DEF Archive

\* Every step of the Restore handler keeps the types, the replies of
\* classifyWALRestoreError included.
LEMMA RestoreTypeOK == TypeOK /\ Restore => TypeOK'
<1> SUFFICES ASSUME TypeOK, Restore PROVE TypeOK'
  OBVIOUS
<1> USE DEF TypeOK, RestoreState, Idle, vars, pgVars, storeVars, spoolVars, ackVars
<1>1. CASE RestoreFails
  BY <1>1 DEF RestoreFails, RestoreReply, RestoreCode
<1>2. CASE RestorePrepare
  BY <1>2 DEF RestorePrepare
<1>3. CASE RestoreFromSpool
  BY <1>3 DEF RestoreFromSpool, RestoreReply, RestoreCode
<1>4. CASE RestoreNotInSpool
  BY <1>4 DEF RestoreNotInSpool
<1>5. CASE checkEndOfWALStreamFlag
  BY <1>5 DEF checkEndOfWALStreamFlag, RestoreReply, RestoreCode
<1>6. CASE RestoreGather
  <2>1. gatherWALFilesToRestore(rest.wal, maxWALFilesPerInvocation(rest.rewindMode)) \subseteq Wal
    BY MaxWALFilesType, GatherType
  <2> QED
    BY <1>6, <2>1 DEF RestoreGather
<1>7. ASSUME NEW v \in rest.pend, RestoreDownload(v) PROVE TypeOK'
  <2>1. rest' \in RestoreState
    BY <1>7 DEF RestoreDownload
  <2>2. markers' \subseteq Wal /\ staged' \subseteq Wal
    BY <1>7 DEF RestoreDownload
  <2> QED
    BY <1>7, <2>1, <2>2 DEF RestoreDownload
<1>8. ASSUME NEW v \in rest.pend, RestoreDownloadNotFound(v) PROVE TypeOK'
  BY <1>8 DEF RestoreDownloadNotFound
<1>9. ASSUME NEW v \in rest.pend, RestoreDownloadFails(v) PROVE TypeOK'
  BY <1>9 DEF RestoreDownloadFails
<1>10. CASE RestoreReturnsError
  <2>1. classifyWALRestoreError(rest.err) \in RestoreCode
    BY ClassifyType
  <2> QED
    BY <1>10, <2>1 DEF RestoreReturnsError, RestoreReply
<1>11. CASE RestoreReturns
  BY <1>11 DEF RestoreReturns, RestoreReply, RestoreCode
<1> QED
  BY <1>1, <1>2, <1>3, <1>4, <1>5, <1>6, <1>7, <1>8, <1>9, <1>10, <1>11 DEF Restore

\* What PostgreSQL does with the replies keeps the types.
LEMMA PostgresTypeOK == TypeOK /\ Postgres => TypeOK'
<1> SUFFICES ASSUME TypeOK, Postgres PROVE TypeOK'
  OBVIOUS
<1> USE DEF TypeOK, Idle, vars, pgVars, storeVars, spoolVars, ackVars
<1>i. RestoreIdle \in RestoreState
  BY DEF RestoreIdle, RestoreState, RestoreCode, NoWal, Wal
<1>n. NeededSegment \in Wal
  BY DEF NeededSegment, Wal
<1>1. CASE PgArchive
  BY <1>1 DEF PgArchive, ArchiveIdle, ArchiveState
<1>2. ASSUME NEW w \in RestoreRequests, PgRestore(w) PROVE TypeOK'
  <2>1. RestoreRequests \subseteq Wal
    BY <1>n DEF RestoreRequests, HistoryFile, Wal
  <2> QED
    BY <1>2, <2>1 DEF PgRestore, RestoreIdle, RestoreState, RestoreCode
<1>3. CASE PgFill
  BY <1>3, <1>n DEF PgFill, SegmentComplete
<1>4. CASE PgReplay
  BY <1>4, <1>i, <1>n DEF PgReplay, SegmentComplete
<1>5. CASE PgRestoreFailed
  BY <1>5, <1>i DEF PgRestoreFailed
<1>6. CASE PgStream
  BY <1>6, <1>n DEF PgStream, SegmentComplete
<1>7. CASE PgStreamLost
  BY <1>7 DEF PgStreamLost
<1> QED
  BY <1>1, <1>2, <1>3, <1>4, <1>5, <1>6, <1>7 DEF Postgres

\* Restarts, promotions, rewinds, other pods and crashes keep the types.
LEMMA EnvironmentTypeOK == TypeOK /\ Environment => TypeOK'
<1> SUFFICES ASSUME TypeOK, Environment PROVE TypeOK'
  OBVIOUS
<1> USE DEF TypeOK, Idle, vars, pgVars, storeVars, spoolVars, ackVars
<1>1. CASE PgRestart
  <2>1. next' \in Nat /\ crashes' \in Nat
    BY <1>1 DEF PgRestart
  <2> QED
    BY <1>1, <2>1, Zenon DEF PgRestart
<1>2. CASE Promote
  <2>1. tli' \in Nat
    BY <1>2 DEF Promote
  <2> QED
    BY <1>2, <2>1, Zenon DEF Promote
<1>3. CASE Demote
  BY <1>3 DEF Demote
<1>4. CASE RewindDone
  BY <1>4 DEF RewindDone
<1>u. ASSUME NEW store PROVE UpstreamFiles(store) \subseteq Wal
  BY ConstantsAssumption DEF UpstreamFiles, Wal
<1>5. CASE UpstreamArchive
  BY <1>5, <1>u DEF UpstreamArchive
<1>6. CASE SourceArchive
  BY <1>6, <1>u DEF SourceArchive
<1>7. CASE SidecarCrash
  <2>1. arch' \in ArchiveState
    BY <1>7 DEF SidecarCrash, ArchiveIdle, ArchiveState, NoWal, Wal
  <2>2. rest' \in RestoreState
    <3>1. CASE rest.pc \in {Idle, "replied"}
      BY <1>7, <3>1 DEF SidecarCrash
    <3>2. CASE rest.pc \notin {Idle, "replied"}
      BY <1>7, <3>2, ReplyType DEF SidecarCrash, RestoreCode
    <3> QED
      BY <3>1, <3>2
  <2>3. crashes' \in Nat
    BY <1>7 DEF SidecarCrash
  <2> QED
    BY <1>7, <2>1, <2>2, <2>3 DEF SidecarCrash
<1> QED
  BY <1>1, <1>2, <1>3, <1>4, <1>5, <1>6, <1>7 DEF Environment

\* The state of the handlers, of the spool and of the stores keeps its type, for
\* every configuration of the cluster and every number of segments.
THEOREM TypeCorrect == Spec => []TypeOK
<1>1. TypeOK /\ UNCHANGED vars => TypeOK'
  BY DEF TypeOK, vars, pgVars, storeVars, spoolVars, ackVars
<1>2. TypeOK /\ [Next]_vars => TypeOK'
  BY <1>1, ArchiveTypeOK, RestoreTypeOK, PostgresTypeOK, EnvironmentTypeOK DEF Next
<1> QED
  BY InitTypeOK, <1>2, PTL DEF Spec

-----------------------------------------------------------------------------
(* Nothing is acknowledged that is not stored, outside replica clusters *)

\* The pod is the recovery job of a new cluster: it restores from another archive
\* and archives nothing.
InJob == role \in {"recovering", "recovered"}

\* The inductive invariant: whatever may later be taken as the proof that a file
\* is archived, a file of the spool included, is in the object store already; and
\* what Restore has put at the destination comes from one of the two stores.
StoreInv ==
    /\ role # "designated"
    /\ InJob => arch.pc = Idle
    /\ acked \subseteq archive
    /\ markers \subseteq archive
    /\ staged \subseteq archive \cup source
    /\ ~InJob => staged \subseteq archive
    /\ rest.content = "segment" => rest.wal \in archive \cup source
    /\ arch.sent \cup arch.up \subseteq archive
    /\ arch.pc = "upload" /\ ~arch.failed => arch.wal \in arch.pend \cup archive

\* Archive: an upload that ended is stored before its marker is touched, and only a
\* list without a failure is answered with success.
LEMMA ArchiveStoreInv == TypeOK /\ StoreInv /\ Archive => StoreInv'
<1> SUFFICES ASSUME TypeOK, StoreInv, Archive PROVE StoreInv'
  OBVIOUS
<1> USE DEF StoreInv, InJob, TypeOK, ArchiveState, Idle, pgVars, storeVars, spoolVars, ackVars
<1>1. CASE ArchiveFails \/ ArchiveRefused
  BY <1>1 DEF ArchiveFails, ArchiveRefused, ArchiveError, ArchiveIdle
<1>2. CASE ArchivePrepare
  BY <1>2 DEF ArchivePrepare
<1>3. CASE ArchiveDeleteFromSpool
  BY <1>3 DEF ArchiveDeleteFromSpool, ArchiveSuccess, ArchiveIdle
<1>4. CASE ArchiveNotInSpool
  BY <1>4 DEF ArchiveNotInSpool
<1>5. CASE ArchiveGather
  BY <1>5 DEF ArchiveGather
<1>6. ASSUME NEW v \in arch.pend, ArchiveUpload(v) PROVE StoreInv'
  BY <1>6 DEF ArchiveUpload
<1>7. ASSUME NEW v \in arch.pend \cup arch.sent, ArchiveUploadFails(v) PROVE StoreInv'
  BY <1>7 DEF ArchiveUploadFails
<1>8. ASSUME NEW v \in arch.up, ArchiveTouch(v) PROVE StoreInv'
  BY <1>8 DEF ArchiveTouch
<1>9. ASSUME NEW v \in arch.sent, ArchiveRemoveCheckFile(v) PROVE StoreInv'
  BY <1>9 DEF ArchiveRemoveCheckFile
<1>10. CASE ArchiveReturns
  BY <1>10 DEF ArchiveReturns, ArchiveListDone, ArchiveSuccess, ArchiveIdle
<1>11. CASE ArchiveReturnsError
  BY <1>11 DEF ArchiveReturnsError, ArchiveListDone, ArchiveError, ArchiveIdle
<1> QED
  BY <1>1, <1>2, <1>3, <1>4, <1>5, <1>6, <1>7, <1>8, <1>9, <1>10, <1>11 DEF Archive

\* Of the restore steps only a download and a hit change the spool.
LEMMA RestoreStoreInv == TypeOK /\ StoreInv /\ Restore => StoreInv'
<1> SUFFICES ASSUME TypeOK, StoreInv, Restore PROVE StoreInv'
  OBVIOUS
<1>r. rest \in RestoreState
  BY DEF TypeOK
<1> USE DEF StoreInv, InJob, RestoreState, pgVars, storeVars, spoolVars, ackVars
<1>1. CASE RestoreFromSpool
  BY <1>1, <1>r DEF RestoreFromSpool, RestoreReply
<1>2. ASSUME NEW v \in rest.pend, RestoreDownload(v) PROVE StoreInv'
  <2>1. v \in archive \cup source /\ (~InJob => v \in archive)
    BY <1>2 DEF RestoreDownload, restoreStore
  <2>2. rest'.wal = rest.wal /\ rest'.content \in {rest.content, "segment"}
        /\ (v # rest.wal => rest'.content = rest.content)
    BY <1>2, <1>r DEF RestoreDownload
  <2>3. /\ markers' \subseteq markers /\ staged' \subseteq staged \cup {v}
        /\ UNCHANGED <<role, arch, acked, archive, source>>
    BY <1>2 DEF RestoreDownload
  <2> QED
    BY <2>1, <2>2, <2>3
<1>3. ASSUME UNCHANGED <<role, arch, acked, archive, source, markers, staged>>,
             rest'.wal = rest.wal, rest'.content \in {"none", rest.content}
      PROVE  StoreInv'
  BY <1>3
<1>4. CASE RestoreFails \/ checkEndOfWALStreamFlag \/ RestoreReturnsError \/ RestoreReturns
  <2>1. rest'.wal = rest.wal /\ rest'.content \in {"none", rest.content}
    BY <1>4, <1>r DEF RestoreFails, checkEndOfWALStreamFlag, RestoreReturnsError,
        RestoreReturns, RestoreReply
  <2> QED
    BY <1>3, <1>4, <2>1 DEF RestoreFails, checkEndOfWALStreamFlag, RestoreReturnsError,
        RestoreReturns
<1>5. CASE RestorePrepare \/ RestoreNotInSpool \/ RestoreGather
  <2>1. rest'.wal = rest.wal /\ rest'.content = rest.content
    BY <1>5, <1>r DEF RestorePrepare, RestoreNotInSpool, RestoreGather
  <2> QED
    BY <1>3, <1>5, <2>1 DEF RestorePrepare, RestoreNotInSpool, RestoreGather
<1>6. ASSUME NEW v \in rest.pend, RestoreDownloadNotFound(v) \/ RestoreDownloadFails(v)
      PROVE StoreInv'
  <2>1. rest'.wal = rest.wal /\ rest'.content = rest.content
    BY <1>6, <1>r DEF RestoreDownloadNotFound, RestoreDownloadFails
  <2> QED
    BY <1>3, <1>6, <2>1 DEF RestoreDownloadNotFound, RestoreDownloadFails
<1> QED
  BY <1>1, <1>2, <1>4, <1>5, <1>6 DEF Restore

\* PostgreSQL never touches the spool nor the object store; a request starts with
\* nothing uploaded.
LEMMA PostgresStoreInv == TypeOK /\ StoreInv /\ Postgres => StoreInv'
<1> SUFFICES ASSUME TypeOK, StoreInv, Postgres PROVE StoreInv'
  OBVIOUS
<1> USE DEF StoreInv, InJob, pgVars, storeVars, spoolVars, ackVars
<1>1. CASE PgArchive
  BY <1>1 DEF PgArchive, ArchiveIdle, TypeOK, ArchiveState, Idle
<1>2. ASSUME NEW w \in RestoreRequests, PgRestore(w) PROVE StoreInv'
  BY <1>2 DEF PgRestore, RestoreIdle
<1>3. CASE PgFill \/ PgStream \/ PgStreamLost
  BY <1>3 DEF PgFill, PgStream, PgStreamLost
<1>4. CASE PgReplay
  BY <1>4 DEF PgReplay, RestoreIdle
<1>5. CASE PgRestoreFailed
  <2>1. rest'.content = "none" /\ (InJob' <=> InJob) /\ role' # "designated"
    BY <1>5 DEF PgRestoreFailed, RestoreIdle
  <2> QED
    BY <1>5, <2>1 DEF PgRestoreFailed
<1> QED
  BY <1>1, <1>2, <1>3, <1>4, <1>5 DEF Postgres

\* The rest of the cluster only adds to the object store, and a crash forgets the
\* invocation.
LEMMA EnvironmentStoreInv == TypeOK /\ StoreInv /\ Environment => StoreInv'
<1> SUFFICES ASSUME TypeOK, StoreInv, Environment PROVE StoreInv'
  OBVIOUS
<1> USE DEF StoreInv, InJob, pgVars, storeVars, spoolVars, ackVars
<1>1. CASE PgRestart \/ Promote \/ Demote \/ RewindDone
  BY <1>1 DEF PgRestart, Promote, Demote, RewindDone
<1>2. CASE UpstreamArchive \/ SourceArchive
  BY <1>2 DEF UpstreamArchive, SourceArchive
<1>3. CASE SidecarCrash
  <2>1. rest'.wal = rest.wal /\ rest'.content \in {"none", rest.content}
    BY <1>3 DEF SidecarCrash, RestoreReply, TypeOK, RestoreState
  <2>2. /\ arch'.pc = Idle /\ arch'.sent \cup arch'.up = {}
        /\ UNCHANGED <<role, acked, archive, source, markers, staged>>
    BY <1>3 DEF SidecarCrash, ArchiveIdle
  <2> QED
    BY <2>1, <2>2 DEF Idle
<1> QED
  BY <1>1, <1>2, <1>3 DEF Environment

\* Everything the spool and the two handlers rely on is stored, outside a replica
\* cluster.
LEMMA StoreInvariant ==
    ASSUME "designated" \notin InitialRoles
    PROVE  Spec => []StoreInv
<1>1. Init => StoreInv
  BY DEF Init, StoreInv, InJob, ArchiveIdle, RestoreIdle, Idle
<1>2. StoreInv /\ UNCHANGED vars => StoreInv'
  BY DEF StoreInv, InJob, vars, pgVars, storeVars, spoolVars, ackVars
<1>3. TypeOK /\ StoreInv /\ [Next]_vars => StoreInv'
  BY <1>2, ArchiveStoreInv, RestoreStoreInv, PostgresStoreInv, EnvironmentStoreInv DEF Next
<1> QED
  BY <1>1, <1>3, TypeCorrect, PTL DEF Spec

\* Outside a replica cluster, a file whose archive_command returned success is in
\* the object store of the cluster, whatever the number of segments, parallel
\* uploads, failovers, crashes and lost answers: the "already archived" shortcut
\* of Archive is sound there.
THEOREM ArchiveSafety ==
    ASSUME "designated" \notin InitialRoles
    PROVE  Spec => []ArchivedIsStored
<1>1. StoreInv => ArchivedIsStored
  BY DEF StoreInv, ArchivedIsStored
<1> QED
  BY <1>1, StoreInvariant, PTL

-----------------------------------------------------------------------------
(* Nothing but segments is restored, outside replica clusters *)

\* The marker of a file goes before its archive_command succeeds: a marker is
\* always of a file that is still ready, and a pod with ready files does not
\* restore.
MarkerInv ==
    /\ markers \cup arch.up \cup arch.sent \cup arch.pend \subseteq ready
    /\ arch.pc # Idle => arch.wal \in ready
    /\ arch.pc \in {"gather", "upload"} => arch.wal \notin markers \cup arch.up
    /\ arch.pc \in {"gather", "spool", "prepare"} => arch.up = {}
    /\ role # "primary" => ready = {} /\ arch.pc = Idle

\* A pod restores only while it is not a primary, and a download that ended
\* without an error left the segment at the destination.
DeliveryInv ==
    /\ role = "primary" => rest.pc = Idle
    /\ streaming => role = "standby"
    /\ rest.pc # Idle /\ ~rest.rewindMode => role \in {"standby", "recovering"}
    /\ rest.pc = "download" /\ rest.err = "none" =>
           rest.wal \in rest.pend \/ rest.content = "segment"
    /\ rest.pc \in {"prepare", "spool", "flag"} => rest.err = "none"
    /\ RestoredIsSegment

\* The inductive invariant of a cluster that is no replica cluster.
SpoolInv == role # "designated" /\ MarkerInv /\ DeliveryInv

\* Archive: the marker of a file is removed by the very step that lets its
\* archive_command succeed.
LEMMA ArchiveSpoolInv == TypeOK /\ SpoolInv /\ Archive => SpoolInv'
<1> SUFFICES ASSUME TypeOK, SpoolInv, Archive PROVE SpoolInv'
  OBVIOUS
<1>a. UNCHANGED <<role, streaming, rest>> => (role # "designated" /\ DeliveryInv)'
  BY DEF SpoolInv, DeliveryInv, RestoredIsSegment
<1>b. UNCHANGED <<role, streaming, rest>>
  BY DEF Archive, ArchiveFails, ArchiveRefused, ArchiveError, ArchivePrepare,
      ArchiveDeleteFromSpool, ArchiveNotInSpool, ArchiveGather, ArchiveUpload,
      ArchiveRemoveCheckFile, ArchiveUploadFails, ArchiveTouch, ArchiveReturns, ArchiveReturnsError, pgVars
<1> SUFFICES MarkerInv'
  BY <1>a, <1>b DEF SpoolInv
<1> USE DEF SpoolInv, MarkerInv, TypeOK, ArchiveState, Idle, pgVars, spoolVars, ackVars
<1>1. CASE ArchiveFails \/ ArchiveRefused
  BY <1>1 DEF ArchiveFails, ArchiveRefused, ArchiveError, ArchiveIdle
<1>2. CASE ArchivePrepare
  BY <1>2 DEF ArchivePrepare
<1>3. CASE ArchiveDeleteFromSpool
  BY <1>3 DEF ArchiveDeleteFromSpool, ArchiveSuccess, ArchiveIdle
<1>4. CASE ArchiveNotInSpool
  BY <1>4 DEF ArchiveNotInSpool
<1>5. CASE ArchiveGather
  BY <1>5 DEF ArchiveGather, GatherReadyWALFiles
<1>6. ASSUME NEW v \in arch.pend, ArchiveUpload(v) PROVE MarkerInv'
  BY <1>6 DEF ArchiveUpload
<1>7. ASSUME NEW v \in arch.pend \cup arch.sent, ArchiveUploadFails(v) PROVE MarkerInv'
  BY <1>7 DEF ArchiveUploadFails
<1>8. ASSUME NEW v \in arch.up, ArchiveTouch(v) PROVE MarkerInv'
  BY <1>8 DEF ArchiveTouch
<1>9. ASSUME NEW v \in arch.sent, ArchiveRemoveCheckFile(v) PROVE MarkerInv'
  BY <1>9 DEF ArchiveRemoveCheckFile
<1>10. CASE ArchiveReturns
  BY <1>10 DEF ArchiveReturns, ArchiveListDone, ArchiveSuccess, ArchiveIdle
<1>11. CASE ArchiveReturnsError
  BY <1>11 DEF ArchiveReturnsError, ArchiveListDone, ArchiveError, ArchiveIdle
<1> QED
  BY <1>1, <1>2, <1>3, <1>4, <1>5, <1>6, <1>7, <1>8, <1>9, <1>10, <1>11 DEF Archive

\* Restore: what it serves from the spool is a segment, for no marker is left when
\* a pod restores.
LEMMA RestoreSpoolInv == TypeOK /\ SpoolInv /\ Restore => SpoolInv'
<1> SUFFICES ASSUME TypeOK, SpoolInv, Restore PROVE SpoolInv'
  OBVIOUS
<1>a. UNCHANGED <<role, streaming, ready, arch>> /\ markers' \subseteq markers
  BY DEF Restore, RestoreFails, RestorePrepare, RestoreFromSpool, RestoreNotInSpool,
      checkEndOfWALStreamFlag, RestoreGather, RestoreDownload, RestoreDownloadNotFound,
      RestoreDownloadFails, RestoreReturnsError, RestoreReturns, pgVars, ackVars, spoolVars
<1>b. rest.pc # Idle
  BY DEF TypeOK, RestoreState, Restore, RestoreFails, RestorePrepare, RestoreFromSpool,
      RestoreNotInSpool, checkEndOfWALStreamFlag, RestoreGather, RestoreDownload,
      RestoreDownloadNotFound, RestoreDownloadFails, RestoreReturnsError, RestoreReturns, Idle
<1>c. role # "primary" /\ markers = {}
  BY <1>b DEF SpoolInv, DeliveryInv, MarkerInv
<1>d. (role # "designated" /\ MarkerInv)'
  BY <1>a DEF SpoolInv, MarkerInv
<1> SUFFICES DeliveryInv'
  BY <1>d DEF SpoolInv
<1> USE <1>a, <1>c DEF SpoolInv, DeliveryInv, RestoredIsSegment, TypeOK, RestoreState, Idle, pgVars
<1>1. CASE RestoreFails
  BY <1>1 DEF RestoreFails, RestoreReply
<1>2. CASE RestorePrepare
  BY <1>2 DEF RestorePrepare
<1>3. CASE RestoreFromSpool
  BY <1>3 DEF RestoreFromSpool, RestoreReply
<1>4. CASE RestoreNotInSpool
  BY <1>4 DEF RestoreNotInSpool
<1>5. CASE checkEndOfWALStreamFlag
  BY <1>5 DEF checkEndOfWALStreamFlag, RestoreReply
<1>6. CASE RestoreGather
  <2>1. rest.wal \in gatherWALFilesToRestore(
                        rest.wal, maxWALFilesPerInvocation(rest.rewindMode))
    BY MaxWALFilesType, GatherRequested
  <2> QED
    BY <1>6, <2>1 DEF RestoreGather
<1>7. ASSUME NEW v \in rest.pend, RestoreDownload(v) PROVE DeliveryInv'
  BY <1>7 DEF RestoreDownload
<1>8. ASSUME NEW v \in rest.pend, RestoreDownloadNotFound(v) PROVE DeliveryInv'
  BY <1>8 DEF RestoreDownloadNotFound
<1>9. ASSUME NEW v \in rest.pend, RestoreDownloadFails(v) PROVE DeliveryInv'
  BY <1>9 DEF RestoreDownloadFails
<1>10. CASE RestoreReturnsError
  <2>1. classifyWALRestoreError(rest.err) # "OK"
    BY ClassifyType
  <2> QED
    BY <1>10, <2>1 DEF RestoreReturnsError, RestoreReply
<1>11. CASE RestoreReturns
  BY <1>11 DEF RestoreReturns, RestoreReply
<1> QED
  BY <1>1, <1>2, <1>3, <1>4, <1>5, <1>6, <1>7, <1>8, <1>9, <1>10, <1>11 DEF Restore

\* PostgreSQL asks for files to restore only while the pod is no primary.
LEMMA PostgresSpoolInv == TypeOK /\ SpoolInv /\ Postgres => SpoolInv'
<1> SUFFICES ASSUME TypeOK, SpoolInv, Postgres PROVE SpoolInv'
  OBVIOUS
<1> USE DEF SpoolInv, DeliveryInv, MarkerInv, RestoredIsSegment, Idle, pgVars, spoolVars,
        ackVars
<1>1. CASE PgArchive
  BY <1>1 DEF PgArchive, ArchiveIdle, TypeOK, ArchiveState
<1>2. ASSUME NEW w \in RestoreRequests, PgRestore(w) PROVE SpoolInv'
  BY <1>2 DEF PgRestore, RestoreRequests, RestoreIdle, TypeOK, RestoreState
<1>3. CASE PgFill
  BY <1>3 DEF PgFill, SegmentComplete
<1>4. CASE PgReplay
  <2>1. CASE IsWALFile(rest.wal) /\ ~rest.rewindMode
    <3>1. role \in {"standby", "recovering"}
      BY <1>4, <2>1 DEF PgReplay
    <3> QED
      BY <1>4, <2>1, <3>1 DEF PgReplay, SegmentComplete, RestoreIdle
  <2>2. CASE ~(IsWALFile(rest.wal) /\ ~rest.rewindMode)
    BY <1>4, <2>2 DEF PgReplay, RestoreIdle
  <2> QED
    BY <2>1, <2>2
<1>5. CASE PgRestoreFailed
  BY <1>5 DEF PgRestoreFailed, RestoreIdle, TypeOK, RestoreState
<1>6. CASE PgStream
  BY <1>6 DEF PgStream, SegmentComplete, TypeOK
<1>7. CASE PgStreamLost
  BY <1>7 DEF PgStreamLost
<1> QED
  BY <1>1, <1>2, <1>3, <1>4, <1>5, <1>6, <1>7 DEF Postgres

\* A primary is demoted with no ready file, hence with no marker.
LEMMA EnvironmentSpoolInv == TypeOK /\ SpoolInv /\ Environment => SpoolInv'
<1> SUFFICES ASSUME TypeOK, SpoolInv, Environment PROVE SpoolInv'
  OBVIOUS
<1> USE DEF SpoolInv, DeliveryInv, MarkerInv, RestoredIsSegment, Idle, pgVars, spoolVars,
        ackVars
<1>1. CASE PgRestart
  BY <1>1 DEF PgRestart
<1>2. CASE Promote
  BY <1>2 DEF Promote
<1>3. CASE Demote
  BY <1>3 DEF Demote
<1>4. CASE RewindDone
  BY <1>4 DEF RewindDone
<1>5. CASE UpstreamArchive \/ SourceArchive
  BY <1>5 DEF UpstreamArchive, SourceArchive
<1>6. CASE SidecarCrash
  <2>1. role' # "designated" /\ MarkerInv'
    BY <1>6 DEF SidecarCrash, ArchiveIdle
  <2>2. CASE rest.pc \in {Idle, "replied"}
    BY <1>6, <2>1, <2>2 DEF SidecarCrash
  <2>3. CASE rest.pc \notin {Idle, "replied"}
    <3>1. /\ UNCHANGED <<role, streaming>>
          /\ rest' = [rest EXCEPT !.pc = "replied", !.code = "error", !.content = "none",
                                  !.pend = {}, !.missing = FALSE]
      BY <1>6, <2>3 DEF SidecarCrash, RestoreReply
    <3> QED
      BY <2>1, <2>3, <3>1 DEF TypeOK, RestoreState
  <2> QED
    BY <2>2, <2>3
<1> QED
  BY <1>1, <1>2, <1>3, <1>4, <1>5, <1>6 DEF Environment

\* No marker meets a Restore, outside a replica cluster.
LEMMA SpoolInvariant ==
    ASSUME "designated" \notin InitialRoles
    PROVE  Spec => []SpoolInv
<1>1. Init => SpoolInv
  BY DEF Init, SpoolInv, MarkerInv, DeliveryInv, RestoredIsSegment, ArchiveIdle, RestoreIdle, Idle
<1>2. SpoolInv /\ UNCHANGED vars => SpoolInv'
  BY DEF SpoolInv, MarkerInv, DeliveryInv, RestoredIsSegment, vars, pgVars, storeVars,
      spoolVars, ackVars
<1>3. TypeOK /\ SpoolInv /\ [Next]_vars => SpoolInv'
  BY <1>2, ArchiveSpoolInv, RestoreSpoolInv, PostgresSpoolInv, EnvironmentSpoolInv DEF Next
<1> QED
  BY <1>1, <1>3, TypeCorrect, PTL DEF Spec

\* Outside a replica cluster, a Restore that returns success has delivered a
\* segment: an archive marker is never served from the spool it shares with the
\* prefetched segments, because every marker is gone before the pod is rewound.
THEOREM RestoreSafety ==
    ASSUME "designated" \notin InitialRoles
    PROVE  Spec => []RestoredIsSegment
<1>1. SpoolInv => RestoredIsSegment
  BY DEF SpoolInv, DeliveryInv
<1> QED
  BY <1>1, SpoolInvariant, PTL

-----------------------------------------------------------------------------
(* The two handlers implement an archive, outside replica clusters *)

\* What the steps of the detailed specification rely on.
RefinementInv == TypeOK /\ StoreInv /\ SpoolInv

\* Archive: an upload stores a file, also one that reports an error, a success that gets through
\* acknowledges one that is pending and stored, and the other steps are invisible.
LEMMA ArchiveRefines == RefinementInv /\ Archive => [WA!Next]_WA!vars
<1> SUFFICES ASSUME RefinementInv, Archive PROVE [WA!Next]_WA!vars
  OBVIOUS
<1> USE DEF WA!Next, WA!vars, pgVars, storeVars, spoolVars, ackVars
<1>d. UNCHANGED <<source, Delivered>>
  BY DEF Delivered, Archive, ArchiveFails, ArchiveRefused, ArchiveError, ArchivePrepare,
      ArchiveDeleteFromSpool, ArchiveNotInSpool, ArchiveGather, ArchiveUpload,
      ArchiveRemoveCheckFile, ArchiveUploadFails, ArchiveTouch, ArchiveReturns, ArchiveReturnsError
<1>1. CASE \/ ArchiveFails \/ ArchiveRefused \/ ArchivePrepare \/ ArchiveNotInSpool
           \/ ArchiveGather \/ ArchiveReturnsError
  BY <1>1, <1>d DEF ArchiveFails, ArchiveRefused, ArchiveError, ArchivePrepare,
      ArchiveNotInSpool, ArchiveGather, ArchiveReturnsError
<1>2. ASSUME NEW v, ArchiveUpload(v) \/ ArchiveUploadFails(v)
      PROVE  WA!Store \/ UNCHANGED WA!vars
  BY <1>2, <1>d DEF ArchiveUpload, ArchiveUploadFails, WA!Store
<1>3. ASSUME NEW v, ArchiveRemoveCheckFile(v) \/ ArchiveTouch(v) PROVE UNCHANGED WA!vars
  BY <1>3, <1>d DEF ArchiveRemoveCheckFile, ArchiveTouch
<1>4. CASE ArchiveDeleteFromSpool \/ ArchiveReturns
  <2>1. arch.wal \in ready \cap archive
    <3>1. arch.pc \in {"spool", "upload"}
      BY <1>4 DEF ArchiveDeleteFromSpool, ArchiveReturns, ArchiveListDone
    <3>2. arch.wal \in ready /\ role = "primary"
      BY <3>1 DEF RefinementInv, SpoolInv, MarkerInv, Idle
    <3>3. CASE ArchiveDeleteFromSpool
      BY <3>2, <3>3 DEF ArchiveDeleteFromSpool, RefinementInv, StoreInv, InJob
    <3>4. CASE ArchiveReturns
      BY <3>2, <3>4 DEF ArchiveReturns, ArchiveListDone, RefinementInv, StoreInv, TypeOK, ArchiveState
    <3> QED
      BY <1>4, <3>2, <3>3, <3>4
  <2>2. ArchiveSuccess /\ UNCHANGED archive
    BY <1>4 DEF ArchiveDeleteFromSpool, ArchiveReturns
  <2> QED
    BY <2>1, <2>2, <1>d DEF ArchiveSuccess, WA!Acknowledge
<1> QED
  BY <1>1, <1>2, <1>3, <1>4 DEF Archive

\* Restore: a reply with success delivers a file of one of the two stores.
LEMMA RestoreRefines == RefinementInv /\ Restore => [WA!Next]_WA!vars
<1> SUFFICES ASSUME RefinementInv, Restore PROVE [WA!Next]_WA!vars
  OBVIOUS
<1> USE DEF WA!Next, WA!vars, pgVars, storeVars, spoolVars, ackVars
<1>r. rest \in RestoreState
  BY DEF RefinementInv, TypeOK
<1>u. UNCHANGED <<ready, acked, archive, source>>
  BY DEF Restore, RestoreFails, RestorePrepare, RestoreFromSpool, RestoreNotInSpool,
      checkEndOfWALStreamFlag, RestoreGather, RestoreDownload, RestoreDownloadNotFound,
      RestoreDownloadFails, RestoreReturnsError, RestoreReturns
<1>d. rest.pc # "replied"
  BY DEF Restore, RestoreFails, RestorePrepare, RestoreFromSpool, RestoreNotInSpool,
      checkEndOfWALStreamFlag, RestoreGather, RestoreDownload, RestoreDownloadNotFound,
      RestoreDownloadFails, RestoreReturnsError, RestoreReturns
<1>n. Delivered = {}
  BY <1>d DEF Delivered
<1>1. ASSUME rest'.pc # "replied" \/ rest'.code # "OK" PROVE UNCHANGED WA!vars
  BY <1>1, <1>n, <1>u DEF Delivered
<1>2. ASSUME rest'.content = "segment", rest'.wal \in archive \cup source,
             rest'.pc = "replied", rest'.code = "OK"
      PROVE  WA!Deliver
  BY <1>2, <1>n, <1>u DEF Delivered, WA!Deliver
<1>3. CASE RestoreFails \/ checkEndOfWALStreamFlag
  <2>1. rest'.code # "OK"
    BY <1>3, <1>r DEF RestoreFails, checkEndOfWALStreamFlag, RestoreReply, RestoreState
  <2> QED
    BY <1>1, <2>1
<1>4. CASE RestoreReturnsError
  <2>1. rest'.code # "OK"
    BY <1>4, <1>r, ClassifyType DEF RestoreReturnsError, RestoreReply, RestoreState
  <2> QED
    BY <1>1, <2>1
<1>5. CASE RestorePrepare \/ RestoreNotInSpool \/ RestoreGather
  <2>1. rest'.pc # "replied"
    BY <1>5, <1>r DEF RestorePrepare, RestoreNotInSpool, RestoreGather, RestoreState
  <2> QED
    BY <1>1, <2>1
<1>6. ASSUME NEW v, \/ RestoreDownload(v) \/ RestoreDownloadNotFound(v)
                    \/ RestoreDownloadFails(v)
      PROVE  UNCHANGED WA!vars
  <2>1. rest'.pc # "replied"
    BY <1>6, <1>r DEF RestoreDownload, RestoreDownloadNotFound, RestoreDownloadFails,
        RestoreState
  <2> QED
    BY <1>1, <2>1
<1>7. CASE RestoreFromSpool
  <2>1. role # "primary"
    BY <1>7 DEF RestoreFromSpool, RefinementInv, SpoolInv, DeliveryInv, Idle
  <2>2. rest.wal \in staged
    BY <1>7, <2>1 DEF RestoreFromSpool, RefinementInv, SpoolInv, MarkerInv
  <2>3. /\ rest'.content = "segment" /\ rest'.wal = rest.wal
        /\ rest'.pc = "replied" /\ rest'.code = "OK"
    BY <1>7, <1>r, <2>2 DEF RestoreFromSpool, RestoreReply, RestoreState
  <2> QED
    BY <1>2, <2>2, <2>3 DEF RefinementInv, StoreInv
<1>8. CASE RestoreReturns
  <2>1. rest.content = "segment"
    BY <1>8 DEF RestoreReturns, RefinementInv, SpoolInv, DeliveryInv
  <2>2. /\ rest'.content = "segment" /\ rest'.wal = rest.wal
        /\ rest'.pc = "replied" /\ rest'.code = "OK"
    BY <1>8, <1>r, <2>1 DEF RestoreReturns, RestoreReply, RestoreState
  <2> QED
    BY <1>2, <2>1, <2>2 DEF RefinementInv, StoreInv
<1> QED
  BY <1>3, <1>4, <1>5, <1>6, <1>7, <1>8 DEF Restore

\* PostgreSQL produces files and takes answers.
LEMMA PostgresRefines == RefinementInv /\ Postgres => [WA!Next]_WA!vars
<1> SUFFICES ASSUME RefinementInv, Postgres PROVE [WA!Next]_WA!vars
  OBVIOUS
<1> USE DEF WA!Next, WA!vars, pgVars, storeVars, spoolVars, ackVars
<1>1. CASE PgArchive \/ PgStreamLost
  BY <1>1 DEF PgArchive, PgStreamLost, Delivered
<1>2. ASSUME NEW w, PgRestore(w) PROVE UNCHANGED WA!vars
  BY <1>2 DEF PgRestore, RestoreIdle, Delivered, Idle
<1>3. CASE PgFill
  BY <1>3 DEF PgFill, SegmentComplete, Delivered, WA!Produce
<1>4. CASE PgStream
  BY <1>4 DEF PgStream, SegmentComplete, Delivered, RefinementInv, SpoolInv, DeliveryInv,
      TypeOK
<1>5. CASE PgReplay \/ PgRestoreFailed
  <2>1. Delivered' = {}
    <3>1. rest' = RestoreIdle
      BY <1>5 DEF PgReplay, PgRestoreFailed
    <3> QED
      BY <3>1 DEF RestoreIdle, Delivered, Idle
  <2>2. UNCHANGED <<ready, acked, archive, source>>
    <3>1. CASE PgReplay /\ IsWALFile(rest.wal) /\ ~rest.rewindMode
      <4>1. role \in {"standby", "recovering"}
        BY <3>1 DEF PgReplay, RefinementInv, SpoolInv, DeliveryInv, Idle
      <4> QED
        BY <3>1, <4>1 DEF PgReplay, SegmentComplete
    <3>2. CASE PgReplay /\ ~(IsWALFile(rest.wal) /\ ~rest.rewindMode)
      BY <3>2 DEF PgReplay
    <3>3. CASE PgRestoreFailed
      BY <3>3 DEF PgRestoreFailed
    <3> QED
      BY <1>5, <3>1, <3>2, <3>3
  <2> QED
    BY <2>1, <2>2 DEF WA!Take
<1> QED
  BY <1>1, <1>2, <1>3, <1>4, <1>5 DEF Postgres

\* Other pods store files; a role change or a crash is invisible.
LEMMA EnvironmentRefines == RefinementInv /\ Environment => [WA!Next]_WA!vars
<1> SUFFICES ASSUME RefinementInv, Environment PROVE [WA!Next]_WA!vars
  OBVIOUS
<1> USE DEF WA!Next, WA!vars, pgVars, storeVars, spoolVars, ackVars
<1>1. CASE PgRestart \/ Promote \/ Demote \/ RewindDone
  BY <1>1 DEF PgRestart, Promote, Demote, RewindDone, Delivered
<1>2. CASE UpstreamArchive
  BY <1>2 DEF UpstreamArchive, WA!Store, Delivered
<1>3. CASE SourceArchive
  BY <1>3 DEF SourceArchive, WA!StoreUpstream, Delivered
<1>4. CASE SidecarCrash
  <2>1. UNCHANGED Delivered
    BY <1>4 DEF SidecarCrash, RestoreReply, Delivered, RefinementInv, TypeOK, RestoreState
  <2> QED
    BY <1>4, <2>1 DEF SidecarCrash
<1> QED
  BY <1>1, <1>2, <1>3, <1>4 DEF Environment

\* Outside a replica cluster, Archive and Restore implement an archive: whatever
\* the interleaving, the prefetches, the markers, the flags, the crashes and the
\* retries, PostgreSQL sees a file acknowledged only when it is pending and stored,
\* and gets delivered only files that were stored.
THEOREM Refinement ==
    ASSUME "designated" \notin InitialRoles
    PROVE  Spec => ImplementsWalArchive
<1>1. Init => WA!Init
  BY DEF Init, WA!Init, Delivered, RestoreIdle, Idle
<1>2. RefinementInv /\ UNCHANGED vars => UNCHANGED WA!vars
  BY DEF vars, pgVars, storeVars, ackVars, WA!vars, Delivered
<1>3. RefinementInv /\ [Next]_vars => [WA!Next]_WA!vars
  BY <1>2, ArchiveRefines, RestoreRefines, PostgresRefines, EnvironmentRefines DEF Next
<1>4. Spec => []RefinementInv
  BY TypeCorrect, StoreInvariant, SpoolInvariant, PTL DEF RefinementInv
<1> QED
  BY <1>1, <1>3, <1>4, PTL DEF Spec, ImplementsWalArchive, WA!Spec

-----------------------------------------------------------------------------
(* pg_rewind and the end-of-wal-stream flag, in every cluster *)

\* From the moment it is cleared, no flag is there while a Restore on behalf of
\* pg_rewind goes on.
FlagInv ==
    /\ rest.rewindMode /\ rest.pc \in {"spool", "flag", "download"} => ~endOfWALStream
    /\ RewindLeavesNoFlag

\* Restore: the flag is cleared first on behalf of pg_rewind, and is not raised
\* again by that invocation.
LEMMA RestoreFlagInv == TypeOK /\ FlagInv /\ Restore => FlagInv'
<1> SUFFICES ASSUME TypeOK, FlagInv, Restore PROVE FlagInv'
  OBVIOUS
<1> USE DEF FlagInv, RewindLeavesNoFlag, TypeOK, RestoreState, Idle, spoolVars
<1>1. CASE RestoreFails
  BY <1>1 DEF RestoreFails, RestoreReply
<1>2. CASE RestorePrepare
  BY <1>2 DEF RestorePrepare
<1>3. CASE RestoreFromSpool
  BY <1>3 DEF RestoreFromSpool, RestoreReply
<1>4. CASE RestoreNotInSpool
  BY <1>4 DEF RestoreNotInSpool
<1>5. CASE checkEndOfWALStreamFlag
  BY <1>5 DEF checkEndOfWALStreamFlag, RestoreReply
<1>6. CASE RestoreGather
  BY <1>6 DEF RestoreGather
<1>7. ASSUME NEW v \in rest.pend, RestoreDownload(v) PROVE FlagInv'
  BY <1>7 DEF RestoreDownload
<1>8. ASSUME NEW v \in rest.pend, RestoreDownloadNotFound(v) PROVE FlagInv'
  BY <1>8 DEF RestoreDownloadNotFound
<1>9. ASSUME NEW v \in rest.pend, RestoreDownloadFails(v) PROVE FlagInv'
  BY <1>9 DEF RestoreDownloadFails
<1>10. CASE RestoreReturnsError
  <2>1. classifyWALRestoreError(rest.err) # "OK"
    BY ClassifyType
  <2> QED
    BY <1>10, <2>1 DEF RestoreReturnsError, RestoreReply
<1>11. CASE RestoreReturns
  <2>1. rest.rewindMode => ~endOfWALStream'
    BY <1>11, Zenon DEF RestoreReturns, shouldUseEndOfWALStreamFlag
  <2>2. rest'.rewindMode = rest.rewindMode /\ rest'.pc = "replied"
    BY <1>11 DEF RestoreReturns, RestoreReply
  <2> QED
    BY <2>1, <2>2
<1> QED
  BY <1>1, <1>2, <1>3, <1>4, <1>5, <1>6, <1>7, <1>8, <1>9, <1>10, <1>11 DEF Restore

\* Nobody but a Restore invocation raises the flag.
LEMMA OthersFlagInv == TypeOK /\ FlagInv /\ (Archive \/ Postgres \/ Environment) => FlagInv'
<1> SUFFICES ASSUME TypeOK, FlagInv, Archive \/ Postgres \/ Environment PROVE FlagInv'
  OBVIOUS
<1>1. UNCHANGED endOfWALStream
  BY DEF Archive, ArchiveFails, ArchiveRefused, ArchiveError, ArchivePrepare,
      ArchiveDeleteFromSpool, ArchiveNotInSpool, ArchiveGather, ArchiveUpload,
      ArchiveRemoveCheckFile, ArchiveUploadFails, ArchiveTouch, ArchiveReturns, ArchiveReturnsError,
      Postgres, PgArchive, PgRestore, PgFill, PgReplay, PgRestoreFailed, PgStream,
      PgStreamLost, Environment, PgRestart, Promote, Demote, RewindDone, UpstreamArchive,
      SourceArchive, SidecarCrash, spoolVars
<1>2. CASE UNCHANGED rest
  BY <1>1, <1>2 DEF FlagInv, RewindLeavesNoFlag
<1>3. CASE rest'.pc \in {Idle, "prepare"}
  BY <1>1, <1>3 DEF FlagInv, RewindLeavesNoFlag, Idle
<1>4. CASE rest'.pc = "replied" /\ rest'.code = "error"
  BY <1>1, <1>4 DEF FlagInv, RewindLeavesNoFlag
<1>5. CASE Archive
  <2>1. UNCHANGED rest
    BY <1>5 DEF Archive, ArchiveFails, ArchiveRefused, ArchiveError, ArchivePrepare,
      ArchiveDeleteFromSpool, ArchiveNotInSpool, ArchiveGather, ArchiveUpload,
      ArchiveRemoveCheckFile, ArchiveUploadFails, ArchiveTouch, ArchiveReturns, ArchiveReturnsError
  <2> QED
    BY <1>2, <2>1
<1>6. CASE Postgres
  <2>1. CASE PgArchive \/ PgFill \/ PgStream \/ PgStreamLost
    BY <1>2, <2>1 DEF PgArchive, PgFill, PgStream, PgStreamLost
  <2>2. CASE PgReplay \/ PgRestoreFailed
    <3>1. rest' = RestoreIdle
      BY <2>2 DEF PgReplay, PgRestoreFailed
    <3> QED
      BY <1>3, <3>1 DEF RestoreIdle
  <2>3. ASSUME NEW w, PgRestore(w) PROVE FlagInv'
    BY <1>3, <2>3 DEF PgRestore, RestoreIdle
  <2> QED
    BY <1>6, <2>1, <2>2, <2>3 DEF Postgres
<1>7. CASE Environment
  <2>1. UNCHANGED rest \/ (rest'.pc = "replied" /\ rest'.code = "error")
    BY <1>7 DEF Environment, PgRestart, Promote, Demote, RewindDone, UpstreamArchive,
      SourceArchive, SidecarCrash, RestoreReply, TypeOK, RestoreState
  <2> QED
    BY <1>2, <1>4, <2>1
<1> QED
  BY <1>5, <1>6, <1>7

\* A Restore that succeeded on behalf of pg_rewind has left no end-of-wal-stream
\* flag behind, in every cluster and after any history of the spool.
THEOREM RewindFlagSafety == Spec => []RewindLeavesNoFlag
<1>1. Init => FlagInv
  BY DEF Init, FlagInv, RewindLeavesNoFlag, RestoreIdle, Idle
<1>2. FlagInv /\ UNCHANGED vars => FlagInv'
  BY DEF FlagInv, RewindLeavesNoFlag, vars, spoolVars
<1>3. TypeOK /\ FlagInv /\ [Next]_vars => FlagInv'
  BY <1>2, RestoreFlagInv, OthersFlagInv DEF Next
<1>4. FlagInv => RewindLeavesNoFlag
  BY DEF FlagInv
<1> QED
  BY <1>1, <1>3, <1>4, TypeCorrect, PTL DEF Spec

-----------------------------------------------------------------------------
(* The end of the WAL, for pg_rewind and for a recovery job, in every cluster *)

\* A recovery job never streams, asks for the segment it needs, and is told that a
\* file is missing only by an invocation that looked for it in the store.
EndInv ==
    /\ RewindSeesArchive
    /\ InJob => ~streaming
    /\ role = "recovered" => rest.pc = Idle /\ NeededSegment \notin source
    /\ role = "recovering" /\ rest.pc # Idle =>
          /\ IsWALFile(rest.wal) => rest.wal = NeededSegment
          /\ rest.err = "ErrWALNotFound" => rest.wal \notin source
          /\ rest.pc = "replied" /\ rest.code \in {"NotFound", "OutOfRange"} =>
                rest.err = "ErrWALNotFound"

\* classifyWALRestoreError: only a file that was looked for is not found.
LEMMA ClassifyNotFound ==
    ASSUME NEW err, classifyWALRestoreError(err) \in {"NotFound", "OutOfRange"}
    PROVE  err = "ErrWALNotFound"
  BY DEF classifyWALRestoreError

\* What Restore replies leaves the rest of the invocation as it is.
LEMMA ReplyKeeps ==
    ASSUME rest \in RestoreState, NEW code, NEW content, RestoreReply(code, content)
    PROVE  /\ rest'.pc = "replied" /\ rest'.code = code /\ rest'.wal = rest.wal
           /\ rest'.err = rest.err /\ rest'.rewindMode = rest.rewindMode
  BY DEF RestoreReply, RestoreState

\* Restore: neither pg_rewind nor a recovery job uses the flag, so that every answer
\* of a missing file comes from a download.
LEMMA RestoreEndInv == TypeOK /\ EndInv /\ Restore => EndInv'
<1> SUFFICES ASSUME TypeOK, EndInv, Restore PROVE EndInv'
  OBVIOUS
<1> USE DEF EndInv, RewindSeesArchive, InJob, NeededSegment, Idle, pgVars, storeVars
<1>1. rest \in RestoreState
  BY DEF TypeOK
<1>2. CASE RestoreFails
  <2>1. RestoreReply("error", "none")
    BY <1>2 DEF RestoreFails
  <2> QED
    BY <1>1, <1>2, <2>1, ReplyKeeps DEF RestoreFails
<1>3. CASE RestorePrepare \/ RestoreNotInSpool \/ RestoreGather
  <2>1. /\ rest.pc # Idle /\ rest'.pc # "replied" /\ rest'.pc # Idle
        /\ rest'.wal = rest.wal /\ rest'.err = rest.err
    BY <1>1, <1>3 DEF RestorePrepare, RestoreNotInSpool, RestoreGather, RestoreState
  <2>2. UNCHANGED <<pgVars, storeVars>>
    BY <1>3 DEF RestorePrepare, RestoreNotInSpool, RestoreGather
  <2> QED
    BY <2>1, <2>2
<1>4. CASE RestoreFromSpool
  BY <1>1, <1>4, ReplyKeeps DEF RestoreFromSpool
<1>5. CASE checkEndOfWALStreamFlag
  <2>1. ~rest.rewindMode /\ role # "recovering"
    BY <1>5 DEF checkEndOfWALStreamFlag, shouldUseEndOfWALStreamFlag, isStreamingAvailable
  <2> QED
    BY <1>1, <1>5, <2>1, ReplyKeeps DEF checkEndOfWALStreamFlag
<1>6. ASSUME NEW v \in rest.pend, RestoreDownload(v) PROVE EndInv'
  BY <1>1, <1>6 DEF RestoreDownload, RestoreState
<1>7. ASSUME NEW v \in rest.pend, RestoreDownloadNotFound(v) PROVE EndInv'
  BY <1>1, <1>7 DEF RestoreDownloadNotFound, RestoreState, restoreStore
<1>8. ASSUME NEW v \in rest.pend, RestoreDownloadFails(v) PROVE EndInv'
  BY <1>1, <1>8 DEF RestoreDownloadFails, RestoreState
<1>9. CASE RestoreReturnsError
  <2>1. RestoreReply(classifyWALRestoreError(rest.err), "none") /\ rest.pc # Idle
    BY <1>9 DEF RestoreReturnsError
  <2>2. rest'.code \in {"NotFound", "OutOfRange"} => rest'.err = "ErrWALNotFound"
    BY <1>1, <2>1, ReplyKeeps, ClassifyNotFound
  <2> QED
    BY <1>1, <1>9, <2>1, <2>2, ReplyKeeps DEF RestoreReturnsError
<1>10. CASE RestoreReturns
  BY <1>1, <1>10, ReplyKeeps DEF RestoreReturns
<1> QED
  BY <1>2, <1>3, <1>4, <1>5, <1>6, <1>7, <1>8, <1>9, <1>10 DEF Restore

\* Archive and PostgreSQL: the recovery ends with a segment that was looked for.
LEMMA PostgresEndInv == TypeOK /\ EndInv /\ (Archive \/ Postgres) => EndInv'
<1> SUFFICES ASSUME TypeOK, EndInv, Archive \/ Postgres PROVE EndInv'
  OBVIOUS
<1> USE DEF EndInv, RewindSeesArchive, InJob, NeededSegment, Idle, pgVars, storeVars
<1>1. CASE Archive
  <2>1. UNCHANGED <<pgVars, source, rest>>
    BY <1>1 DEF Archive, ArchiveFails, ArchiveRefused, ArchiveError, ArchivePrepare,
        ArchiveDeleteFromSpool, ArchiveNotInSpool, ArchiveGather, ArchiveUpload,
        ArchiveRemoveCheckFile, ArchiveUploadFails, ArchiveTouch, ArchiveReturns, ArchiveReturnsError
  <2> QED
    BY <2>1
<1>2. CASE PgArchive \/ PgFill \/ PgStream \/ PgStreamLost
  BY <1>2 DEF PgArchive, PgFill, PgStream, PgStreamLost, SegmentComplete
<1>3. ASSUME NEW w, PgRestore(w) PROVE EndInv'
  <2>1. /\ rest'.pc = "prepare" /\ rest'.wal = w /\ rest'.err = "none"
        /\ rest.pc = Idle /\ w \in RestoreRequests
    BY <1>3 DEF PgRestore, RestoreIdle
  <2>2. role # "recovered"
    BY <2>1 DEF RestoreRequests
  <2>3. role = "recovering" /\ IsWALFile(w) => w = NeededSegment
    BY <2>1 DEF RestoreRequests, HistoryFile, IsWALFile
  <2> QED
    BY <1>3, <2>1, <2>2, <2>3 DEF PgRestore
<1>4. CASE PgReplay
  BY <1>4 DEF PgReplay, RestoreIdle
<1>5. CASE PgRestoreFailed
  BY <1>5 DEF PgRestoreFailed, RestoreIdle
<1> QED
  BY <1>1, <1>2, <1>3, <1>4, <1>5 DEF Postgres

\* Role changes do not concern the job; a crash only turns an invocation into an error.
LEMMA EnvironmentEndInv == TypeOK /\ EndInv /\ Environment => EndInv'
<1> SUFFICES ASSUME TypeOK, EndInv, Environment PROVE EndInv'
  OBVIOUS
<1> USE DEF EndInv, RewindSeesArchive, InJob, NeededSegment, Idle, pgVars, storeVars
<1>1. CASE PgRestart \/ Promote \/ Demote \/ RewindDone \/ UpstreamArchive \/ SourceArchive
  BY <1>1 DEF PgRestart, Promote, Demote, RewindDone, UpstreamArchive, SourceArchive
<1>2. CASE SidecarCrash
  <2>1. CASE rest.pc \in {Idle, "replied"}
    BY <1>2, <2>1 DEF SidecarCrash
  <2>2. CASE rest.pc \notin {Idle, "replied"}
    BY <1>2, <2>2, ReplyKeeps DEF SidecarCrash, TypeOK
  <2> QED
    BY <2>1, <2>2
<1> QED
  BY <1>1, <1>2 DEF Environment

\* EndInv is an invariant of the WAL service.
LEMMA EndInvariant == Spec => []EndInv
<1>1. Init => EndInv
  BY ConstantsAssumption DEF Init, EndInv, RewindSeesArchive, InJob, RestoreIdle, Idle
<1>2. EndInv /\ UNCHANGED vars => EndInv'
  BY DEF EndInv, RewindSeesArchive, InJob, NeededSegment, vars, pgVars, storeVars
<1>3. TypeOK /\ EndInv /\ [Next]_vars => EndInv'
  BY <1>2, RestoreEndInv, PostgresEndInv, EnvironmentEndInv DEF Next
<1> QED
  BY <1>1, <1>3, TypeCorrect, PTL DEF Spec

\* pg_rewind is told that a segment is not available only after the invocation looked
\* for it in the object store, in every cluster: no flag and no transient error of
\* Restore passes for a missing file.
THEOREM RewindSafety == Spec => []RewindSeesArchive
<1>1. EndInv => RewindSeesArchive
  BY DEF EndInv
<1> QED
  BY <1>1, EndInvariant, PTL

\* The recovery of a new cluster does not end before a segment that the archive of
\* its source has, whatever Restore prefetched, missed or failed to download.
THEOREM RecoverySafety == Spec => []RecoversToTheEnd
<1>1. EndInv => RecoversToTheEnd
  BY DEF EndInv, RecoversToTheEnd
<1> QED
  BY <1>1, EndInvariant, PTL

-----------------------------------------------------------------------------
(* The files of another cluster, in every cluster *)

\* The destination is still to be checked, and another cluster left a file in it.
Occupied == CheckEnabled /\ checkFile /\ ForeignWal \in archive

\* What this pod completes and archives is never the file of the other cluster: it is
\* past the segments of the database, which a pod with a request in progress may not
\* have replayed to their end.
OwnInv ==
    /\ ForeignWal \notin ready \cup arch.pend \cup arch.sent
    /\ arch.pc # Idle => arch.wal # ForeignWal
    /\ rest.pc # Idle =>
          /\ ~streaming
          /\ role \in {"standby", "designated", "rewinding", "recovering"}
          /\ role = "rewinding" => rest.rewindMode
          /\ role = "designated" => next <= LastSegment

\* No invocation has got past the check of such a destination.  The property alone is
\* not inductive: it does not say how far the invocation in progress has come, nor
\* that it cannot occupy the destination itself.
MixInv == OwnInv /\ (Occupied => arch.pc \in {Idle, "prepare"})

\* A segment that PostgreSQL completes within the database is its own.
LEMMA OwnSegment ==
    ASSUME TypeOK, next <= LastSegment
    PROVE  NeededSegment # ForeignWal
  BY ConstantsAssumption DEF TypeOK, NeededSegment, ForeignWal

\* Whether the operator sends a decision or none, the destination is checked.
LEMMA CheckIsMade ==
    ASSUME CheckEnabled, checkFile, NEW d \in operatorDecisions
    PROVE  resolveArchiveEmptyWalArchiveCheck(d, CheckEnabled, checkFile)
  BY DEF operatorDecisions, resolveArchiveEmptyWalArchiveCheck

\* The steps of the parallel uploads add no file to the list and keep the request.
LEMMA TransferKeepsTheList ==
    ASSUME arch \in ArchiveState, NEW v,
           \/ ArchiveUpload(v) \/ ArchiveRemoveCheckFile(v)
           \/ ArchiveUploadFails(v) \/ ArchiveTouch(v)
    PROVE  /\ arch.pc # Idle /\ arch'.wal = arch.wal
           /\ arch'.pend \cup arch'.sent \subseteq arch.pend \cup arch.sent
<1> USE DEF ArchiveState, Idle
<1>1. CASE ArchiveUpload(v)
  BY <1>1 DEF ArchiveUpload
<1>2. CASE ArchiveRemoveCheckFile(v)
  BY <1>2 DEF ArchiveRemoveCheckFile
<1>3. CASE ArchiveUploadFails(v)
  BY <1>3 DEF ArchiveUploadFails
<1>4. CASE ArchiveTouch(v)
  BY <1>4 DEF ArchiveTouch
<1> QED
  BY <1>1, <1>2, <1>3, <1>4

\* Archive: what is uploaded is ready or requested.
LEMMA ArchiveOwnInv == TypeOK /\ OwnInv /\ Archive => OwnInv'
<1> SUFFICES ASSUME TypeOK, OwnInv, Archive PROVE OwnInv'
  OBVIOUS
<1> USE DEF OwnInv, Idle, pgVars, ackVars
<1>1. arch \in ArchiveState
  BY DEF TypeOK
<1>2. UNCHANGED <<role, next, streaming, rest>> /\ ready' \subseteq ready
  BY DEF Archive, ArchiveFails, ArchiveRefused, ArchiveError, ArchivePrepare,
      ArchiveDeleteFromSpool, ArchiveNotInSpool, ArchiveGather, ArchiveUpload,
      ArchiveRemoveCheckFile, ArchiveUploadFails, ArchiveTouch, ArchiveReturns,
      ArchiveReturnsError, ArchiveSuccess
<1>3. \/ arch' = ArchiveIdle
      \/ /\ arch.pc # Idle /\ arch'.wal = arch.wal
         /\ arch'.pend \cup arch'.sent \subseteq
                arch.pend \cup arch.sent \cup ready \cup {arch.wal}
  <2>1. CASE \/ ArchiveFails \/ ArchiveRefused \/ ArchiveDeleteFromSpool
             \/ ArchiveReturns \/ ArchiveReturnsError
    BY <2>1 DEF ArchiveFails, ArchiveRefused, ArchiveDeleteFromSpool, ArchiveReturns,
        ArchiveReturnsError, ArchiveError, ArchiveSuccess
  <2>2. CASE ArchivePrepare \/ ArchiveNotInSpool
    BY <1>1, <2>2 DEF ArchivePrepare, ArchiveNotInSpool, ArchiveState
  <2>3. CASE ArchiveGather
    BY <1>1, <2>3 DEF ArchiveGather, GatherReadyWALFiles, ArchiveState
  <2> QED
    BY <1>1, <2>1, <2>2, <2>3, TransferKeepsTheList DEF Archive
<1> QED
  BY <1>2, <1>3 DEF ArchiveIdle

\* Restore changes neither the role nor what is ready.
LEMMA RestoreOwnInv == TypeOK /\ OwnInv /\ Restore => OwnInv'
<1> SUFFICES ASSUME TypeOK, OwnInv, Restore PROVE OwnInv'
  OBVIOUS
<1> USE DEF OwnInv, pgVars, ackVars
<1>1. UNCHANGED <<role, next, streaming, ready, arch>>
  BY DEF Restore, RestoreFails, RestorePrepare, RestoreFromSpool, RestoreNotInSpool,
      checkEndOfWALStreamFlag, RestoreGather, RestoreDownload, RestoreDownloadNotFound,
      RestoreDownloadFails, RestoreReturnsError, RestoreReturns
<1>2. rest.pc # Idle
  BY DEF Restore, RestoreFails, RestorePrepare, RestoreFromSpool, RestoreNotInSpool,
      checkEndOfWALStreamFlag, RestoreGather, RestoreDownload, RestoreDownloadNotFound,
      RestoreDownloadFails, RestoreReturnsError, RestoreReturns, Idle
<1>r. rest \in RestoreState
  BY DEF TypeOK
<1>3. rest'.rewindMode = rest.rewindMode
  <2>1. CASE RestorePrepare \/ RestoreNotInSpool \/ RestoreGather
    BY <1>r, <2>1 DEF RestorePrepare, RestoreNotInSpool, RestoreGather, RestoreState
  <2>2. CASE \/ RestoreFails \/ RestoreFromSpool \/ checkEndOfWALStreamFlag
             \/ RestoreReturnsError \/ RestoreReturns
    BY <1>r, <2>2 DEF RestoreFails, RestoreFromSpool, checkEndOfWALStreamFlag,
        RestoreReturnsError, RestoreReturns, RestoreReply, RestoreState
  <2>3. ASSUME NEW v, \/ RestoreDownload(v) \/ RestoreDownloadNotFound(v)
                      \/ RestoreDownloadFails(v)
        PROVE  rest'.rewindMode = rest.rewindMode
    BY <1>r, <2>3 DEF RestoreDownload, RestoreDownloadNotFound, RestoreDownloadFails,
        RestoreState
  <2> QED
    BY <2>1, <2>2, <2>3 DEF Restore
<1> QED
  BY <1>1, <1>2, <1>3

\* PostgreSQL completes segments of the database only: filled, streamed, or replayed
\* by a designated primary that asked for one.
LEMMA PostgresOwnInv == TypeOK /\ OwnInv /\ Postgres => OwnInv'
<1> SUFFICES ASSUME TypeOK, OwnInv, Postgres PROVE OwnInv'
  OBVIOUS
<1> USE DEF OwnInv, Idle, pgVars, ackVars
<1>1. CASE PgArchive
  BY <1>1 DEF PgArchive, ArchiveIdle
<1>2. ASSUME NEW w \in RestoreRequests, PgRestore(w) PROVE OwnInv'
  BY <1>2 DEF PgRestore, RestoreRequests, RestoreIdle, TypeOK, RestoreState
<1>3. CASE PgFill
  BY <1>3, OwnSegment DEF PgFill, SegmentComplete
<1>4. CASE PgReplay
  <2>1. rest'.pc = Idle /\ UNCHANGED arch
    BY <1>4 DEF PgReplay, RestoreIdle
  <2>2. CASE IsWALFile(rest.wal) /\ ~rest.rewindMode
    <3>1. role \in {"standby", "recovering"} \/ (role = "designated" /\ next <= LastSegment)
      BY <1>4, <2>2 DEF PgReplay
    <3> QED
      BY <1>4, <2>1, <2>2, <3>1, OwnSegment DEF PgReplay, SegmentComplete
  <2>3. CASE ~(IsWALFile(rest.wal) /\ ~rest.rewindMode)
    BY <1>4, <2>1, <2>3 DEF PgReplay
  <2> QED
    BY <2>2, <2>3
<1>5. CASE PgRestoreFailed
  BY <1>5 DEF PgRestoreFailed, RestoreIdle
<1>6. CASE PgStream
  BY <1>6, OwnSegment DEF PgStream, SegmentComplete
<1>7. CASE PgStreamLost
  BY <1>7 DEF PgStreamLost
<1> QED
  BY <1>1, <1>2, <1>3, <1>4, <1>5, <1>6, <1>7 DEF Postgres

\* A role changes while no request is in progress.
LEMMA EnvironmentOwnInv == TypeOK /\ OwnInv /\ Environment => OwnInv'
<1> SUFFICES ASSUME TypeOK, OwnInv, Environment PROVE OwnInv'
  OBVIOUS
<1> USE DEF OwnInv, Idle, pgVars, ackVars
<1>1. CASE PgRestart \/ Promote \/ Demote \/ RewindDone
  BY <1>1 DEF PgRestart, Promote, Demote, RewindDone
<1>2. CASE UpstreamArchive \/ SourceArchive
  BY <1>2 DEF UpstreamArchive, SourceArchive
<1>3. CASE SidecarCrash
  <2>1. /\ UNCHANGED <<role, next, streaming, ready>> /\ arch' = ArchiveIdle
        /\ rest.pc = Idle => rest' = rest
        /\ rest'.rewindMode = rest.rewindMode
    BY <1>3 DEF SidecarCrash, RestoreReply, TypeOK, RestoreState
  <2> QED
    BY <2>1 DEF ArchiveIdle
<1> QED
  BY <1>1, <1>2, <1>3 DEF Environment

\* Archive: ArchivePrepare lets nothing through, and what is uploaded after it does
\* not occupy the destination.
LEMMA ArchiveMixInv ==
    TypeOK /\ MixInv /\ Archive =>
        MixInv' /\ (Occupied => UNCHANGED <<archive, acked>>)
<1> SUFFICES ASSUME TypeOK, MixInv, Archive
             PROVE  /\ Occupied' => arch'.pc \in {Idle, "prepare"}
                    /\ Occupied => UNCHANGED <<archive, acked>>
  BY ArchiveOwnInv DEF MixInv
<1> USE DEF MixInv, OwnInv, Occupied, Idle, storeVars, ackVars
<1>1. arch \in ArchiveState
  BY DEF TypeOK
<1> DEFINE Goal == /\ Occupied' => arch'.pc \in {Idle, "prepare"}
                   /\ Occupied => UNCHANGED <<archive, acked>>
<1>2. CASE ArchiveFails \/ ArchiveRefused \/ ArchiveReturnsError
  BY <1>2 DEF ArchiveFails, ArchiveRefused, ArchiveReturnsError, ArchiveError, ArchiveIdle
<1>3. CASE ArchivePrepare
  <2>1. ~Occupied
    BY <1>3, CheckIsMade DEF ArchivePrepare, CheckBackupDestination
  <2> QED
    BY <1>3, <2>1 DEF ArchivePrepare
<1>4. CASE ArchiveDeleteFromSpool \/ ArchiveReturns
  BY <1>4 DEF ArchiveDeleteFromSpool, ArchiveReturns, ArchiveListDone, ArchiveSuccess,
      ArchiveIdle
<1>5. CASE ArchiveNotInSpool \/ ArchiveGather
  BY <1>5 DEF ArchiveNotInSpool, ArchiveGather
<1>6. ASSUME NEW v \in arch.pend, ArchiveUpload(v) PROVE Goal
  BY <1>6 DEF ArchiveUpload
<1>7. ASSUME NEW v \in arch.pend \cup arch.sent, ArchiveUploadFails(v) PROVE Goal
  BY <1>7 DEF ArchiveUploadFails
<1>8. ASSUME NEW v, ArchiveRemoveCheckFile(v) \/ ArchiveTouch(v) PROVE Goal
  BY <1>8 DEF ArchiveRemoveCheckFile, ArchiveTouch
<1> QED
  BY <1>2, <1>3, <1>4, <1>5, <1>6, <1>7, <1>8 DEF Archive

\* Elsewhere only the primary of another pod archives, and it does not produce the
\* file that was there before.
LEMMA OthersMixInv ==
    TypeOK /\ MixInv /\ (Restore \/ Postgres \/ Environment) =>
        /\ MixInv'
        /\ acked' = acked
        /\ archive' = archive \/ role = "standby"
<1> SUFFICES ASSUME TypeOK, MixInv, Restore \/ Postgres \/ Environment
             PROVE  /\ Occupied' => arch'.pc \in {Idle, "prepare"}
                    /\ acked' = acked
                    /\ archive' = archive \/ role = "standby"
  BY RestoreOwnInv, PostgresOwnInv, EnvironmentOwnInv DEF MixInv
<1> USE DEF MixInv, Occupied, Idle, storeVars, ackVars
<1>1. CASE Restore
  <2>1. ASSUME NEW v, \/ RestoreDownload(v) \/ RestoreDownloadNotFound(v)
                      \/ RestoreDownloadFails(v)
        PROVE  UNCHANGED <<archive, acked, checkFile, arch>>
    BY <2>1 DEF RestoreDownload, RestoreDownloadNotFound, RestoreDownloadFails
  <2>2. UNCHANGED <<archive, acked, checkFile, arch>>
    BY <1>1, <2>1 DEF Restore, RestoreFails, RestorePrepare, RestoreFromSpool,
        RestoreNotInSpool, checkEndOfWALStreamFlag, RestoreGather, RestoreReturnsError,
        RestoreReturns
  <2> QED
    BY <2>2
<1>2. CASE PgArchive
  BY <1>2 DEF PgArchive, ArchiveIdle
<1>3. CASE Postgres /\ ~PgArchive
  <2>1. ASSUME NEW w, PgRestore(w) PROVE UNCHANGED <<archive, acked, checkFile, arch>>
    BY <2>1 DEF PgRestore
  <2>2. UNCHANGED <<archive, acked, checkFile, arch>>
    BY <1>3, <2>1 DEF Postgres, PgFill, PgReplay, PgRestoreFailed, PgStream, PgStreamLost
  <2> QED
    BY <2>2
<1>4. CASE UpstreamArchive
  <2>1. \A w \in UpstreamFiles(archive) : w # ForeignWal
    BY ConstantsAssumption DEF UpstreamFiles, ForeignWal
  <2>2. ForeignWal \in archive' => ForeignWal \in archive
    BY <1>4, <2>1 DEF UpstreamArchive
  <2> QED
    BY <1>4, <2>2 DEF UpstreamArchive
<1>5. CASE SidecarCrash
  BY <1>5 DEF SidecarCrash, ArchiveIdle
<1>6. CASE PgRestart \/ Promote \/ Demote \/ RewindDone \/ SourceArchive
  BY <1>6 DEF PgRestart, Promote, Demote, RewindDone, SourceArchive
<1> QED
  BY <1>1, <1>2, <1>3, <1>4, <1>5, <1>6 DEF Environment

\* A new cluster that checks its destination neither stores a file next to the files
\* of another cluster nor acknowledges one, under every operator release and through
\* crashes, retries and role changes.
THEOREM MixSafety == Spec => NeverMixesArchives
<1>1. Init => MixInv
  BY DEF Init, MixInv, OwnInv, ArchiveIdle, RestoreIdle, Idle
<1>2. MixInv /\ UNCHANGED vars => MixInv'
  BY DEF MixInv, OwnInv, Occupied, vars, pgVars, storeVars, ackVars
<1>3. TypeOK /\ MixInv /\ [Next]_vars => MixInv'
  BY <1>2, ArchiveMixInv, OthersMixInv DEF Next
<1>4. TypeOK /\ MixInv /\ [Next]_vars =>
        [CheckEnabled /\ checkFile /\ ForeignWal \in archive
            => (archive' = archive \/ role = "standby") /\ acked' = acked]_vars
  BY ArchiveMixInv, OthersMixInv DEF Next, Occupied
<1> QED
  BY <1>1, <1>3, <1>4, TypeCorrect, PTL DEF Spec, NeverMixesArchives

=============================================================================
