---------------------------- MODULE WalSegments ----------------------------
(***************************************************************************)
(* WAL file names: internal/cnpgi/common/wal_import.go and                 *)
(* gatherWALFilesToRestore of wal.go, with the loop of NextSegments as the *)
(* steps of the module.                                                    *)
(*                                                                         *)
(* A name is a kind and three groups of hexadecimal digits, that is three  *)
(* unsigned words; a Segment holds three signed words.  The code's word    *)
(* has 2^32 values (eight digits) and its default segment 2^24 bytes.      *)
(***************************************************************************)
EXTENDS Integers, Sequences, FiniteSets

CONSTANTS
    WordSize,        \* how many numbers a group of digits can hold: 2^32
    SegmentSize,     \* the segment size handed to NextSegments
    Timelines, Logs, Segs,  \* the groups of digits of the names that are requested
    MaxParallel      \* bound: the size handed to NextSegments

\* A segment divides a file (both sizes are powers of two), and is not so small that
\* the count of the segments of a file overflows a signed word (PostgreSQL's smallest
\* one has 2^20 bytes).  A list longer than there are words would come round to its start.
ASSUME ConstantsAssumption ==
    /\ WordSize \in Nat \ {0} /\ WordSize % 2 = 0
    /\ SegmentSize \in Nat /\ SegmentSize >= 4 /\ WordSize % SegmentSize = 0
    /\ \A S \in {Timelines, Logs, Segs} : S \subseteq 0 .. WordSize - 1
    /\ MaxParallel \in 1 .. WordSize

VARIABLES
    walName,         \* the requested name
    size,            \* how many names are asked for
    skipLastSegment, \* the PostgreSQL version is known and older than 9.3
    currentSegment, result,
    done

vars == <<walName, size, skipLastSegment, currentSegment, result, done>>

MaxInt == WordSize \div 2 - 1

Int32 == -(MaxInt + 1) .. MaxInt

Kinds == {"segment", "partial", "backup", "history"}

Name(tli, log, seg) == [kind |-> "segment", tli |-> tli, log |-> log, seg |-> seg]

IsWALFile(name) == name.kind = "segment"

\* ParseInt with the width of the word: the upper half of the words is refused.
Parses(name) == IsWALFile(name) /\ {name.tli, name.log, name.seg} \subseteq 0 .. MaxInt

\* The zero Segment comes with the error.
SegmentFromName(name) ==
    IF Parses(name) THEN [Tli |-> name.tli, Log |-> name.log, Seg |-> name.seg]
                    ELSE [Tli |-> 0, Log |-> 0, Seg |-> 0]

\* Segment.Name: a negative number prints a sign among the digits.
SegmentName(s) ==
    IF {s.Tli, s.Log, s.Seg} \subseteq Nat
    THEN Name(s.Tli, s.Log, s.Seg)
    ELSE [Name(s.Tli, s.Log, s.Seg) EXCEPT !.kind = "invalid"]

\* Mutant: the increment of a wider integer.
Mut_WideInc(i) == i + 1

\* The increment of a signed word.
Inc(i) == IF i = MaxInt THEN -(MaxInt + 1) ELSE i + 1

\* Mutant: the quotient is taken of the number of bytes, not of the last of them.
Mut_SegmentsPerFile == WordSize \div SegmentSize

\* The last segment number of a file, despite its name: the division is of the
\* largest word.
WalSegmentsPerFile == (WordSize - 1) \div SegmentSize

\* What the loop of NextSegments does to currentSegment.
NextSegment(s, skip) ==
    LET seg == Inc(s.Seg) IN
    IF seg > WalSegmentsPerFile \/ (skip /\ seg = WalSegmentsPerFile)
    THEN [s EXCEPT !.Log = Inc(@), !.Seg = 0]
    ELSE [s EXCEPT !.Seg = seg]

Names == [kind : Kinds, tli : Timelines, log : Logs, seg : Segs]

Init ==
    /\ walName \in Names
    /\ size \in 1 .. MaxParallel
    /\ skipLastSegment \in BOOLEAN
    /\ currentSegment = SegmentFromName(walName)
    /\ result = <<>>
    /\ done = FALSE

\* Mutant: the zero Segment that comes with the error is used.
Mut_FetchZeroSegment ==
    /\ ~done /\ ~Parses(walName)
    /\ result' = <<SegmentName(currentSegment)>>
    /\ done' = TRUE
    /\ UNCHANGED <<walName, size, skipLastSegment, currentSegment>>

\* A name that is no segment, or whose numbers do not fit, is fetched alone.
FetchAlone ==
    /\ ~done /\ ~Parses(walName)
    /\ result' = <<walName>>
    /\ done' = TRUE
    /\ UNCHANGED <<walName, size, skipLastSegment, currentSegment>>

\* One turn of the loop of NextSegments.
AppendSegment ==
    /\ ~done /\ Parses(walName) /\ Len(result) < size
    /\ result' = Append(result, SegmentName(currentSegment))
    /\ currentSegment' = NextSegment(currentSegment, skipLastSegment)
    /\ UNCHANGED <<walName, size, skipLastSegment, done>>

ReturnList ==
    /\ ~done /\ Parses(walName) /\ Len(result) = size
    /\ done' = TRUE
    /\ UNCHANGED <<walName, size, skipLastSegment, currentSegment, result>>

Next == FetchAlone \/ AppendSegment \/ ReturnList

Spec == Init /\ [][Next]_vars

-----------------------------------------------------------------------------
(* Reference: PostgreSQL numbers the segments of a timeline consecutively *)

\* Segments in a file: all that fit, the last one left out before 9.3.
SegmentsInFile == WordSize \div SegmentSize - (IF skipLastSegment THEN 1 ELSE 0)

NumberedName(tli, n) == Name(tli, n \div SegmentsInFile, n % SegmentsInFile)

RequestedNumber == walName.log * SegmentsInFile + walName.seg

\* The request is a name PostgreSQL uses, and the numbering does not run out of
\* signed words before the list ends.
InRange ==
    /\ Parses(walName)
    /\ walName.seg < SegmentsInFile
    /\ RequestedNumber + size <= (MaxInt + 1) * SegmentsInFile

-----------------------------------------------------------------------------
(* Properties *)

\* Every variable has its type.
TypeOK ==
    /\ walName \in Names
    /\ size \in 1 .. MaxParallel
    /\ skipLastSegment \in BOOLEAN /\ done \in BOOLEAN
    /\ currentSegment \in [Tli : Int32, Log : Int32, Seg : Int32]
    /\ result \in Seq([kind : Kinds \cup {"invalid"}, tli : Int, log : Int, seg : Int])

\* The names the restorer prefetches are the ones PostgreSQL asks for next:
\* consecutive segments across the end of a file, on the timeline of the request.
PrefetchFollowsPostgres ==
    InRange => \A i \in 1 .. Len(result) :
        result[i] = NumberedName(walName.tli, RequestedNumber + i - 1)

\* The list starts with the request, whatever its kind, and names no file twice:
\* the caller takes the first result for the requested file, and two downloads
\* never write the same spool file.
RequestComesFirst ==
    done => /\ result[1] = walName
            /\ Cardinality({result[i] : i \in 1 .. Len(result)}) = Len(result)

=============================================================================
