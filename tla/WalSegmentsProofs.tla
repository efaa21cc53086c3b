------------------------- MODULE WalSegmentsProofs -------------------------
(***************************************************************************)
(* Proofs about the names that NextSegments computes, for every size of a  *)
(* word, of a segment and of the list: where a file ends, and that no sum  *)
(* of the code leaves the signed words.                                    *)
(***************************************************************************)
EXTENDS WalSegments, Functions, FiniteSetTheorems, TLAPS

-----------------------------------------------------------------------------
(* Arithmetic *)

\* Quotient and remainder.
LEMMA QuotientRemainder ==
    ASSUME NEW n \in Nat, NEW d \in Nat \ {0}
    PROVE  n \div d \in Nat /\ n % d \in 0 .. d - 1 /\ n = d * (n \div d) + (n % d)
  OBVIOUS

\* A product grows with its factors.
LEMMA ProductGrows ==
    ASSUME NEW d \in Nat, NEW a \in Nat, NEW b \in Nat, a <= b
    PROVE  d * a \in Nat /\ d * b \in Nat /\ d * a <= d * b /\ d * (a + 1) = d * a + d
  OBVIOUS

\* There is one way to write a number as a multiple and a remainder.
LEMMA QuotientUnique ==
    ASSUME NEW d \in Nat \ {0}, NEW q \in Nat, NEW r \in 0 .. d - 1,
           NEW n \in Nat, n = d * q + r
    PROVE  n \div d = q /\ n % d = r
<1> DEFINE p == n \div d
           s == n % d
<1>1. p \in Nat /\ s \in 0 .. d - 1 /\ n = d * p + s
  BY QuotientRemainder
<1> HIDE DEF p, s
<1>2. ~(p < q)
  <2> SUFFICES ASSUME p < q PROVE FALSE
    OBVIOUS
  <2>1. d * (p + 1) <= d * q /\ d * p \in Nat /\ d * q \in Nat /\ d * (p + 1) = d * p + d
    BY <1>1, ProductGrows
  <2> QED
    BY <1>1, <2>1
<1>3. ~(q < p)
  <2> SUFFICES ASSUME q < p PROVE FALSE
    OBVIOUS
  <2>1. d * (q + 1) <= d * p /\ d * p \in Nat /\ d * q \in Nat /\ d * (q + 1) = d * q + d
    BY <1>1, ProductGrows
  <2> QED
    BY <1>1, <2>1
<1>4. p = q
  BY <1>1, <1>2, <1>3
<1> QED
  BY <1>1, <1>4 DEF p, s

-----------------------------------------------------------------------------
(* Words and files *)

\* The signed words are half of the words.
LEMMA HalfWord == MaxInt \in Nat /\ WordSize = 2 * (MaxInt + 1)
<1>1. WordSize \in Nat \ {0} /\ WordSize % 2 = 0
  BY ConstantsAssumption
<1> QED
  BY <1>1 DEF MaxInt

\* The code's quotient of the largest word is the number of the last segment of a file,
\* and the next number is still a signed word.
LEMMA LastOfFile ==
    /\ WordSize \div SegmentSize \in Nat \ {0}
    /\ WalSegmentsPerFile = WordSize \div SegmentSize - 1
    /\ WordSize \div SegmentSize <= MaxInt
<1> DEFINE k == SegmentSize
           m == WordSize \div SegmentSize
<1>1. k \in Nat \ {0} /\ k >= 4 /\ WordSize \in Nat \ {0} /\ WordSize % k = 0
  BY ConstantsAssumption
<1>2. m \in Nat /\ WordSize = k * m
  BY <1>1, QuotientRemainder
<1> HIDE DEF m, k
<1>3. m # 0
  BY <1>1, <1>2
<1>4. k * ((m - 1) + 1) = k * (m - 1) + k
  BY <1>1, <1>2, <1>3, ProductGrows
<1>5. WordSize - 1 = k * (m - 1) + (k - 1)
  BY <1>1, <1>2, <1>3, <1>4
<1>6. (WordSize - 1) \div k = m - 1
  BY <1>1, <1>2, <1>3, <1>5, QuotientUnique
<1>7. 4 * m <= k * m
  BY <1>1, <1>2
<1>8. m <= MaxInt
  BY <1>2, <1>3, <1>7, HalfWord
<1> QED
  BY <1>2, <1>3, <1>6, <1>8 DEF WalSegmentsPerFile, m, k

\* The increment of a signed word is one, and wraps past the largest one only.
LEMMA IncType ==
    ASSUME NEW i \in Int32
    PROVE  Inc(i) \in Int32 /\ (i < MaxInt => Inc(i) = i + 1)
  BY HalfWord DEF Inc, Int32

SegmentType == [Tli : Int32, Log : Int32, Seg : Int32]

\* What is parsed fits a signed word.
LEMMA SegmentFromNameType ==
    ASSUME NEW name \in Names
    PROVE  SegmentFromName(name) \in SegmentType
<1>1. 0 .. MaxInt \subseteq Int32 /\ 0 \in Int32
  BY HalfWord DEF Int32
<1> QED
  BY <1>1 DEF SegmentFromName, Parses, SegmentType

\* The loop stays in the signed words.
LEMMA NextSegmentType ==
    ASSUME NEW s \in SegmentType, NEW skip \in BOOLEAN
    PROVE  NextSegment(s, skip) \in SegmentType
<1>1. s.Log \in Int32 /\ s.Seg \in Int32 /\ 0 \in Int32
  BY HalfWord DEF SegmentType, Int32
<1>2. Inc(s.Log) \in Int32 /\ Inc(s.Seg) \in Int32
  BY <1>1, IncType
<1> QED
  BY <1>1, <1>2 DEF NextSegment, SegmentType

NameType == [kind : Kinds \cup {"invalid"}, tli : Int, log : Int, seg : Int]

\* Every segment has a name, if not always a valid one.
LEMMA SegmentNameType ==
    ASSUME NEW s \in SegmentType
    PROVE  /\ SegmentName(s) \in NameType
           /\ s.Tli >= 0 /\ s.Log >= 0 /\ s.Seg >= 0
              => SegmentName(s) = Name(s.Tli, s.Log, s.Seg)
<1>1. s.Tli \in Int /\ s.Log \in Int /\ s.Seg \in Int
  BY HalfWord DEF SegmentType, Int32
<1>2. /\ Name(s.Tli, s.Log, s.Seg) \in NameType
      /\ [Name(s.Tli, s.Log, s.Seg) EXCEPT !.kind = "invalid"] \in NameType
  BY <1>1 DEF Name, NameType, Kinds
<1> QED
  BY <1>1, <1>2 DEF SegmentName

-----------------------------------------------------------------------------
(* Type correctness *)

\* Every number the loop computes is a signed word, whatever name it starts from.
THEOREM TypeCorrect == Spec => []TypeOK
<1>1. ASSUME Init PROVE TypeOK
  <2>1. currentSegment \in SegmentType
    BY <1>1, SegmentFromNameType DEF Init
  <2>2. result \in Seq(NameType)
    BY <1>1 DEF Init
  <2> QED
    BY <1>1, <2>1, <2>2 DEF Init, TypeOK, SegmentType, NameType
<1>2. TypeOK /\ [Next]_vars => TypeOK'
  <2> SUFFICES ASSUME TypeOK, [Next]_vars PROVE TypeOK'
    OBVIOUS
  <2>1. CASE UNCHANGED vars
    BY <2>1 DEF vars, TypeOK
  <2>2. CASE FetchAlone
    <3>1. Names \subseteq NameType
      BY ConstantsAssumption DEF Names, NameType
    <3>2. result' \in Seq(NameType)
      BY <2>2, <3>1 DEF FetchAlone, TypeOK
    <3> QED
      BY <2>2, <3>2 DEF FetchAlone, TypeOK, NameType
  <2>3. CASE AppendSegment
    <3>1. currentSegment \in SegmentType /\ result \in Seq(NameType)
      BY DEF TypeOK, SegmentType, NameType
    <3>2. result' \in Seq(NameType)
      BY <2>3, <3>1, SegmentNameType DEF AppendSegment
    <3>3. currentSegment' \in SegmentType
      BY <2>3, <3>1, NextSegmentType DEF AppendSegment, TypeOK
    <3> QED
      BY <2>3, <3>2, <3>3 DEF AppendSegment, TypeOK, SegmentType, NameType
  <2>4. CASE ReturnList
    BY <2>4 DEF ReturnList, TypeOK
  <2> QED
    BY <2>1, <2>2, <2>3, <2>4 DEF Next
<1> QED
  BY <1>1, <1>2, PTL DEF Spec

-----------------------------------------------------------------------------
(* The names that are prefetched *)

\* The loop's next segment is the next number of the timeline: it leaves the file
\* after the last segment, or the last but one before PostgreSQL 9.3.
LEMMA NextNumber ==
    ASSUME SegmentsInFile \in Nat \ {0}, skipLastSegment \in BOOLEAN,
           NEW s \in SegmentType, s.Log \in 0 .. MaxInt, s.Seg \in 0 .. SegmentsInFile - 1,
           s.Log < MaxInt \/ s.Seg + 1 < SegmentsInFile
    PROVE  LET t == NextSegment(s, skipLastSegment)
           IN  /\ t.Tli = s.Tli
               /\ t.Log \in 0 .. MaxInt /\ t.Seg \in 0 .. SegmentsInFile - 1
               /\ SegmentsInFile * t.Log + t.Seg = SegmentsInFile * s.Log + s.Seg + 1
<1> DEFINE m == WordSize \div SegmentSize
           n == SegmentsInFile
           t == NextSegment(s, skipLastSegment)
<1>1. m \in Nat \ {0} /\ WalSegmentsPerFile = m - 1 /\ m <= MaxInt
  BY LastOfFile
<1>2. n = (IF skipLastSegment THEN m - 1 ELSE m) /\ n \in Nat \ {0}
  BY <1>1 DEF SegmentsInFile
<1>3. /\ MaxInt \in Nat /\ s.Log \in Nat /\ s.Log <= MaxInt /\ s.Seg \in Nat /\ s.Seg < n
      /\ s.Log < MaxInt \/ s.Seg + 1 < n
  BY HalfWord
<1> HIDE DEF m, n, t
<1>4. Inc(s.Seg) = s.Seg + 1
  BY <1>1, <1>2, <1>3 DEF Inc
<1>5. CASE s.Seg + 1 < n
  <2>1. t = [s EXCEPT !.Seg = s.Seg + 1]
    BY <1>1, <1>2, <1>3, <1>4, <1>5 DEF NextSegment, t
  <2>2. t.Tli = s.Tli /\ t.Log = s.Log /\ t.Seg = s.Seg + 1
    BY <2>1 DEF SegmentType
  <2>3. n * t.Log \in Nat /\ n * t.Log + t.Seg = n * s.Log + s.Seg + 1
    BY <1>2, <1>3, <2>2
  <2> QED
    BY <1>2, <1>3, <1>5, <2>2, <2>3 DEF n, t
<1>6. CASE s.Seg + 1 = n
  <2>1. Inc(s.Log) = s.Log + 1 /\ s.Log < MaxInt
    BY <1>3, <1>6 DEF Inc
  <2>2. t = [s EXCEPT !.Log = s.Log + 1, !.Seg = 0]
    <3>1. \/ s.Seg + 1 > m - 1
          \/ skipLastSegment /\ s.Seg + 1 = m - 1
      BY <1>1, <1>2, <1>3, <1>6
    <3>2. t = [s EXCEPT !.Log = Inc(@), !.Seg = 0]
      BY <1>1, <1>4, <3>1 DEF NextSegment, t
    <3> QED
      BY <2>1, <3>2 DEF SegmentType
  <2>3. t.Tli = s.Tli /\ t.Log = s.Log + 1 /\ t.Seg = 0
    BY <2>2 DEF SegmentType
  <2>4. n * (s.Log + 1) = n * s.Log + n /\ n * s.Log \in Nat
    BY <1>2, <1>3, ProductGrows
  <2>5. n * t.Log + t.Seg = n * s.Log + s.Seg + 1
    BY <1>2, <1>3, <1>6, <2>3, <2>4
  <2>6. t.Log \in 0 .. MaxInt /\ t.Seg \in 0 .. n - 1
    BY <1>2, <1>3, <2>1, <2>3
  <2> QED
    BY <2>3, <2>5, <2>6 DEF n, t
<1> QED
  BY <1>2, <1>3, <1>5, <1>6

\* The names in the list are consecutive, and so is the one the loop holds, as long as
\* it is going to append another: past the last one the word of the file may have wrapped.
PrefetchInv ==
    InRange =>
        /\ Len(result) <= size
        /\ currentSegment.Tli = walName.tli
        /\ \A i \in 1 .. Len(result) :
               result[i] = NumberedName(walName.tli, RequestedNumber + i - 1)
        /\ Len(result) < size =>
               /\ currentSegment.Log \in 0 .. MaxInt
               /\ currentSegment.Seg \in 0 .. SegmentsInFile - 1
               /\ SegmentsInFile * currentSegment.Log + currentSegment.Seg
                      = RequestedNumber + Len(result)

\* What a request in range comes with.
LEMMA RangeFacts ==
    ASSUME TypeOK, InRange
    PROVE  /\ SegmentsInFile \in Nat \ {0} /\ RequestedNumber \in Nat
           /\ walName.log \in 0 .. MaxInt /\ walName.seg \in 0 .. SegmentsInFile - 1
           /\ walName.tli \in 0 .. MaxInt /\ MaxInt \in Nat
           /\ RequestedNumber = SegmentsInFile * walName.log + walName.seg
           /\ RequestedNumber + size <= SegmentsInFile * (MaxInt + 1)
           /\ SegmentFromName(walName).Tli = walName.tli
           /\ SegmentFromName(walName).Log = walName.log
           /\ SegmentFromName(walName).Seg = walName.seg
<1>1. MaxInt \in Nat /\ {walName.tli, walName.log, walName.seg} \subseteq 0 .. MaxInt
  BY HalfWord DEF InRange, Parses
<1>2. SegmentsInFile \in Int /\ walName.seg < SegmentsInFile
  BY LastOfFile DEF InRange, SegmentsInFile
<1>3. SegmentsInFile \in Nat \ {0}
  BY <1>1, <1>2
<1>4. /\ RequestedNumber = walName.log * SegmentsInFile + walName.seg
      /\ RequestedNumber + size <= (MaxInt + 1) * SegmentsInFile
  BY DEF InRange, RequestedNumber
<1>5. /\ walName.log * SegmentsInFile = SegmentsInFile * walName.log
      /\ SegmentsInFile * walName.log \in Nat
      /\ (MaxInt + 1) * SegmentsInFile = SegmentsInFile * (MaxInt + 1)
  BY <1>1, <1>3
<1>6. SegmentFromName(walName) = [Tli |-> walName.tli, Log |-> walName.log,
                                  Seg |-> walName.seg]
  BY DEF InRange, SegmentFromName
<1> QED
  BY <1>1, <1>2, <1>3, <1>4, <1>5, <1>6

\* One more name, the next number.
LEMMA AppendPrefetch ==
    ASSUME TypeOK, TypeOK', PrefetchInv, AppendSegment PROVE PrefetchInv'
<1> DEFINE n == SegmentsInFile
           s == currentSegment
           r == RequestedNumber
<1>1. UNCHANGED <<walName, size, skipLastSegment>>
  BY DEF AppendSegment
<1>2. InRange' = InRange /\ n' = n /\ r' = r
  BY <1>1 DEF InRange, Parses, IsWALFile, SegmentsInFile, RequestedNumber
<1> SUFFICES ASSUME InRange PROVE PrefetchInv'
  BY <1>2 DEF PrefetchInv
<1>3. /\ n \in Nat \ {0} /\ r \in Nat /\ MaxInt \in Nat
      /\ r + size <= n * (MaxInt + 1) /\ size \in Nat /\ walName.tli \in Nat
  BY RangeFacts, ConstantsAssumption DEF TypeOK
<1>4. /\ Len(result) < size /\ s.Tli = walName.tli
      /\ s.Log \in 0 .. MaxInt /\ s.Seg \in 0 .. n - 1
      /\ n * s.Log + s.Seg = r + Len(result)
      /\ Len(result) \in Nat /\ s \in SegmentType /\ skipLastSegment \in BOOLEAN
  BY DEF AppendSegment, PrefetchInv, TypeOK, SegmentType
<1>5. /\ result' = Append(result, SegmentName(s))
      /\ currentSegment' = NextSegment(s, skipLastSegment)
  BY DEF AppendSegment
<1>6. Len(result') = Len(result) + 1 /\ result' # <<>>
  BY <1>5 DEF TypeOK
<1>7. SegmentName(s) = NumberedName(walName.tli, r + Len(result))
  <2>1. SegmentName(s) = Name(s.Tli, s.Log, s.Seg)
    BY <1>3, <1>4, SegmentNameType
  <2>2. (r + Len(result)) \div n = s.Log /\ (r + Len(result)) % n = s.Seg
    <3> DEFINE q == s.Log
               e == s.Seg
               k == r + Len(result)
    <3>1. n \in Nat \ {0} /\ q \in Nat /\ e \in 0 .. n - 1 /\ k \in Nat
      BY <1>3, <1>4
    <3>2. k = n * q + e
      BY <1>4
    <3> HIDE DEF n, s, r, q, e, k
    <3>3. k \div n = q /\ k % n = e
      BY <3>1, <3>2, QuotientUnique
    <3> QED
      BY <3>3 DEF k, q, e
  <2> QED
    BY <1>4, <2>1, <2>2 DEF NumberedName
<1> HIDE DEF n, r
<1>8. ASSUME NEW i \in 1 .. Len(result')
      PROVE  result'[i] = NumberedName(walName.tli, r + i - 1)
  <2>1. CASE i = Len(result')
    BY <1>3, <1>4, <1>5, <1>6, <1>7, <2>1 DEF TypeOK
  <2>2. CASE i \in 1 .. Len(result)
    <3>1. result'[i] = result[i]
      BY <1>5, <2>2 DEF TypeOK
    <3> QED
      BY <2>2, <3>1 DEF PrefetchInv, r
  <2> QED
    BY <1>4, <1>6, <2>1, <2>2
<1>9. \A i \in 1 .. Len(result') : result'[i] = NumberedName(walName.tli, r + i - 1)'
  BY <1>1, <1>2, <1>8 DEF NumberedName, n, r
<1>10. ASSUME Len(result') < size
       PROVE  /\ currentSegment'.Log \in 0 .. MaxInt /\ currentSegment'.Seg \in 0 .. n - 1
              /\ n * currentSegment'.Log + currentSegment'.Seg = r + Len(result')
  <2>1. s.Log < MaxInt \/ s.Seg + 1 < n
    <3> SUFFICES ASSUME s.Log = MaxInt, s.Seg + 1 >= n PROVE FALSE
      BY <1>3, <1>4
    <3>1. n * (MaxInt + 1) = n * MaxInt + n /\ n * MaxInt \in Nat
      BY <1>3, ProductGrows
    <3> QED
      BY <1>3, <1>4, <1>6, <1>10, <3>1
  <2> QED
    BY <1>3, <1>4, <1>5, <1>6, <2>1, NextNumber DEF n
<1>11. currentSegment'.Tli = walName.tli
  BY <1>4, <1>5 DEF NextSegment, SegmentType
<1>12. Len(result') <= size
  BY <1>3, <1>4, <1>6
<1> HIDE DEF s
<1>13. /\ SegmentsInFile' = n /\ RequestedNumber' = r
       /\ size' = size /\ walName' = walName
  BY <1>1, <1>2 DEF n, r
<1>14. \A i \in 1 .. Len(result') :
           result[i]' = NumberedName(walName.tli, RequestedNumber + i - 1)'
  BY <1>9 DEF r
<1> QED
  BY <1>10, <1>11, <1>12, <1>13, <1>14 DEF PrefetchInv

\* The names the restorer prefetches are the ones PostgreSQL asks for next, for every
\* segment size: NextSegments neither skips the last segment of a file nor invents one
\* past it.
THEOREM PrefetchSafety == Spec => []PrefetchFollowsPostgres
<1>1. Init /\ TypeOK => PrefetchInv
  <2> SUFFICES ASSUME Init, TypeOK, InRange PROVE PrefetchInv
    BY DEF PrefetchInv
  <2>1. result = <<>> /\ Len(result) = 0 /\ currentSegment = SegmentFromName(walName)
    BY DEF Init
  <2> QED
    BY <2>1, RangeFacts, ConstantsAssumption DEF PrefetchInv, TypeOK
<1>2. TypeOK /\ PrefetchInv /\ TypeOK' /\ [Next]_vars => PrefetchInv'
  <2> SUFFICES ASSUME TypeOK, PrefetchInv, TypeOK', [Next]_vars PROVE PrefetchInv'
    OBVIOUS
  <2>1. CASE UNCHANGED vars \/ ReturnList
    BY <2>1 DEF vars, ReturnList, PrefetchInv, InRange, Parses, IsWALFile, SegmentsInFile,
                RequestedNumber, NumberedName
  <2>2. CASE FetchAlone
    BY <2>2 DEF FetchAlone, PrefetchInv, InRange, Parses, IsWALFile
  <2>3. CASE AppendSegment
    BY <2>3, AppendPrefetch
  <2> QED
    BY <2>1, <2>2, <2>3 DEF Next
<1>3. PrefetchInv => PrefetchFollowsPostgres
  BY DEF PrefetchInv, PrefetchFollowsPostgres
<1> QED
  BY TypeCorrect, <1>1, <1>2, <1>3, PTL DEF Spec

-----------------------------------------------------------------------------
(* No name comes twice.                                                      *)
(* Also outside of PostgreSQL's numbering: a request whose segment number is *)
(* past the end of a file, or whose file number wraps around.                *)

\* How many increments lead from a word to another.
Distance(a, b) == IF b >= a THEN b - a ELSE b - a + WordSize

\* The first file is left after the increments that fit, the others go from zero up.
Before(l1, s1, l2, s2) ==
    \/ Distance(walName.log, l1) < Distance(walName.log, l2)
    \/ /\ l1 = l2
       /\ IF l1 = walName.log THEN Distance(walName.seg, s1) < Distance(walName.seg, s2)
                              ELSE s1 < s2

\* What the loop holds has not come yet, and neither of its two numbers can come round
\* before the list ends.
OrderInv ==
    /\ \A i \in 1 .. Len(result) : result[i].log \in Int32 /\ result[i].seg \in Int32
    /\ \A i, j \in 1 .. Len(result) :
           i < j => Before(result[i].log, result[i].seg, result[j].log, result[j].seg)
    /\ Len(result) < size =>
           /\ \A i \in 1 .. Len(result) :
                  Before(result[i].log, result[i].seg, currentSegment.Log, currentSegment.Seg)
           /\ Distance(walName.log, currentSegment.Log) <= Len(result)
           /\ IF currentSegment.Log = walName.log
              THEN Distance(walName.seg, currentSegment.Seg) <= Len(result)
              ELSE currentSegment.Seg \in 0 .. MaxInt - 1

FirstInv ==
    /\ result # <<>> => result[1] = walName
    /\ done => result # <<>>
    /\ ~Parses(walName) => Len(result) <= 1
    /\ Parses(walName) =>
           /\ result = <<>> => currentSegment = SegmentFromName(walName)
           /\ OrderInv

\* An increment is one step away.
LEMMA IncDistance ==
    ASSUME NEW a \in 0 .. MaxInt, NEW b \in Int32
    PROVE  /\ Distance(a, b) \in Nat
           /\ Distance(a, b) = 0 <=> b = a
           /\ Distance(a, b) + 1 < WordSize => Distance(a, Inc(b)) = Distance(a, b) + 1
  BY HalfWord DEF Distance, Inc, Int32

\* One turn of the loop goes on in that order.
LEMMA NextBefore ==
    ASSUME walName.log \in 0 .. MaxInt, walName.seg \in 0 .. MaxInt,
           NEW s \in SegmentType, NEW k \in Nat, k + 1 < WordSize,
           Distance(walName.log, s.Log) <= k,
           IF s.Log = walName.log THEN Distance(walName.seg, s.Seg) <= k
                                  ELSE s.Seg \in 0 .. MaxInt - 1,
           skipLastSegment \in BOOLEAN
    PROVE  LET t == NextSegment(s, skipLastSegment)
           IN  /\ Before(s.Log, s.Seg, t.Log, t.Seg)
               /\ Distance(walName.log, t.Log) <= k + 1
               /\ IF t.Log = walName.log THEN Distance(walName.seg, t.Seg) <= k + 1
                                         ELSE t.Seg \in 0 .. MaxInt - 1
<1> DEFINE t == NextSegment(s, skipLastSegment)
<1>1. /\ s.Log \in Int32 /\ s.Seg \in Int32 /\ MaxInt \in Nat /\ WordSize \in Nat
      /\ WalSegmentsPerFile \in 0 .. MaxInt - 1
  BY LastOfFile, HalfWord, ConstantsAssumption DEF SegmentType
<1>2. /\ Distance(walName.log, s.Log) \in Nat
      /\ Distance(walName.log, Inc(s.Log)) = Distance(walName.log, s.Log) + 1
  BY <1>1, IncDistance
<1>3. CASE t = [s EXCEPT !.Log = Inc(@), !.Seg = 0]
  <2>1. t.Log = Inc(s.Log) /\ t.Seg = 0
    BY <1>3 DEF SegmentType
  <2> HIDE DEF t
  <2>2. Distance(walName.log, t.Log) = Distance(walName.log, s.Log) + 1
    BY <1>2, <2>1
  <2>3. t.Log # walName.log
    <3>1. Distance(walName.log, walName.log) = 0
      BY HalfWord DEF Distance
    <3> QED
      BY <1>2, <2>2, <3>1
  <2> QED
    BY <1>1, <1>2, <2>1, <2>2, <2>3 DEF Before, t
<1>4. CASE t = [s EXCEPT !.Seg = Inc(s.Seg)] /\ Inc(s.Seg) <= WalSegmentsPerFile
  <2>1. t.Log = s.Log /\ t.Seg = Inc(s.Seg)
    BY <1>4 DEF SegmentType
  <2> HIDE DEF t
  <2>2. CASE s.Log = walName.log
    <3>1. Distance(walName.seg, t.Seg) = Distance(walName.seg, s.Seg) + 1
      BY <1>1, <2>1, <2>2, IncDistance
    <3>2. Distance(walName.seg, s.Seg) \in Nat
      BY <1>1, IncDistance
    <3> QED
      BY <1>2, <2>1, <2>2, <3>1, <3>2 DEF Before, t
  <2>3. CASE s.Log # walName.log
    <3>1. Inc(s.Seg) = s.Seg + 1
      BY <1>1, <2>3 DEF Inc
    <3>2. t.Seg \in 0 .. MaxInt - 1 /\ s.Seg < t.Seg
      BY <1>1, <1>4, <2>1, <2>3, <3>1
    <3> QED
      BY <1>2, <2>1, <2>3, <3>2 DEF Before, t
  <2> QED
    BY <2>2, <2>3
<1>5. \/ t = [s EXCEPT !.Log = Inc(@), !.Seg = 0]
      \/ t = [s EXCEPT !.Seg = Inc(s.Seg)] /\ ~(Inc(s.Seg) > WalSegmentsPerFile)
  BY DEF NextSegment
<1>6. Inc(s.Seg) \in Int
  BY <1>1, IncType DEF Int32
<1> QED
  BY <1>1, <1>3, <1>4, <1>5, <1>6

\* Nothing comes before itself, and the order is transitive.
LEMMA BeforeOrder ==
    ASSUME walName.log \in 0 .. MaxInt, walName.seg \in 0 .. MaxInt
    PROVE  /\ \A l, s \in Int32 : ~Before(l, s, l, s)
           /\ \A l1, s1, l2, s2, l3, s3 \in Int32 :
                  Before(l1, s1, l2, s2) /\ Before(l2, s2, l3, s3) => Before(l1, s1, l3, s3)
<1>1. /\ \A b \in Int32 : Distance(walName.log, b) \in Nat
      /\ \A b \in Int32 : Distance(walName.seg, b) \in Nat
  BY IncDistance
<1>2. \A s \in Int32 : s \in Int
  BY HalfWord DEF Int32
<1> QED
  BY <1>1, <1>2 DEF Before

\* What has a place of its own in the list comes once.
LEMMA AllDifferent ==
    ASSUME NEW r, NEW n \in Nat, r \in [1 .. n -> NameType],
           \A i, j \in 1 .. n : i < j => r[i] # r[j]
    PROVE  Cardinality({r[i] : i \in 1 .. n}) = n
<1> DEFINE T == {r[i] : i \in 1 .. n}
<1>1. r \in Surjection(1 .. n, T)
  BY DEF Surjection
<1>2. r \in Injection(1 .. n, T)
  BY <1>1 DEF Injection, Surjection, IsInjective
<1>3. IsFiniteSet(1 .. n) /\ Cardinality(1 .. n) = n
  BY FS_Interval
<1> QED
  BY <1>1, <1>2, <1>3, FS_Surjection

\* One more name, that comes after all the others.
LEMMA AppendOrder ==
    ASSUME TypeOK, FirstInv, AppendSegment PROVE FirstInv'
<1> DEFINE s == currentSegment
           n == Len(result)
<1>1. /\ Parses(walName) /\ n < size /\ ~done /\ n \in Nat
      /\ size \in Nat /\ size <= WordSize /\ WordSize \in Nat
      /\ walName.log \in 0 .. MaxInt /\ walName.seg \in 0 .. MaxInt
      /\ s \in SegmentType /\ s.Log \in Int32 /\ s.Seg \in Int32
      /\ skipLastSegment \in BOOLEAN /\ result \in Seq(NameType)
  BY ConstantsAssumption DEF AppendSegment, TypeOK, Parses, SegmentType, NameType
<1>2. /\ result' = Append(result, SegmentName(s))
      /\ currentSegment' = NextSegment(s, skipLastSegment)
      /\ UNCHANGED <<walName, size, skipLastSegment, done>>
  BY DEF AppendSegment
<1>3. /\ SegmentName(s).log = s.Log /\ SegmentName(s).seg = s.Seg
      /\ SegmentName(s) \in NameType
  BY <1>1, SegmentNameType DEF SegmentName, Name
<1>4. /\ Len(result') = n + 1 /\ result'[n + 1] = SegmentName(s)
      /\ \A i \in 1 .. n : result'[i] = result[i]
  BY <1>1, <1>2, <1>3
<1>5. /\ \A i \in 1 .. n : result[i].log \in Int32 /\ result[i].seg \in Int32
      /\ \A i, j \in 1 .. n :
             i < j => Before(result[i].log, result[i].seg, result[j].log, result[j].seg)
      /\ \A i \in 1 .. n : Before(result[i].log, result[i].seg, s.Log, s.Seg)
      /\ Distance(walName.log, s.Log) <= n
      /\ IF s.Log = walName.log THEN Distance(walName.seg, s.Seg) <= n
                                ELSE s.Seg \in 0 .. MaxInt - 1
  BY <1>1 DEF FirstInv, OrderInv
<1>6. Parses(walName)' /\ \A l1, s1, l2, s2 : Before(l1, s1, l2, s2)' = Before(l1, s1, l2, s2)
  BY <1>1, <1>2 DEF Parses, IsWALFile, Before, Distance
<1>7. result'[1] = walName
  <2>1. CASE n = 0
    <3>1. s = SegmentFromName(walName) /\ result = <<>>
      BY <1>1, <2>1 DEF FirstInv
    <3>2. s = [Tli |-> walName.tli, Log |-> walName.log, Seg |-> walName.seg]
      BY <1>1, <3>1 DEF SegmentFromName
    <3>3. SegmentName(s) = Name(walName.tli, walName.log, walName.seg)
      BY <1>1, <3>2, HalfWord DEF SegmentName, Parses
    <3>4. walName = Name(walName.tli, walName.log, walName.seg)
      BY <1>1 DEF TypeOK, Names, Name, Parses, IsWALFile
    <3> QED
      BY <1>4, <2>1, <3>3, <3>4
  <2>2. CASE n # 0
    BY <1>1, <1>4, <2>2 DEF FirstInv
  <2> QED
    BY <2>1, <2>2
<1> HIDE DEF s, n
<1>8. \A i \in 1 .. n + 1 : result'[i].log \in Int32 /\ result'[i].seg \in Int32
  BY <1>1, <1>3, <1>4, <1>5
<1>9. ASSUME NEW i \in 1 .. n + 1, NEW j \in 1 .. n + 1, i < j
      PROVE  Before(result'[i].log, result'[i].seg, result'[j].log, result'[j].seg)
  BY <1>1, <1>3, <1>4, <1>5, <1>9
<1>10. ASSUME n + 1 < size
       PROVE  /\ \A i \in 1 .. n + 1 : Before(result'[i].log, result'[i].seg,
                                              currentSegment'.Log, currentSegment'.Seg)
              /\ Distance(walName.log, currentSegment'.Log) <= n + 1
              /\ IF currentSegment'.Log = walName.log
                 THEN Distance(walName.seg, currentSegment'.Seg) <= n + 1
                 ELSE currentSegment'.Seg \in 0 .. MaxInt - 1
  <2> DEFINE t == NextSegment(s, skipLastSegment)
  <2>1. /\ Before(s.Log, s.Seg, t.Log, t.Seg)
        /\ Distance(walName.log, t.Log) <= n + 1
        /\ IF t.Log = walName.log THEN Distance(walName.seg, t.Seg) <= n + 1
                                  ELSE t.Seg \in 0 .. MaxInt - 1
    <3>1. n + 1 < WordSize
      BY <1>1, <1>10
    <3> QED
      BY <1>1, <1>5, <3>1, NextBefore
  <2>2. t.Log \in Int32 /\ t.Seg \in Int32
    BY <1>1, NextSegmentType DEF SegmentType
  <2> HIDE DEF t
  <2>3. ASSUME NEW i \in 1 .. n + 1
        PROVE  Before(result'[i].log, result'[i].seg, t.Log, t.Seg)
    <3>1. CASE i = n + 1
      BY <1>3, <1>4, <2>1, <3>1
    <3>2. CASE i \in 1 .. n
      <4>1. /\ result[i].log \in Int32 /\ result[i].seg \in Int32
            /\ Before(result[i].log, result[i].seg, s.Log, s.Seg) /\ result'[i] = result[i]
        BY <1>4, <1>5, <3>2
      <4>2. Before(result[i].log, result[i].seg, t.Log, t.Seg)
        <5>1. /\ s.Log \in Int32 /\ s.Seg \in Int32 /\ Before(s.Log, s.Seg, t.Log, t.Seg)
              /\ walName.log \in 0 .. MaxInt /\ walName.seg \in 0 .. MaxInt
          BY <1>1, <2>1
        <5> QED
          BY <2>2, <4>1, <5>1, BeforeOrder
      <4> QED
        BY <4>1, <4>2
    <3> QED
      BY <1>1, <3>1, <3>2
  <2>4. currentSegment' = t
    BY <1>2 DEF t
  <2> QED
    BY <2>1, <2>3, <2>4
<1>11. /\ Distance(walName.log, currentSegment.Log)' = Distance(walName.log, currentSegment'.Log)
       /\ Distance(walName.seg, currentSegment.Seg)' = Distance(walName.seg, currentSegment'.Seg)
  BY <1>2 DEF Distance
<1>12. OrderInv'
  BY <1>2, <1>4, <1>6, <1>8, <1>9, <1>10, <1>11 DEF OrderInv
<1>13. result' # <<>>
  BY <1>1, <1>4
<1> QED
  BY <1>6, <1>1, <1>2, <1>7, <1>12, <1>13 DEF FirstInv

\* The list starts with the request and names no file twice, for every name that may be
\* asked for: no two downloads write the same spool file.
THEOREM FirstSafety == Spec => []RequestComesFirst
<1>1. Init /\ TypeOK => FirstInv
  <2> SUFFICES ASSUME Init, TypeOK PROVE FirstInv
    OBVIOUS
  <2>1. result = <<>> /\ Len(result) = 0 /\ ~done /\ currentSegment = SegmentFromName(walName)
    BY DEF Init
  <2>2. ASSUME Parses(walName) PROVE OrderInv
    <3>1. currentSegment.Log = walName.log /\ currentSegment.Seg = walName.seg
      BY <2>1, <2>2 DEF SegmentFromName
    <3>2. walName.log \in Int /\ walName.seg \in Int
      BY <2>2, HalfWord DEF Parses
    <3>3. /\ Distance(walName.log, currentSegment.Log) = 0
          /\ Distance(walName.seg, currentSegment.Seg) = 0
      BY <3>1, <3>2 DEF Distance
    <3> QED
      BY <2>1, <3>1, <3>3 DEF OrderInv
  <2> QED
    BY <2>1, <2>2 DEF FirstInv
<1>2. TypeOK /\ FirstInv /\ [Next]_vars => FirstInv'
  <2> SUFFICES ASSUME TypeOK, FirstInv, [Next]_vars PROVE FirstInv'
    OBVIOUS
  <2>1. CASE UNCHANGED vars
    BY <2>1 DEF vars, FirstInv, OrderInv, Parses, IsWALFile, Before, Distance
  <2>2. CASE FetchAlone
    <3>1. /\ result' = <<walName>> /\ UNCHANGED walName /\ ~Parses(walName)
          /\ result' # <<>> /\ result'[1] = walName /\ Len(result') = 1
      BY <2>2 DEF FetchAlone
    <3>2. ~Parses(walName)'
      BY <3>1 DEF Parses, IsWALFile
    <3> QED
      BY <3>1, <3>2 DEF FirstInv
  <2>3. CASE AppendSegment
    BY <2>3, AppendOrder
  <2>4. CASE ReturnList
    <3>1. UNCHANGED <<walName, size, currentSegment, result>> /\ Len(result) = size
      BY <2>4 DEF ReturnList
    <3>2. result # <<>>
      BY <3>1, ConstantsAssumption DEF TypeOK
    <3> QED
      BY <3>1, <3>2 DEF FirstInv, OrderInv, Parses, IsWALFile, Before, Distance
  <2> QED
    BY <2>1, <2>2, <2>3, <2>4 DEF Next
<1>3. TypeOK /\ FirstInv => RequestComesFirst
  <2> SUFFICES ASSUME TypeOK, FirstInv, done PROVE RequestComesFirst
    BY DEF RequestComesFirst
  <2>1. result # <<>> /\ result[1] = walName
    BY DEF FirstInv
  <2>2. Len(result) \in Nat /\ result \in [1 .. Len(result) -> NameType]
    <3>1. result \in Seq(NameType)
      BY DEF TypeOK, NameType
    <3> QED
      BY <3>1
  <2>3. ASSUME NEW i \in 1 .. Len(result), NEW j \in 1 .. Len(result), i < j
        PROVE  result[i] # result[j]
    <3>1. CASE ~Parses(walName)
      BY <2>2, <2>3, <3>1 DEF FirstInv
    <3>2. CASE Parses(walName)
      <4>1. /\ result[i].log \in Int32 /\ result[i].seg \in Int32
            /\ Before(result[i].log, result[i].seg, result[j].log, result[j].seg)
        BY <2>3, <3>2 DEF FirstInv, OrderInv
      <4>2. walName.log \in 0 .. MaxInt /\ walName.seg \in 0 .. MaxInt
        BY <3>2 DEF Parses
      <4>3. ~Before(result[i].log, result[i].seg, result[i].log, result[i].seg)
        BY <4>1, <4>2, BeforeOrder
      <4> QED
        BY <4>1, <4>3
    <3> QED
      BY <3>1, <3>2
  <2>4. Cardinality({result[i] : i \in 1 .. Len(result)}) = Len(result)
    BY <2>2, <2>3, AllDifferent
  <2> QED
    BY <2>1, <2>4 DEF RequestComesFirst
<1> QED
  BY TypeCorrect, <1>1, <1>2, <1>3, PTL DEF Spec

=============================================================================
