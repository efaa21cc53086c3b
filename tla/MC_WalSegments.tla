-------------------------- MODULE MC_WalSegments --------------------------
(***************************************************************************)
(* Words of 6 bits and segments of 16 bytes, 4 to a file: the proportions  *)
(* of the code, where a file of 2^32 bytes has 256 segments of 2^24.       *)
(***************************************************************************)
EXTENDS WalSegments

\* The first words and the words around the largest signed one.
BoundaryWords == {0, 1, MaxInt - 1, MaxInt, MaxInt + 1}

BoundaryTimelines == {1, MaxInt, MaxInt + 1}

SegmentWords == {0, 1, 2, 3}
=============================================================================
