--------------------------- MODULE MCBadIntervals ----------------------------
(***************************************************************************)
(* Frames 0 .. 18, enough for two intervals of five with three between.    *)
(* Three bad frames, two apart, make an interval of five: sets of up to    *)
(* six show every such pair.  One utterance; three with a jump forward and *)
(* a jump back that skips some frames; a jump that skips the first frames, *)
(* and one that skips to the end; and silence at the end.                  *)
(***************************************************************************)
EXTENDS BadIntervals, FiniteSetsExt

Utt(s, e, d) == [start |-> s, end |-> e, delay |-> d]

MCCases == {
  [silence |-> 0, utts |-> <<Utt(4, 34, 1)>>],
  [silence |-> 5, utts |-> <<Utt(4, 12, 1), Utt(14, 22, 6), Utt(24, 36, -2)>>],
  [silence |-> 0, utts |-> <<Utt(2, 8, 3), Utt(10, 34, -12)>>],
  [silence |-> 0, utts |-> <<Utt(4, 20, 12), Utt(24, 34, -12)>>]}

MCBadSets ==
  UNION {kSubset(n, 1 .. 14) : n \in 0 .. 6}
    \cup {0 .. 18, 0 .. 7, 9 .. 18, (2 .. 18) \ {9, 10, 11}}

MCDelays == {-3, 4}
=============================================================================
