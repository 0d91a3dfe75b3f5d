----------------------------- MODULE SpeechRuns ------------------------------
(***************************************************************************)
(* Vocabulary for a row of windows that are speech or not, as the voice    *)
(* activity detection leaves them and the search for utterances reads      *)
(* them.  A row is a function from 0 .. n - 1 to BOOLEAN.                  *)
(***************************************************************************)
EXTENDS Integers

\* A window outside the row is no speech.
Speech(row, i) == i \in DOMAIN row /\ row[i]

Starts(row) == {i \in DOMAIN row : row[i] /\ ~Speech(row, i - 1)}

\* The first window behind the speech that starts at s.
EndOf(row, s) ==
  CHOOSE f \in {i + 1 : i \in DOMAIN row} :
    /\ f > s /\ ~Speech(row, f)
    /\ \A i \in s .. f - 1 : row[i]

\* The maximal runs of speech: from start up to, and without, end.
Runs(row) == {[start |-> s, end |-> EndOf(row, s)] : s \in Starts(row)}

Within(i, run) == run.start <= i /\ i < run.end

-----------------------------------------------------------------------------
(* What the passes of apply_VAD are to do to a row, as definitions. *)

\* Runs of at most `short' windows are dropped.
LongOnly(row, short) ==
  [i \in DOMAIN row |->
     \E r \in Runs(row) : Within(i, r) /\ r.end - r.start > short]

\* Silences of at most `gap' windows between two runs are filled.
Joined(row, gap) ==
  [i \in DOMAIN row |->
     \/ row[i]
     \/ \E q, r \in Runs(row) :
          q.end <= i /\ i < r.start /\ r.start - q.end <= gap]

\* Every run grows by two windows to either side, except into the first and
\* the last window, and at the ends of the row where no room is left for two.
Widened(row, n) ==
  [i \in DOMAIN row |->
     \/ row[i]
     \/ \E r \in Runs(row) :
          \/ r.start \in 2 .. n - 3 /\ i > 0 /\ i \in {r.start - 2, r.start - 1}
          \/ r.end <= n - 3 /\ i \in {r.end, r.end + 1}]
=============================================================================
