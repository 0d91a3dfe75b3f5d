------------------------------ MODULE SplitCall ------------------------------
(***************************************************************************)
(* split_align of PESQ-MOS/pesqdsp.c as utterance_split sees it: one call, *)
(* one answer, and the answer is usable if it is surer of both parts than  *)
(* time_align was of the whole.  Otherwise it may be anything.             *)
(***************************************************************************)
EXTENDS SplitAnswers

CONSTANTS Utts, DegSamples, Confs

VARIABLES
  utt, degraded, conf,  \* what is handed over
  answers               \* the answer, once there is one

vars == <<utt, degraded, conf, answers>>

Init ==
  /\ utt \in Utts /\ degraded \in DegSamples /\ conf \in Confs
  /\ answers = {}

\* What utterance_split asks before it splits.
Trusted(a) == a.dc1 > conf /\ a.dc2 > conf

Return ==
  /\ answers = {}
  /\ \E a \in answers' :
       answers' = {a} /\ (Trusted(a) => Usable(utt, degraded, a))
  /\ UNCHANGED <<utt, degraded, conf>>

Spec == Init /\ [][Return]_vars
=============================================================================
