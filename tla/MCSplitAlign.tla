---------------------------- MODULE MCSplitAlign -----------------------------
(***************************************************************************)
(* An utterance of 20 windows of speech with three break points, frames of *)
(* four windows, and three estimates: one that begins in front of the      *)
(* degraded signal, one that fits, and one that leads over its end.        *)
(***************************************************************************)
EXTENDS SplitAlign

MCUtts == {[start |-> s, speechStart |-> 2, speechEnd |-> 22, end |-> 23] : s \in {-1, 1}}
MCEstimates == {-14, 10}
MCFineLags  == {2}
=============================================================================
