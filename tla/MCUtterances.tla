---------------------------- MODULE MCUtterances -----------------------------
(***************************************************************************)
(* Ten windows of two samples hold two utterances, of which one may be     *)
(* long enough for a split, or one that is split twice.  The degraded      *)
(* signal is shorter or longer than the reference.  The lags push an       *)
(* utterance against either neighbour, over either end, and so far over    *)
(* its neighbour that a limit ends up in front of the reference.           *)
(***************************************************************************)
EXTENDS Utterances

MCCrudes == {-2, 0, 1}
MCLags   == {-5, 0, 2, 4}
=============================================================================
