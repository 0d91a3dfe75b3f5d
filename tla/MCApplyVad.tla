----------------------------- MODULE MCApplyVad ------------------------------
(***************************************************************************)
(* Every signal of twelve windows, with the lengths of runs and silences   *)
(* that count scaled down: 1 for 4 and 4 for 50.  Three runs that are kept *)
(* fit, or two with a silence between them that is not joined.             *)
(***************************************************************************)
EXTENDS ApplyVad
=============================================================================
