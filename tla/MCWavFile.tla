------------------------------ MODULE MCWavFile -------------------------------
(***************************************************************************)
(* Small instances of WavFile.  With five values to a byte a data size     *)
(* holds 624, and the largest file WriteWavHeader admits has 294 samples:  *)
(* two large writes reach it, one sample more is refused by Close.         *)
(***************************************************************************)
EXTENDS WavFile
=============================================================================
