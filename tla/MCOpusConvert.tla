---------------------------- MODULE MCOpusConvert ----------------------------
(***************************************************************************)
(* A small instance of OpusConvert.  A byte has 8 values, so the sizes of  *)
(* the headers below have a zero byte in every position it can be in:      *)
(* 36 = 44, 40 = 50, 44 = 54, 64 = 100, 68 = 104 in base 8.  The sampling  *)
(* rates keep their ratio of three.                                        *)
(***************************************************************************)
EXTENDS OpusConvert
=============================================================================
