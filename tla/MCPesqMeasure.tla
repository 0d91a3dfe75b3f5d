---------------------------- MODULE MCPesqMeasure ----------------------------
(***************************************************************************)
(* Two runs.  Every length is scaled down: a header of 2 samples, 3 read   *)
(* at a time, a signal long enough from 3 on.  The files of p1 may be      *)
(* missing, empty, shorter than the header, exactly a header, too short    *)
(* by one sample, of an odd number of bytes, one chunk or more; those of   *)
(* p2 are empty, or one of two lengths.  Both may meet every fault.        *)
(***************************************************************************)
EXTENDS PesqMeasure, TLC

CONSTANTS p1, p2

MCProc == {p1, p2}
MCBytes == p1 :> {Missing, 0, 3, 4, 9, 10, 13, 18} @@ p2 :> {0, 11, 16}
=============================================================================
