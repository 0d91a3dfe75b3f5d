-------------------------------- MODULE MCFft --------------------------------
(***************************************************************************)
(* Numbers modulo 31, where (7, 13) is a point of the unit circle of order *)
(* 16: transforms of 2, 4, 8 and 16 numbers, signals of 1 to 8.  The       *)
(* transform is linear: signals with a single 1 stand for all of their     *)
(* length.                                                                 *)
(***************************************************************************)
EXTENDS Fft

Units(n) == {[k \in 1 .. n |-> IF k = i THEN 1 ELSE 0] : i \in 1 .. n}

MCSignals == {<<5>>, <<1, 30>>, <<3, 0, 17>>, <<2, 4, 1, 9, 25>>,
              <<1, 2, 3, 4, 5, 6, 7, 8>>} \cup Units(4)
=============================================================================
