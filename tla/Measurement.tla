---------------------------- MODULE Measurement ------------------------------
(***************************************************************************)
(* What one call of pesq_measure does, as its caller can rely on it: two   *)
(* signals loaded one after the other, one answer, and an error flag that  *)
(* says how far it came.  PesqMeasure is shown to implement this           *)
(* specification, and the runs of VoipRate measure by its rules.           *)
(***************************************************************************)
VARIABLES
  phase,    \* "load", "measure", "report", or "died" inside the call
  loaded,   \* the signals that are in memory
  err       \* Error_Flag

vars == <<phase, loaded, err>>

Init == phase = "load" /\ loaded = {} /\ err = 0

\* The reference is loaded first.
Load ==
  /\ phase = "load"
  /\ \/ loaded = {} /\ loaded' = {"A"} /\ UNCHANGED phase
     \/ loaded = {"A"} /\ loaded' = {"A", "B"} /\ phase' = "measure"
  /\ UNCHANGED err

\* The first signal that cannot be loaded ends the call.
LoadFails ==
  /\ phase = "load" /\ phase' = "report" /\ err' = 1
  /\ UNCHANGED loaded

\* Signals that are too short, or no memory to work in, are an error as well.
Measure ==
  /\ phase = "measure" /\ phase' = "report" /\ err' \in {0, 2}
  /\ UNCHANGED loaded

\* exit(1), no memory where the code does not look, or a signal.
Die ==
  /\ phase \in {"load", "measure"} /\ phase' = "died"
  /\ UNCHANGED <<loaded, err>>

Next == Load \/ LoadFails \/ Measure \/ Die

Spec == Init /\ [][Next]_vars
=============================================================================
