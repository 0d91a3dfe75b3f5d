------------------------------ MODULE MCVoipRate ------------------------------
(***************************************************************************)
(* Two runs that share input a.  Run p1 compares a with b, run p2 compares *)
(* a with itself, and p1 may be killed: the runs overlap in every way, and *)
(* p2 also starts after p1 has ended, died, or been killed at any step.    *)
(***************************************************************************)
EXTENDS VoipRate, TLC

CONSTANTS p1, p2, a, b, ta, tb, ma, mb

MCProc == {p1, p2}
MCName == {a, b, ta, tb, ma, mb}
MCArg  == p1 :> ("A" :> a @@ "B" :> b) @@ p2 :> ("A" :> a @@ "B" :> a)
MCArgEqual == p1 :> ("A" :> a @@ "B" :> b) @@ p2 :> ("A" :> a @@ "B" :> b)
MCTmp  == a :> ta @@ b :> tb
MCMono == a :> ma @@ b :> mb
MCNobody == {}
MCKillable == {p1}
MCFaulty   == {p1, p2}
=============================================================================
