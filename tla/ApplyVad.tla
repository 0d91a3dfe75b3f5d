------------------------------ MODULE ApplyVad -------------------------------
(***************************************************************************)
(* apply_VAD of PESQ-MOS/pesqdsp.c behind the estimate of the noise level: *)
(* the passes that turn windows above the threshold into stretches of      *)
(* speech.  A window is speech when its VAD is positive; the passes look   *)
(* at nothing else of its value, and never make it zero, because LevelMin  *)
(* is positive.  One step is one iteration of a pass over the windows.     *)
(***************************************************************************)
EXTENDS SpeechRuns

CONSTANTS
  Nwindows,        \* bound: windows of a signal (Nsamples / Downsample)
  MINSPEECHLGTH,   \* 4: a run of speech this long or shorter is noise
  JOINSPEECHLGTH   \* 50: a silence this long or shorter joins two runs

\* The last pass steps over four windows behind a run, so a silence that was
\* not joined has to be longer; and it writes no window outside the row when a
\* run leaves some room at the ends.  pesqmain.c:469 refuses signals of fewer
\* than two hundred windows.
ASSUME VadAssumption ==
  /\ MINSPEECHLGTH \in Nat \ {0}
  /\ Nwindows \in Nat /\ Nwindows > MINSPEECHLGTH + 5
  /\ JOINSPEECHLGTH \in Nat /\ JOINSPEECHLGTH > 3

VARIABLES
  vad,     \* vad[count]: VAD[count] > 0
  pass,    \* which of the loops
  count, start, finish,
  loud,    \* LevelSig >= 1000 * LevelNoise
  raw,     \* history: the windows above the threshold
  kept     \* history: what was left of them before the silences were joined

vars == <<vad, pass, count, start, finish, loud, raw, kept>>

Window == 0 .. Nwindows - 1
Last   == Nwindows - 1
Passes == {"short", "weak", "join", "none", "widen", "done"}

\* VAD[0] and VAD[Nwindows-1] are made silent, whatever they hold.
Init ==
  /\ raw \in {v \in [Window -> BOOLEAN] : ~v[0] /\ ~v[Last]}
  /\ vad = raw
  /\ loud \in BOOLEAN
  /\ pass = "short"
  /\ count = 1 /\ start = 0 /\ finish = 0
  /\ kept = raw

-----------------------------------------------------------------------------
Rising  == vad[count] /\ ~vad[count - 1]
Falling == ~vad[count] /\ vad[count - 1]

Set(from, to, value) ==
  vad' = [i \in Window |-> IF from <= i /\ i < to THEN value ELSE vad[i]]

\* A slip, for a mutant: the last iteration is one window too far.
AdvanceTooFar(next) ==
  IF count <= Last THEN count' = count + 1 /\ UNCHANGED pass
                   ELSE count' = 1 /\ pass' = next

\* The next iteration of a for loop, or the loop that follows it.
Advance(next) ==
  IF count < Last THEN count' = count + 1 /\ UNCHANGED pass
                  ELSE count' = 1 /\ pass' = next

\* A slip, for a mutant: a run of exactly MINSPEECHLGTH windows is kept.
DropShorter ==
  /\ pass = "short"
  /\ start' = IF Rising THEN count ELSE start
  /\ finish' = IF Falling THEN count ELSE finish
  /\ IF Falling /\ count - start < MINSPEECHLGTH
       THEN Set(start, count, FALSE) ELSE UNCHANGED vad
  /\ Advance(IF loud THEN "weak" ELSE "join")
  /\ kept' = vad'
  /\ UNCHANGED <<loud, raw>>

DropShort ==
  /\ pass = "short"
  /\ start' = IF Rising THEN count ELSE start
  /\ finish' = IF Falling THEN count ELSE finish
  /\ IF Falling /\ count - start <= MINSPEECHLGTH
       THEN Set(start, count, FALSE) ELSE UNCHANGED vad
  /\ Advance(IF loud THEN "weak" ELSE "join")
  /\ kept' = vad'
  /\ UNCHANGED <<loud, raw>>

\* A run may be weaker than three times the threshold.
DropWeak ==
  /\ pass = "weak"
  /\ start' = IF Rising THEN count ELSE start
  /\ finish' = IF Falling THEN count ELSE finish
  /\ \/ UNCHANGED vad
     \/ Falling /\ Set(start, count, FALSE)
  /\ Advance("join")
  /\ kept' = vad'
  /\ UNCHANGED <<loud, raw>>

\* A slip, for a mutant: the silence in front of the first run counts too.
JoinFirst ==
  /\ pass = "join"
  /\ LET from == IF count = 1 THEN 0 ELSE finish
     IN /\ start' = IF Rising THEN count ELSE IF count = 1 THEN 0 ELSE start
        /\ finish' = IF Falling THEN count ELSE from
        /\ IF Rising /\ count - from <= JOINSPEECHLGTH
             THEN Set(from, count, TRUE) ELSE UNCHANGED vad
  /\ Advance("none")
  /\ UNCHANGED <<loud, raw, kept>>

\* start and finish were reset in front of this loop; `finish > 0' says that
\* there is a run in front of this one.
Join ==
  /\ pass = "join"
  /\ LET from == IF count = 1 THEN 0 ELSE finish
     IN /\ start' = IF Rising THEN count ELSE IF count = 1 THEN 0 ELSE start
        /\ finish' = IF Falling THEN count ELSE from
        /\ IF Rising /\ from > 0 /\ count - from <= JOINSPEECHLGTH
             THEN Set(from, count, TRUE) ELSE UNCHANGED vad
  /\ Advance("none")
  /\ UNCHANGED <<loud, raw, kept>>

\* A slip, for a mutant: a signal without speech stays without.
NoFallback ==
  /\ pass = "none"
  /\ pass' = "widen" /\ count' = 3 /\ start' = 0
  /\ UNCHANGED <<vad, finish, loud, raw, kept>>

\* Without any speech everything but the two ends is taken for speech.
NoSpeech ==
  /\ pass = "none"
  /\ IF Starts(vad) = {} THEN Set(1, Last, TRUE) ELSE UNCHANGED vad
  /\ pass' = "widen" /\ count' = 3 /\ start' = 0
  /\ UNCHANGED <<finish, loud, raw, kept>>

\* The two halves of one iteration: two windows in front of a run, and two
\* behind it, which are then stepped over.
Widen ==
  /\ pass = "widen" /\ count < Nwindows - 2
  /\ LET rises  == vad[count] /\ ~vad[count - 2]
         before == IF rises
                     THEN [vad EXCEPT ![count - 2] = TRUE, ![count - 1] = TRUE]
                     ELSE vad
         c      == IF rises THEN count + 1 ELSE count
         falls  == ~before[c] /\ before[c - 1]
     IN /\ vad' = IF falls
                    THEN [before EXCEPT ![c] = TRUE, ![c + 1] = TRUE]
                    ELSE before
        /\ count' = IF falls THEN c + 4 ELSE c + 1
  /\ UNCHANGED <<pass, start, finish, loud, raw, kept>>

Finish ==
  /\ pass = "widen" /\ count >= Nwindows - 2
  /\ pass' = "done"
  /\ UNCHANGED <<vad, count, start, finish, loud, raw, kept>>

Done == pass = "done" /\ UNCHANGED vars

Next == DropShort \/ DropWeak \/ Join \/ NoSpeech \/ Widen \/ Finish \/ Done

Spec == Init /\ [][Next]_vars

-----------------------------------------------------------------------------
\* Every variable keeps its type, and the index stays where VAD[count - 2] to
\* VAD[count + 1] are inside the array while a loop looks at them.
TypeOK ==
  /\ vad \in [Window -> BOOLEAN] /\ raw \in [Window -> BOOLEAN]
  /\ kept \in [Window -> BOOLEAN]
  /\ pass \in Passes /\ loud \in BOOLEAN
  /\ start \in Window /\ finish \in Window
  /\ pass \in {"short", "weak", "join", "none"} => count \in 1 .. Last
  /\ pass = "widen" => count \in 3 .. Last + 4

\* Dropping takes whole runs and nothing else: what is left is made of runs the
\* threshold had found, each longer than MINSPEECHLGTH, and for a signal that
\* is not loud none of those is missing.
WholeRunsAreDropped ==
  pass \notin {"short", "weak"} =>
    /\ Runs(kept) \subseteq Runs(LongOnly(raw, MINSPEECHLGTH))
    /\ ~loud => kept = LongOnly(raw, MINSPEECHLGTH)

\* Where the passes that join and widen in one sweep, over the row they are
\* changing, end up: at what the definitions say of the row they started from.
SweepsMeetTheDefinition ==
  pass = "done" =>
    vad = Widened(IF Starts(kept) = {}
                    THEN [i \in Window |-> i \in 1 .. Last - 1]
                    ELSE Joined(kept, JOINSPEECHLGTH),
                  Nwindows)

\* What the search for utterances is handed, whatever the signal: some speech,
\* none of it at the ends, in runs longer than MINSPEECHLGTH with silences
\* between them that were too long to be joined, less what the runs grew.
SpeechIsSeparated ==
  pass = "done" =>
    /\ Runs(vad) /= {}
    /\ ~vad[0] /\ ~vad[Last]
    /\ \A q, r \in Runs(vad) :
         /\ r.end - r.start > MINSPEECHLGTH
         /\ q.end <= r.start => r.start - q.end > JOINSPEECHLGTH - 4
=============================================================================
