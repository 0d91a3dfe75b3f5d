-------------------------- MODULE PesqMeasureProofs --------------------------
(***************************************************************************)
(* The safety properties of PesqMeasure, for any number of runs, files of  *)
(* any length and any faults, and that every run implements Measurement.   *)
(*                                                                         *)
(* Runs share the results file only.  So the invariant has a part for the  *)
(* record of each run (RunOK: what it holds at every step, how far its     *)
(* buffers are filled, what it has loaded), which the step of another run  *)
(* leaves alone, and a part for the lines of the file (Lines).             *)
(***************************************************************************)
EXTENDS PesqMeasure, FiniteSetTheorems, TLAPS

Labels == LoadSteps \cup MeasureSteps \cup {"report", "died"}

Things ==
  {"input", "Src_file", "data", "VAD", "logVAD", "model", "ftmp", "resultsFile"} \X Slot

RunType ==
  [pc : Labels, slot : Slot, bytes : Int, toRead : Int,
   nsamples : [Slot -> Int], size : [Slot -> Int], filled : [Slot -> Int],
   heap : SUBSET Things,
   wrong : BOOLEAN, loaded : {{}, {"A"}, Slot}, err : 0 .. 2]

\* What a run has loaded follows from where it is.
Loading(r) ==
  /\ r.pc \in LoadSteps => r.loaded = IF r.slot = "A" THEN {} ELSE {"A"}
  /\ r.pc \in MeasureSteps \/ (r.pc = "report" /\ r.err = 0) => r.loaded = Slot
  /\ r.pc \in LoadSteps \cup MeasureSteps => r.err = 0

\* And so does what it holds.
FirstHeld(r) == IF r.slot = "A" THEN {} ELSE Signal("A")
Holding(r) ==
  /\ ~ r.wrong
  /\ r.pc \in {"start", "open"} => r.heap = FirstHeld(r)
  /\ r.pc = "size" => r.heap = FirstHeld(r) \cup Reading(r.slot)
  /\ r.pc = "chunk" =>
       r.heap = FirstHeld(r) \cup Reading(r.slot) \cup {<<"data", r.slot>>}
  /\ r.pc = "check" => r.heap = Signal("A") \cup Signal("B")
  /\ r.pc \in {"align", "pad", "model"} => r.heap = Working
  /\ r.pc = "restore" => r.heap = Working \cup Model
  /\ r.pc = "results" => r.heap = {}
  /\ r.pc \in {"heading", "row"} => r.heap = {File}
  /\ r.pc = "report" => r.heap \subseteq (IF r.err = 0 THEN {} ELSE Working)

\* How far the buffers are filled.
Filling(r) ==
  /\ r.pc = "chunk" =>
       /\ r.filled[r.slot] + r.toRead = r.nsamples[r.slot] - Search
       /\ r.size[r.slot] = r.nsamples[r.slot] + Padding
       /\ r.toRead >= 0 \/ r.toRead = r.nsamples[r.slot] - 2 * Search
  /\ \A s \in Slot :
       /\ r.nsamples[s] >= 2 * Search => r.filled[s] <= r.size[s]
       /\ s \in r.loaded =>
            r.filled[s] >= r.size[s] /\ r.size[s] >= r.nsamples[s] + Padding
       /\ r.pc = "model" => \A t \in Slot : r.filled[s] >= r.nsamples[t] + Padding

RunOK(r) == r \in RunType /\ Loading(r) /\ Holding(r) /\ Filling(r)

\* A run is as it should be, and no other run has changed.
RunsInv == DOMAIN run = Proc /\ run = [q \in Proc |-> run[q]] /\ \A q \in Proc : RunOK(run[q])

\* Only the run p has changed, and is still as it should be.
GoesOn(p) ==
  /\ run' = [run EXCEPT ![p] = run'[p]]
  /\ RunOK(run'[p])

-----------------------------------------------------------------------------
(* Steps of a run: each gives a new record, and that one is as it should be. *)

LEMMA Replaced ==
  ASSUME RunsInv, NEW p \in Proc, NEW new, run' = [run EXCEPT ![p] = new], RunOK(new)
  PROVE  GoesOn(p)
<1>1. run'[p] = new  BY DEF RunsInv
<1> QED  BY <1>1 DEF GoesOn

LEMMA DieGoesOn ==
  ASSUME RunsInv, NEW p \in Proc, Die(p)
  PROVE  GoesOn(p)
<1> DEFINE r == run[p]
           new == [r EXCEPT !.pc = "died"]
<1>1. run' = [run EXCEPT ![p] = new]  BY DEF Die
<1>2. RunOK(r)  BY DEF RunsInv
<1> HIDE DEF r
<1>3. RunOK(new)
  BY <1>2 DEF RunOK, RunType, Labels, LoadSteps, MeasureSteps, Loading, Holding, Filling
<1> QED  BY <1>1, <1>3, Replaced

\* An error gives back buffers that it has, and leaves no file and no copy.
LEMMA FailGoesOn ==
  ASSUME RunsInv, NEW p \in Proc, NEW e \in {1, 2}, NEW freed, Fail(p, e, freed),
         freed \subseteq Held(p), Held(p) \ freed \subseteq Working
  PROVE  GoesOn(p)
<1> DEFINE r == run[p]
           new == [r EXCEPT !.pc = "report", !.err = e, !.heap = @ \ freed,
                            !.wrong = FALSE]
<1>1. RunOK(r) /\ ~ r.wrong /\ r.wrong \in BOOLEAN
  BY DEF RunsInv, RunOK, Holding, RunType
<1>2. (r.wrong \/ ~ (freed \subseteq Held(p))) = FALSE  BY <1>1
<1>3. run' = [run EXCEPT ![p] = new]  BY <1>2 DEF Fail
<1>4. r.heap \ freed \subseteq Working /\ r.heap \ freed \in SUBSET Things
  BY <1>1 DEF RunOK, RunType, Held
<1> HIDE DEF r
<1>5. new \in RunType
  <2>1. e \in 0 .. 2 /\ FALSE \in BOOLEAN /\ "report" \in Labels  BY DEF Labels
  <2>2. [r EXCEPT !.pc = "report", !.err = e] \in RunType
    BY <1>1, <2>1 DEF RunOK, RunType
  <2> QED  BY <1>1, <1>4, <2>1, <2>2 DEF RunOK, RunType
<1>6. Loading(new) /\ Holding(new)
  BY <1>1, <1>4 DEF RunOK, RunType, LoadSteps, MeasureSteps, Loading, Holding
<1>7. Filling(new)
  BY <1>1 DEF RunOK, RunType, Filling
<1> QED  BY <1>3, <1>5, <1>6, <1>7, Replaced DEF RunOK

LEMMA StartGoesOn ==
  ASSUME RunsInv, NEW p \in Proc, Start(p)
  PROVE  GoesOn(p)
<1> DEFINE r == run[p]
           new == [r EXCEPT !.pc = "open"]
<1>1. run' = [run EXCEPT ![p] = new]  BY DEF Start
<1>2. RunOK(r) /\ r.pc = "start"  BY DEF RunsInv, Start, At
<1> HIDE DEF r
<1>3. RunOK(new)
  BY <1>2 DEF RunOK, RunType, Labels, LoadSteps, MeasureSteps, Loading, Holding,
              Filling, FirstHeld
<1> QED  BY <1>1, <1>3, Replaced

LEMMA OpenGoesOn ==
  ASSUME RunsInv, NEW p \in Proc, Open(p)
  PROVE  GoesOn(p)
<1> DEFINE r == run[p]
           s == r.slot
<1>1. /\ RunOK(r) /\ r.pc = "open" /\ s \in Slot /\ r.heap = FirstHeld(r)
      /\ r.heap \in SUBSET Things
  BY DEF RunsInv, Open, At, RunOK, RunType, Holding
<1>2. PICK b \in Bytes[p] :
        \/ run' = [run EXCEPT ![p].pc = "size", ![p].bytes = b,
                              ![p].heap = @ \cup Reading(s)]
        \/ Fail(p, 1, {})
        \/ Die(p)
  BY DEF Open
<1>3. CASE run' = [run EXCEPT ![p].pc = "size", ![p].bytes = b,
                              ![p].heap = @ \cup Reading(s)]
  <2> DEFINE new == [r EXCEPT !.pc = "size", !.bytes = b, !.heap = @ \cup Reading(s)]
  <2>1. run' = [run EXCEPT ![p] = new]  BY <1>3
  <2>2. b \in Int  BY PesqMeasureAssumption
  <2>3. r.heap \cup Reading(s) \in SUBSET Things
    BY <1>1 DEF Reading, Things
  <2> HIDE DEF r
  <2>4. new \in RunType
    BY <1>1, <2>2, <2>3 DEF RunOK, RunType, Labels, LoadSteps
  <2>5. Loading(new) /\ Holding(new)
    BY <1>1 DEF RunOK, RunType, LoadSteps, MeasureSteps, Loading, Holding, FirstHeld
  <2>6. Filling(new)
    BY <1>1 DEF RunOK, RunType, Filling
  <2> QED  BY <2>1, <2>4, <2>5, <2>6, Replaced DEF RunOK
<1>4. CASE Fail(p, 1, {})
  <2>1. Held(p) \subseteq Working
    BY <1>1 DEF Held, FirstHeld, Working
  <2> QED  BY <1>4, <2>1, FailGoesOn
<1> QED  BY <1>2, <1>3, <1>4, DieGoesOn

LEMMA SizeGoesOn ==
  ASSUME RunsInv, NEW p \in Proc, Size(p)
  PROVE  GoesOn(p)
<1> DEFINE r == run[p]
           s == r.slot
           n == r.bytes \div 2 - Header
           new == [r EXCEPT !.pc = "chunk", !.toRead = n,
                            !.nsamples[s] = n + 2 * Search,
                            !.size[s] = n + 2 * Search + Padding,
                            !.filled[s] = Search,
                            !.heap = @ \cup {<<"data", s>>}]
<1>1. /\ RunOK(r) /\ r.pc = "size" /\ s \in Slot
      /\ r.heap = FirstHeld(r) \cup Reading(s) /\ r.heap \in SUBSET Things
  BY DEF RunsInv, Size, At, RunOK, RunType, Holding
<1>2. CASE run' = [run EXCEPT ![p] = new]
  <2>1. /\ Search \in Nat \ {0} /\ Header \in Nat /\ Padding \in Nat /\ n \in Int
        /\ n + 2 * Search \in Int /\ n + 2 * Search + Padding \in Int /\ Search \in Int
    BY <1>1, PesqMeasureAssumption DEF RunOK, RunType
  <2> HIDE DEF r, s, n
  <2>2. r.heap \cup {<<"data", s>>} \in SUBSET Things
    BY <1>1 DEF Things
  <2>3. \A f \in [Slot -> Int], x \in Int : [f EXCEPT ![s] = x] \in [Slot -> Int]
    BY <1>1
  <2>4. /\ [r.nsamples EXCEPT ![s] = n + 2 * Search] \in [Slot -> Int]
        /\ [r.size EXCEPT ![s] = n + 2 * Search + Padding] \in [Slot -> Int]
        /\ [r.filled EXCEPT ![s] = Search] \in [Slot -> Int]
    BY <1>1, <2>1, <2>3 DEF RunOK, RunType
  <2>5. [r EXCEPT !.pc = "chunk", !.toRead = n] \in RunType
    BY <1>1, <2>1 DEF RunOK, RunType, Labels, LoadSteps
  <2>6. new \in RunType
    BY <1>1, <2>2, <2>4, <2>5 DEF RunOK, RunType, Labels, LoadSteps
  <2>7. Loading(new)
    BY <1>1, <2>1 DEF RunOK, RunType, LoadSteps, MeasureSteps, Loading, s
  <2>8. Holding(new)
    BY <1>1, <2>1 DEF RunOK, RunType, Holding, FirstHeld, s
  <2>9. Filling(new)
    BY <1>1, <2>1 DEF RunOK, RunType, Filling, Loading, LoadSteps, Slot, s
  <2>10. RunOK(new)  BY <2>6, <2>7, <2>8, <2>9 DEF RunOK
  <2> HIDE DEF new
  <2> QED  BY <1>2, <2>10, Replaced
<1>3. CASE Fail(p, 1, Reading(s))
  <2>1. Reading(s) \subseteq Held(p) /\ Held(p) \ Reading(s) \subseteq Working
    BY <1>1 DEF Held, FirstHeld, Working
  <2> QED  BY <1>3, <2>1, FailGoesOn
<1> QED  BY <1>2, <1>3 DEF Size

LEMMA ShortReadGoesOn ==
  ASSUME RunsInv, NEW p \in Proc, ShortRead(p)
  PROVE  GoesOn(p)
<1> DEFINE r == run[p]
           s == r.slot
           freed == Reading(s) \cup {<<"data", s>>}
<1>1. /\ s \in Slot /\ r.heap = FirstHeld(r) \cup Reading(s) \cup {<<"data", s>>}
  BY DEF RunsInv, ShortRead, At, RunOK, RunType, Holding
<1>2. Fail(p, 1, freed)  BY DEF ShortRead
<1>3. freed \subseteq Held(p) /\ Held(p) \ freed \subseteq Working
  BY <1>1 DEF Held, FirstHeld, Working
<1> QED  BY <1>2, <1>3, FailGoesOn

LEMMA ReadChunkGoesOn ==
  ASSUME RunsInv, NEW p \in Proc, ReadChunk(p)
  PROVE  GoesOn(p)
<1> DEFINE r == run[p]
           s == r.slot
           new == [r EXCEPT !.filled[s] = @ + Chunk, !.toRead = @ - Chunk]
<1>1. /\ RunOK(r) /\ r.pc = "chunk" /\ s \in Slot /\ r.toRead > Chunk
      /\ run' = [run EXCEPT ![p] = new]
  BY DEF RunsInv, ReadChunk, At, RunOK, RunType
<1>2. /\ Chunk \in Nat \ {0} /\ r.filled[s] + Chunk \in Int /\ r.toRead - Chunk \in Int
      /\ Search \in Nat /\ Padding \in Nat /\ r.toRead \in Int /\ r.filled[s] \in Int
  BY <1>1, PesqMeasureAssumption DEF RunOK, RunType
<1> HIDE DEF r, s
<1>3. [r.filled EXCEPT ![s] = @ + Chunk] \in [Slot -> Int]
  BY <1>1, <1>2 DEF RunOK, RunType
<1>4. new \in RunType
  BY <1>1, <1>2, <1>3 DEF RunOK, RunType
<1>5. Loading(new) /\ Holding(new)
  BY <1>1 DEF RunOK, RunType, LoadSteps, MeasureSteps, Loading, Holding, FirstHeld
<1>6. Filling(new)
  <2>1. s \notin r.loaded
    BY <1>1 DEF RunOK, Loading, LoadSteps, Slot, s
  <2> QED  BY <1>1, <1>2, <2>1 DEF RunOK, RunType, Filling, s
<1>7. RunOK(new)  BY <1>4, <1>5, <1>6 DEF RunOK
<1> HIDE DEF new
<1> QED  BY <1>1, <1>7, Replaced

LEMMA ReadRestGoesOn ==
  ASSUME RunsInv, NEW p \in Proc, ReadRest(p)
  PROVE  GoesOn(p)
<1> DEFINE r == run[p]
           s == r.slot
           n == IF r.toRead < 0 THEN 0 ELSE r.toRead
           more == r.filled[s] + n + Padding + Search
<1>1. /\ RunOK(r) /\ r.pc = "chunk" /\ s \in Slot
      /\ r.heap = FirstHeld(r) \cup Reading(s) \cup {<<"data", s>>}
      /\ r.heap \in SUBSET Things
  BY DEF RunsInv, ReadRest, At, RunOK, RunType, Holding
<1>2. /\ Search \in Nat \ {0} /\ Padding \in Nat /\ more \in Int
      /\ r.filled[s] \in Int /\ r.toRead \in Int
  BY <1>1, PesqMeasureAssumption DEF RunOK, RunType
<1>3. [r.filled EXCEPT ![s] = more] \in [Slot -> Int]
  <2> HIDE DEF r, s, more
  <2> QED  BY <1>1, <1>2 DEF RunOK, RunType
<1>4. /\ [r.filled EXCEPT ![s] = more][s] = more
      /\ \A t \in Slot : t # s => [r.filled EXCEPT ![s] = more][t] = r.filled[t]
  <2> HIDE DEF r, s, more
  <2> QED  BY <1>1, <1>2 DEF RunOK, RunType
<1>5. \A t \in Slot : r.nsamples[t] >= 2 * Search =>
                        [r.filled EXCEPT ![s] = more][t] <= r.size[t]
  BY <1>1, <1>2, <1>4 DEF RunOK, RunType, Filling
<1>6. \A t \in r.loaded \cup {s} :
        /\ [r.filled EXCEPT ![s] = more][t] >= r.size[t]
        /\ r.size[t] >= r.nsamples[t] + Padding
  <2>1. s \notin r.loaded /\ r.loaded \subseteq Slot
    BY <1>1 DEF RunOK, Loading, LoadSteps, Slot
  <2>2. more >= r.size[s] /\ r.size[s] >= r.nsamples[s] + Padding
    BY <1>1, <1>2 DEF RunOK, RunType, Filling
  <2> QED  BY <1>1, <1>4, <2>1, <2>2 DEF RunOK, Filling
<1>7. CASE run' = [run EXCEPT
             ![p].filled[s] = more, ![p].toRead = 0,
             ![p].pc = IF s = "A" THEN "open" ELSE "check",
             ![p].slot = "B", ![p].loaded = @ \cup {s},
             ![p].heap = (@ \ Reading(s)) \cup Vads(s)]
  <2> DEFINE new == [r EXCEPT !.filled[s] = more, !.toRead = 0,
                       !.pc = IF s = "A" THEN "open" ELSE "check",
                       !.slot = "B", !.loaded = @ \cup {s},
                       !.heap = (@ \ Reading(s)) \cup Vads(s)]
  <2>1. run' = [run EXCEPT ![p] = new]  BY <1>7
  <2> HIDE DEF r, s, n, more
  <2>2. (r.heap \ Reading(s)) \cup Vads(s) \in SUBSET Things
    BY <1>1 DEF Vads, Things
  <2>3. r.loaded \cup {s} \in {{}, {"A"}, Slot}
    BY <1>1 DEF RunOK, Loading, LoadSteps, Slot, s
  <2>4. [r EXCEPT !.filled[s] = more, !.toRead = 0] \in RunType
    <3>1. [r EXCEPT !.toRead = 0] \in RunType  BY <1>1 DEF RunOK, RunType
    <3> QED  BY <1>1, <1>3, <3>1 DEF RunOK, RunType
  <2>5. (IF s = "A" THEN "open" ELSE "check") \in Labels /\ "B" \in Slot
    BY DEF Labels, LoadSteps, MeasureSteps, Slot
  <2>6. new \in RunType
    BY <1>1, <2>2, <2>3, <2>4, <2>5 DEF RunOK, RunType
  <2>7. Loading(new)
    BY <1>1, <2>3 DEF RunOK, RunType, LoadSteps, MeasureSteps, Loading, Slot, s
  <2>8. Holding(new)
    BY <1>1 DEF RunOK, RunType, Holding, FirstHeld, Signal, Vads, Reading, Slot, s
  <2>9. Filling(new)
    BY <1>1, <1>3, <1>5, <1>6 DEF RunOK, RunType, Filling
  <2>10. RunOK(new)  BY <2>6, <2>7, <2>8, <2>9 DEF RunOK
  <2> HIDE DEF new
  <2> QED  BY <2>1, <2>10, Replaced
<1>8. ASSUME NEW got \in SUBSET Vads(s),
             run' = [run EXCEPT
               ![p].filled[s] = more, ![p].toRead = 0,
               ![p].pc = "report", ![p].err = 1,
               ![p].heap = (@ \ Reading(s)) \cup got]
      PROVE  GoesOn(p)
  <2> DEFINE new == [r EXCEPT !.filled[s] = more, !.toRead = 0,
                       !.pc = "report", !.err = 1,
                       !.heap = (@ \ Reading(s)) \cup got]
  <2>1. run' = [run EXCEPT ![p] = new]  BY <1>8
  <2> HIDE DEF r, s, n, more
  <2>2. (r.heap \ Reading(s)) \cup got \in SUBSET Things
    BY <1>1 DEF Vads, Things
  <2>3. (r.heap \ Reading(s)) \cup got \subseteq Working
    BY <1>1 DEF Working, Signal, FirstHeld, Slot
  <2>4. [r EXCEPT !.filled[s] = more, !.toRead = 0] \in RunType
    <3>1. [r EXCEPT !.toRead = 0] \in RunType  BY <1>1 DEF RunOK, RunType
    <3> QED  BY <1>1, <1>3, <3>1 DEF RunOK, RunType
  <2>5. new \in RunType
    <3>1. "report" \in Labels /\ 1 \in 0 .. 2  BY DEF Labels
    <3> QED  BY <1>1, <2>2, <2>4, <3>1 DEF RunOK, RunType
  <2>6. Loading(new)
    BY <1>1 DEF RunOK, RunType, LoadSteps, MeasureSteps, Loading
  <2>7. Holding(new)
    BY <1>1, <2>3 DEF RunOK, RunType, Holding
  <2>8. Filling(new)
    BY <1>1, <1>3, <1>5, <1>6 DEF RunOK, RunType, Filling
  <2>9. RunOK(new)  BY <2>5, <2>6, <2>7, <2>8 DEF RunOK
  <2> HIDE DEF new
  <2> QED  BY <2>1, <2>9, Replaced
<1> QED  BY <1>7, <1>8, DieGoesOn DEF ReadRest

\* A step that only goes on to another label and takes or gives back buffers.
LEMMA HeapGoesOn ==
  ASSUME RunsInv, NEW p \in Proc, NEW l \in MeasureSteps \cup {"report"},
         NEW h \in SUBSET Things, run[p].pc \in MeasureSteps, l # "model",
         run' = [run EXCEPT ![p].pc = l, ![p].heap = h, ![p].wrong = FALSE],
         Holding([run[p] EXCEPT !.pc = l, !.heap = h, !.wrong = FALSE])
  PROVE  GoesOn(p)
<1> DEFINE r == run[p]
           new == [r EXCEPT !.pc = l, !.heap = h, !.wrong = FALSE]
<1>1. RunOK(r) /\ r.pc \in MeasureSteps /\ run' = [run EXCEPT ![p] = new]
  BY DEF RunsInv
<1>2. Holding(new)  OBVIOUS
<1> HIDE DEF r
<1>3. new \in RunType
  <2>1. l \in Labels /\ FALSE \in BOOLEAN  BY DEF Labels
  <2> QED  BY <1>1, <2>1 DEF RunOK, RunType
<1>4. Loading(new) /\ Filling(new)
  BY <1>1 DEF RunOK, RunType, LoadSteps, MeasureSteps, Loading, Filling
<1>5. RunOK(new)  BY <1>2, <1>3, <1>4 DEF RunOK
<1> HIDE DEF new
<1> QED  BY <1>1, <1>5, Replaced

\* What the code checks before it uses or frees something is there.
LEMMA NothingWrong ==
  ASSUME RunsInv, NEW p \in Proc, NEW used, used \subseteq Held(p)
  PROVE  (run[p].wrong \/ ~ (used \subseteq Held(p))) = FALSE
BY DEF RunsInv, RunOK, Holding, RunType

LEMMA CheckGoesOn ==
  ASSUME RunsInv, NEW p \in Proc, Check(p)
  PROVE  GoesOn(p)
<1> DEFINE r == run[p]
           new == [r EXCEPT !.pc = "align", !.heap = @ \cup {<<"ftmp", "A">>}]
<1>1. /\ RunOK(r) /\ r.pc = "check" /\ r.heap = Signal("A") \cup Signal("B")
      /\ r.heap \in SUBSET Things
  BY DEF RunsInv, Check, At, RunOK, RunType, Holding
<1>2. CASE Fail(p, 2, {})
  <2>1. Held(p) \subseteq Working  BY <1>1 DEF Held, Working
  <2> QED  BY <1>2, <2>1, FailGoesOn
<1>3. CASE run' = [run EXCEPT ![p] = new]
  <2>1. r.heap \cup {<<"ftmp", "A">>} = Working  BY <1>1 DEF Working
  <2>2. r.heap \cup {<<"ftmp", "A">>} \in SUBSET Things
    BY <1>1 DEF Things, Slot
  <2> HIDE DEF r
  <2>3. new \in RunType
    BY <1>1, <2>2 DEF RunOK, RunType, Labels, MeasureSteps
  <2>4. Loading(new)
    BY <1>1 DEF RunOK, RunType, Loading, LoadSteps, MeasureSteps
  <2>5. Holding(new)
    BY <1>1, <2>1 DEF RunOK, RunType, Holding
  <2>6. Filling(new)
    BY <1>1 DEF RunOK, RunType, Filling
  <2>7. RunOK(new)  BY <2>3, <2>4, <2>5, <2>6 DEF RunOK
  <2> HIDE DEF new
  <2> QED  BY <1>3, <2>7, Replaced
<1> QED  BY <1>2, <1>3 DEF Check

LEMMA AlignGoesOn ==
  ASSUME RunsInv, NEW p \in Proc, Align(p)
  PROVE  GoesOn(p)
<1> DEFINE h == run[p].heap \cup Model
<1>1. /\ run[p].pc = "align" /\ run[p].heap = Working /\ run[p].heap \in SUBSET Things
  BY DEF RunsInv, Align, At, RunOK, RunType, Holding
<1>2. CASE run' = [run EXCEPT ![p].pc = "restore", ![p].heap = @ \cup Model,
                              ![p].wrong = @ \/ ~ (Working \subseteq Held(p))]
  <2>1. run' = [run EXCEPT ![p].pc = "restore", ![p].heap = h, ![p].wrong = FALSE]
    BY <1>1, <1>2, NothingWrong DEF Held
  <2>2. h \in SUBSET Things /\ h = Working \cup Model
    BY <1>1 DEF Things, Model
  <2>3. Holding([run[p] EXCEPT !.pc = "restore", !.heap = h, !.wrong = FALSE])
    BY <1>1, <2>2 DEF RunsInv, RunOK, RunType, Holding
  <2> QED  BY <1>1, <2>1, <2>2, <2>3, HeapGoesOn DEF MeasureSteps
<1> QED  BY <1>2, DieGoesOn DEF Align

LEMMA RestoreGoesOn ==
  ASSUME RunsInv, NEW p \in Proc, Restore(p)
  PROVE  GoesOn(p)
<1> DEFINE h == run[p].heap \ Model
<1>1. /\ run[p].pc = "restore" /\ run[p].heap = Working \cup Model
      /\ run[p].heap \in SUBSET Things
  BY DEF RunsInv, Restore, At, RunOK, RunType, Holding
<1>2. CASE run' = [run EXCEPT ![p].pc = "pad", ![p].heap = @ \ Model,
                     ![p].wrong = @ \/ ~ ((Working \cup Model) \subseteq Held(p))]
  <2>1. run' = [run EXCEPT ![p].pc = "pad", ![p].heap = h, ![p].wrong = FALSE]
    BY <1>1, <1>2, NothingWrong DEF Held
  <2>2. h \in SUBSET Things /\ h = Working
    BY <1>1 DEF Working, Signal, Vads, Model
  <2>3. Holding([run[p] EXCEPT !.pc = "pad", !.heap = h, !.wrong = FALSE])
    BY <1>1, <2>2 DEF RunsInv, RunOK, RunType, Holding
  <2> QED  BY <1>1, <2>1, <2>2, <2>3, HeapGoesOn DEF MeasureSteps
<1> QED  BY <1>2, DieGoesOn DEF Restore

LEMMA RunModelGoesOn ==
  ASSUME RunsInv, NEW p \in Proc, RunModel(p)
  PROVE  GoesOn(p)
<1> DEFINE h == run[p].heap \ Working
<1>1. /\ run[p].pc = "model" /\ run[p].heap = Working /\ run[p].heap \in SUBSET Things
  BY DEF RunsInv, RunModel, At, RunOK, RunType, Holding
<1>2. CASE run' = [run EXCEPT ![p].pc = "results", ![p].heap = @ \ Working,
                              ![p].wrong = @ \/ ~ (Working \subseteq Held(p))]
  <2>1. run' = [run EXCEPT ![p].pc = "results", ![p].heap = h, ![p].wrong = FALSE]
    BY <1>1, <1>2, NothingWrong DEF Held
  <2>2. h \in SUBSET Things /\ h = {}  BY <1>1
  <2>3. Holding([run[p] EXCEPT !.pc = "results", !.heap = h, !.wrong = FALSE])
    BY <1>1, <2>2 DEF RunsInv, RunOK, RunType, Holding
  <2> QED  BY <1>1, <2>1, <2>2, <2>3, HeapGoesOn DEF MeasureSteps
<1> QED  BY <1>2, DieGoesOn DEF RunModel

LEMMA PadGoesOn ==
  ASSUME RunsInv, NEW p \in Proc, Pad(p)
  PROVE  GoesOn(p)
<1> DEFINE r == run[p]
           grown == [A |-> Grown(p, "A", "B"), B |-> Grown(p, "B", "A")]
           new == [r EXCEPT !.pc = "model", !.size = grown, !.filled = grown]
<1>1. RunOK(r) /\ r.pc = "pad"
  BY DEF RunsInv, Pad, At
<1>2. CASE run' = [run EXCEPT ![p].pc = "model", ![p].size = grown, ![p].filled = grown]
  <2>1. run' = [run EXCEPT ![p] = new]  BY <1>2
  <2>2. /\ Padding \in Nat /\ r.loaded = Slot
        /\ \A s \in Slot : r.nsamples[s] \in Int /\ r.size[s] \in Int
                           /\ r.size[s] >= r.nsamples[s] + Padding
    BY <1>1, PesqMeasureAssumption
       DEF RunOK, RunType, Loading, Filling, MeasureSteps
  <2>3. \A s, t \in Slot :
          /\ Grown(p, s, t) \in Int /\ Grown(p, s, t) >= r.nsamples[s] + Padding
          /\ Grown(p, s, t) >= r.nsamples[t] + Padding
    BY <2>2 DEF Grown
  <2>4. /\ DOMAIN grown = Slot
        /\ grown["A"] = Grown(p, "A", "B") /\ grown["B"] = Grown(p, "B", "A")
    BY DEF Slot
  <2>5. grown \in [Slot -> Int]
    BY <2>3 DEF Slot
  <2>6. \A s, t \in Slot : grown[s] >= r.nsamples[t] + Padding
    BY <2>3, <2>4 DEF Slot
  <2> HIDE DEF r, grown
  <2>7. new \in RunType
    BY <1>1, <2>5 DEF RunOK, RunType, Labels, MeasureSteps
  <2>8. Loading(new) /\ Holding(new)
    BY <1>1 DEF RunOK, RunType, LoadSteps, MeasureSteps, Loading, Holding
  <2>9. Filling(new)
    BY <1>1, <2>5, <2>6 DEF RunOK, RunType, Filling
  <2>10. RunOK(new)  BY <2>7, <2>8, <2>9 DEF RunOK
  <2> HIDE DEF new
  <2> QED  BY <2>1, <2>10, Replaced
<1> QED  BY <1>2, DieGoesOn DEF Pad

\* The steps on the results file.
LEMMA FileGoesOn ==
  ASSUME RunsInv, NEW p \in Proc, run[p].pc \in {"results", "heading", "row"},
         NEW new \in RunType, run' = [run EXCEPT ![p] = new],
         new.pc \in {"heading", "row", "report"},
         new.heap = IF new.pc = "report" THEN {} ELSE {File},
         new.slot = run[p].slot, new.nsamples = run[p].nsamples,
         new.size = run[p].size, new.filled = run[p].filled,
         new.wrong = run[p].wrong, new.loaded = run[p].loaded, new.err = run[p].err
  PROVE  GoesOn(p)
<1>1. RunOK(run[p])  BY DEF RunsInv
<1>2. Loading(new) /\ Holding(new)
  BY <1>1 DEF RunOK, Loading, Holding, LoadSteps, MeasureSteps
<1>3. Filling(new)
  BY <1>1 DEF RunOK, Filling
<1> QED  BY <1>2, <1>3, Replaced DEF RunOK

LEMMA OpenResultsGoesOn ==
  ASSUME RunsInv, NEW p \in Proc, OpenResults(p)
  PROVE  GoesOn(p)
<1> DEFINE r == run[p]
           l == IF results = <<>> THEN "heading" ELSE "row"
<1>1. RunOK(r) /\ r.pc = "results" /\ r.heap = {}
  BY DEF RunsInv, OpenResults, At, RunOK, Holding
<1>2. CASE run' = [run EXCEPT ![p].pc = l, ![p].heap = @ \cup {File}]
  <2> DEFINE new == [r EXCEPT !.pc = l, !.heap = @ \cup {File}]
  <2>1. run' = [run EXCEPT ![p] = new]  BY <1>2
  <2>2. r.heap \cup {File} \in SUBSET Things /\ r.heap \cup {File} = {File}
    BY <1>1 DEF Things, File, Slot
  <2>3. l \in {"heading", "row"}  OBVIOUS
  <2> HIDE DEF r, l
  <2>4. new \in RunType
    BY <1>1, <2>2, <2>3 DEF RunOK, RunType, Labels, MeasureSteps
  <2>5. /\ new.pc = l /\ new.heap = {File} /\ new.slot = r.slot
        /\ new.nsamples = r.nsamples /\ new.size = r.size /\ new.filled = r.filled
        /\ new.wrong = r.wrong /\ new.loaded = r.loaded /\ new.err = r.err
    BY <1>1, <2>2 DEF RunOK, RunType
  <2> HIDE DEF new
  <2> QED  BY <1>1, <2>1, <2>3, <2>4, <2>5, FileGoesOn DEF r
<1>3. CASE run' = [run EXCEPT ![p].pc = "report"]
  <2> DEFINE new == [r EXCEPT !.pc = "report"]
  <2>1. run' = [run EXCEPT ![p] = new]  BY <1>3
  <2> HIDE DEF r
  <2>2. new \in RunType
    BY <1>1 DEF RunOK, RunType, Labels
  <2>3. /\ new.pc = "report" /\ new.heap = {} /\ new.slot = r.slot
        /\ new.nsamples = r.nsamples /\ new.size = r.size /\ new.filled = r.filled
        /\ new.wrong = r.wrong /\ new.loaded = r.loaded /\ new.err = r.err
    BY <1>1 DEF RunOK, RunType
  <2> HIDE DEF new
  <2> QED  BY <1>1, <2>1, <2>2, <2>3, FileGoesOn DEF r
<1> QED  BY <1>2, <1>3, DieGoesOn DEF OpenResults

LEMMA HeadingGoesOn ==
  ASSUME RunsInv, NEW p \in Proc, Heading(p)
  PROVE  GoesOn(p)
<1> DEFINE r == run[p]
           new == [r EXCEPT !.pc = "row"]
<1>1. /\ RunOK(r) /\ r.pc = "heading" /\ r.heap = {File}
      /\ run' = [run EXCEPT ![p] = new]
  BY DEF RunsInv, Heading, At, RunOK, Holding
<1> HIDE DEF r
<1>2. new \in RunType
  BY <1>1 DEF RunOK, RunType, Labels, MeasureSteps
<1>3. /\ new.pc = "row" /\ new.heap = {File} /\ new.slot = r.slot
      /\ new.nsamples = r.nsamples /\ new.size = r.size /\ new.filled = r.filled
      /\ new.wrong = r.wrong /\ new.loaded = r.loaded /\ new.err = r.err
  BY <1>1 DEF RunOK, RunType
<1> HIDE DEF new
<1> QED  BY <1>1, <1>2, <1>3, FileGoesOn DEF r

LEMMA RowGoesOn ==
  ASSUME RunsInv, NEW p \in Proc, Row(p)
  PROVE  GoesOn(p)
<1> DEFINE r == run[p]
           new == [r EXCEPT !.pc = "report", !.heap = @ \ {File}]
<1>1. /\ RunOK(r) /\ r.pc = "row" /\ r.heap = {File}
      /\ run' = [run EXCEPT ![p] = new]
  BY DEF RunsInv, Row, At, RunOK, Holding
<1> HIDE DEF r
<1>2. new \in RunType
  BY <1>1 DEF RunOK, RunType, Labels
<1>3. /\ new.pc = "report" /\ new.heap = {} /\ new.slot = r.slot
      /\ new.nsamples = r.nsamples /\ new.size = r.size /\ new.filled = r.filled
      /\ new.wrong = r.wrong /\ new.loaded = r.loaded /\ new.err = r.err
  BY <1>1 DEF RunOK, RunType
<1> HIDE DEF new
<1> QED  BY <1>1, <1>2, <1>3, FileGoesOn DEF r

LEMMA StepGoesOn ==
  ASSUME RunsInv, NEW p \in Proc, Step(p) \/ Kill(p)
  PROVE  GoesOn(p)
BY StartGoesOn, OpenGoesOn, SizeGoesOn, ShortReadGoesOn, ReadChunkGoesOn, ReadRestGoesOn,
   CheckGoesOn, AlignGoesOn, RestoreGoesOn, PadGoesOn, RunModelGoesOn, OpenResultsGoesOn,
   HeadingGoesOn, RowGoesOn, DieGoesOn DEF Step, Kill

LEMMA RunsInitially == Init => RunsInv
<1> SUFFICES ASSUME Init, NEW p \in Proc PROVE RunOK(run[p])
  BY DEF Init, RunsInv
<1>1. /\ Search \in Nat /\ Padding \in Nat
  BY PesqMeasureAssumption
<1>2. [s \in Slot |-> 0] \in [Slot -> Int]  OBVIOUS
<1>3. run[p] \in RunType
  BY <1>2 DEF Init, RunType, Labels, LoadSteps, Missing, Slot
<1>4. Loading(run[p]) /\ Holding(run[p])
  BY DEF Init, Loading, Holding, FirstHeld, LoadSteps, MeasureSteps
<1>5. Filling(run[p])
  BY <1>1 DEF Init, Filling, Slot
<1> QED  BY <1>3, <1>4, <1>5 DEF RunOK

LEMMA RunsStep == RunsInv /\ [Next]_vars => RunsInv'
<1> SUFFICES ASSUME RunsInv, [Next]_vars PROVE RunsInv'  OBVIOUS
<1>1. ASSUME NEW p \in Proc, GoesOn(p) PROVE RunsInv'
  BY <1>1 DEF GoesOn, RunsInv
<1>2. CASE UNCHANGED vars  BY <1>2 DEF vars, RunsInv
<1> QED  BY <1>1, <1>2, StepGoesOn DEF Next, Done

LEMMA RunsAlways == Spec => []RunsInv
BY RunsInitially, RunsStep, PTL DEF Spec

-----------------------------------------------------------------------------
(* PesqMeasure implements Measurement. *)

Phase(r) ==
  IF r.pc \in LoadSteps THEN "load" ELSE IF r.pc \in MeasureSteps THEN "measure" ELSE r.pc

Unmoved(r, n) == Phase(n) = Phase(r) /\ n.loaded = r.loaded /\ n.err = r.err

\* The steps of Measurement, on records.
Moves(r, n) ==
  \/ Unmoved(r, n)
  \/ /\ Phase(r) = "load" /\ n.err = r.err
     /\ \/ r.loaded = {} /\ n.loaded = {"A"} /\ Phase(n) = "load"
        \/ r.loaded = {"A"} /\ n.loaded = {"A", "B"} /\ Phase(n) = "measure"
  \/ Phase(r) = "load" /\ Phase(n) = "report" /\ n.err = 1 /\ n.loaded = r.loaded
  \/ Phase(r) = "measure" /\ Phase(n) = "report" /\ n.err \in {0, 2} /\ n.loaded = r.loaded
  \/ /\ Phase(r) \in {"load", "measure"} /\ Phase(n) = "died"
     /\ n.loaded = r.loaded /\ n.err = r.err

LEMMA MovesAreSteps ==
  ASSUME NEW p \in Proc, Moves(run[p], run'[p])
  PROVE  [Contract(p)!Next]_(Contract(p)!vars)
BY DEF Moves, Unmoved, Phase, Contract!Next, Contract!vars, Contract!Load,
       Contract!LoadFails, Contract!Measure, Contract!Die

LEMMA StepMoves ==
  ASSUME RunsInv, NEW p \in Proc, Step(p) \/ Kill(p)
  PROVE  Moves(run[p], run'[p])
<1> DEFINE r == run[p]
           n == run'[p]
<1>1. RunOK(r) /\ DOMAIN run = Proc  BY DEF RunsInv
<1>2. r \in RunType /\ Loading(r)  BY <1>1 DEF RunOK
<1>3. ASSUME Die(p), r.pc \in LoadSteps \cup MeasureSteps PROVE Moves(r, n)
  <2>1. n = [r EXCEPT !.pc = "died"]  BY <1>1, <1>3 DEF Die
  <2>2. n.pc = "died" /\ n.loaded = r.loaded /\ n.err = r.err
    BY <1>2, <2>1 DEF RunType
  <2> QED  BY <1>3, <2>2 DEF Moves, Phase, LoadSteps, MeasureSteps
<1>4. ASSUME NEW freed, Fail(p, 1, freed), r.pc \in LoadSteps
      PROVE  Moves(r, n)
  <2>1. n.pc = "report" /\ n.loaded = r.loaded /\ n.err = 1
    BY <1>1, <1>2, <1>4 DEF Fail, RunType
  <2> QED  BY <1>4, <2>1 DEF Moves, Phase, LoadSteps, MeasureSteps
\* Steps that stay in a phase.
<1>5. ASSUME n.loaded = r.loaded, n.err = r.err,
             \/ n.pc = r.pc
             \/ r.pc \in LoadSteps /\ n.pc \in LoadSteps
             \/ r.pc \in MeasureSteps /\ n.pc \in MeasureSteps
      PROVE  Moves(r, n)
  BY <1>5 DEF Moves, Unmoved, Phase, LoadSteps, MeasureSteps
\* The end of the measurement.
<1>6. ASSUME n.loaded = r.loaded, n.err = r.err, r.pc \in MeasureSteps, n.pc = "report"
      PROVE  Moves(r, n)
  BY <1>2, <1>6 DEF Loading, Moves, Phase, LoadSteps, MeasureSteps
<1>7. CASE Start(p)
  <2>1. r.pc = "start" /\ n.pc = "open" /\ n.loaded = r.loaded /\ n.err = r.err
    BY <1>1, <1>2, <1>7 DEF Start, At, RunType
  <2> QED  BY <1>5, <2>1 DEF LoadSteps
<1>8. CASE Open(p)
  <2>1. r.pc = "open"  BY <1>8 DEF Open, At
  <2>2. PICK b \in Bytes[p] :
          \/ run' = [run EXCEPT ![p].pc = "size", ![p].bytes = b,
                                ![p].heap = @ \cup Reading(r.slot)]
          \/ Fail(p, 1, {})
          \/ Die(p)
    BY <1>8 DEF Open
  <2>3. CASE run' = [run EXCEPT ![p].pc = "size", ![p].bytes = b,
                                ![p].heap = @ \cup Reading(r.slot)]
    <3>1. n.pc = "size" /\ n.loaded = r.loaded /\ n.err = r.err
      BY <1>1, <1>2, <2>3 DEF RunType
    <3> QED  BY <1>5, <2>1, <3>1 DEF LoadSteps
  <2>4. r.pc \in LoadSteps  BY <2>1 DEF LoadSteps
  <2> QED  BY <1>3, <1>4, <2>2, <2>3, <2>4
<1>9. CASE Size(p)
  <2>1. r.pc \in LoadSteps  BY <1>9 DEF Size, At, LoadSteps
  <2>2. \/ Fail(p, 1, Reading(r.slot))
        \/ n.pc = "chunk" /\ n.loaded = r.loaded /\ n.err = r.err
    BY <1>1, <1>2, <1>9 DEF Size, RunType
  <2>3. CASE Fail(p, 1, Reading(r.slot))  BY <1>4, <2>1, <2>3
  <2>4. CASE n.pc = "chunk" /\ n.loaded = r.loaded /\ n.err = r.err
    BY <1>5, <2>1, <2>4 DEF LoadSteps
  <2> QED  BY <2>2, <2>3, <2>4
<1>10. CASE ShortRead(p)
  <2>1. r.pc \in LoadSteps /\ Fail(p, 1, Reading(r.slot) \cup {<<"data", r.slot>>})
    BY <1>10 DEF ShortRead, At, LoadSteps
  <2> QED  BY <1>4, <2>1
<1>11. CASE ReadChunk(p)
  <2>1. n.pc = r.pc /\ n.loaded = r.loaded /\ n.err = r.err
    BY <1>1, <1>2, <1>11 DEF ReadChunk, RunType
  <2> QED  BY <1>5, <2>1
<1>12. CASE ReadRest(p)
  <2> DEFINE s == r.slot
             end == r.filled[s] + (IF r.toRead < 0 THEN 0 ELSE r.toRead) + Padding + Search
  <2>1. r.pc = "chunk" /\ s \in Slot
    BY <1>2, <1>12 DEF ReadRest, At, RunType
  <2>2. CASE run' = [run EXCEPT
               ![p].filled[s] = end, ![p].toRead = 0,
               ![p].pc = IF s = "A" THEN "open" ELSE "check",
               ![p].slot = "B", ![p].loaded = @ \cup {s},
               ![p].heap = (@ \ Reading(s)) \cup Vads(s)]
    <3>1. /\ n.pc = (IF s = "A" THEN "open" ELSE "check")
          /\ n.loaded = r.loaded \cup {s} /\ n.err = r.err
      <4> HIDE DEF end
      <4> QED  BY <1>1, <1>2, <2>2 DEF RunType
    <3>2. r.loaded = IF s = "A" THEN {} ELSE {"A"}
      BY <1>2, <2>1 DEF Loading, LoadSteps
    <3>3. CASE s = "A"
      <4>1. n.pc = "open" /\ n.loaded = {"A"} /\ r.loaded = {}  BY <3>1, <3>2, <3>3
      <4> QED  BY <2>1, <3>1, <4>1 DEF Moves, Phase, LoadSteps
    <3>4. CASE s = "B"
      <4>1. n.pc = "check" /\ n.loaded = {"A", "B"} /\ r.loaded = {"A"}
        BY <3>1, <3>2, <3>4
      <4> QED  BY <2>1, <3>1, <4>1 DEF Moves, Phase, LoadSteps, MeasureSteps
    <3> QED  BY <2>1, <3>3, <3>4 DEF Slot
  <2>3. ASSUME NEW got \in SUBSET Vads(s),
               run' = [run EXCEPT ![p].filled[s] = end, ![p].toRead = 0,
                                  ![p].pc = "report", ![p].err = 1,
                                  ![p].heap = (@ \ Reading(s)) \cup got]
        PROVE  Moves(r, n)
    <3>1. n.pc = "report" /\ n.err = 1 /\ n.loaded = r.loaded
      <4> HIDE DEF end
      <4> QED  BY <1>1, <1>2, <2>3 DEF RunType
    <3> QED  BY <2>1, <3>1 DEF Moves, Phase, LoadSteps, MeasureSteps
  <2>4. r.pc \in LoadSteps  BY <2>1 DEF LoadSteps
  <2> QED  BY <1>3, <1>12, <2>2, <2>3, <2>4 DEF ReadRest
<1>13. CASE Check(p)
  <2>1. r.pc = "check"  BY <1>13 DEF Check, At
  <2>2. CASE Fail(p, 2, {})
    <3>1. n.pc = "report" /\ n.loaded = r.loaded /\ n.err = 2
      BY <1>1, <1>2, <2>2 DEF Fail, RunType
    <3>2. Phase(r) = "measure" /\ Phase(n) = "report"
      BY <2>1, <3>1 DEF Phase, LoadSteps, MeasureSteps
    <3> QED  BY <3>1, <3>2 DEF Moves
  <2>3. CASE run' = [run EXCEPT ![p].pc = "align", ![p].heap = @ \cup {<<"ftmp", "A">>}]
    <3>1. n.pc = "align" /\ n.loaded = r.loaded /\ n.err = r.err
      BY <1>1, <1>2, <2>3 DEF RunType
    <3> QED  BY <1>5, <2>1, <3>1 DEF MeasureSteps
  <2> QED  BY <1>13, <2>2, <2>3 DEF Check
<1>14. CASE Align(p) \/ Restore(p) \/ Pad(p) \/ RunModel(p)
  <2>1. r.pc \in MeasureSteps
    BY <1>14 DEF Align, Restore, Pad, RunModel, At, MeasureSteps
  <2>2. \/ Die(p)
        \/ /\ n.pc \in {"restore", "pad", "model", "results"}
           /\ n.loaded = r.loaded /\ n.err = r.err
    BY <1>1, <1>2, <1>14 DEF Align, Restore, Pad, RunModel, RunType
  <2>3. {"restore", "pad", "model", "results"} \subseteq MeasureSteps
    BY DEF MeasureSteps
  <2> QED  BY <1>3, <1>5, <2>1, <2>2, <2>3
<1>15. CASE OpenResults(p) \/ Heading(p) \/ Row(p)
  <2>1. r.pc \in MeasureSteps
    BY <1>15 DEF OpenResults, Heading, Row, At, MeasureSteps
  <2>2. \/ Die(p)
        \/ /\ n.pc \in {"heading", "row", "report"}
           /\ n.loaded = r.loaded /\ n.err = r.err
    BY <1>1, <1>2, <1>15 DEF OpenResults, Heading, Row, RunType
  <2>3. {"heading", "row"} \subseteq MeasureSteps  BY DEF MeasureSteps
  <2> QED  BY <1>3, <1>5, <1>6, <2>1, <2>2, <2>3
<1>16. CASE Kill(p)
  <2>1. r.pc \in LoadSteps \cup MeasureSteps /\ Die(p)
    BY <1>2, <1>16 DEF Kill, RunType, Labels
  <2> QED  BY <1>3, <2>1
<1> QED
  BY <1>7, <1>8, <1>9, <1>10, <1>11, <1>12, <1>13, <1>14, <1>15, <1>16 DEF Step

\* For its caller every run does what module Measurement says: its first state is
\* an initial one, and each step one of its steps or none
\* (pesqmain.c:439-655).
THEOREM ImplementsMeasurement == Spec => KeepsMeasurement
<1>1. Init => \A p \in Proc : Contract(p)!Init
  BY DEF Init, Contract!Init, LoadSteps
<1>2. RunsInv /\ [Next]_vars => \A p \in Proc : [Contract(p)!Next]_(Contract(p)!vars)
  <2> SUFFICES ASSUME RunsInv, [Next]_vars, NEW p \in Proc
               PROVE  [Contract(p)!Next]_(Contract(p)!vars)
    OBVIOUS
  <2>1. CASE Step(p) \/ Kill(p)  BY <2>1, StepMoves, MovesAreSteps
  <2>2. CASE run'[p] = run[p]
    <3>1. Moves(run[p], run'[p])  BY <2>2 DEF Moves, Unmoved
    <3> QED  BY <3>1, MovesAreSteps
  <2>3. ASSUME NEW q \in Proc, q # p, Step(q) \/ Kill(q) PROVE run'[p] = run[p]
    <3>1. GoesOn(q)  BY <2>3, StepGoesOn
    <3> QED  BY <2>3, <3>1 DEF GoesOn, RunsInv
  <2> QED  BY <2>1, <2>2, <2>3 DEF Next, Done, vars
<1>3. RunsInv /\ [Next]_vars
        => [\A p \in Proc : [Contract(p)!Next]_(Contract(p)!vars)]_vars
  BY <1>2
<1> QED  BY <1>1, <1>3, RunsAlways, PTL DEF Spec, KeepsMeasurement

-----------------------------------------------------------------------------
(* Buffers. *)

\* Nothing is used or freed that a run does not hold, and what it holds when it
\* returns is what pesq_measure leaves after an error (pesqio.c:208-375,
\* pesqmain.c:439-602).
THEOREM HeapCorrect == Spec => []HeapInOrder
<1>1. RunsInv => HeapInOrder
  BY DEF RunsInv, RunOK, Holding, HeapInOrder, At, Held
<1> QED  BY <1>1, RunsAlways, PTL

\* For files of any length load_src fills its buffers to the end, and not beyond
\* if the file is as long as its header; the model finds both signals as long as
\* the longer one (pesqio.c:278-375, pesqmain.c:561-591).
THEOREM BuffersCorrect == Spec => []BuffersHold
<1>1. RunsInv => BuffersHold
  BY DEF RunsInv, RunOK, Filling, BuffersHold, At
<1> QED  BY <1>1, RunsAlways, PTL

-----------------------------------------------------------------------------
(* The results file. *)

\* Lines of the file and the runs they come from.  A run that returned stays
\* returned, so what was written before another one started is not written by
\* a run that may still write.
Lines ==
  /\ results \in Seq({"heading", "row"} \X Proc)
  /\ lost \in BOOLEAN /\ earlier \in [Proc -> SUBSET Proc]
  /\ \A p \in Proc, q \in Proc : q \in earlier[p] => run[q].pc = "report"

Rows ==
  /\ \A p \in Proc, i \in DOMAIN results :
       results[i] = <<"row", p>> =>
         /\ run[p].pc = "report" /\ run[p].err = 0 /\ run[p].loaded = Slot
         /\ \A j \in DOMAIN results : results[j] = results[i] => j = i
  /\ \A p \in Proc :
       run[p].pc = "report" /\ run[p].err = 0 =>
         p \in Faulty \/ \E i \in DOMAIN results : results[i] = <<"row", p>>

Headings ==
  /\ results # <<>> /\ ~ lost => results[1][1] = "heading"
  /\ \A p \in Proc : run[p].pc = "row" => results # <<>> \/ lost
  /\ \A p \in Proc, i \in DOMAIN results :
       results[i] = <<"heading", p>> => run[p].pc \in {"row", "report", "died"}
  /\ \A p \in Proc, i \in DOMAIN results :
       run[p].pc = "heading" /\ results[i][1] = "heading"
         => results[i][2] \notin earlier[p]
  /\ \A i, j \in DOMAIN results :
       i < j /\ results[i][1] = "heading" /\ results[j][1] = "heading"
         => results[i][2] \notin earlier[results[j][2]]

FileInv == Lines /\ Rows /\ Headings

\* The steps that neither start a run nor write a line.
Quiet(p) ==
  LET r == run[p] n == run'[p] IN
  /\ results' = results /\ earlier' = earlier /\ (lost' = lost \/ lost' = TRUE)
  /\ r.pc \notin {"start", "report", "died"}
  /\ n.pc # "start" /\ (n.pc = "heading" => results = <<>>)
  /\ n.pc = "row" => results # <<>>
  /\ r.pc \in {"heading", "row"} => n.pc = "died"
  /\ n.pc = "report" /\ n.err = 0 => p \in Faulty

LEMMA QuietSteps ==
  ASSUME RunsInv, NEW p \in Proc, Step(p) \/ Kill(p)
  PROVE  Start(p) \/ Heading(p) \/ Row(p) \/ Quiet(p)
<1> DEFINE r == run[p]
           n == run'[p]
<1>1. r \in RunType /\ DOMAIN run = Proc  BY DEF RunsInv, RunOK
<1> USE DEF shared
\* A step on to another label, before the results file is open.
<1>2. ASSUME UNCHANGED shared,
             r.pc \in {"open", "size", "chunk", "check", "align", "restore", "pad", "model"},
             n.pc \in {"open", "size", "chunk", "check", "align", "restore", "pad",
                       "model", "results"}
      PROVE  Quiet(p)
  BY <1>2 DEF Quiet
<1>3. ASSUME Die(p), r.pc \notin {"start", "report", "died"} PROVE Quiet(p)
  <2>1. n.pc = "died"  BY <1>1, <1>3 DEF Die, RunType
  <2> QED  BY <1>3, <2>1 DEF Die, Quiet
<1>4. ASSUME NEW e \in {1, 2}, NEW freed, Fail(p, e, freed),
             r.pc \in {"open", "size", "chunk", "check"}
      PROVE  Quiet(p)
  <2>1. n.pc = "report" /\ n.err = e  BY <1>1, <1>4 DEF Fail, RunType
  <2> QED  BY <1>4, <2>1 DEF Fail, Quiet
<1>5. 1 \in {1, 2} /\ 2 \in {1, 2}  OBVIOUS
<1>6. CASE Open(p)
  <2>1. r.pc = "open"  BY <1>6 DEF Open, At
  <2>2. PICK b \in Bytes[p] :
          \/ /\ run' = [run EXCEPT ![p].pc = "size", ![p].bytes = b,
                                   ![p].heap = @ \cup Reading(r.slot)]
             /\ UNCHANGED shared
          \/ Fail(p, 1, {})
          \/ Die(p)
    BY <1>6 DEF Open
  <2>3. CASE /\ run' = [run EXCEPT ![p].pc = "size", ![p].bytes = b,
                                   ![p].heap = @ \cup Reading(r.slot)]
             /\ UNCHANGED shared
    <3>1. n.pc = "size"  BY <1>1, <2>3 DEF RunType
    <3> QED  BY <1>2, <2>1, <2>3, <3>1
  <2> QED  BY <1>3, <1>4, <1>5, <2>1, <2>2, <2>3
<1>7. CASE Size(p)
  <2>1. r.pc = "size"  BY <1>7 DEF Size, At
  <2>2. Fail(p, 1, Reading(r.slot)) \/ (n.pc = "chunk" /\ UNCHANGED shared)
    BY <1>1, <1>7 DEF Size, RunType
  <2>3. CASE Fail(p, 1, Reading(r.slot))  BY <1>4, <1>5, <2>1, <2>3
  <2> QED  BY <1>2, <2>1, <2>2, <2>3
<1>8. CASE ShortRead(p)
  <2>1. r.pc = "chunk" /\ Fail(p, 1, Reading(r.slot) \cup {<<"data", r.slot>>})
    BY <1>8 DEF ShortRead, At
  <2> QED  BY <1>4, <1>5, <2>1
<1>9. CASE ReadChunk(p)
  <2>1. r.pc = "chunk" /\ n.pc = "chunk" /\ UNCHANGED shared
    BY <1>1, <1>9 DEF ReadChunk, At, RunType
  <2> QED  BY <1>2, <2>1
<1>10. CASE ReadRest(p)
  <2> DEFINE s == r.slot
             end == r.filled[s] + (IF r.toRead < 0 THEN 0 ELSE r.toRead) + Padding + Search
  <2>1. r.pc = "chunk"  BY <1>10 DEF ReadRest, At
  <2>2. CASE /\ run' = [run EXCEPT
                    ![p].filled[s] = end, ![p].toRead = 0,
                    ![p].pc = IF s = "A" THEN "open" ELSE "check",
                    ![p].slot = "B", ![p].loaded = @ \cup {s},
                    ![p].heap = (@ \ Reading(s)) \cup Vads(s)]
             /\ UNCHANGED shared
    <3>1. n.pc = (IF s = "A" THEN "open" ELSE "check")
      <4> HIDE DEF end
      <4> QED  BY <1>1, <2>2 DEF RunType
    <3> QED  BY <1>2, <2>1, <2>2, <3>1
  <2>3. ASSUME NEW got \in SUBSET Vads(s), UNCHANGED shared,
               run' = [run EXCEPT ![p].filled[s] = end, ![p].toRead = 0,
                                  ![p].pc = "report", ![p].err = 1,
                                  ![p].heap = (@ \ Reading(s)) \cup got]
        PROVE  Quiet(p)
    <3>1. n.pc = "report" /\ n.err = 1
      <4> HIDE DEF end
      <4> QED  BY <1>1, <2>3 DEF RunType
    <3> QED  BY <2>1, <2>3, <3>1 DEF Quiet
  <2> QED  BY <1>3, <1>10, <2>1, <2>2, <2>3 DEF ReadRest
<1>11. CASE Check(p)
  <2>1. r.pc = "check"  BY <1>11 DEF Check, At
  <2>2. Fail(p, 2, {}) \/ (n.pc = "align" /\ UNCHANGED shared)
    BY <1>1, <1>11 DEF Check, RunType
  <2>3. CASE Fail(p, 2, {})  BY <1>4, <1>5, <2>1, <2>3
  <2> QED  BY <1>2, <2>1, <2>2, <2>3
<1>12. CASE Align(p) \/ Restore(p) \/ Pad(p) \/ RunModel(p)
  <2>1. r.pc \in {"align", "restore", "pad", "model"}
    BY <1>12 DEF Align, Restore, Pad, RunModel, At
  <2>2. Die(p) \/ (n.pc \in {"restore", "pad", "model", "results"} /\ UNCHANGED shared)
    BY <1>1, <1>12 DEF Align, Restore, Pad, RunModel, RunType
  <2> QED  BY <1>2, <1>3, <2>1, <2>2
<1>13. CASE OpenResults(p)
  <2>1. r.pc = "results"  BY <1>13 DEF OpenResults, At
  <2>2. CASE /\ run' = [run EXCEPT ![p].pc = IF results = <<>> THEN "heading" ELSE "row",
                                   ![p].heap = @ \cup {File}]
             /\ UNCHANGED shared
    <3>1. n.pc = IF results = <<>> THEN "heading" ELSE "row"
      BY <1>1, <2>2 DEF RunType
    <3> QED  BY <2>1, <2>2, <3>1 DEF Quiet
  <2>3. CASE /\ p \in Faulty /\ run' = [run EXCEPT ![p].pc = "report"]
             /\ lost' = TRUE /\ UNCHANGED <<results, earlier>>
    <3>1. n.pc = "report"  BY <1>1, <2>3 DEF RunType
    <3> QED  BY <2>1, <2>3, <3>1 DEF Quiet
  <2> QED  BY <1>3, <1>13, <2>1, <2>2, <2>3 DEF OpenResults
<1>14. CASE Kill(p)  BY <1>3, <1>14 DEF Kill
<1> QED
  BY <1>6, <1>7, <1>8, <1>9, <1>10, <1>11, <1>12, <1>13, <1>14 DEF Step

\* What is left of the runs after a step of one of them.
LEMMA OthersStay ==
  ASSUME RunsInv, NEW p \in Proc, Step(p) \/ Kill(p)
  PROVE  \A q \in Proc : q # p => run'[q] = run[q]
BY StepGoesOn DEF GoesOn, RunsInv

LEMMA StartKeepsFile ==
  ASSUME RunsInv, FileInv, NEW p \in Proc, Start(p)
  PROVE  FileInv'
<1>1. /\ run[p].pc = "start" /\ run'[p].pc = "open"
      /\ results' = results /\ lost' = lost
      /\ earlier' = [earlier EXCEPT ![p] = {q \in Proc : run[q].pc = "report"}]
  BY DEF Start, At, RunsInv, RunOK, RunType
<1>2. \A q \in Proc : q # p => run'[q] = run[q]  BY OthersStay DEF Step
<1>3. earlier \in [Proc -> SUBSET Proc]  BY DEF FileInv, Lines
<1>4. Lines'  BY <1>1, <1>2, <1>3 DEF FileInv, Lines
<1>5. Rows'
  <2>1. \A i \in DOMAIN results : results[i] # <<"row", p>>
    BY <1>1 DEF FileInv, Rows
  <2> QED  BY <1>1, <1>2, <2>1 DEF FileInv, Rows
<1>6. Headings'
  <2>1. \A i \in DOMAIN results : results[i] # <<"heading", p>>
    BY <1>1 DEF FileInv, Headings
  <2>2. \A i \in DOMAIN results :
          results[i] = <<results[i][1], results[i][2]>> /\ results[i][2] \in Proc
    BY DEF FileInv, Lines
  <2>3. \A q \in Proc : q # p => earlier'[q] = earlier[q]  BY <1>1, <1>3
  <2> QED  BY <1>1, <1>2, <2>1, <2>2, <2>3 DEF FileInv, Headings
<1> QED  BY <1>4, <1>5, <1>6 DEF FileInv

LEMMA QuietKeepsFile ==
  ASSUME RunsInv, FileInv, NEW p \in Proc, Step(p) \/ Kill(p), Quiet(p)
  PROVE  FileInv'
<1>1. \A q \in Proc : q # p => run'[q] = run[q]  BY OthersStay
<1>2. /\ results' = results /\ earlier' = earlier /\ (lost' = lost \/ lost' = TRUE)
      /\ run[p].pc \notin {"start", "report", "died"}
      /\ (run'[p].pc = "heading" => results = <<>>)
      /\ (run'[p].pc = "row" => results # <<>>)
      /\ (run[p].pc \in {"heading", "row"} => run'[p].pc = "died")
      /\ (run'[p].pc = "report" /\ run'[p].err = 0 => p \in Faulty)
  BY DEF Quiet
<1>3. Lines'
  <2>1. lost' \in BOOLEAN  BY <1>2 DEF FileInv, Lines
  <2>2. \A q \in Proc : run[q].pc = "report" => run'[q].pc = "report"
    BY <1>1, <1>2
  <2> QED  BY <1>2, <2>1, <2>2 DEF FileInv, Lines
<1>4. Rows'
  <2>1. \A i \in DOMAIN results : results[i] # <<"row", p>>
    BY <1>2 DEF FileInv, Rows
  <2> QED  BY <1>1, <1>2, <2>1 DEF FileInv, Rows
<1>5. Headings'
  <2>1. results' # <<>> /\ ~ lost' => results'[1][1] = "heading"
    BY <1>2 DEF FileInv, Headings
  <2>2. \A q \in Proc : run'[q].pc = "row" => results' # <<>> \/ lost'
    BY <1>1, <1>2 DEF FileInv, Headings
  <2>3. \A q \in Proc, i \in DOMAIN results' :
          results'[i] = <<"heading", q>> => run'[q].pc \in {"row", "report", "died"}
    BY <1>1, <1>2 DEF FileInv, Headings
  <2>4. \A q \in Proc, i \in DOMAIN results' :
          run'[q].pc = "heading" /\ results'[i][1] = "heading"
            => results'[i][2] \notin earlier'[q]
    BY <1>1, <1>2 DEF FileInv, Headings
  <2>5. \A i, j \in DOMAIN results' :
          i < j /\ results'[i][1] = "heading" /\ results'[j][1] = "heading"
            => results'[i][2] \notin earlier'[results'[j][2]]
    BY <1>2 DEF FileInv, Headings
  <2> QED  BY <2>1, <2>2, <2>3, <2>4, <2>5 DEF Headings
<1> QED  BY <1>3, <1>4, <1>5 DEF FileInv

LEMMA HeadingKeepsFile ==
  ASSUME RunsInv, FileInv, NEW p \in Proc, Heading(p)
  PROVE  FileInv'
<1> DEFINE line == <<"heading", p>>
<1>1. /\ run[p].pc = "heading" /\ run'[p].pc = "row" /\ earlier' = earlier
      /\ \/ results' = Append(results, line) /\ lost' = lost
         \/ results' = results /\ lost' = TRUE /\ p \in Faulty
  BY DEF Heading, Append1, At, RunsInv, RunOK, RunType
<1>2. \A q \in Proc : q # p => run'[q] = run[q]  BY OthersStay DEF Step
<1>3. results \in Seq({"heading", "row"} \X Proc) /\ line \in {"heading", "row"} \X Proc
  BY DEF FileInv, Lines
<1>4. \A q \in Proc : run[q].pc = "report" => run'[q].pc = "report"
  BY <1>1, <1>2
<1>5. CASE results' = results /\ lost' = TRUE
  <2>1. Lines'  BY <1>1, <1>4, <1>5 DEF FileInv, Lines
  <2>2. Rows'  BY <1>1, <1>2, <1>5 DEF FileInv, Rows
  <2>3. Headings'  BY <1>1, <1>2, <1>5 DEF FileInv, Headings
  <2> QED  BY <2>1, <2>2, <2>3 DEF FileInv
<1>6. CASE results' = Append(results, line) /\ lost' = lost
  <2> DEFINE n == Len(results)
  <2>1. /\ n \in Nat /\ DOMAIN results = 1 .. n /\ DOMAIN results' = 1 .. n + 1
        /\ \A i \in 1 .. n : results'[i] = results[i]
        /\ results'[n + 1] = line /\ results' # <<>>
    <3> HIDE DEF line
    <3> QED  BY <1>3, <1>6
  <2>2. Lines'
    <3>1. results' \in Seq({"heading", "row"} \X Proc)
      <4> HIDE DEF line
      <4> QED  BY <1>3, <1>6
    <3> QED  BY <1>1, <1>4, <1>6, <3>1 DEF FileInv, Lines
  <2> HIDE DEF n
  <2>3. Rows'
    <3>1. \A q \in Proc : line # <<"row", q>>  OBVIOUS
    <3>2. \A q \in Proc, i \in DOMAIN results' :
            results'[i] = <<"row", q>> => i \in DOMAIN results /\ results[i] = <<"row", q>>
      BY <2>1, <3>1
    <3>3. \A q \in Proc, i \in DOMAIN results' :
            results'[i] = <<"row", q>> =>
              /\ run'[q].pc = "report" /\ run'[q].err = 0 /\ run'[q].loaded = Slot
              /\ \A j \in DOMAIN results' : results'[j] = results'[i] => j = i
      <4> TAKE q \in Proc, i \in DOMAIN results'
      <4> HAVE results'[i] = <<"row", q>>
      <4>1. i \in DOMAIN results /\ results[i] = <<"row", q>>  BY <3>2
      <4>2. run[q].pc = "report" /\ run[q].err = 0 /\ run[q].loaded = Slot
        BY <4>1 DEF FileInv, Rows
      <4>3. run'[q] = run[q]  BY <1>1, <1>2, <4>2
      <4>4. ASSUME NEW j \in DOMAIN results', results'[j] = results'[i] PROVE j = i
        <5>1. j \in DOMAIN results /\ results[j] = results[i]
          BY <3>2, <4>1, <4>4
        <5> QED  BY <4>1, <5>1 DEF FileInv, Rows
      <4> QED  BY <4>2, <4>3, <4>4
    <3>4. \A q \in Proc : run'[q].pc = "report" /\ run'[q].err = 0 =>
            q \in Faulty \/ \E i \in DOMAIN results' : results'[i] = <<"row", q>>
      <4> TAKE q \in Proc
      <4> HAVE run'[q].pc = "report" /\ run'[q].err = 0
      <4>1. run'[q] = run[q]  BY <1>1, <1>2
      <4>2. q \in Faulty \/ \E i \in DOMAIN results : results[i] = <<"row", q>>
        BY <4>1 DEF FileInv, Rows
      <4> QED  BY <2>1, <4>2
    <3> QED  BY <3>3, <3>4 DEF Rows
  <2>4. Headings'
    <3>1. line[1] = "heading" /\ line[2] = p  OBVIOUS
    <3>2. lost' \/ results'[1][1] = "heading"
      <4>1. CASE n = 0  BY <2>1, <3>1, <4>1
      <4>2. CASE n # 0
        <5>1. results # <<>> /\ 1 \in 1 .. n  BY <2>1, <4>2
        <5> QED  BY <1>6, <2>1, <5>1 DEF FileInv, Headings
      <4> QED  BY <4>1, <4>2
    <3>3. \A q \in Proc, i \in DOMAIN results' :
            results'[i] = <<"heading", q>> => run'[q].pc \in {"row", "report", "died"}
      <4> TAKE q \in Proc, i \in DOMAIN results'
      <4> HAVE results'[i] = <<"heading", q>>
      <4>1. CASE q = p  BY <1>1, <4>1
      <4>2. CASE q # p
        <5>1. i \in DOMAIN results /\ results[i] = <<"heading", q>>
          BY <2>1, <3>1, <4>2
        <5> QED  BY <1>2, <4>2, <5>1 DEF FileInv, Headings
      <4> QED  BY <4>1, <4>2
    \* The run p has not returned, so it is not earlier than any.
    <3>4. \A q \in Proc : p \notin earlier[q]
      BY <1>1 DEF FileInv, Lines
    <3>5. \A q \in Proc, i \in DOMAIN results' :
            run'[q].pc = "heading" /\ results'[i][1] = "heading"
              => results'[i][2] \notin earlier'[q]
      <4> TAKE q \in Proc, i \in DOMAIN results'
      <4> HAVE run'[q].pc = "heading" /\ results'[i][1] = "heading"
      <4>1. q # p /\ run[q].pc = "heading"  BY <1>1, <1>2
      <4>2. CASE i = n + 1  BY <1>1, <2>1, <3>1, <3>4, <4>2
      <4>3. CASE i \in 1 .. n
        BY <1>1, <2>1, <4>1, <4>3 DEF FileInv, Headings
      <4> QED  BY <2>1, <4>2, <4>3
    <3>6. \A i, j \in DOMAIN results' :
            i < j /\ results'[i][1] = "heading" /\ results'[j][1] = "heading"
              => results'[i][2] \notin earlier'[results'[j][2]]
      <4> TAKE i, j \in DOMAIN results'
      <4> HAVE i < j /\ results'[i][1] = "heading" /\ results'[j][1] = "heading"
      <4>1. i \in 1 .. n /\ results[i][1] = "heading"  BY <2>1
      <4>2. CASE j = n + 1
        <5>1. results[i][2] \notin earlier[p]
          BY <1>1, <2>1, <4>1 DEF FileInv, Headings
        <5> QED  BY <1>1, <2>1, <3>1, <4>1, <4>2, <5>1
      <4>3. CASE j \in 1 .. n
        BY <1>1, <2>1, <4>1, <4>3 DEF FileInv, Headings
      <4> QED  BY <2>1, <4>2, <4>3
    <3> QED  BY <2>1, <3>2, <3>3, <3>5, <3>6 DEF Headings
  <2> QED  BY <2>2, <2>3, <2>4 DEF FileInv
<1> QED  BY <1>1, <1>5, <1>6

LEMMA RowKeepsFile ==
  ASSUME RunsInv, FileInv, NEW p \in Proc, Row(p)
  PROVE  FileInv'
<1> DEFINE line == <<"row", p>>
<1>1. /\ run[p].pc = "row" /\ run'[p].pc = "report" /\ earlier' = earlier
      /\ run'[p].err = 0 /\ run'[p].loaded = Slot
      /\ \/ results' = Append(results, line) /\ lost' = lost
         \/ results' = results /\ lost' = TRUE /\ p \in Faulty
  BY DEF Row, Append1, At, RunsInv, RunOK, RunType, Loading, MeasureSteps
<1>2. \A q \in Proc : q # p => run'[q] = run[q]  BY OthersStay DEF Step
<1>3. results \in Seq({"heading", "row"} \X Proc) /\ line \in {"heading", "row"} \X Proc
  BY DEF FileInv, Lines
<1>4. \A q \in Proc : run[q].pc = "report" => run'[q].pc = "report"
  BY <1>1, <1>2
<1>5. \A i \in DOMAIN results : results[i] # line
  BY <1>1 DEF FileInv, Rows
<1>6. CASE results' = results /\ lost' = TRUE /\ p \in Faulty
  <2>1. Lines'  BY <1>1, <1>4, <1>6 DEF FileInv, Lines
  <2>2. Rows'  BY <1>1, <1>2, <1>5, <1>6 DEF FileInv, Rows
  <2>3. Headings'  BY <1>1, <1>2, <1>6 DEF FileInv, Headings
  <2> QED  BY <2>1, <2>2, <2>3 DEF FileInv
<1>7. CASE results' = Append(results, line) /\ lost' = lost
  <2> DEFINE n == Len(results)
  <2>1. /\ n \in Nat /\ DOMAIN results = 1 .. n /\ DOMAIN results' = 1 .. n + 1
        /\ \A i \in 1 .. n : results'[i] = results[i]
        /\ results'[n + 1] = line /\ results' # <<>>
    <3> HIDE DEF line
    <3> QED  BY <1>3, <1>7
  <2>2. Lines'
    <3>1. results' \in Seq({"heading", "row"} \X Proc)
      <4> HIDE DEF line
      <4> QED  BY <1>3, <1>7
    <3> QED  BY <1>1, <1>4, <1>7, <3>1 DEF FileInv, Lines
  <2> HIDE DEF n
  <2>3. Rows'
    <3>1. \A q \in Proc, i \in DOMAIN results' :
            results'[i] = <<"row", q>> =>
              /\ run'[q].pc = "report" /\ run'[q].err = 0 /\ run'[q].loaded = Slot
              /\ \A j \in DOMAIN results' : results'[j] = results'[i] => j = i
      <4> TAKE q \in Proc, i \in DOMAIN results'
      <4> HAVE results'[i] = <<"row", q>>
      <4>1. CASE i = n + 1
        <5>1. q = p  BY <2>1, <4>1
        <5>2. ASSUME NEW j \in DOMAIN results', results'[j] = results'[i] PROVE j = i
          BY <1>5, <2>1, <4>1, <5>2
        <5> QED  BY <1>1, <5>1, <5>2
      <4>2. CASE i \in 1 .. n
        <5>1. results[i] = <<"row", q>> /\ i \in DOMAIN results  BY <2>1, <4>2
        <5>2. q # p /\ run'[q] = run[q]  BY <1>2, <1>5, <5>1
        <5>3. /\ run[q].pc = "report" /\ run[q].err = 0 /\ run[q].loaded = Slot
              /\ \A j \in DOMAIN results : results[j] = results[i] => j = i
          BY <5>1 DEF FileInv, Rows
        <5>4. ASSUME NEW j \in DOMAIN results', results'[j] = results'[i] PROVE j = i
          BY <1>5, <2>1, <4>2, <5>1, <5>3, <5>4
        <5> QED  BY <5>2, <5>3, <5>4
      <4> QED  BY <2>1, <4>1, <4>2
    <3>2. \A q \in Proc : run'[q].pc = "report" /\ run'[q].err = 0 =>
            q \in Faulty \/ \E i \in DOMAIN results' : results'[i] = <<"row", q>>
      <4> TAKE q \in Proc
      <4> HAVE run'[q].pc = "report" /\ run'[q].err = 0
      <4>1. CASE q = p
        <5>1. n + 1 \in DOMAIN results' /\ results'[n + 1] = <<"row", q>>
          BY <2>1, <4>1
        <5> QED  BY <5>1
      <4>2. CASE q # p
        <5>1. q \in Faulty \/ \E i \in DOMAIN results : results[i] = <<"row", q>>
          BY <1>2, <4>2 DEF FileInv, Rows
        <5> QED  BY <2>1, <5>1
      <4> QED  BY <4>1, <4>2
    <3> QED  BY <3>1, <3>2 DEF Rows
  <2>4. Headings'
    <3>1. line[1] # "heading" /\ \A q \in Proc : line # <<"heading", q>>  OBVIOUS
    <3>2. lost' \/ results'[1][1] = "heading"
      <4>1. CASE n = 0
        <5>1. results = <<>>  BY <1>3, <4>1 DEF n
        <5> QED  BY <1>1, <1>7, <5>1 DEF FileInv, Headings
      <4>2. CASE n # 0
        <5>1. results # <<>> /\ 1 \in 1 .. n  BY <2>1, <4>2
        <5> QED  BY <1>7, <2>1, <5>1 DEF FileInv, Headings
      <4> QED  BY <4>1, <4>2
    <3>3. \A q \in Proc, i \in DOMAIN results' :
            results'[i] = <<"heading", q>> => run'[q].pc \in {"row", "report", "died"}
      <4> TAKE q \in Proc, i \in DOMAIN results'
      <4> HAVE results'[i] = <<"heading", q>>
      <4>1. CASE q = p  BY <1>1, <4>1
      <4>2. CASE q # p
        <5>1. i \in DOMAIN results /\ results[i] = <<"heading", q>>
          BY <2>1, <3>1
        <5> QED  BY <1>2, <4>2, <5>1 DEF FileInv, Headings
      <4> QED  BY <4>1, <4>2
    <3>4. \A i \in DOMAIN results' :
            results'[i][1] = "heading" => i \in DOMAIN results /\ results'[i] = results[i]
      BY <2>1, <3>1
    <3>5. \A q \in Proc, i \in DOMAIN results' :
            run'[q].pc = "heading" /\ results'[i][1] = "heading"
              => results'[i][2] \notin earlier'[q]
      BY <1>1, <1>2, <3>4 DEF FileInv, Headings
    <3>6. \A i, j \in DOMAIN results' :
            i < j /\ results'[i][1] = "heading" /\ results'[j][1] = "heading"
              => results'[i][2] \notin earlier'[results'[j][2]]
      BY <1>1, <3>4 DEF FileInv, Headings
    <3>7. \A q \in Proc : run'[q].pc = "row" => results' # <<>> \/ lost'
      BY <2>1
    <3> QED  BY <3>2, <3>3, <3>5, <3>6, <3>7 DEF Headings
  <2> QED  BY <2>2, <2>3, <2>4 DEF FileInv
<1> QED  BY <1>1, <1>6, <1>7

LEMMA FileAlways == Spec => []FileInv
<1>1. Init => FileInv
  <2> SUFFICES ASSUME Init PROVE FileInv  OBVIOUS
  <2>1. results = <<>> /\ lost = FALSE /\ earlier = [p \in Proc |-> {}]
        /\ \A p \in Proc : run[p].pc = "start"
    BY DEF Init
  <2>2. Lines
    <3>1. results \in Seq({"heading", "row"} \X Proc)  BY <2>1
    <3> QED  BY <2>1, <3>1 DEF Lines
  <2>3. Rows /\ Headings  BY <2>1 DEF Rows, Headings
  <2> QED  BY <2>2, <2>3 DEF FileInv
<1>2. RunsInv /\ FileInv /\ [Next]_vars => FileInv'
  <2> SUFFICES ASSUME RunsInv, FileInv, [Next]_vars PROVE FileInv'  OBVIOUS
  <2>1. ASSUME NEW p \in Proc, Step(p) \/ Kill(p) PROVE FileInv'
    BY <2>1, QuietSteps, StartKeepsFile, HeadingKeepsFile, RowKeepsFile, QuietKeepsFile
  <2>2. CASE UNCHANGED vars
    BY <2>2 DEF vars, FileInv, Lines, Rows, Headings
  <2> QED  BY <2>1, <2>2 DEF Next, Done
<1> QED  BY <1>1, <1>2, RunsAlways, PTL DEF Spec

\* Every run that returned a score has one row, no other run has any; unless a
\* fault took it the first line is a heading, and a second one comes from a run
\* that overlapped with the writer of the first (pesqmain.c:614-650).
THEOREM ResultsCorrect == Spec => []ResultsInOrder
<1>1. RunsInv /\ FileInv => ResultsInOrder
  <2> SUFFICES ASSUME RunsInv, FileInv PROVE ResultsInOrder  OBVIOUS
  <2>1. ASSUME NEW p \in Proc
        PROVE  LET rows == {i \in DOMAIN results : results[i] = <<"row", p>>}
               IN /\ Cardinality(rows) <= 1
                  /\ rows # {} => /\ At(p, "report") /\ run[p].err = 0
                                  /\ run[p].loaded = Slot
                  /\ At(p, "report") /\ run[p].err = 0 => (rows # {} \/ p \in Faulty)
    <3> DEFINE rows == {i \in DOMAIN results : results[i] = <<"row", p>>}
    <3>1. rows = {} \/ \E i \in rows : rows = {i}
      BY DEF FileInv, Rows
    <3>2. Cardinality(rows) <= 1
      <4> HIDE DEF rows
      <4>1. CASE rows = {}  BY <4>1, FS_EmptySet
      <4>2. ASSUME NEW i, rows = {i} PROVE Cardinality(rows) <= 1
        BY <4>2, FS_Singleton
      <4> QED  BY <3>1, <4>1, <4>2
    <3>3. rows # {} => At(p, "report") /\ run[p].err = 0 /\ run[p].loaded = Slot
      BY DEF FileInv, Rows, At
    <3>4. At(p, "report") /\ run[p].err = 0 => (rows # {} \/ p \in Faulty)
      BY DEF FileInv, Rows, At
    <3> QED  BY <3>2, <3>3, <3>4
  <2> QED  BY <2>1 DEF ResultsInOrder, FileInv, Headings
<1> QED  BY <1>1, RunsAlways, FileAlways, PTL

\* Every field keeps its type, and what load_src has read of a signal and what
\* it has still to read make up the signal (pesqio.c:298-330).
THEOREM TypeCorrect == Spec => []TypeOK
<1>1. RunsInv /\ FileInv => TypeOK
  <2> SUFFICES ASSUME RunsInv, FileInv PROVE TypeOK  OBVIOUS
  <2>1. ASSUME NEW p \in Proc
        PROVE  /\ run[p].pc \in LoadSteps \cup MeasureSteps \cup {"report", "died"}
               /\ run[p].slot \in Slot /\ run[p].err \in 0 .. 2
               /\ run[p].loaded \in {{}, {"A"}, Slot}
               /\ At(p, "chunk") => LET s == run[p].slot IN
                    run[p].filled[s] + run[p].toRead = run[p].nsamples[s] - Search
    BY DEF RunsInv, RunOK, RunType, Labels, Filling, At
  <2>2. /\ \A i \in DOMAIN results : results[i] \in {"heading", "row"} \X Proc
        /\ lost \in BOOLEAN /\ earlier \in [Proc -> SUBSET Proc]
    BY DEF FileInv, Lines
  <2> QED  BY <2>1, <2>2 DEF TypeOK
<1> QED  BY <1>1, RunsAlways, FileAlways, PTL
=============================================================================
