---------------------------- MODULE PesqMeasure ------------------------------
(***************************************************************************)
(* pesq_measure of PESQ-MOS/pesqmain.c, with load_src and alloc_other of   *)
(* pesqio.c, in runs that share pesq_results.txt: how much each buffer     *)
(* holds, which of them are given back on which path, what an error leaves *)
(* behind, and what gets into the results file.  Sample values, filters    *)
(* and the score are left out.                                             *)
(*                                                                         *)
(* Another run may cut a file short while it is read.  A Faulty run may    *)
(* find no memory, read less than there is, or lose what it writes; where  *)
(* the code does not look at the result of an allocation the run dies.     *)
(***************************************************************************)
EXTENDS Integers, Sequences, FiniteSets

CONSTANTS
  Proc,      \* runs of the program
  Faulty,    \* bound: those that may meet a fault
  Killable,  \* bound: those that may be killed from outside
  Bytes,     \* bound: Bytes[p]: lengths its files may have; Missing is no file
  Header,    \* 22: samples the header of a .wav takes the place of
  Chunk,     \* 16384: samples read at a time
  Search,    \* 4800: SEARCHBUFFER * Downsample
  Padding,   \* 5120: DATAPADDING_MSECS * (Fs / 1000)
  Quarter    \* 4000: Fs / 4

Missing == -1

ASSUME PesqMeasureAssumption ==
  /\ Faulty \subseteq Proc /\ Killable \subseteq Proc
  /\ Bytes \in [Proc -> SUBSET Int]
  /\ \A p \in Proc : \A b \in Bytes[p] : b >= Missing
  /\ {Header, Chunk, Search, Padding, Quarter} \subseteq Nat \ {0}
  /\ Header < Search + Padding

Slot == {"A", "B"}

VARIABLES
  run,       \* run[p]: the local state of run p, a record
  results,   \* lines of pesq_results.txt: <<"heading" or "row", run>>
  lost,      \* history: a faulty run has lost a line
  earlier    \* history: the runs that had returned when p started

vars == <<run, results, lost, earlier>>

Init ==
  /\ run = [p \in Proc |->
       [pc |-> "start",
        slot |-> "A",                     \* the signal load_src works on
        bytes |-> Missing,                \* file_size
        toRead |-> 0,                     \* to_read
        nsamples |-> [s \in Slot |-> 0],  \* Nsamples
        size |-> [s \in Slot |-> 0],      \* room in data
        filled |-> [s \in Slot |-> 0],    \* how much of it was written
        heap |-> {},                      \* buffers and files it holds
        wrong |-> FALSE,                  \* history: used one it does not hold
        loaded |-> {},                    \* history: signals load_src finished
        err |-> 0]]                       \* Error_Flag
  /\ results = <<>> /\ lost = FALSE
  /\ earlier = [p \in Proc |-> {}]

At(p, l)  == run[p].pc = l
Held(p)   == run[p].heap
Others(p) == \E q \in Proc \ {p} : run[q].pc \notin {"start", "report", "died"}
shared    == <<results, lost, earlier>>

\* What load_src holds for one signal, and what pesq_measure holds in the end.
Reading(s) == {<<"input", s>>, <<"Src_file", s>>}
Vads(s)    == {<<"VAD", s>>, <<"logVAD", s>>}
Signal(s)  == Vads(s) \cup {<<"data", s>>}
Model      == {<<"model", s>> : s \in Slot}
Working    == Signal("A") \cup Signal("B") \cup {<<"ftmp", "A">>}
File       == <<"resultsFile", "A">>

-----------------------------------------------------------------------------
(* Steps of a run. *)

\* A slip, for a mutant: the degraded signal is loaded after an error, too.
FailAndGoOn(p, e, freed) ==
  /\ run' = [run EXCEPT
       ![p].pc = IF run[p].slot = "A" THEN "open" ELSE "report",
       ![p].slot = "B", ![p].err = e, ![p].heap = @ \ freed,
       ![p].wrong = @ \/ ~ (freed \subseteq Held(p))]
  /\ UNCHANGED shared

\* An error: some buffers are given back, and pesq_measure skips the rest.
Fail(p, e, freed) ==
  /\ run' = [run EXCEPT ![p].pc = "report", ![p].err = e,
                        ![p].heap = @ \ freed,
                        ![p].wrong = @ \/ ~ (freed \subseteq Held(p))]
  /\ UNCHANGED shared

Die(p) == run' = [run EXCEPT ![p].pc = "died"] /\ UNCHANGED shared

Start(p) ==
  /\ At(p, "start")
  /\ run' = [run EXCEPT ![p].pc = "open"]
  /\ earlier' = [earlier EXCEPT ![p] = {q \in Proc : At(q, "report")}]
  /\ UNCHANGED <<results, lost>>

\* fopen, then memory for the samples; the memory is looked at first, and
\* without both the code closes a file it does not have.
Open(p) ==
  /\ At(p, "open")
  /\ \E b \in Bytes[p] :
       \/ /\ b # Missing
          /\ run' = [run EXCEPT ![p].pc = "size", ![p].bytes = b,
                                ![p].heap = @ \cup Reading(run[p].slot)]
          /\ UNCHANGED shared
       \/ (b = Missing \/ p \in Faulty) /\ Fail(p, 1, {})
       \/ b = Missing /\ p \in Faulty /\ Die(p)

\* The number of samples comes from the length of the file, the header is
\* skipped, and data is allocated, with silence in front.
Size(p) ==
  /\ At(p, "size")
  /\ LET s == run[p].slot
         n == run[p].bytes \div 2 - Header
     IN \/ p \in Faulty /\ Fail(p, 1, Reading(s))
        \/ /\ run' = [run EXCEPT ![p].pc = "chunk", ![p].toRead = n,
                                 ![p].nsamples[s] = n + 2 * Search,
                                 ![p].size[s] = n + 2 * Search + Padding,
                                 ![p].filled[s] = Search,
                                 ![p].heap = @ \cup {<<"data", s>>}]
           /\ UNCHANGED shared

\* Slips of the next two steps, for the mutants: the file stays open; what is
\* left is not counted down.
ShortReadLeaks(p) ==
  /\ At(p, "chunk") /\ run[p].toRead > 0 /\ (p \in Faulty \/ Others(p))
  /\ LET s == run[p].slot IN Fail(p, 1, {<<"input", s>>, <<"data", s>>})

ReadChunkUncounted(p) ==
  /\ At(p, "chunk") /\ run[p].toRead > Chunk
  /\ run' = [run EXCEPT ![p].filled[run[p].slot] = @ + Chunk]
  /\ UNCHANGED shared

\* fread comes back with less than it was asked for.
ShortRead(p) ==
  /\ At(p, "chunk") /\ run[p].toRead > 0 /\ (p \in Faulty \/ Others(p))
  /\ LET s == run[p].slot IN Fail(p, 1, Reading(s) \cup {<<"data", s>>})

ReadChunk(p) ==
  /\ At(p, "chunk") /\ run[p].toRead > Chunk
  /\ run' = [run EXCEPT ![p].filled[run[p].slot] = @ + Chunk,
                        ![p].toRead = @ - Chunk]
  /\ UNCHANGED shared

\* The last samples and silence, then the buffers of the activity detection.
\* For a file shorter than its header toRead is negative: fread finds nothing
\* to read, or overruns its buffer when the file has grown, and the silence is
\* longer than the room for it.
ReadRest(p) ==
  /\ At(p, "chunk") /\ run[p].toRead <= Chunk
  /\ LET s == run[p].slot
         n == IF run[p].toRead < 0 THEN 0 ELSE run[p].toRead
         end == run[p].filled[s] + n + Padding + Search
     IN \/ /\ run' = [run EXCEPT
                ![p].filled[s] = end, ![p].toRead = 0,
                ![p].pc = IF s = "A" THEN "open" ELSE "check",
                ![p].slot = "B", ![p].loaded = @ \cup {s},
                ![p].heap = (@ \ Reading(s)) \cup Vads(s)]
           /\ UNCHANGED shared
        \/ /\ p \in Faulty
           /\ \E got \in SUBSET Vads(s) \ {Vads(s)} :
                run' = [run EXCEPT ![p].filled[s] = end, ![p].toRead = 0,
                                   ![p].pc = "report", ![p].err = 1,
                                   ![p].heap = (@ \ Reading(s)) \cup got]
           /\ UNCHANGED shared
        \/ run[p].toRead < 0 /\ Die(p)

TooShort(p) == \E s \in Slot : run[p].nsamples[s] - 2 * Search < Quarter

\* The length of both signals, then alloc_other.
Check(p) ==
  /\ At(p, "check")
  /\ \/ (TooShort(p) \/ p \in Faulty) /\ Fail(p, 2, {})
     \/ /\ ~ TooShort(p)
        /\ run' = [run EXCEPT ![p].pc = "align",
                              ![p].heap = @ \cup {<<"ftmp", "A">>}]
        /\ UNCHANGED shared

\* fix_power_level, filters, and copies of both signals for the model.
Align(p) ==
  /\ At(p, "align")
  /\ \/ /\ run' = [run EXCEPT ![p].pc = "restore", ![p].heap = @ \cup Model,
                              ![p].wrong = @ \/ ~ (Working \subseteq Held(p))]
        /\ UNCHANGED shared
     \/ p \in Faulty /\ Die(p)

\* calc_VAD to utterance_locate work on data; then it gets its samples back.
Restore(p) ==
  /\ At(p, "restore")
  /\ \/ /\ run' = [run EXCEPT
             ![p].pc = "pad", ![p].heap = @ \ Model,
             ![p].wrong = @ \/ ~ ((Working \cup Model) \subseteq Held(p))]
        /\ UNCHANGED shared
     \/ p \in Faulty /\ Die(p)

\* The shorter signal gets the room of the longer one, and silence behind it.
Grown(p, s, t) ==
  IF run[p].nsamples[s] < run[p].nsamples[t]
    THEN run[p].nsamples[t] + Padding ELSE run[p].size[s]

\* A slip, for a mutant: a degraded signal that is shorter stays so.
PadReference(p) ==
  /\ At(p, "pad")
  /\ run' = [run EXCEPT ![p].pc = "model",
               ![p].size["A"] = Grown(p, "A", "B"),
               ![p].filled["A"] = Grown(p, "A", "B")]
  /\ UNCHANGED shared

Pad(p) ==
  /\ At(p, "pad")
  /\ \/ LET grown == [A |-> Grown(p, "A", "B"), B |-> Grown(p, "B", "A")]
        IN /\ run' = [run EXCEPT ![p].pc = "model", ![p].size = grown,
                                 ![p].filled = grown]
           /\ UNCHANGED shared
     \/ p \in Faulty /\ Die(p)

\* pesq_psychoacoustic_model ends the process if there is no utterance.
RunModel(p) ==
  /\ At(p, "model")
  /\ \/ /\ run' = [run EXCEPT ![p].pc = "results", ![p].heap = @ \ Working,
                              ![p].wrong = @ \/ ~ (Working \subseteq Held(p))]
        /\ UNCHANGED shared
     \/ Die(p)

\* A slip, for a mutant: the positions are equal before the first write.
OpenAtStart(p) ==
  /\ At(p, "results")
  /\ run' = [run EXCEPT ![p].pc = "heading", ![p].heap = @ \cup {File}]
  /\ UNCHANGED shared

\* The results file need not open; one that cannot seek ends the process.
OpenResults(p) ==
  /\ At(p, "results")
  /\ \/ /\ run' = [run EXCEPT ![p].pc = IF results = <<>> THEN "heading" ELSE "row",
                              ![p].heap = @ \cup {File}]
        /\ UNCHANGED shared
     \/ /\ p \in Faulty
        /\ run' = [run EXCEPT ![p].pc = "report"]
        /\ lost' = TRUE /\ UNCHANGED <<results, earlier>>
     \/ p \in Faulty /\ Die(p)

\* What is written goes to the end of the file, wherever that is now.
Append1(p, line) ==
  \/ results' = Append(results, <<line, p>>) /\ UNCHANGED lost
  \/ p \in Faulty /\ lost' = TRUE /\ UNCHANGED results

Heading(p) ==
  /\ At(p, "heading")
  /\ run' = [run EXCEPT ![p].pc = "row"]
  /\ Append1(p, "heading") /\ UNCHANGED earlier

\* The row is in a buffer until fclose writes it.
Row(p) ==
  /\ At(p, "row")
  /\ run' = [run EXCEPT ![p].pc = "report", ![p].heap = @ \ {File}]
  /\ Append1(p, "row") /\ UNCHANGED earlier

\* A signal, at any point before pesq_measure returns.
Kill(p) ==
  p \in Killable /\ run[p].pc \notin {"start", "report", "died"} /\ Die(p)

-----------------------------------------------------------------------------
Step(p) ==
  \/ Start(p) \/ Open(p) \/ Size(p) \/ ShortRead(p) \/ ReadChunk(p)
  \/ ReadRest(p) \/ Check(p) \/ Align(p) \/ Restore(p) \/ Pad(p)
  \/ RunModel(p) \/ OpenResults(p) \/ Heading(p) \/ Row(p)

Done == (\A p \in Proc : run[p].pc \in {"report", "died"}) /\ UNCHANGED vars

Next == (\E p \in Proc : Step(p) \/ Kill(p)) \/ Done

Spec == Init /\ [][Next]_vars

-----------------------------------------------------------------------------
LoadSteps    == {"start", "open", "size", "chunk"}
MeasureSteps == {"check", "align", "restore", "pad", "model", "results",
                 "heading", "row"}

\* Every field has its type, and while load_src reads a signal what it has read
\* and what it has still to read make up the signal.
TypeOK ==
  /\ \A p \in Proc :
       /\ run[p].pc \in LoadSteps \cup MeasureSteps \cup {"report", "died"}
       /\ run[p].slot \in Slot /\ run[p].err \in 0 .. 2
       /\ run[p].loaded \in {{}, {"A"}, Slot}
       /\ At(p, "chunk") => LET s == run[p].slot IN
            run[p].filled[s] + run[p].toRead = run[p].nsamples[s] - Search
  /\ \A i \in DOMAIN results : results[i] \in {"heading", "row"} \X Proc
  /\ lost \in BOOLEAN /\ earlier \in [Proc -> SUBSET Proc]

\* load_src, alloc_other and pesq_measure give back what they took, on every
\* path, once: nothing is used or freed that is not held, a run that returns a
\* score holds nothing, and one that returns an error holds no file, no read
\* buffer and no copy of a signal, only what pesq_measure leaves to the exit of
\* the process.
HeapInOrder ==
  \A p \in Proc :
    /\ ~ run[p].wrong
    /\ At(p, "report") => Held(p) \subseteq (IF run[p].err = 0 THEN {} ELSE Working)

\* load_src fills data exactly and never beyond its end, and the model, which
\* reads both signals up to the length of the longer one, finds that much in
\* both.  The exception is a file shorter than its header, which is found out
\* only after the silence behind its samples has been written.
BuffersHold ==
  \A p \in Proc, s \in Slot :
    /\ run[p].nsamples[s] >= 2 * Search => run[p].filled[s] <= run[p].size[s]
    /\ s \in run[p].loaded => run[p].filled[s] >= run[p].size[s]
    /\ At(p, "model") => \A t \in Slot :
         run[p].filled[s] >= run[p].nsamples[t] + Padding

\* pesq_results.txt: every run that returns a score has one row, no other run
\* has any; unless a fault took it, the first line is a heading, and a second
\* heading comes only from a run that overlapped with the writer of the first.
ResultsInOrder ==
  /\ \A p \in Proc :
       LET rows == {i \in DOMAIN results : results[i] = <<"row", p>>}
       IN /\ Cardinality(rows) <= 1
          /\ rows # {} => /\ At(p, "report") /\ run[p].err = 0
                          /\ run[p].loaded = Slot
          /\ At(p, "report") /\ run[p].err = 0 => (rows # {} \/ p \in Faulty)
  /\ results # <<>> /\ ~ lost => results[1][1] = "heading"
  /\ \A i, j \in DOMAIN results :
       i < j /\ results[i][1] = "heading" /\ results[j][1] = "heading" =>
         results[i][2] \notin earlier[results[j][2]]

-----------------------------------------------------------------------------
Contract(p) ==
  INSTANCE Measurement WITH
    phase <- IF run[p].pc \in LoadSteps THEN "load"
             ELSE IF run[p].pc \in MeasureSteps THEN "measure"
             ELSE run[p].pc,
    loaded <- run[p].loaded,
    err <- run[p].err

\* For its caller, the pesq_measure of every run is what module Measurement
\* says: Contract(p)!Spec for all p.
KeepsMeasurement ==
  /\ \A p \in Proc : Contract(p)!Init
  /\ [][\A p \in Proc : [Contract(p)!Next]_(Contract(p)!vars)]_vars
=============================================================================
