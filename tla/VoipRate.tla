------------------------------ MODULE VoipRate -------------------------------
(***************************************************************************)
(* Runs of the program (main in pesqmain_adapter.cc) over one directory.   *)
(* A run decodes its two inputs to <input>_mono_16khz.wav, has             *)
(* pesq_measure load and compare the two files, prints a score or an       *)
(* error, and removes both.  The names depend on the inputs alone, so runs *)
(* on the same input share their files: runs that overlap, and runs that   *)
(* follow one that was killed, aborted by an RTC_CHECK or ended by exit(1) *)
(* before it removed them.                                                 *)
(*                                                                         *)
(* A step is one operation on the file system.  Names and files (inodes)   *)
(* are kept apart, because a run goes on writing a file another run has    *)
(* removed, and truncates one another run is writing.  A conversion        *)
(* follows the rules of module Conversion, on the file it has open.        *)
(***************************************************************************)
EXTENDS Integers

CONSTANTS
  Proc,      \* runs of the program
  Name,      \* file names
  Arg,       \* Arg[p][s]: the input run p is given in slot s
  Tmp,       \* Tmp[n]: n_dec_48khz_tmp.wav
  Mono,      \* Mono[n]: n_mono_16khz.wav
  Killable,  \* bound: the runs that may be killed from outside
  Faulty,    \* bound: the runs that may meet a full disk or run out of memory
  None       \* no file

Slot  == {"A", "B"}
Input == {Arg[p][s] : p \in Proc, s \in Slot}
Shape == {"invalid", "nodata", "whole"}

\* Appending two different suffixes gives different names.  That no input is
\* itself named like a derived file is a condition on the inputs.
ASSUME NamesAssumption ==
  /\ Arg \in [Proc -> [Slot -> Name]]
  /\ Tmp \in [Input -> Name] /\ Mono \in [Input -> Name]
  /\ \A m, n \in Input : /\ Tmp[m] # Mono[n]
                         /\ m # n => Tmp[m] # Tmp[n] /\ Mono[m] # Mono[n]
                         /\ Tmp[m] \notin Input /\ Mono[m] \notin Input
  /\ Killable \subseteq Proc /\ Faulty \subseteq Proc
  /\ None \notin Name \cup (Proc \X Slot \X {"tmp", "mono"})
  /\ \A p \in Proc, s \in Slot, k \in {"tmp", "mono"} : <<p, s, k>> \notin Name

\* A file of a user is its name, a file a run creates is that creation.
Inode == Name \cup (Proc \X Slot \X {"tmp", "mono"})

VARIABLES
  dir,      \* dir[n]: the file of that name, or None
  shape,    \* shape[i]: what a WavReader would find in temporary i
  by,       \* by[i]: the runs that wrote to output i since it was last
            \* truncated; load_src looks at no header, so nothing depends on
            \* the shape of an output
  pc,       \* pc[p]: the next step of run p
  slot,     \* slot[p]: the input it is working on
  handle,   \* handle[p]: the file it has open, or None
  decoded,  \* decoded[p]: the slots for which opus_decode returned true
  loaded,   \* loaded[p]: the slots load_src has read
  source,   \* source[p][s]: the runs whose bytes it read
  err,      \* err[p]: Error_Flag of pesq_measure
  printed,  \* printed[p]: it has printed a score
  earlier   \* history: the runs that had ended normally when p started

files == <<dir, shape, by>>
vars  == <<dir, shape, by, pc, slot, handle, decoded, loaded, source, err,
           printed, earlier>>

Steps == {"start", "call", "openin", "decode", "resample", "read", "openout",
          "write", "remove", "load", "measure", "report", "removeA",
          "removeB", "end", "died"}
Over  == {"end", "died"}

In(p) == Arg[p][slot[p]]

Init ==
  /\ dir = [n \in Name |-> IF n \in Input THEN n ELSE None]
  /\ shape = [i \in Inode |-> "invalid"]
  /\ by = [i \in Inode |-> {}]
  /\ pc = [p \in Proc |-> "start"]
  /\ slot = [p \in Proc |-> "A"]
  /\ handle = [p \in Proc |-> None]
  /\ decoded = [p \in Proc |-> {}]
  /\ loaded = [p \in Proc |-> {}]
  /\ source = [p \in Proc |-> [s \in Slot |-> {}]]
  /\ err = [p \in Proc |-> 0]
  /\ printed = [p \in Proc |-> FALSE]
  /\ earlier = [p \in Proc |-> {}]

-----------------------------------------------------------------------------
(* Steps of a run. *)

Goto(p, l) == pc' = [pc EXCEPT ![p] = l]
Close(p)   == handle' = [handle EXCEPT ![p] = None]

\* opus_decode_mono_16khz returns true on every path, and main takes the other
\* input or goes on to pesq_measure.
ConvertReturns(p) ==
  /\ Goto(p, IF slot[p] = "A" THEN "call" ELSE "load")
  /\ slot' = [slot EXCEPT ![p] = IF @ = "A" THEN "B" ELSE "A"]

\* Opening for writing truncates the file of that name, or creates one.
OpenTruncated(p, name, kind) ==
  LET i == IF dir[name] = None THEN <<p, slot[p], kind>> ELSE dir[name]
  IN /\ dir' = [dir EXCEPT ![name] = i]
     /\ shape' = [shape EXCEPT ![i] = "invalid"]
     /\ by' = [by EXCEPT ![i] = {}]
     /\ handle' = [handle EXCEPT ![p] = i]

\* A file another run is still writing may look like anything.
Seen(i) ==
  IF \E q \in Proc : pc[q] = "decode" /\ handle[q] = i THEN Shape ELSE {shape[i]}

Unlink(name) == dir' = [dir EXCEPT ![name] = None]

Start(p) ==
  /\ pc[p] = "start"
  /\ Goto(p, "call")
  /\ earlier' = [earlier EXCEPT ![p] = {q \in Proc : pc[q] = "end"}]
  /\ UNCHANGED <<files, slot, handle, decoded, loaded, source, err, printed>>

\* opus_decode: std::ofstream wav_file(decoded_wav_file_name).
OpenTmp(p) ==
  /\ pc[p] = "call"
  /\ \/ /\ OpenTruncated(p, Tmp[In(p)], "tmp")
        /\ Goto(p, "openin") /\ UNCHANGED slot
     \/ /\ p \in Faulty /\ ConvertReturns(p)
        /\ UNCHANGED <<files, handle>>
  /\ UNCHANGED <<decoded, loaded, source, err, printed, earlier>>

\* Slips of the next step, for the mutants: the output stream stays open, and
\* main returns at once without removing what it has written.
LeakyOpenInput(p) ==
  /\ pc[p] = "openin"
  /\ \/ dir[In(p)] # None /\ Goto(p, "decode") /\ UNCHANGED slot
     \/ ConvertReturns(p)
  /\ UNCHANGED <<files, handle, decoded, loaded, source, err, printed, earlier>>

EndingOpenInput(p) ==
  /\ pc[p] = "openin"
  /\ \/ dir[In(p)] # None /\ Goto(p, "decode") /\ UNCHANGED handle
     \/ Goto(p, "end") /\ Close(p)
  /\ UNCHANGED <<files, slot, decoded, loaded, source, err, printed, earlier>>

\* op_open_file: there may be no such input, or no Opus stream in it.
OpenInput(p) ==
  /\ pc[p] = "openin"
  /\ \/ dir[In(p)] # None /\ Goto(p, "decode") /\ UNCHANGED <<slot, handle>>
     \/ ConvertReturns(p) /\ Close(p)
  /\ UNCHANGED <<files, decoded, loaded, source, err, printed, earlier>>

\* The temporary is closed with the result of opus_decode; a CHECK may abort.
\* It may have any shape whatever that result is.  What p writes goes to the
\* file it has open, whatever its name is now.
Decode(p) ==
  /\ pc[p] = "decode"
  /\ \E s \in Shape : shape' = [shape EXCEPT ![handle[p]] = s]
  /\ \/ /\ decoded' = [decoded EXCEPT ![p] = @ \cup {slot[p]}]
        /\ Goto(p, "resample") /\ UNCHANGED slot
     \/ ConvertReturns(p) /\ UNCHANGED decoded
     \/ Goto(p, "died") /\ UNCHANGED <<slot, decoded>>
  /\ Close(p)
  /\ UNCHANGED <<dir, by, loaded, source, err, printed, earlier>>

\* WavReader aborts when the file is gone or its header is refused; resample
\* returns when the header declares no samples.
OpenReader(p) ==
  /\ pc[p] = "resample"
  /\ LET i == dir[Tmp[In(p)]]
     IN \/ /\ IF i = None THEN TRUE ELSE "invalid" \in Seen(i)
           /\ Goto(p, "died") /\ UNCHANGED <<slot, handle>>
        \/ /\ i # None /\ Seen(i) # {"invalid"}
           /\ Goto(p, "read") /\ UNCHANGED slot
           /\ handle' = [handle EXCEPT ![p] = i]
        \/ /\ i # None /\ "nodata" \in Seen(i)
           /\ ConvertReturns(p) /\ UNCHANGED handle
  /\ UNCHANGED <<files, decoded, loaded, source, err, printed, earlier>>

\* The samples are read from the file that was opened; resample goes on when
\* all those the header declared are there.
ReadTmp(p) ==
  /\ pc[p] = "read"
  /\ \/ /\ "whole" \in Seen(handle[p])
        /\ Goto(p, "openout") /\ UNCHANGED slot
     \/ /\ p \in Faulty \/ Seen(handle[p]) # {"whole"}
        /\ ConvertReturns(p)
     \/ p \in Faulty /\ Goto(p, "died") /\ UNCHANGED slot
  /\ Close(p)
  /\ UNCHANGED <<files, decoded, loaded, source, err, printed, earlier>>

OpenOut(p) ==
  /\ pc[p] = "openout"
  /\ \/ /\ OpenTruncated(p, Mono[In(p)], "mono")
        /\ Goto(p, "write") /\ UNCHANGED slot
     \/ /\ p \in Faulty /\ ConvertReturns(p)
        /\ UNCHANGED <<files, handle>>
  /\ UNCHANGED <<decoded, loaded, source, err, printed, earlier>>

WriteOut(p) ==
  /\ pc[p] = "write"
  /\ by' = [by EXCEPT ![handle[p]] = @ \cup {p}]
  /\ \/ Goto(p, "remove") /\ UNCHANGED slot
     \/ p \in Faulty /\ ConvertReturns(p)
  /\ Close(p)
  /\ UNCHANGED <<dir, shape, decoded, loaded, source, err, printed, earlier>>

\* A slip, for a mutant: the input is removed instead of the temporary.
RemovesInput(p) ==
  /\ pc[p] = "remove"
  /\ Unlink(In(p))
  /\ ConvertReturns(p)
  /\ UNCHANGED <<shape, by, handle, decoded, loaded, source, err, printed,
                 earlier>>

RemoveTmp(p) ==
  /\ pc[p] = "remove"
  /\ Unlink(Tmp[In(p)])
  /\ ConvertReturns(p)
  /\ UNCHANGED <<shape, by, handle, decoded, loaded, source, err, printed,
                 earlier>>

\* Another run may be changing the files.
Others(p) == \E q \in Proc : q # p /\ pc[q] \notin {"start"} \cup Over

\* load_src, once for each slot, by the rules of module Measurement; it reads
\* what it finds under the name.  It fails without memory, or when the file is
\* cut short under it.  Without both memory and a file, or with a file shorter
\* than a header, it does what the code leaves undefined.
Load(p) ==
  /\ pc[p] = "load"
  /\ LET i == dir[Mono[In(p)]]
     IN \/ /\ i # None
           /\ loaded' = [loaded EXCEPT ![p] = @ \cup {slot[p]}]
           /\ source' = [source EXCEPT ![p][slot[p]] = by[i]]
           /\ slot' = [slot EXCEPT ![p] = "B"]
           /\ Goto(p, IF slot[p] = "A" THEN "load" ELSE "measure")
           /\ UNCHANGED err
        \/ /\ i = None \/ p \in Faulty \/ Others(p)
           /\ err' = [err EXCEPT ![p] = 1]
           /\ Goto(p, "report")
           /\ UNCHANGED <<slot, loaded, source>>
        \/ /\ i # None \/ p \in Faulty
           /\ Goto(p, "died")
           /\ UNCHANGED <<slot, loaded, source, err>>
  /\ UNCHANGED <<files, handle, decoded, printed, earlier>>

\* Too short a signal is an error; one without an utterance, or a failure to
\* seek in pesq_results.txt, ends the process.
Measure(p) ==
  /\ pc[p] = "measure"
  /\ \/ Goto(p, "report") /\ err' \in {err, [err EXCEPT ![p] = 2]}
     \/ Goto(p, "died") /\ UNCHANGED err
  /\ UNCHANGED <<files, slot, handle, decoded, loaded, source, printed,
                 earlier>>

Report(p) ==
  /\ pc[p] = "report"
  /\ printed' = [printed EXCEPT ![p] = err[p] = 0]
  /\ Goto(p, "removeA")
  /\ UNCHANGED <<files, slot, handle, decoded, loaded, source, err, earlier>>

\* A slip, for a mutant: the file of B is removed twice.
RemovesBTwice(p) ==
  /\ pc[p] = "removeA"
  /\ Unlink(Mono[Arg[p]["B"]])
  /\ Goto(p, "removeB")
  /\ UNCHANGED <<shape, by, slot, handle, decoded, loaded, source, err,
                 printed, earlier>>

RemoveA(p) ==
  /\ pc[p] = "removeA"
  /\ Unlink(Mono[Arg[p]["A"]])
  /\ Goto(p, "removeB")
  /\ UNCHANGED <<shape, by, slot, handle, decoded, loaded, source, err,
                 printed, earlier>>

RemoveB(p) ==
  /\ pc[p] = "removeB"
  /\ Unlink(Mono[Arg[p]["B"]])
  /\ Goto(p, "end")
  /\ UNCHANGED <<shape, by, slot, handle, decoded, loaded, source, err,
                 printed, earlier>>

\* A signal, at any point of a run.
Kill(p) ==
  /\ p \in Killable /\ pc[p] \notin Over \cup {"start"}
  /\ Goto(p, "died") /\ Close(p)
  /\ UNCHANGED <<files, slot, decoded, loaded, source, err, printed, earlier>>

-----------------------------------------------------------------------------
Run(p) ==
  \/ Start(p) \/ OpenTmp(p) \/ OpenInput(p) \/ Decode(p) \/ OpenReader(p)
  \/ ReadTmp(p) \/ OpenOut(p) \/ WriteOut(p) \/ RemoveTmp(p) \/ Load(p)
  \/ Measure(p) \/ Report(p) \/ RemoveA(p) \/ RemoveB(p)

Done == (\A p \in Proc : pc[p] \in Over) /\ UNCHANGED vars

Next == (\E p \in Proc : Run(p) \/ Kill(p)) \/ Done

Spec == Init /\ [][Next]_vars

-----------------------------------------------------------------------------
\* Every variable has its type, and a run has a file open in these steps only.
TypeOK ==
  /\ dir \in [Name -> Inode \cup {None}]
  /\ shape \in [Inode -> Shape]
  /\ by \in [Inode -> SUBSET Proc]
  /\ pc \in [Proc -> Steps]
  /\ slot \in [Proc -> Slot]
  /\ handle \in [Proc -> Inode \cup {None}]
  /\ \A p \in Proc : handle[p] # None <=>
                      pc[p] \in {"openin", "decode", "read", "write"}
  /\ decoded \in [Proc -> SUBSET Slot]
  /\ loaded \in [Proc -> SUBSET Slot]
  /\ source \in [Proc -> [Slot -> SUBSET Proc]]
  /\ err \in [Proc -> 0 .. 2]
  /\ printed \in [Proc -> BOOLEAN]
  /\ earlier \in [Proc -> SUBSET Proc]

\* Run p has not yet reached the remove() that is to take Mono[n] away, and, if
\* it died, never will.
Owes(p, n) ==
  \/ n = Arg[p]["A"] /\ pc[p] \notin {"start", "removeB", "end"}
  \/ n = Arg[p]["B"] /\ pc[p] \notin {"start", "end"}

\* main's two remove() calls clean up after every run that returns, whichever
\* conversions failed, whoever else is using the files: a mono file that is
\* there is one a run still has to remove, or one that died left.
LeftoversAreOwed ==
  \A n \in Input : dir[Mono[n]] # None => \E p \in Proc : Owes(p, n)

\* Where the bytes of a score come from.  Whatever was loaded was written by
\* runs that had decoded the same input; and a run other than this one had not
\* ended normally when this one started: it overlapped with this run, or it
\* died and left the file behind.
ScoreProvenance ==
  \A p \in Proc, s \in Slot :
    printed[p] =>
      /\ s \in loaded[p]
      /\ \A q \in source[p][s] :
           /\ \E t \in decoded[q] : Arg[q][t] = Arg[p][s]
           /\ q # p => q \notin earlier[p]

\* The files the program was given are never truncated, written or removed.
InputsKept ==
  \A n \in Input : /\ dir'[n] = dir[n]
                   /\ shape'[n] = shape[n] /\ by'[n] = by[n]
InputsPreserved == [][InputsKept]_vars

\* main stops with "failed to decode Opus file" when an input could not be
\* converted (pesqmain_adapter.cc:38-46), so a score has two decoded inputs.
ScoreNeedsDecode == \A p \in Proc : printed[p] => decoded[p] = Slot
=============================================================================
