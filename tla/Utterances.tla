----------------------------- MODULE Utterances ------------------------------
(***************************************************************************)
(* utterance_locate of PESQ-MOS/pesqmod.c: the utterances of the reference *)
(* signal are found (id_searchwindows), each is aligned with the degraded  *)
(* signal (crude_align and time_align of pesqdsp.c), its limits are set so *)
(* that neighbours meet (id_utterances), and long ones are split where the *)
(* delay changes (utterance_split).  ERROR_INFO holds MAXNUTTERANCES slots *)
(* for utterances, and split_align uses the last one for its experiments.  *)
(*                                                                         *)
(* The speech of the reference is a row as apply_VAD leaves it.  Which lag *)
(* a correlation finds, and whether two delays fit an utterance better     *)
(* than one, is left open: any lag the code looks at may win.              *)
(***************************************************************************)
EXTENDS SpeechRuns, SplitAnswers, FiniteSets, Sequences

CONSTANTS
  SEARCHBUFFER,    \* 75 windows
  MINUTTLENGTH,    \* 50 windows
  MAXNUTTERANCES,  \* 50
  MinSplit,        \* 200: windows of speech in an utterance worth splitting
  RefWindows,      \* bound: windows of the reference signal
  DegSamples,      \* bound: the samples a degraded signal may have
  Crudes,          \* bound: the delays, in windows, between the two signals
  Lags,            \* bound: the lags, in windows, that may win
  MinSilence,      \* what SpeechIsSeparated of ApplyVad promises
  Junk             \* what an experiment or a rejected utterance leaves behind

SlotType ==
  [search : [start : Int, end : Int], est : Int, delay : Int, start : Int, end : Int]

\* There are as many slots as id_searchwindows needs: it does not check
\* (SpeechRow says so).
ASSUME UtteranceAssumption ==
  /\ {Downsample, SEARCHBUFFER, MINUTTLENGTH, MAXNUTTERANCES, MinSplit}
       \subseteq Nat \ {0}
  /\ {Align_Nfft, Pad, RefWindows, MinSilence} \subseteq Nat
  /\ DegSamples \subseteq Nat /\ Crudes \subseteq Int
  /\ Lags \subseteq Int /\ 0 \in Lags
  /\ MinSplit > 2 * Pad /\ RefWindows > 2
  /\ Junk \notin SlotType

VARIABLES
  row,      \* VAD[count] > 0 of the reference
  degraded, \* deg_info->Nsamples
  crude,    \* Crude_DelayEst
  pc, at,   \* which loop, and its utterance (Utt_num, Utt_id)
  count, speech, this_start, \* the scan of the windows, speech_flag
  n,        \* Nutterances
  utt,      \* the slots: UttSearch_*, Utt_DelayEst, Utt_Delay, Utt_Start, Utt_End
  found     \* history: the utterances id_searchwindows found

scan == <<count, speech, this_start>>
vars == <<row, degraded, crude, pc, at, scan, n, utt, found>>

Window == 0 .. RefWindows - 1
LastWindow == RefWindows - 1
Slot   == 0 .. MAXNUTTERANCES - 1
Steps  == {"search", "crude", "time", "identify", "limits", "split", "done"}

\* The division of C, towards zero.
Div(a, b) == IF a >= 0 THEN a \div b ELSE -((-a) \div b)

\* The rows of speech apply_VAD may hand on, if there are slots enough.
SpeechRow(v) ==
  /\ ~v[0] /\ ~v[LastWindow]
  /\ Runs(v) /= {} /\ Cardinality(Runs(v)) <= MAXNUTTERANCES
  /\ \A q, r \in Runs(v) : q.end <= r.start => r.start - q.end >= MinSilence

Init ==
  /\ row \in {v \in [Window -> BOOLEAN] : SpeechRow(v)}
  /\ degraded \in DegSamples
  /\ crude \in {Downsample * c : c \in Crudes}
  /\ pc = "search" /\ at = 0 /\ n = 0
  /\ count = 0 /\ speech = FALSE /\ this_start = 0
  /\ utt = [k \in Slot |-> Junk]
  /\ found = <<>>

-----------------------------------------------------------------------------
(* Finding utterances. *)

DegStart == MINUTTLENGTH - Div(crude, Downsample)
DegEnd   == Div(degraded - crude, Downsample) - MINUTTLENGTH

\* Long enough, and at least in part where the degraded signal has data.
Counts(start, end) ==
  /\ end - start >= MINUTTLENGTH
  /\ start < DegEnd
  /\ end > DegStart

Begins     == row[count] /\ ~speech
Ends       == (~row[count] \/ count = LastWindow) /\ (speech \/ Begins)
Start      == IF Begins THEN count ELSE this_start

\* A slip, for a mutant: the silent window behind a stretch counts as well.
CountedOver == at + (IF Ends /\ Counts(Start, count + 1) THEN 1 ELSE 0)

Counted == at + (IF Ends /\ Counts(Start, count) THEN 1 ELSE 0)

\* One window of the loop that id_searchwindows and id_utterances share; `at'
\* counts the utterances, and the next one overwrites one that did not count.
ScanWindow(next) ==
  /\ speech' = ((speech \/ Begins) /\ ~Ends)
  /\ this_start' = Start
  /\ IF count < LastWindow
       THEN count' = count + 1 /\ at' = Counted /\ UNCHANGED pc
       ELSE count' = 0 /\ at' = 0 /\ pc' = next

Blank == [search |-> [start |-> 0, end |-> 0],
          est |-> 0, delay |-> 0, start |-> 0, end |-> 0]

IdSearchwindows ==
  /\ pc = "search"
  /\ LET begun == IF Begins
                    THEN [utt EXCEPT ![at] =
                            [Blank EXCEPT !.search.start = Greater(count - SEARCHBUFFER, 0)]]
                    ELSE utt
     IN utt' = IF Ends
                 THEN [begun EXCEPT ![at].search.end =
                         Lesser(count + SEARCHBUFFER, LastWindow)]
                 ELSE begun
  /\ found' = IF Counted > at THEN Append(found, [start |-> Start, end |-> count])
                             ELSE found
  /\ n' = IF count = LastWindow THEN Counted ELSE n
  /\ ScanWindow(IF Counted = 0 THEN "identify" ELSE "crude")
  /\ UNCHANGED <<row, degraded, crude>>

-----------------------------------------------------------------------------
(* Aligning one. *)

\* The delays crude_align may answer for reference windows from .. to and a
\* delay the search starts at.
CrudeAligned(from, to, delay) ==
  LET begins == from + Div(delay, Downsample) < 0
      startr == IF begins THEN Div(-delay, Downsample) ELSE from
      startd == IF begins THEN 0 ELSE from + Div(delay, Downsample)
      nr     == to - startr
      nd     == Lesser(nr, Div(degraded, Downsample) - startd)
  IN {delay + Downsample * lag :
        lag \in IF nr > 1 /\ nd > 1 THEN Lags \cap ((1 - nr) .. (nd - 1)) ELSE {0}}

\* What time_align and the loops of split_align add to it.
FineAligned(delay) == {delay + lag : lag \in Fine}

CrudeAlign ==
  /\ pc = "crude"
  /\ \E est \in CrudeAligned(utt[at].search.start, utt[at].search.end, crude) :
       utt' = [utt EXCEPT ![at].est = est]
  /\ pc' = "time"
  /\ UNCHANGED <<row, degraded, crude, at, scan, n, found>>

TimeAlign ==
  /\ pc = "time"
  /\ \E delay \in FineAligned(utt[at].est) :
       utt' = [utt EXCEPT ![at].delay = delay]
  /\ at' = IF at + 1 < n THEN at + 1 ELSE 0
  /\ pc' = IF at + 1 < n THEN "crude" ELSE "identify"
  /\ UNCHANGED <<row, degraded, crude, scan, n, found>>

-----------------------------------------------------------------------------
(* Setting the limits. *)

\* The sample of the degraded signal that window x of the reference starts at.
InDegraded(x, delay) == x * Downsample + delay

\* A slip, for a mutant: the buffer is taken for samples behind the last one.
HalfwayToTheEnd ==
  LET mid(u) == (utt[u].start + utt[u - 1].end) \div 2
  IN [u \in 0 .. n - 1 |->
        [start |-> IF u = 0 THEN SEARCHBUFFER ELSE mid(u),
         end   |-> IF u = n - 1 THEN RefWindows + SEARCHBUFFER ELSE mid(u + 1)]]

\* The limits that split the silences of the reference halfway.
Halfway ==
  LET mid(u) == (utt[u].start + utt[u - 1].end) \div 2
  IN [u \in 0 .. n - 1 |->
        [start |-> IF u = 0 THEN SEARCHBUFFER ELSE mid(u),
         end   |-> IF u = n - 1 THEN RefWindows - SEARCHBUFFER ELSE mid(u + 1)]]

\* The first and the last utterance keep clear of the degraded signal's ends.
Clamped(limits) ==
  LET first == utt[0].delay
      final == utt[n - 1].delay
      start == IF InDegraded(limits[0].start, first) < SEARCHBUFFER * Downsample
                 THEN SEARCHBUFFER + Div(Downsample - 1 - first, Downsample)
                 ELSE limits[0].start
      end   == IF InDegraded(limits[n - 1].end, final)
                    > degraded - SEARCHBUFFER * Downsample
                 THEN Div(degraded - final, Downsample) - SEARCHBUFFER
                 ELSE limits[n - 1].end
  IN [limits EXCEPT ![0].start = start, ![n - 1].end = end]

\* A slip, for a mutant: both neighbours round to the same side.
SeparatedDown(limits) ==
  LET begin(u)  == InDegraded(limits[u].start, utt[u].delay)
      finish(u) == InDegraded(limits[u].end, utt[u].delay)
      overlap(u) == begin(u) < finish(u - 1)
      mid(u)    == Div(begin(u) + finish(u - 1), 2)
  IN [u \in 0 .. n - 1 |->
        [start |-> IF u > 0 /\ overlap(u)
                     THEN Div(mid(u) - utt[u].delay, Downsample)
                     ELSE limits[u].start,
         end   |-> IF u < n - 1 /\ overlap(u + 1)
                     THEN Div(mid(u + 1) - utt[u].delay, Downsample)
                     ELSE limits[u].end]]

\* Neighbours that overlap in the degraded signal give way to one another.
Separated(limits) ==
  LET begin(u)  == InDegraded(limits[u].start, utt[u].delay)
      finish(u) == InDegraded(limits[u].end, utt[u].delay)
      overlap(u) == begin(u) < finish(u - 1)
      mid(u)    == Div(begin(u) + finish(u - 1), 2)
  IN [u \in 0 .. n - 1 |->
        [start |-> IF u > 0 /\ overlap(u)
                     THEN Div(Downsample - 1 + mid(u) - utt[u].delay, Downsample)
                     ELSE limits[u].start,
         end   |-> IF u < n - 1 /\ overlap(u + 1)
                     THEN Div(mid(u + 1) - utt[u].delay, Downsample)
                     ELSE limits[u].end]]

IdUtterances ==
  /\ pc = "identify"
  /\ LET begun == IF Begins THEN [utt EXCEPT ![at].start = count] ELSE utt
     IN utt' = IF Ends THEN [begun EXCEPT ![at].end = count] ELSE begun
  /\ ScanWindow("limits")
  /\ UNCHANGED <<row, degraded, crude, n, found>>

\* Without any utterance the code writes in front of Utt_End, where nothing is
\* that is used, and pesq_psychoacoustic_model then gives up.
SetLimits ==
  /\ pc = "limits"
  /\ LET limits == Separated(Clamped(Halfway))
     IN utt' = IF n = 0 THEN utt
               ELSE [k \in Slot |->
                       IF k < n THEN [utt[k] EXCEPT !.start = limits[k].start,
                                                    !.end = limits[k].end]
                                ELSE utt[k]]
  /\ pc' = "split"
  /\ UNCHANGED <<row, degraded, crude, at, scan, n, found>>

-----------------------------------------------------------------------------
(* Splitting. *)

\* A limit of an utterance that was split may lie outside the row, if the lags
\* are far apart: what VAD holds there is anything.
Heard(i, outside) == IF i \in Window THEN row[i] ELSE outside

\* The speech of an utterance, found from either end.
SpeechStart(u, outside) ==
  CHOOSE i \in u.start .. Greater(u.start, u.end) :
    /\ i >= u.end \/ Heard(i, outside)
    /\ \A j \in u.start .. i - 1 : ~Heard(j, outside)
SpeechEnd(u, outside) ==
  1 + CHOOSE i \in Lesser(u.start, u.end) .. u.end :
        /\ i <= u.start \/ Heard(i, outside)
        /\ \A j \in i + 1 .. u.end : ~Heard(j, outside)

\* A slip, for a mutant: a split is tried with every slot in use.
TryingAlways == pc = "split" /\ at < n /\ n <= MAXNUTTERANCES

Trying == pc = "split" /\ at < n /\ n < MAXNUTTERANCES

IsLong(u, outside) == SpeechEnd(u, outside) - SpeechStart(u, outside) >= MinSplit

\* The experiments of split_align end with the last slot overwritten.
Tried == [utt EXCEPT ![MAXNUTTERANCES - 1] = Junk]

\* A slip, for a mutant: one of the fields is forgotten.
MovedInPart(slot) ==
  [slot EXCEPT !.search = [start |-> slot.start, end |-> slot.end], !.delay = slot.est]

\* The slots behind u move up by one; what they were searched in becomes what
\* their limits are.
Moved(slot) == [slot EXCEPT !.search = [start |-> slot.start, end |-> slot.end]]

Shifted(slots, u) ==
  [k \in Slot |-> IF k > u + 1 /\ k <= n THEN Moved(slots[k - 1]) ELSE slots[k]]

\* Where the two parts of u meet: in the reference, or, if the second is later,
\* halfway between the two delays.
Parts(u, bp, est1, d1, est2, d2) ==
  LET over   == IF d2 < d1 THEN 0 ELSE Div(d2 - d1, 2 * Downsample)
      start  == IF (u.start - SEARCHBUFFER) * Downsample + d1 < 0
                  THEN SEARCHBUFFER + Div(Downsample - 1 - d1, Downsample)
                  ELSE u.start
      end    == IF InDegraded(u.end, d2) > degraded - SEARCHBUFFER * Downsample
                  THEN Div(degraded - d2, Downsample) - SEARCHBUFFER
                  ELSE u.end
  IN <<[search |-> u.search, est |-> est1, delay |-> d1,
        start |-> start, end |-> bp + over],
       [search |-> u.search, est |-> est2, delay |-> d2,
        start |-> bp - over, end |-> end]>>

\* What split_align is given of u.
Given(u, outside) ==
  [start |-> u.start, speechStart |-> SpeechStart(u, outside),
   speechEnd |-> SpeechEnd(u, outside), end |-> u.end]

\* split_align gives an answer that is usable (SplitCall), to which crude_align
\* contributed what it may find in front of the break point and behind it.  The
\* first part is looked at again.
Split ==
  /\ Trying
  /\ \E outside \in BOOLEAN :
       LET u == utt[at]
       IN /\ IsLong(u, outside)
          /\ \E bp \in SpeechStart(u, outside) + Pad .. SpeechEnd(u, outside) - Pad :
             \E est1 \in CrudeAligned(u.start, bp, u.est) :
             \E est2 \in CrudeAligned(bp, u.end, u.est) :
             \E d1 \in FineAligned(est1), d2 \in FineAligned(est2) :
               /\ Usable(Given(u, outside), degraded,
                         [bp |-> bp, ed1 |-> est1, d1 |-> d1,
                                     ed2 |-> est2, d2 |-> d2])
               /\ LET parts == Parts(u, bp, est1, d1, est2, d2)
                  IN utt' = [Shifted(Tried, at) EXCEPT ![at] = parts[1],
                                                       ![at + 1] = parts[2]]
  /\ n' = n + 1
  /\ UNCHANGED <<row, degraded, crude, pc, at, scan, found>>

\* A slip, for a mutant: an utterance that is not split is looked at for ever.
KeepAgain ==
  /\ Trying
  /\ \E outside \in BOOLEAN :
       /\ utt' = IF IsLong(utt[at], outside) THEN Tried ELSE utt
       /\ at' = IF IsLong(utt[at], outside) THEN at ELSE at + 1
  /\ UNCHANGED <<row, degraded, crude, pc, scan, n, found>>

\* A short utterance stays as it is, and so may a long one.
Keep ==
  /\ Trying
  /\ \E outside \in BOOLEAN :
       utt' = IF IsLong(utt[at], outside) THEN Tried ELSE utt
  /\ at' = at + 1
  /\ UNCHANGED <<row, degraded, crude, pc, scan, n, found>>

Finish ==
  /\ pc = "split" /\ ~Trying
  /\ pc' = "done"
  /\ UNCHANGED <<row, degraded, crude, at, scan, n, utt, found>>

Done == pc = "done" /\ UNCHANGED vars

Step == IdSearchwindows \/ CrudeAlign \/ TimeAlign \/ IdUtterances \/ SetLimits
          \/ Split \/ Keep \/ Finish

Next == Step \/ Done

Spec == Init /\ [][Next]_vars

\* The functions call one another in a single thread.
FairSpec == Spec /\ WF_vars(Step)

-----------------------------------------------------------------------------
Live == 0 .. n - 1

\* Every variable keeps its type, and there are never more utterances than slots.
TypeOK ==
  /\ row \in [Window -> BOOLEAN] /\ degraded \in DegSamples /\ crude \in Int
  /\ pc \in Steps
  /\ n \in 0 .. MAXNUTTERANCES /\ at \in 0 .. MAXNUTTERANCES
  /\ count \in Window /\ speech \in BOOLEAN /\ this_start \in Window
  /\ DOMAIN utt = Slot
  /\ \A k \in Slot : utt[k] = Junk \/ utt[k] \in SlotType

\* The scan counts every stretch of speech that is long enough and has degraded
\* data beside it, in order, and nothing else; and id_utterances, which scans
\* once more, puts into the same slots what id_searchwindows found there.
FindsTheSpeech ==
  /\ pc /= "search" =>
       /\ {found[i] : i \in DOMAIN found} = {r \in Runs(row) : Counts(r.start, r.end)}
       /\ \A i \in 1 .. Len(found) - 1 : found[i].end < found[i + 1].start
  /\ pc = "limits" =>
       \A k \in Live : found[k + 1] = [start |-> utt[k].start, end |-> utt[k].end]

\* No experiment of split_align spoils an utterance: the slot it uses is free
\* whenever it runs, the one that is shifted out of the way by a split included.
LiveSlotsAreKept == pc /= "search" => \A k \in Live : k \in Slot /\ utt[k] /= Junk

\* By how much two limits overlap: not at all, except that a limit which lies in
\* front of the reference was rounded up and not down.
InOrder(over, limit) == over < Downsample /\ (limit > 0 => over <= 0)

\* Before any is split, neighbours do not overlap in the degraded signal, and
\* the outer two keep clear of its ends.
DegradedInOrder ==
  (pc = "split" /\ n = Len(found) /\ n > 0) =>
    /\ \A k \in 1 .. n - 1 :
         InOrder(InDegraded(utt[k - 1].end, utt[k - 1].delay)
                   - InDegraded(utt[k].start, utt[k].delay),
                 utt[k - 1].end)
    /\ InDegraded(utt[0].start, utt[0].delay) >= SEARCHBUFFER * Downsample
    /\ InOrder(InDegraded(utt[n - 1].end + SEARCHBUFFER, utt[n - 1].delay)
                  - degraded,
               utt[n - 1].end + SEARCHBUFFER)

\* Until a split, the loops that look for speech look inside the row.
LooksInsideTheRow ==
  (Trying /\ n = Len(found) /\ utt[at].start < utt[at].end) =>
    {utt[at].start, utt[at].end} \subseteq Window

Timed(slot) == <<slot.delay, slot.start, slot.end>>

\* A split takes one utterance apart and leaves the others, in their order,
\* with the delay and the limits they had.
SplitKeepsOthers ==
  [][n' > n /\ pc = "split" =>
       \A k \in Live \ {at} :
         Timed(utt'[IF k < at THEN k ELSE k + 1]) = Timed(utt[k])]_vars

\* Splitting an utterance that may be split again comes to an end.
Terminates == <>(pc = "done")
=============================================================================
