---------------------------- MODULE BadIntervals -----------------------------
(***************************************************************************)
(* pesq_psychoacoustic_model of PESQ-MOS/pesqmod.c, from the utterances on:*)
(* the frames a jump of the delay makes it skip, the degraded signal with  *)
(* its delays taken out, and the intervals of bad frames, for each of which*)
(* it searches a delay once more and computes the disturbance again.       *)
(*                                                                         *)
(* How much a frame is disturbed is one of three levels, in place of       *)
(* loudness and masking; any frame may come out with any level.  Instead   *)
(* of a sample an array holds the index of the sample of the degraded      *)
(* signal that was put there.  Utterances begin and end at samples.        *)
(***************************************************************************)
EXTENDS Integers, Sequences

CONSTANTS
  Half,       \* Nf / 2: samples from one frame to the next
  Search,     \* SEARCHBUFFER * Downsample: samples on either side
  Padding,    \* DATAPADDING_MSECS * (Fs / 1000)
  MaxSamples, \* maxNsamples, both silences included
  Cases,      \* bound: records [silence, utts]: samples to skip at the end,
              \* and the utterances, records [start, end, delay]
  BadSets,    \* bound: the sets of frames that may be bad at first
  Delays      \* bound: what the search for a delay may find

Room == MaxSamples + Padding  \* nn: samples in data

ASSUME BadIntervalsAssumption ==
  /\ {Half, Search, Padding, MaxSamples} \subseteq Nat \ {0}
  /\ Half <= Search /\ 2 * Search < MaxSamples
  /\ 2 * Search <= MaxSamples \div 2 + Padding
  /\ \A c \in Cases :
       /\ c.silence \in 0 .. MaxSamples \div 2
       /\ c.utts \in Seq([start : Int, end : Int, delay : Int]) /\ c.utts # <<>>
  /\ \A d \in Delays : d \in -8 * Half .. 8 * Half - 1  \* SEARCH_RANGE: 4 Nf

None == 0   \* no disturbance
Small == 1  \* up to THRESHOLD_BAD_FRAMES
Large == 2  \* above it

Outside == -1

VARIABLES
  pc,         \* the next step
  utts,       \* Utt_Start, Utt_End, Utt_Delay
  stopFrame,  \* stop_frame
  level,      \* frame_disturbance
  anyBad,     \* there_is_a_bad_frame
  skipped,    \* frame_was_skipped, as a set
  tweaked,    \* tweaked_deg
  smeared,    \* smeared_frame_is_bad, as a set
  frame,      \* frame, in the scan for intervals
  start,      \* where the run it is in began, or Outside
  intervals,  \* start and stop_frame_of_bad_interval, as pairs
  delays,     \* delay_in_samples_in_bad_interval
  data,       \* doubly_tweaked_deg
  k           \* utt or bad_interval, in the loops over them

signals == <<utts, stopFrame>>
vars == <<pc, signals, level, anyBad, skipped, tweaked, smeared, frame, start,
          intervals, delays, data, k>>

Frames == 0 .. stopFrame

\* The last frame that is computed comes from the samples that are left.
Init ==
  /\ pc = "first" /\ level = <<>> /\ anyBad = FALSE
  /\ \E c \in Cases :
       /\ utts = c.utts
       /\ stopFrame = (MaxSamples - 2 * Search + Padding - c.silence) \div Half - 1
  /\ skipped = {} /\ tweaked = <<>> /\ smeared = {} /\ frame = 0 /\ start = Outside
  /\ intervals = <<>> /\ delays = <<>> /\ data = <<>> /\ k = 0

-----------------------------------------------------------------------------
(* All frames. *)

\* The disturbance of every frame with the delay of its utterance.
FirstPass ==
  /\ pc = "first"
  /\ \E bad \in BadSets :
       /\ level' = [f \in Frames |-> IF f \in bad THEN Large ELSE Small]
       /\ anyBad' = (bad \cap Frames # {})
  /\ pc' = "skip" /\ k' = 2
  /\ UNCHANGED <<signals, skipped, tweaked, smeared, frame, start,
                 intervals, delays, data>>

\* The division of C rounds towards zero.
Quotient(a, b) == IF a >= 0 THEN a \div b ELSE - ((-a) \div b)
Larger(a, b)   == IF a < b THEN b ELSE a
Smaller(a, b)  == IF a < b THEN a ELSE b
Within(i, low, high) == Smaller(Larger(i, low), high)

Jump(u) == utts[u].delay - utts[u - 1].delay

\* A slip, for a mutant: the last frame is skipped like the others.
SkipAll(u) ==
  LET from   == utts[u].start - Search
      frame1 == Smaller(Quotient(from + utts[u].delay, Half),
                        Quotient(utts[u - 1].end - Search + utts[u - 1].delay, Half))
      frame2 == Quotient(from - Jump(u), Half) + 1
  IN IF Jump(u) < -Half THEN Larger(frame1, 0) .. frame2 ELSE {}

\* A degraded signal that jumps back by more than half a frame: these frames
\* count as undisturbed, except the last one.
SkipRange(u) ==
  LET from   == utts[u].start - Search
      frame1 == Smaller(Quotient(from + utts[u].delay, Half),
                        Quotient(utts[u - 1].end - Search + utts[u - 1].delay, Half))
      frame2 == Quotient(from - Jump(u), Half) + 1
  IN IF Jump(u) < -Half
       THEN {f \in Frames : Larger(frame1, 0) <= f /\ f <= frame2 /\ f < stopFrame}
       ELSE {}

Skip ==
  /\ pc = "skip" /\ k <= Len(utts)
  /\ skipped' = skipped \cup SkipRange(k)
  /\ level' = [f \in Frames |-> IF f \in SkipRange(k) THEN None ELSE level[f]]
  /\ k' = k + 1
  /\ UNCHANGED <<pc, signals, anyBad, tweaked, smeared, frame, start,
                 intervals, delays, data>>

\* The delay of the last utterance, from the end, that has begun; of the first
\* one if there is none.
DelayAt(i) ==
  LET begun == {u \in DOMAIN utts : utts[u].start <= i}
  IN IF begun = {} THEN utts[1].delay
     ELSE utts[CHOOSE u \in begun : \A v \in begun : v <= u].delay

\* The degraded signal with the delays taken out, silence at both ends.
Tweak ==
  /\ pc = "skip" /\ k > Len(utts)
  /\ tweaked' = [i \in 0 .. Room - 1 |->
       IF i \in Search .. Room - Search - 1
         THEN Within(i + DelayAt(i), Search, Room - Search - 1) ELSE 0]
  /\ pc' = IF anyBad THEN "smear" ELSE "end"
  /\ UNCHANGED <<signals, level, anyBad, skipped, smeared, frame, start,
                 intervals, delays, data, k>>

-----------------------------------------------------------------------------
(* The intervals. *)

\* The first frame is never bad, and a frame that was skipped is not any more.
IsBad(f) == f # 0 /\ level[f] = Large

\* A slip, for a mutant: the frames up to the last one are looked at.
SmearAll ==
  /\ pc = "smear"
  /\ smeared' = {f \in 2 .. stopFrame :
       /\ \E g \in f - 2 .. f : IsBad(g)
       /\ \E g \in f .. f + 2 : g <= stopFrame /\ IsBad(g)}
  /\ pc' = "scan" /\ frame' = 0
  /\ UNCHANGED <<signals, level, anyBad, skipped, tweaked, start, intervals,
                 delays, data, k>>

\* Bad among itself and two to the left, and among itself and two to the right.
Smear ==
  /\ pc = "smear"
  /\ smeared' = {f \in 2 .. stopFrame - 3 :
       /\ \E g \in f - 2 .. f : IsBad(g)
       /\ \E g \in f .. f + 2 : IsBad(g)}
  /\ pc' = "scan" /\ frame' = 0
  /\ UNCHANGED <<signals, level, anyBad, skipped, tweaked, start, intervals,
                 delays, data, k>>

\* One turn of the loops over frames: outside a run, inside, or at its end.  A
\* short run is not counted, and overwritten by the next; one that goes on to
\* the last frame has no end.
Scan ==
  /\ pc = "scan" /\ frame <= stopFrame
  /\ \/ /\ frame \notin smeared /\ start = Outside
        /\ frame' = frame + 1 /\ UNCHANGED <<start, intervals>>
     \/ /\ frame \in smeared
        /\ start' = IF start = Outside THEN frame ELSE start
        /\ frame' = frame + 1 /\ UNCHANGED intervals
     \/ /\ frame \notin smeared /\ start # Outside
        /\ start' = Outside /\ UNCHANGED frame
        /\ intervals' = IF frame - start >= 5
                          THEN Append(intervals, <<start, frame>>) ELSE intervals
  /\ UNCHANGED <<pc, signals, level, anyBad, skipped, tweaked, smeared,
                 delays, data, k>>

ScanDone ==
  /\ pc = "scan" /\ frame > stopFrame
  /\ pc' = "search"
  /\ UNCHANGED <<signals, level, anyBad, skipped, tweaked, smeared, frame, start,
                 intervals, delays, data, k>>

\* A slip, for a mutant: the second half of the last frame is left out.
SamplesShort(n) ==
  intervals[n][1] * Half + Search .. intervals[n][2] * Half + Search - 1

\* start_sample_ and stop_sample_of_bad_interval, one frame further.
Samples(n) ==
  intervals[n][1] * Half + Search ..
    intervals[n][2] * Half + 2 * Half + Search - 1

\* The delay at which the magnitudes agree best, or none if they hardly do.
SearchDelay ==
  /\ pc = "search" /\ Len(delays) < Len(intervals)
  /\ \E d \in Delays \cup {0} : delays' = Append(delays, d)
  /\ UNCHANGED <<pc, signals, level, anyBad, skipped, tweaked, smeared, frame, start,
                 intervals, data, k>>

SearchDone ==
  /\ pc = "search" /\ Len(delays) = Len(intervals)
  /\ IF intervals = <<>> THEN pc' = "end" /\ UNCHANGED <<data, k>>
     ELSE pc' = "rewrite" /\ data' = tweaked /\ k' = 1
  /\ UNCHANGED <<signals, level, anyBad, skipped, tweaked, smeared, frame, start,
                 intervals, delays>>

Shifted(n, i) == Within(i + delays[n], 0, MaxSamples - 1)

\* The samples of an interval are taken from the first copy, not the second.
Rewrite ==
  /\ pc = "rewrite" /\ k <= Len(intervals)
  /\ data' = [i \in 0 .. Room - 1 |->
                IF i \in Samples(k) THEN tweaked[Shifted(k, i)] ELSE data[i]]
  /\ k' = k + 1
  /\ UNCHANGED <<pc, signals, level, anyBad, skipped, tweaked, smeared, frame, start,
                 intervals, delays>>

RewriteDone ==
  /\ pc = "rewrite" /\ k > Len(intervals)
  /\ pc' = "again" /\ k' = 1
  /\ UNCHANGED <<signals, level, anyBad, skipped, tweaked, smeared, frame, start,
                 intervals, delays, data>>

\* The frames of an interval: they read Half samples past it.
Members(n) == intervals[n][1] .. intervals[n][2] - 1

\* A slip, for a mutant: the new disturbance counts, whatever the old one was.
ReplaceAgain ==
  /\ pc = "again" /\ k <= Len(intervals)
  /\ \E new \in {Small, Large} :
       level' = [f \in Frames |-> IF f \in Members(k) THEN new ELSE level[f]]
  /\ k' = k + 1
  /\ UNCHANGED <<pc, signals, anyBad, skipped, tweaked, smeared, frame, start,
                 intervals, delays, data>>

\* The smaller disturbance counts.
Again ==
  /\ pc = "again" /\ k <= Len(intervals)
  /\ \E new \in {Small, Large} :
       level' = [f \in Frames |-> IF f \in Members(k) THEN Smaller(level[f], new)
                                  ELSE level[f]]
  /\ k' = k + 1
  /\ UNCHANGED <<pc, signals, anyBad, skipped, tweaked, smeared, frame, start,
                 intervals, delays, data>>

AgainDone ==
  /\ pc = "again" /\ k > Len(intervals)
  /\ pc' = "end"
  /\ UNCHANGED <<signals, level, anyBad, skipped, tweaked, smeared, frame, start,
                 intervals, delays, data, k>>

Done == pc = "end" /\ UNCHANGED vars

Next ==
  \/ FirstPass \/ Skip \/ Tweak \/ Smear \/ Scan \/ ScanDone \/ SearchDelay
  \/ SearchDone \/ Rewrite \/ RewriteDone \/ Again \/ AgainDone \/ Done

Spec == Init /\ [][Next]_vars

-----------------------------------------------------------------------------
Steps == {"first", "skip", "smear", "scan", "search", "rewrite", "again", "end"}

\* Every variable has its type, and every index an array is used with is inside
\* it: frames, samples taken from the degraded signal, samples of intervals.
TypeOK ==
  /\ pc \in Steps /\ anyBad \in BOOLEAN /\ k \in 0 .. Len(utts) + Len(intervals) + 2
  /\ pc # "first" => level \in [Frames -> {None, Small, Large}]
  /\ skipped \cup smeared \subseteq Frames \ {stopFrame}
  /\ \A i \in DOMAIN tweaked : tweaked[i] \in 0 .. Room - 1
  /\ \A i \in DOMAIN data : data[i] \in 0 .. Room - 1
  /\ frame \in 0 .. stopFrame + 1 /\ start \in Frames \cup {Outside}
  /\ \A n \in DOMAIN intervals :
       /\ intervals[n] \in Frames \X Frames
       /\ Samples(n) \subseteq 0 .. Room - 1
  /\ \A n \in DOMAIN delays : delays[n] \in Delays \cup {0}

\* A run of smeared frames that no smeared frame touches.
Runs ==
  {r \in Frames \X (0 .. stopFrame + 1) :
     /\ r[1] < r[2] /\ r[1] .. r[2] - 1 \subseteq smeared
     /\ r[1] - 1 \notin smeared /\ r[2] \notin smeared}

\* The intervals are the runs of five frames and more, each of them once and in
\* order.  None is lost for lasting to the last frame, where the scan does not
\* count it; and three frames at least are between two of them, so that no
\* sample belongs to two.
IntervalsAreRuns ==
  pc \in {"search", "rewrite", "again"} =>
    /\ {intervals[n] : n \in DOMAIN intervals} = {r \in Runs : r[2] - r[1] >= 5}
    /\ \A n \in 1 .. Len(intervals) - 1 : intervals[n + 1][1] >= intervals[n][2] + 3

\* All samples a frame of an interval is computed from, those past the end of
\* the interval included, are the ones the delay of this interval asks for,
\* whatever was written for the intervals before and after it.
OwnDelay ==
  pc = "again" =>
    \A n \in DOMAIN intervals : \A f \in Members(n) :
      \A i \in f * Half + Search .. f * Half + 2 * Half + Search - 1 :
        data[i] = tweaked[Shifted(n, i)]

\* Once computed, the disturbance of a frame only goes down, in frames that were
\* skipped or belong to an interval, and a skipped frame stays undisturbed.
OnlyImproves ==
  pc # "first" =>
    \A f \in Frames :
      /\ level'[f] <= level[f]
      /\ level'[f] # level[f] =>
           f \in skipped' \/ \E n \in DOMAIN intervals : f \in Members(n)
      /\ f \in skipped' => level'[f] = None
NeverWorse == [][OnlyImproves]_vars
=============================================================================
