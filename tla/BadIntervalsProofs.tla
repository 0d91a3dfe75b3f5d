------------------------- MODULE BadIntervalsProofs --------------------------
(***************************************************************************)
(* The safety properties of BadIntervals, for signals of any length, any   *)
(* utterances and any frames that are bad.                                 *)
(*                                                                         *)
(* IInv is the inductive invariant.  It goes from the smeared frames to    *)
(* the samples: what Smear leaves between two runs is one frame, or three  *)
(* and more if both are longer than one (Separate); so the intervals the   *)
(* scan has counted are three frames apart (Ordered), the samples of two   *)
(* of them are disjoint, and what Rewrite wrote for one is not written     *)
(* again for another (Rewritten).                                          *)
(***************************************************************************)
EXTENDS BadIntervals, WellFoundedInduction, TLAPS

Signals ==
  /\ utts \in Seq([start : Int, end : Int, delay : Int]) /\ utts # <<>>
  /\ stopFrame \in Int /\ stopFrame >= -1
  /\ (stopFrame + 1) * Half + 2 * Search <= Room

Disturbed ==
  /\ anyBad \in BOOLEAN /\ skipped \subseteq Frames \ {stopFrame}
  /\ pc = "first" => skipped = {}
  /\ pc # "first" =>
       /\ level \in [Frames -> {None, Small, Large}]
       /\ \A f \in skipped : level[f] = None

\* Two runs of two frames and more are three frames apart.
Separate(S) ==
  \A e, s \in Int :
    e - 2 \in S /\ e - 1 \in S /\ e \notin S /\ e < s /\ s \in S /\ s + 1 \in S
      => s >= e + 3

Smeared ==
  /\ smeared \subseteq 2 .. stopFrame - 3
  /\ Separate(smeared)

LongRuns == {r \in Runs : r[2] - r[1] >= 5}

Ordered ==
  /\ intervals \in Seq(LongRuns)
  /\ \A m, n \in DOMAIN intervals : m < n => intervals[n][1] >= intervals[m][2] + 3
  /\ pc \in {"first", "skip", "smear"} => intervals = <<>>

Counted == {intervals[n] : n \in DOMAIN intervals}

\* The scan has counted the runs behind it, the one it is in excepted.
Scanned ==
  /\ frame \in 0 .. stopFrame + 1 /\ start \in Frames \cup {Outside}
  /\ pc \in {"first", "skip", "smear"} => start = Outside
  /\ pc = "scan" =>
       /\ start = Outside => frame - 1 \notin smeared \/ frame \notin smeared
       /\ start # Outside =>
            /\ start < frame /\ start .. frame - 1 \subseteq smeared
            /\ start - 1 \notin smeared
       /\ Counted = {r \in LongRuns : r[2] <= IF start = Outside THEN frame ELSE start}
  /\ pc \in {"search", "rewrite", "again"} => Counted = LongRuns

Counters ==
  /\ pc \in Steps /\ k \in 0 .. Len(utts) + Len(intervals) + 1
  /\ pc = "first" => k = 0
  /\ pc = "skip" => k \in 2 .. Len(utts) + 1
  /\ pc \in {"rewrite", "again"} => k \in 1 .. Len(intervals) + 1

Signal == [0 .. Room - 1 -> 0 .. Room - 1]

Searched ==
  /\ delays \in Seq(Delays \cup {0})
  /\ pc \in {"rewrite", "again"} => Len(delays) = Len(intervals)

Copied ==
  /\ tweaked = <<>> \/ tweaked \in Signal
  /\ pc \notin {"first", "skip"} => tweaked \in Signal
  /\ data = <<>> \/ data \in Signal
  /\ pc \in {"rewrite", "again"} => data \in Signal

\* The samples of the interval n are what its delay asks for.
Own(n) == \A i \in Samples(n) : data[i] = tweaked[Shifted(n, i)]

Rewritten ==
  /\ pc = "rewrite" => \A n \in 1 .. k - 1 : Own(n)
  /\ pc = "again" => \A n \in DOMAIN intervals : Own(n)

IInv ==
  /\ Signals /\ Disturbed /\ Smeared /\ Ordered /\ Scanned
  /\ Counters /\ Searched /\ Copied /\ Rewritten

-----------------------------------------------------------------------------
(* Numbers. *)

\* Dividing by a positive number and multiplying again gives no more.
LEMMA DivisionIsBounded ==
  ASSUME NEW a \in Nat, NEW b \in Nat \ {0}
  PROVE  a \div b \in Nat /\ (a \div b) * b <= a
  BY SMT

\* Multiplication by a natural number keeps the order.
LEMMA ProductIsMonotonic ==
  ASSUME NEW a \in Int, NEW b \in Int, a <= b, NEW c \in Nat
  PROVE  a * c \in Int /\ b * c \in Int /\ a * c <= b * c
  BY SMT

\* A set of numbers from 1 to a bound that is not empty has a largest one.
LEMMA LargestExists ==
  ASSUME NEW n \in Nat, NEW S \in SUBSET (1 .. n), S # {}
  PROVE  \E u \in S : \A v \in S : v <= u
<1> DEFINE T == {m \in Nat : m <= n /\ n - m \in S}
<1>1. T \subseteq Nat /\ T # {}
  <2>1. PICK u \in S : TRUE  OBVIOUS
  <2>2. n - u \in Nat /\ n - (n - u) = u /\ n - u <= n  OBVIOUS
  <2> QED  BY <2>1, <2>2
<1> DEFINE R == {ss \in Nat \X Nat : ss[1] < ss[2]}
<1>2. \E m \in T : \A y \in T : <<y, m>> \notin R
  <2>1. IsWellFoundedOn(R, Nat)
    BY NatLessThanWellFounded DEF OpToRel
  <2> HIDE DEF T, R
  <2> QED  BY <1>1, <2>1, WFMin
<1>3. PICK m \in T : \A y \in T : ~ (y < m)
  BY <1>1, <1>2
<1>4. \A v \in S : v <= n - m
  <2> TAKE v \in S
  <2>1. n - v \in Nat /\ n - (n - v) = v /\ n - v <= n  OBVIOUS
  <2>2. n - v \in T  BY <2>1
  <2> QED  BY <1>3, <2>1, <2>2
<1> QED  BY <1>3, <1>4

-----------------------------------------------------------------------------
(* The initial states. *)

\* At least one frame is not behind the end, and the last one reads no sample
\* past the padding.
LEMMA SignalsInitially == Init => Signals
<1> SUFFICES ASSUME Init PROVE Signals  OBVIOUS
<1>1. PICK c \in Cases :
        /\ utts = c.utts
        /\ stopFrame = (MaxSamples - 2 * Search + Padding - c.silence) \div Half - 1
  BY DEF Init
<1> DEFINE a == MaxSamples - 2 * Search + Padding - c.silence
<1>2. a \in Nat /\ a <= Room - 2 * Search /\ Half \in Nat \ {0}
  <2>1. /\ c.silence \in 0 .. MaxSamples \div 2 /\ MaxSamples \in Nat
        /\ 2 * Search <= MaxSamples \div 2 + Padding /\ Search \in Nat /\ Padding \in Nat
    BY BadIntervalsAssumption
  <2> QED  BY <2>1, BadIntervalsAssumption DEF Room
<1> HIDE DEF a
<1>3. a \div Half \in Nat /\ (a \div Half) * Half <= a
  BY <1>2, DivisionIsBounded
<1>4. stopFrame = a \div Half - 1 /\ stopFrame + 1 = a \div Half
  BY <1>1, <1>3 DEF a
<1>5. stopFrame \in Int /\ stopFrame >= -1  BY <1>3, <1>4
<1>6. (stopFrame + 1) * Half + 2 * Search <= Room
  <2>1. (stopFrame + 1) * Half \in Int /\ (stopFrame + 1) * Half <= a
    <3>1. (stopFrame + 1) * Half = (a \div Half) * Half  BY <1>4
    <3> QED  BY <3>1, <1>2, <1>3
  <2> QED  BY <2>1, <1>2, BadIntervalsAssumption DEF Room
<1> QED  BY <1>1, <1>5, <1>6, BadIntervalsAssumption DEF Signals

LEMMA IInvInitially == Init => IInv
<1> SUFFICES ASSUME Init PROVE IInv  OBVIOUS
<1>1. Signals  BY SignalsInitially
<1>2. pc = "first" /\ k = 0 /\ frame = 0 /\ start = -1 /\ intervals = <<>>
  BY DEF Init, Outside
<1>3. Disturbed  BY DEF Init, Disturbed
<1>4. Smeared  BY DEF Init, Smeared, Separate
<1>5. Ordered  BY <1>2 DEF Ordered
<1>6. Scanned  BY <1>1, <1>2 DEF Scanned, Signals, Outside, Frames
<1>7. Counters  BY <1>1, <1>2 DEF Counters, Steps, Signals
<1>8. Searched /\ Copied /\ Rewritten
  BY DEF Init, Searched, Copied, Rewritten
<1> QED  BY <1>1, <1>3, <1>4, <1>5, <1>6, <1>7, <1>8 DEF IInv

-----------------------------------------------------------------------------
(* The frames. *)

LEMMA SignalsStep == IInv /\ [Next]_vars => Signals'
<1> SUFFICES ASSUME IInv, [Next]_vars PROVE Signals'  OBVIOUS
<1>1. utts' = utts /\ stopFrame' = stopFrame
  BY DEF Next, vars, signals, FirstPass, Skip, Tweak, Smear, Scan, ScanDone,
         SearchDelay, SearchDone, Rewrite, RewriteDone, Again, AgainDone, Done
<1> QED  BY <1>1 DEF IInv, Signals, Room

LEMMA DisturbedStep == IInv /\ [Next]_vars => Disturbed'
<1> SUFFICES ASSUME IInv, [Next]_vars PROVE Disturbed'  OBVIOUS
<1> USE DEF IInv, Disturbed, signals, Frames
<1>1. CASE FirstPass
  <2>1. level' \in [Frames -> {None, Small, Large}]  BY <1>1 DEF FirstPass
  <2> QED  BY <1>1, <2>1 DEF FirstPass
<1>2. CASE Skip
  <2>1. SkipRange(k) \subseteq Frames \ {stopFrame}
    BY DEF SkipRange, Signals
  <2>2. level' = [f \in Frames |-> IF f \in SkipRange(k) THEN None ELSE level[f]]
    BY <1>2 DEF Skip
  <2> HIDE DEF Frames
  <2>3. level' \in [Frames -> {None, Small, Large}]
    BY <1>2, <2>2 DEF Skip
  <2>4. \A f \in skipped' : level'[f] = None
    BY <1>2, <2>1, <2>2 DEF Skip
  <2>5. Frames' = Frames  BY <1>2 DEF Skip, Frames
  <2> QED  BY <1>2, <2>1, <2>3, <2>4, <2>5 DEF Skip
<1>3. CASE Again
  <2>1. PICK new \in {Small, Large} :
          level' = [f \in Frames |-> IF f \in Members(k) THEN Smaller(level[f], new)
                                     ELSE level[f]]
    BY <1>3 DEF Again
  <2>2. \A f \in Frames : Smaller(level[f], new) \in {None, Small, Large}
                           /\ (level[f] = None => Smaller(level[f], new) = None)
    BY <1>3 DEF Again, Smaller, None, Small, Large
  <2> HIDE DEF Frames
  <2>3. level' \in [Frames -> {None, Small, Large}]
    BY <1>3, <2>1, <2>2 DEF Again
  <2>4. \A f \in skipped : level'[f] = None
    BY <1>3, <2>1, <2>2 DEF Again
  <2>5. Frames' = Frames  BY <1>3 DEF Again, Frames
  <2> QED  BY <1>3, <2>3, <2>4, <2>5 DEF Again
<1>4. CASE Tweak  BY <1>4 DEF Tweak
<1>5. CASE Smear \/ Scan \/ ScanDone  BY <1>5 DEF Smear, Scan, ScanDone
<1>6. CASE SearchDelay \/ SearchDone  BY <1>6 DEF SearchDelay, SearchDone
<1>7. CASE Rewrite \/ RewriteDone \/ AgainDone
  BY <1>7 DEF Rewrite, RewriteDone, AgainDone
<1>8. CASE Done \/ UNCHANGED vars  BY <1>8 DEF Done, vars
<1> QED  BY <1>1, <1>2, <1>3, <1>4, <1>5, <1>6, <1>7, <1>8 DEF Next

\* Bad frames around e and s that make them part of two runs, but not what is
\* between, would make that smeared as well.
LEMMA SmearSeparates == IInv /\ Smear => Separate(smeared')
<1> SUFFICES ASSUME IInv, Smear PROVE Separate(smeared')  OBVIOUS
<1>1. /\ smeared' = {f \in 2 .. stopFrame - 3 :
                       /\ \E g \in f - 2 .. f : IsBad(g)
                       /\ \E g \in f .. f + 2 : IsBad(g)}
      /\ stopFrame \in Int
  BY DEF IInv, Signals, Smear
<1> SUFFICES ASSUME NEW e \in Int, NEW s \in Int,
                    e - 2 \in smeared', e - 1 \in smeared', e \notin smeared',
                    e < s, s \in smeared', s + 1 \in smeared'
             PROVE  s >= e + 3
  BY DEF Separate
<1>2. SUFFICES ASSUME s < e + 3 PROVE FALSE  OBVIOUS
<1>3. e \in 2 .. stopFrame - 3 /\ s \in {e + 1, e + 2}  BY <1>1, <1>2
<1>4. \/ ~ \E g \in e - 2 .. e : IsBad(g)
      \/ ~ \E g \in e .. e + 2 : IsBad(g)
  BY <1>1, <1>3
<1>5. CASE ~ \E g \in e - 2 .. e : IsBad(g)
  <2>1. ~ \E g \in (e - 2) .. (e - 2) + 2 : IsBad(g)  BY <1>5
  <2> QED  BY <1>1, <2>1
<1>6. CASE ~ \E g \in e .. e + 2 : IsBad(g)
  <2>1. e + 2 \in smeared'  BY <1>3
  <2>2. ~ \E g \in (e + 2) - 2 .. (e + 2) : IsBad(g)  BY <1>6
  <2> QED  BY <1>1, <2>1, <2>2
<1> QED  BY <1>4, <1>5, <1>6

LEMMA SmearedStep == IInv /\ [Next]_vars => Smeared'
<1> SUFFICES ASSUME IInv, [Next]_vars PROVE Smeared'  OBVIOUS
<1>1. CASE Smear
  <2>1. smeared' \subseteq 2 .. stopFrame' - 3  BY <1>1 DEF Smear, signals
  <2> QED  BY <1>1, <2>1, SmearSeparates DEF Smeared, Separate
<1>2. CASE smeared' = smeared /\ stopFrame' = stopFrame
  BY <1>2 DEF IInv, Smeared, Separate
<1>3. Smear \/ (smeared' = smeared /\ stopFrame' = stopFrame)
  BY DEF Next, vars, signals, FirstPass, Skip, Tweak, Scan, ScanDone, SearchDelay,
         SearchDone, Rewrite, RewriteDone, Again, AgainDone, Done
<1> QED  BY <1>1, <1>2, <1>3

-----------------------------------------------------------------------------
(* The intervals. *)

\* What the definition of a run says, with the numbers it is about.
LEMMA RunMembers ==
  ASSUME Signals, Smeared, NEW r \in LongRuns
  PROVE  /\ r = <<r[1], r[2]>> /\ r[1] \in Int /\ r[2] \in Int
         /\ r[1] >= 2 /\ r[1] + 5 <= r[2] /\ r[2] <= stopFrame - 2
         /\ r[1] .. r[2] - 1 \subseteq smeared
         /\ r[1] - 1 \notin smeared /\ r[2] \notin smeared
<1>1. /\ r \in Frames \X (0 .. stopFrame + 1) /\ r[2] - r[1] >= 5
      /\ r[1] .. r[2] - 1 \subseteq smeared
      /\ r[1] - 1 \notin smeared /\ r[2] \notin smeared
  BY DEF LongRuns, Runs
<1>2. r = <<r[1], r[2]>> /\ r[1] \in Int /\ r[2] \in Int
  BY <1>1 DEF Frames, Signals
<1>3. r[1] \in smeared /\ r[2] - 1 \in smeared  BY <1>1, <1>2
<1>4. r[1] >= 2 /\ r[2] - 1 <= stopFrame - 3
  BY <1>2, <1>3 DEF Smeared, Signals
<1> QED  BY <1>1, <1>2, <1>4 DEF Signals

\* The scan is at the end of a run that is long enough to be counted.
AtEnd ==
  /\ pc = "scan" /\ frame <= stopFrame /\ frame \notin smeared /\ start # Outside
  /\ frame - start >= 5 /\ intervals' = Append(intervals, <<start, frame>>)

\* The run it counts is one, and none of those counted before is nearer than
\* three frames.
LEMMA CountsARun ==
  ASSUME IInv, AtEnd
  PROVE  /\ <<start, frame>> \in LongRuns
         /\ \A n \in DOMAIN intervals : start >= intervals[n][2] + 3
<1>1. /\ start \in Int /\ frame \in Int /\ 0 <= start /\ start <= stopFrame
      /\ frame <= stopFrame /\ start .. frame - 1 \subseteq smeared
      /\ start - 1 \notin smeared /\ frame \notin smeared /\ frame - start >= 5
      /\ start # Outside /\ stopFrame \in Int /\ 0 <= frame
  BY DEF IInv, AtEnd, Scanned, Outside, Frames, Signals
<1>2. <<start, frame>> \in LongRuns
  <2>1. <<start, frame>> \in Frames \X (0 .. stopFrame + 1)  BY <1>1 DEF Frames
  <2> QED  BY <1>1, <2>1 DEF LongRuns, Runs
<1>3. ASSUME NEW n \in DOMAIN intervals PROVE start >= intervals[n][2] + 3
  <2> DEFINE r == intervals[n]
  <2>1. r \in LongRuns /\ r \in Counted
    BY DEF IInv, Ordered, Counted
  <2>2. r[2] <= start  BY <1>1, <2>1 DEF IInv, Scanned, AtEnd
  <2>3. /\ r[1] \in Int /\ r[2] \in Int /\ r[1] + 5 <= r[2]
        /\ r[1] .. r[2] - 1 \subseteq smeared /\ r[2] \notin smeared
    BY <2>1, RunMembers DEF IInv
  <2> HIDE DEF r
  <2>4. r[2] - 2 \in smeared /\ r[2] - 1 \in smeared  BY <2>3
  <2>5. start \in smeared /\ start + 1 \in smeared  BY <1>1
  <2>6. r[2] < start  BY <1>1, <2>2, <2>3, <2>5
  <2>7. start >= r[2] + 3
    BY <1>1, <2>3, <2>4, <2>5, <2>6 DEF IInv, Smeared, Separate
  <2> QED  BY <2>7 DEF r
<1> QED  BY <1>2, <1>3

LEMMA OrderedStep == IInv /\ [Next]_vars => Ordered'
<1> SUFFICES ASSUME IInv, [Next]_vars PROVE Ordered'  OBVIOUS
<1>1. CASE Smear
  <2>1. intervals' = <<>> /\ pc' = "scan"  BY <1>1 DEF IInv, Ordered, Smear
  <2> QED  BY <2>1 DEF Ordered
<1>2. CASE AtEnd /\ smeared' = smeared /\ stopFrame' = stopFrame /\ pc' = "scan"
  <2> DEFINE new == <<start, frame>>
  <2>1. /\ new \in LongRuns /\ new[1] = start
        /\ \A n \in DOMAIN intervals : start >= intervals[n][2] + 3
    BY <1>2, CountsARun
  <2>2. intervals \in Seq(LongRuns) /\ intervals' = Append(intervals, new)
    BY <1>2 DEF IInv, Ordered, AtEnd
  <2>3. LongRuns' = LongRuns  BY <1>2 DEF LongRuns, Runs, Frames
  <2> HIDE DEF new
  <2>4. intervals' \in Seq(LongRuns)  BY <2>1, <2>2
  <2>5. ASSUME NEW m \in DOMAIN intervals', NEW n \in DOMAIN intervals', m < n
        PROVE  intervals'[n][1] >= intervals'[m][2] + 3
    <3>1. m \in DOMAIN intervals /\ intervals'[m] = intervals[m]  BY <2>2, <2>5
    <3>2. CASE n \in DOMAIN intervals
      <4>1. intervals'[n] = intervals[n]  BY <2>2, <3>2
      <4> QED  BY <2>5, <3>1, <3>2, <4>1 DEF IInv, Ordered
    <3>3. CASE n \notin DOMAIN intervals
      <4>1. intervals'[n] = new  BY <2>2, <2>5, <3>3
      <4> QED  BY <2>1, <3>1, <4>1
    <3> QED  BY <3>2, <3>3
  <2> QED  BY <1>2, <2>3, <2>4, <2>5 DEF Ordered
<1>3. CASE /\ intervals' = intervals /\ smeared' = smeared /\ stopFrame' = stopFrame
           /\ pc' \in {"first", "skip", "smear"} => pc \in {"first", "skip", "smear"}
  <2>1. LongRuns' = LongRuns  BY <1>3 DEF LongRuns, Runs, Frames
  <2> QED  BY <1>3, <2>1 DEF IInv, Ordered
<1>4. \/ Smear
      \/ AtEnd /\ smeared' = smeared /\ stopFrame' = stopFrame /\ pc' = "scan"
      \/ /\ intervals' = intervals /\ smeared' = smeared /\ stopFrame' = stopFrame
         /\ pc' \in {"first", "skip", "smear"} => pc \in {"first", "skip", "smear"}
  <2>1. CASE Scan  BY <2>1 DEF Scan, AtEnd, signals
  <2>2. CASE FirstPass \/ Skip \/ Tweak
    BY <2>2 DEF FirstPass, Skip, Tweak, signals
  <2>3. CASE ScanDone \/ SearchDelay \/ SearchDone
    BY <2>3 DEF ScanDone, SearchDelay, SearchDone, signals
  <2>4. CASE Rewrite \/ RewriteDone \/ Again \/ AgainDone
    BY <2>4 DEF Rewrite, RewriteDone, Again, AgainDone, signals
  <2>5. CASE Done \/ UNCHANGED vars  BY <2>5 DEF Done, vars, signals
  <2> QED  BY <2>1, <2>2, <2>3, <2>4, <2>5 DEF Next
<1> QED  BY <1>1, <1>2, <1>3, <1>4

\* A turn of the scan that counts nothing passes no end of a run.
LEMMA ScanStep == IInv /\ Scan => Scanned'
<1> SUFFICES ASSUME IInv, Scan PROVE Scanned'  OBVIOUS
<1>1. /\ pc = "scan" /\ pc' = "scan" /\ frame \in 0 .. stopFrame
      /\ start \in Frames \cup {Outside} /\ stopFrame \in Int
      /\ start = Outside => frame - 1 \notin smeared \/ frame \notin smeared
      /\ start # Outside =>
            /\ start < frame /\ start .. frame - 1 \subseteq smeared
            /\ start - 1 \notin smeared
      /\ Counted = {r \in LongRuns : r[2] <= IF start = Outside THEN frame ELSE start}
      /\ smeared' = smeared /\ stopFrame' = stopFrame
  BY DEF IInv, Scan, Scanned, Signals, signals
<1>2. LongRuns' = LongRuns /\ Frames' = Frames
  BY <1>1 DEF LongRuns, Runs, Frames
<1>3. \A r \in LongRuns :
        /\ r = <<r[1], r[2]>> /\ r[1] \in Int /\ r[2] \in Int /\ r[1] + 5 <= r[2]
        /\ r[1] .. r[2] - 1 \subseteq smeared /\ r[1] >= 2
        /\ r[1] - 1 \notin smeared /\ r[2] \notin smeared
  BY RunMembers DEF IInv
<1>4. Outside = -1 /\ Outside' = -1 /\ Frames = 0 .. stopFrame
  BY DEF Outside, Frames
<1>5. CASE frame \notin smeared /\ start = Outside
  <2>1. frame' = frame + 1 /\ start' = start /\ intervals' = intervals
    BY <1>5 DEF Scan
  <2>2. \A r \in LongRuns : r[2] <= frame <=> r[2] <= frame + 1
    BY <1>1, <1>3, <1>5
  <2>3. Counted' = {r \in LongRuns : r[2] <= frame + 1}
    BY <1>1, <1>5, <2>1, <2>2 DEF Counted
  <2> QED  BY <1>1, <1>2, <1>4, <1>5, <2>1, <2>3 DEF Scanned
<1>6. CASE frame \in smeared
  <2>1. /\ frame' = frame + 1 /\ intervals' = intervals
        /\ start' = IF start = Outside THEN frame ELSE start
    BY <1>6 DEF Scan
  <2>2. start' \in Frames /\ start' < frame' /\ start' # Outside
    BY <1>1, <1>4, <2>1
  <2>3. start' .. frame' - 1 \subseteq smeared /\ start' - 1 \notin smeared
    BY <1>1, <1>4, <1>6, <2>1
  <2>4. Counted' = {r \in LongRuns : r[2] <= start'}
    BY <1>1, <1>4, <2>1 DEF Counted
  <2> QED  BY <1>1, <1>2, <1>4, <2>1, <2>2, <2>3, <2>4 DEF Scanned
<1>7. CASE frame \notin smeared /\ start # Outside
  <2>1. frame' = frame /\ start' = Outside
    BY <1>7 DEF Scan
  <2>2. \A r \in LongRuns : r[2] <= frame <=> r[2] <= start \/ r = <<start, frame>>
    <3> SUFFICES ASSUME NEW r \in LongRuns, r[2] <= frame, r[2] > start
                 PROVE  r = <<start, frame>>
      BY <1>1, <1>3, <1>4, <1>7
    <3>1. /\ r[1] \in Int /\ r[2] \in Int /\ r = <<r[1], r[2]>>
          /\ r[1] .. r[2] - 1 \subseteq smeared
          /\ r[1] - 1 \notin smeared /\ r[2] \notin smeared /\ r[1] < r[2]
      BY <1>3
    <3>2. r[2] = frame  BY <1>1, <1>4, <1>7, <3>1
    <3>3. ~ (r[1] < start)
      <4>1. SUFFICES ASSUME r[1] < start PROVE FALSE  OBVIOUS
      <4>2. start - 1 \in r[1] .. r[2] - 1  BY <1>1, <1>4, <1>7, <3>1, <4>1
      <4> QED  BY <1>1, <1>7, <3>1, <4>2
    <3>4. ~ (r[1] > start)
      <4>1. SUFFICES ASSUME r[1] > start PROVE FALSE  OBVIOUS
      <4>2. r[1] - 1 \in start .. frame - 1
        BY <1>1, <1>4, <1>7, <3>1, <3>2, <4>1
      <4> QED  BY <1>1, <1>7, <3>1, <4>2
    <3> QED  BY <1>1, <1>4, <1>7, <3>1, <3>2, <3>3, <3>4
  <2>3. Counted' = {r \in LongRuns : r[2] <= frame}
    <3>1. CASE frame - start >= 5
      <4>1. AtEnd  BY <1>1, <1>7, <3>1 DEF AtEnd, Scan
      <4>2. <<start, frame>> \in LongRuns  BY <4>1, CountsARun
      <4>3. intervals \in Seq(LongRuns) /\ intervals' = Append(intervals, <<start, frame>>)
        BY <4>1 DEF IInv, Ordered, AtEnd
      <4>4. Counted' = Counted \cup {<<start, frame>>}
        BY <4>3 DEF Counted
      <4> QED  BY <1>1, <1>7, <2>2, <4>2, <4>4
    <3>2. CASE ~ (frame - start >= 5)
      <4>1. <<start, frame>> \notin LongRuns  BY <3>2 DEF LongRuns
      <4>2. intervals' = intervals  BY <1>7, <3>2 DEF Scan
      <4> QED  BY <1>1, <1>7, <2>2, <4>1, <4>2 DEF Counted
    <3> QED  BY <3>1, <3>2
  <2> QED  BY <1>1, <1>2, <1>4, <1>7, <2>1, <2>3 DEF Scanned
<1> QED  BY <1>5, <1>6, <1>7

\* Behind the last frame no run is open, and all of them are behind.
LEMMA ScannedStep == IInv /\ [Next]_vars => Scanned'
<1> SUFFICES ASSUME IInv, [Next]_vars PROVE Scanned'  OBVIOUS
<1>1. CASE Scan  BY <1>1, ScanStep
<1>2. CASE Smear
  <2>1. /\ pc' = "scan" /\ frame' = 0 /\ start' = Outside /\ stopFrame' = stopFrame
        /\ intervals' = <<>> /\ smeared' \subseteq 2 .. stopFrame - 3
        /\ stopFrame \in Int /\ stopFrame >= -1
    BY <1>2 DEF IInv, Scanned, Ordered, Signals, Smear, signals
  <2>2. \A r \in LongRuns' : ~ (r[2] <= 0)
    BY <2>1 DEF LongRuns, Runs, Frames
  <2>3. Counted' = {r \in LongRuns' : r[2] <= 0}  BY <2>1, <2>2 DEF Counted
  <2> QED  BY <2>1, <2>3 DEF Scanned, Outside
<1>3. CASE ScanDone
  <2>1. /\ pc' = "search" /\ frame' = frame /\ start' = start /\ intervals' = intervals
        /\ smeared' = smeared /\ stopFrame' = stopFrame /\ frame = stopFrame + 1
        /\ stopFrame \in Int /\ pc = "scan"
    BY <1>3 DEF IInv, Scanned, Signals, ScanDone, signals
  <2>2. LongRuns' = LongRuns /\ Frames' = Frames /\ Counted' = Counted
    BY <2>1 DEF LongRuns, Runs, Frames, Counted
  <2>3. start = Outside
    <3>1. SUFFICES ASSUME start # Outside PROVE FALSE  OBVIOUS
    <3>2. start \in Int /\ start < frame /\ start .. frame - 1 \subseteq smeared
      BY <2>1, <3>1 DEF IInv, Scanned, Frames
    <3>3. stopFrame \in smeared  BY <2>1, <3>2
    <3> QED  BY <2>1, <3>3 DEF IInv, Smeared
  <2>4. \A r \in LongRuns : r[2] <= frame
    BY <2>1, RunMembers DEF IInv
  <2>5. Counted' = LongRuns'  BY <2>1, <2>2, <2>3, <2>4 DEF IInv, Scanned
  <2> QED  BY <2>1, <2>2, <2>3, <2>5 DEF IInv, Scanned
<1>4. CASE /\ frame' = frame /\ start' = start /\ intervals' = intervals
           /\ smeared' = smeared /\ stopFrame' = stopFrame
           /\ pc' \in {"first", "skip", "smear"} => pc \in {"first", "skip", "smear"}
           /\ pc' = "scan" => pc = "scan"
           /\ pc' \in {"search", "rewrite", "again"}
                => pc \in {"search", "rewrite", "again"}
  <2>1. LongRuns' = LongRuns /\ Frames' = Frames /\ Counted' = Counted
    BY <1>4 DEF LongRuns, Runs, Frames, Counted
  <2> QED  BY <1>4, <2>1 DEF IInv, Scanned, Outside
<1>5. \/ Scan \/ Smear \/ ScanDone
      \/ /\ frame' = frame /\ start' = start /\ intervals' = intervals
         /\ smeared' = smeared /\ stopFrame' = stopFrame
         /\ pc' \in {"first", "skip", "smear"} => pc \in {"first", "skip", "smear"}
         /\ pc' = "scan" => pc = "scan"
         /\ pc' \in {"search", "rewrite", "again"}
              => pc \in {"search", "rewrite", "again"}
  <2>1. CASE FirstPass \/ Skip \/ Tweak
    BY <2>1 DEF FirstPass, Skip, Tweak, signals
  <2>2. CASE SearchDelay \/ SearchDone
    BY <2>2 DEF SearchDelay, SearchDone, signals
  <2>3. CASE Rewrite \/ RewriteDone \/ Again \/ AgainDone
    BY <2>3 DEF Rewrite, RewriteDone, Again, AgainDone, signals
  <2>4. CASE Done \/ UNCHANGED vars  BY <2>4 DEF Done, vars, signals
  <2> QED  BY <2>1, <2>2, <2>3, <2>4 DEF Next
<1> QED  BY <1>1, <1>2, <1>3, <1>4, <1>5

LEMMA CountersStep == IInv /\ [Next]_vars => Counters'
<1> SUFFICES ASSUME IInv, [Next]_vars PROVE Counters'  OBVIOUS
<1>1. /\ pc \in Steps /\ k \in 0 .. Len(utts) + Len(intervals) + 1
      /\ pc = "skip" => k \in 2 .. Len(utts) + 1
      /\ pc \in {"rewrite", "again"} => k \in 1 .. Len(intervals) + 1
      /\ Len(utts) \in Nat /\ Len(utts) >= 1 /\ Len(intervals) \in Nat
  BY DEF IInv, Counters, Signals, Ordered
<1>2. CASE FirstPass \/ Skip \/ Tweak
  BY <1>1, <1>2 DEF FirstPass, Skip, Tweak, Counters, Steps, signals
<1>3. CASE Smear \/ ScanDone
  BY <1>1, <1>3 DEF Smear, ScanDone, Counters, Steps, signals
<1>4. CASE Scan
  <2>1. Len(intervals') \in {Len(intervals), Len(intervals) + 1}
    BY <1>4 DEF IInv, Ordered, Scan
  <2> QED  BY <1>1, <1>4, <2>1 DEF Scan, Counters, signals
<1>5. CASE SearchDelay \/ SearchDone
  BY <1>1, <1>5 DEF SearchDelay, SearchDone, Counters, Steps, signals
<1>6. CASE Rewrite \/ RewriteDone \/ Again \/ AgainDone
  BY <1>1, <1>6 DEF Rewrite, RewriteDone, Again, AgainDone, Counters, Steps, signals
<1>7. CASE Done \/ UNCHANGED vars
  BY <1>1, <1>7 DEF Done, vars, Counters, signals, IInv
<1> QED  BY <1>2, <1>3, <1>4, <1>5, <1>6, <1>7 DEF Next

-----------------------------------------------------------------------------
(* The samples. *)

LEMMA SearchedStep == IInv /\ [Next]_vars => Searched'
<1> SUFFICES ASSUME IInv, [Next]_vars PROVE Searched'  OBVIOUS
<1> USE DEF IInv, Searched, signals
<1>1. CASE SearchDelay
  <2>1. PICK d \in Delays \cup {0} : delays' = Append(delays, d)
    BY <1>1 DEF SearchDelay
  <2> QED  BY <1>1, <2>1 DEF SearchDelay
<1>2. CASE SearchDone  BY <1>2 DEF SearchDone
<1>3. CASE FirstPass \/ Skip \/ Tweak  BY <1>3 DEF FirstPass, Skip, Tweak
<1>4. CASE Smear \/ Scan \/ ScanDone  BY <1>4 DEF Smear, Scan, ScanDone
<1>5. CASE Rewrite \/ RewriteDone \/ Again \/ AgainDone
  BY <1>5 DEF Rewrite, RewriteDone, Again, AgainDone
<1>6. CASE Done \/ UNCHANGED vars  BY <1>6 DEF Done, vars
<1> QED  BY <1>1, <1>2, <1>3, <1>4, <1>5, <1>6 DEF Next

\* The delay at a sample is that of some utterance.
LEMMA DelayIsInteger ==
  ASSUME Signals, NEW i \in Int
  PROVE  DelayAt(i) \in Int
<1> DEFINE begun == {u \in DOMAIN utts : utts[u].start <= i}
<1>1. /\ DOMAIN utts = 1 .. Len(utts) /\ Len(utts) \in Nat \ {0}
      /\ \A u \in DOMAIN utts : utts[u].delay \in Int
  <2> DEFINE Utterance == [start : Int, end : Int, delay : Int]
  <2>1. utts \in Seq(Utterance) /\ utts # <<>>  BY DEF Signals
  <2>2. \A v \in Utterance : v.delay \in Int  OBVIOUS
  <2> HIDE DEF Utterance
  <2>3. /\ DOMAIN utts = 1 .. Len(utts) /\ Len(utts) \in Nat /\ Len(utts) # 0
        /\ \A u \in DOMAIN utts : utts[u] \in Utterance
    BY <2>1
  <2> QED  BY <2>2, <2>3
<1>2. CASE begun = {}
  BY <1>1, <1>2 DEF DelayAt
<1>3. CASE begun # {}
  <2>1. begun \in SUBSET (1 .. Len(utts))  BY <1>1
  <2>2. \E u \in begun : \A v \in begun : v <= u
    <3> HIDE DEF begun
    <3> QED  BY <1>1, <1>3, <2>1, LargestExists
  <2>3. (CHOOSE u \in begun : \A v \in begun : v <= u) \in begun
    <3> HIDE DEF begun
    <3> QED  BY <2>2
  <2> QED  BY <1>1, <1>3, <2>3 DEF DelayAt
<1> QED  BY <1>2, <1>3

LEMMA WithinStaysWithin ==
  ASSUME NEW i \in Int, NEW low \in Int, NEW high \in Int, low <= high
  PROVE  Within(i, low, high) \in low .. high
  BY DEF Within, Smaller, Larger

\* A sample that is shifted by the delay of its interval is one of the signal.
LEMMA ShiftedIsInside ==
  ASSUME Searched, NEW n \in DOMAIN delays, NEW i \in Int
  PROVE  Shifted(n, i) \in 0 .. Room - 1
<1>1. MaxSamples \in Nat \ {0} /\ Padding \in Nat /\ Delays \cup {0} \subseteq Int
  BY BadIntervalsAssumption
<1>2. i + delays[n] \in Int  BY <1>1 DEF Searched
<1>3. Shifted(n, i) \in 0 .. MaxSamples - 1
  <2>1. 0 \in Int /\ MaxSamples - 1 \in Int /\ 0 <= MaxSamples - 1  BY <1>1
  <2>2. Within(i + delays[n], 0, MaxSamples - 1) \in 0 .. MaxSamples - 1
    BY <1>2, <2>1, WithinStaysWithin, Zenon
  <2> QED  BY <2>2 DEF Shifted
<1> QED  BY <1>1, <1>3 DEF Room

LEMMA CopiedStep == IInv /\ [Next]_vars => Copied'
<1> SUFFICES ASSUME IInv, [Next]_vars PROVE Copied'  OBVIOUS
<1> USE DEF IInv, Copied, signals
<1>1. CASE Tweak
  <2>1. /\ Search \in Nat /\ Room \in Nat /\ Search <= Room - Search - 1 /\ Room >= 1
    BY BadIntervalsAssumption DEF Room
  <2>2. \A i \in Search .. Room - Search - 1 :
          Within(i + DelayAt(i), Search, Room - Search - 1) \in 0 .. Room - 1
    <3> TAKE i \in Search .. Room - Search - 1
    <3>1. i + DelayAt(i) \in Int  BY <2>1, DelayIsInteger
    <3>2. Within(i + DelayAt(i), Search, Room - Search - 1) \in Search .. Room - Search - 1
      BY <2>1, <3>1, WithinStaysWithin
    <3> QED  BY <2>1, <3>2
  <2>3. tweaked' \in Signal
    BY <1>1, <2>1, <2>2 DEF Tweak, Signal
  <2> QED  BY <1>1, <2>3 DEF Tweak, Signal, Room
<1>2. CASE SearchDone  BY <1>2 DEF SearchDone, Signal, Room
<1>3. CASE Rewrite
  <2>1. k \in DOMAIN delays
    BY <1>3 DEF Rewrite, Counters, Searched, Ordered
  <2>2. \A i \in 0 .. Room - 1 : Shifted(k, i) \in 0 .. Room - 1
    BY <2>1, ShiftedIsInside
  <2>3. data' \in Signal
    BY <1>3, <2>2 DEF Rewrite, Signal
  <2> QED  BY <1>3, <2>3 DEF Rewrite, Signal, Room
<1>4. CASE FirstPass \/ Skip  BY <1>4 DEF FirstPass, Skip, Signal, Room
<1>5. CASE Smear \/ Scan \/ ScanDone  BY <1>5 DEF Smear, Scan, ScanDone, Signal, Room
<1>6. CASE SearchDelay \/ RewriteDone \/ Again \/ AgainDone
  BY <1>6 DEF SearchDelay, RewriteDone, Again, AgainDone, Signal, Room
<1>7. CASE Done \/ UNCHANGED vars  BY <1>7 DEF Done, vars, Signal, Room
<1> QED  BY <1>1, <1>2, <1>3, <1>4, <1>5, <1>6, <1>7 DEF Next

LEMMA ApartRanges ==
  ASSUME NEW a, NEW b \in Int, NEW c \in Int, NEW d, b < c
  PROVE  (a .. b) \cap (c .. d) = {}
  OBVIOUS

\* The samples of an interval, in numbers: they are samples of the signal, they
\* hold those of each of its frames, and lie before those of the next interval.
LEMMA SamplesOfAnInterval ==
  ASSUME IInv, NEW n \in DOMAIN intervals
  PROVE  /\ Samples(n) \subseteq 0 .. Room - 1
         /\ \A f \in Members(n) :
              f * Half + Search .. f * Half + 2 * Half + Search - 1 \subseteq Samples(n)
         /\ \A m \in DOMAIN intervals : m # n => Samples(m) \cap Samples(n) = {}
<1> DEFINE low(m) == intervals[m][1] * Half
           high(m) == intervals[m][2] * Half
<1>1. Half \in Nat \ {0} /\ Search \in Nat /\ Room \in Int
  BY BadIntervalsAssumption DEF Room
<1>2. /\ stopFrame \in Int
      /\ \A m \in DOMAIN intervals :
           /\ intervals[m][1] \in Int /\ intervals[m][2] \in Int
           /\ intervals[m][1] >= 2 /\ intervals[m][1] + 5 <= intervals[m][2]
           /\ intervals[m][2] <= stopFrame - 2
  <2>1. \A m \in DOMAIN intervals : intervals[m] \in LongRuns
    BY DEF IInv, Ordered
  <2> QED  BY <2>1, RunMembers DEF IInv, Signals
<1>3. /\ DOMAIN intervals \subseteq Int
      /\ \A l, m \in DOMAIN intervals : l < m => intervals[m][1] >= intervals[l][2] + 3
  BY DEF IInv, Ordered
<1>4. \A m \in DOMAIN intervals : low(m) \in Int /\ high(m) \in Int /\ 0 <= low(m)
  BY <1>1, <1>2, ProductIsMonotonic
<1>5. \A m \in DOMAIN intervals :
        Samples(m) = low(m) + Search .. high(m) + 2 * Half + Search - 1
  BY DEF Samples
<1>6. Samples(n) \subseteq 0 .. Room - 1
  <2>1. intervals[n][2] + 2 <= stopFrame + 1 /\ intervals[n][2] + 2 \in Int
        /\ stopFrame + 1 \in Int
    BY <1>2
  <2>2. /\ (intervals[n][2] + 2) * Half <= (stopFrame + 1) * Half
        /\ (intervals[n][2] + 2) * Half \in Int /\ (stopFrame + 1) * Half \in Int
    BY <1>1, <2>1, ProductIsMonotonic
  <2>3. (intervals[n][2] + 2) * Half = high(n) + 2 * Half  BY <1>1, <1>2
  <2>4. (stopFrame + 1) * Half + 2 * Search <= Room  BY DEF IInv, Signals
  <2>5. high(n) + 2 * Half + Search <= Room
    <3> HIDE DEF low, high
    <3> QED  BY <1>1, <1>4, <2>2, <2>3, <2>4
  <2> HIDE DEF low, high
  <2> QED  BY <1>1, <1>4, <1>5, <2>5
<1>7. ASSUME NEW f \in Members(n)
      PROVE  f * Half + Search .. f * Half + 2 * Half + Search - 1 \subseteq Samples(n)
  <2>1. f \in Int /\ intervals[n][1] <= f /\ f <= intervals[n][2]
    BY <1>2 DEF Members
  <2>2. f * Half \in Int /\ low(n) <= f * Half /\ f * Half <= high(n)
    BY <1>1, <1>2, <2>1, ProductIsMonotonic
  <2> HIDE DEF low, high
  <2> QED  BY <1>1, <1>4, <1>5, <2>2
<1>8. ASSUME NEW l \in DOMAIN intervals, NEW m \in DOMAIN intervals, l < m
      PROVE  Samples(l) \cap Samples(m) = {}
  <2>1. intervals[l][2] + 3 <= intervals[m][1] /\ intervals[l][2] + 3 \in Int
    BY <1>2, <1>3, <1>8
  <2>2. (intervals[l][2] + 3) * Half <= low(m)
    BY <1>1, <1>2, <2>1, ProductIsMonotonic
  <2>3. (intervals[l][2] + 3) * Half = high(l) + 3 * Half  BY <1>1, <1>2
  <2>4. high(l) + 3 * Half <= low(m)  BY <2>2, <2>3
  <2> DEFINE b == high(l) + 2 * Half + Search - 1
             c == low(m) + Search
  <2>5. b \in Int /\ c \in Int /\ b < c
    <3>1. high(l) \in Int /\ low(m) \in Int  BY <1>4
    <3> HIDE DEF low, high
    <3> QED  BY <1>1, <2>4, <3>1
  <2>6. Samples(l) = low(l) + Search .. b /\ Samples(m) = c .. high(m) + 2 * Half + Search - 1
    BY <1>5
  <2> HIDE DEF b, c
  <2> QED  BY <2>5, <2>6, ApartRanges
<1>9. ASSUME NEW m \in DOMAIN intervals, m # n PROVE Samples(m) \cap Samples(n) = {}
  <2>1. m < n \/ n < m  BY <1>3, <1>9
  <2> QED  BY <1>8, <2>1
<1> QED  BY <1>6, <1>7, <1>9

\* Writing the samples of one interval leaves those of the others alone.
LEMMA RewrittenStep == IInv /\ [Next]_vars => Rewritten'
<1> SUFFICES ASSUME IInv, [Next]_vars PROVE Rewritten'  OBVIOUS
<1>1. CASE Rewrite
  <2>1. /\ k \in DOMAIN intervals /\ k \in Int /\ data \in Signal
        /\ DOMAIN intervals = 1 .. Len(intervals) /\ Len(intervals) \in Nat
        /\ \A n \in 1 .. k - 1 : Own(n) /\ n \in DOMAIN intervals
    BY <1>1 DEF IInv, Rewrite, Counters, Ordered, Copied, Rewritten
  <2>2. /\ data' = [i \in 0 .. Room - 1 |->
                      IF i \in Samples(k) THEN tweaked[Shifted(k, i)] ELSE data[i]]
        /\ k' = k + 1 /\ pc' = "rewrite" /\ intervals' = intervals
        /\ tweaked' = tweaked /\ delays' = delays
    BY <1>1 DEF Rewrite
  <2>3. ASSUME NEW n \in 1 .. k' - 1 PROVE Own(n)'
    <3>1. n \in DOMAIN intervals  BY <2>1, <2>2
    <3>2. Samples(n) \subseteq 0 .. Room - 1  BY <3>1, SamplesOfAnInterval
    <3>3. \A i \in Samples(n) : data'[i] = tweaked[Shifted(n, i)]
      <4>1. CASE n = k  BY <2>2, <3>2, <4>1
      <4>2. CASE n # k
        <5>1. Own(n)  BY <2>1, <2>2, <4>2
        <5>2. Samples(n) \cap Samples(k) = {}
          BY <2>1, <3>1, <4>2, SamplesOfAnInterval
        <5> QED  BY <2>2, <3>2, <5>1, <5>2 DEF Own
      <4> QED  BY <4>1, <4>2
    <3> QED  BY <2>2, <3>3 DEF Own, Samples, Shifted
  <2> QED  BY <2>2, <2>3 DEF Rewritten
<1>2. CASE RewriteDone
  <2>1. /\ pc = "rewrite" /\ pc' = "again" /\ k > Len(intervals) /\ k \in Int
        /\ DOMAIN intervals = 1 .. Len(intervals) /\ Len(intervals) \in Nat
    BY <1>2 DEF IInv, RewriteDone, Counters, Ordered
  <2>2. \A n \in DOMAIN intervals : Own(n)
    BY <2>1 DEF IInv, Rewritten
  <2> QED
    BY <1>2, <2>1, <2>2 DEF RewriteDone, Rewritten, Own, Samples, Shifted
<1>3. CASE SearchDone
  BY <1>3 DEF SearchDone, Rewritten
<1>4. CASE Again \/ AgainDone
  BY <1>4 DEF Again, AgainDone, IInv, Rewritten, Own, Samples, Shifted
<1>5. CASE FirstPass \/ Skip \/ Tweak
  BY <1>5 DEF FirstPass, Skip, Tweak, Rewritten
<1>6. CASE Smear \/ Scan \/ ScanDone \/ SearchDelay
  BY <1>6 DEF Smear, Scan, ScanDone, SearchDelay, Rewritten
<1>7. CASE Done \/ UNCHANGED vars
  BY <1>7 DEF Done, vars, IInv, Rewritten, Own, Samples, Shifted
<1> QED  BY <1>1, <1>2, <1>3, <1>4, <1>5, <1>6, <1>7 DEF Next

LEMMA IInvAlways == Spec => []IInv
<1>1. IInv /\ [Next]_vars => IInv'
  BY DisturbedStep, SmearedStep, OrderedStep, ScannedStep, CountersStep, SearchedStep,
     CopiedStep, RewrittenStep, SignalsStep DEF IInv
<1> QED  BY <1>1, IInvInitially, PTL DEF Spec

-----------------------------------------------------------------------------
(* The theorems. *)

\* Every variable has its type; no frame, sample of the degraded signal or
\* sample of an interval is outside the array it is an index of, whatever the
\* utterances and their delays are (pesqmod.c:1061-1290).
THEOREM TypeCorrect == Spec => []TypeOK
<1>1. IInv => TypeOK
  <2> SUFFICES ASSUME IInv PROVE TypeOK  OBVIOUS
  <2>1. /\ pc \in Steps /\ anyBad \in BOOLEAN
        /\ k \in 0 .. Len(utts) + Len(intervals) + 2
    BY DEF IInv, Counters, Disturbed, Signals, Ordered
  <2>2. pc # "first" => level \in [Frames -> {None, Small, Large}]
    BY DEF IInv, Disturbed
  <2>3. skipped \cup smeared \subseteq Frames \ {stopFrame}
    BY DEF IInv, Disturbed, Smeared, Signals, Frames
  <2>4. /\ \A i \in DOMAIN tweaked : tweaked[i] \in 0 .. Room - 1
        /\ \A i \in DOMAIN data : data[i] \in 0 .. Room - 1
    <3>1. ASSUME NEW a, a = <<>> \/ a \in Signal
          PROVE  \A i \in DOMAIN a : a[i] \in 0 .. Room - 1
      <4>1. CASE a = <<>>  BY <4>1
      <4>2. CASE a \in Signal  BY <4>2 DEF Signal
      <4> QED  BY <3>1, <4>1, <4>2
    <3> QED  BY <3>1 DEF IInv, Copied
  <2>5. frame \in 0 .. stopFrame + 1 /\ start \in Frames \cup {Outside}
    BY DEF IInv, Scanned
  <2>6. ASSUME NEW n \in DOMAIN intervals
        PROVE  /\ intervals[n] \in Frames \X Frames
               /\ Samples(n) \subseteq 0 .. Room - 1
    <3>1. intervals[n] \in LongRuns  BY DEF IInv, Ordered
    <3>2. intervals[n] \in Frames \X Frames
      BY <3>1, RunMembers DEF IInv, Frames, Signals
    <3> QED  BY <3>2, SamplesOfAnInterval
  <2>7. \A n \in DOMAIN delays : delays[n] \in Delays \cup {0}
    BY DEF IInv, Searched
  <2> QED  BY <2>1, <2>2, <2>3, <2>4, <2>5, <2>6, <2>7 DEF TypeOK
<1> QED  BY <1>1, IInvAlways, PTL

\* The intervals are the runs of five smeared frames and more, all of them, in
\* order and three frames apart (pesqmod.c:1130-1182).
THEOREM IntervalsCorrect == Spec => []IntervalsAreRuns
<1>1. IInv => IntervalsAreRuns
  <2> SUFFICES ASSUME IInv, pc \in {"search", "rewrite", "again"}
               PROVE  /\ {intervals[n] : n \in DOMAIN intervals}
                           = {r \in Runs : r[2] - r[1] >= 5}
                      /\ \A n \in 1 .. Len(intervals) - 1 :
                           intervals[n + 1][1] >= intervals[n][2] + 3
    BY DEF IntervalsAreRuns
  <2>1. {intervals[n] : n \in DOMAIN intervals} = {r \in Runs : r[2] - r[1] >= 5}
    BY DEF IInv, Scanned, Counted, LongRuns
  <2>2. \A n \in 1 .. Len(intervals) - 1 :
          n \in DOMAIN intervals /\ n + 1 \in DOMAIN intervals /\ n < n + 1
    BY DEF IInv, Ordered
  <2> QED  BY <2>1, <2>2 DEF IInv, Ordered
<1> QED  BY <1>1, IInvAlways, PTL

\* What a bad frame is computed from again was shifted by the delay of its own
\* interval, up to the last sample (pesqmod.c:1184-1293).
THEOREM OwnDelayCorrect == Spec => []OwnDelay
<1>1. IInv => OwnDelay
  <2> SUFFICES ASSUME IInv, pc = "again", NEW n \in DOMAIN intervals,
                      NEW f \in Members(n),
                      NEW i \in f * Half + Search .. f * Half + 2 * Half + Search - 1
               PROVE  data[i] = tweaked[Shifted(n, i)]
    BY DEF OwnDelay
  <2>1. i \in Samples(n)  BY SamplesOfAnInterval
  <2> QED  BY <2>1 DEF IInv, Rewritten, Own
<1> QED  BY <1>1, IInvAlways, PTL

\* No step makes a frame worse, or touches one that was neither skipped nor bad
\* (pesqmod.c:1061-1087, 1345-1350).
THEOREM NeverWorseCorrect == Spec => NeverWorse
<1>1. IInv /\ IInv' /\ [Next]_vars => [OnlyImproves]_vars
  <2> SUFFICES ASSUME IInv, IInv', [Next]_vars, pc # "first", NEW f \in Frames
               PROVE  /\ level'[f] <= level[f]
                      /\ level'[f] # level[f] =>
                           f \in skipped' \/ \E n \in DOMAIN intervals : f \in Members(n)
                      /\ f \in skipped' => level'[f] = None
    BY DEF OnlyImproves
  <2>1. level[f] \in {None, Small, Large} /\ (f \in skipped => level[f] = None)
    BY DEF IInv, Disturbed
  <2>2. CASE Skip
    <3>1. /\ level'[f] = IF f \in SkipRange(k) THEN None ELSE level[f]
          /\ skipped' = skipped \cup SkipRange(k)
      BY <2>2 DEF Skip
    <3> QED  BY <2>1, <3>1 DEF None, Small, Large
  <2>3. CASE Again
    <3>1. PICK new \in {Small, Large} :
            level' = [g \in Frames |-> IF g \in Members(k) THEN Smaller(level[g], new)
                                       ELSE level[g]]
      BY <2>3 DEF Again
    <3>2. level'[f] = IF f \in Members(k) THEN Smaller(level[f], new) ELSE level[f]
      BY <3>1
    <3>3. k \in DOMAIN intervals /\ skipped' = skipped
      BY <2>3 DEF Again, IInv, Counters, Ordered
    <3> QED  BY <2>1, <3>2, <3>3 DEF Smaller, None, Small, Large
  <2>4. CASE level' = level /\ skipped' = skipped
    BY <2>1, <2>4 DEF None, Small, Large
  <2>5. Skip \/ Again \/ (level' = level /\ skipped' = skipped)
    BY DEF Next, vars, FirstPass, Tweak, Smear, Scan, ScanDone, SearchDelay, SearchDone,
           Rewrite, RewriteDone, AgainDone, Done
  <2> QED  BY <2>2, <2>3, <2>4, <2>5
<1> QED  BY <1>1, IInvAlways, PTL DEF Spec, NeverWorse
=============================================================================
