----------------------------- MODULE SplitAlign ------------------------------
(***************************************************************************)
(* split_align of PESQ-MOS/pesqdsp.c: looks for a break point in a long    *)
(* utterance such that one delay in front of it and another one behind it  *)
(* fit better than the delay of the whole.                                 *)
(*                                                                         *)
(* For every break point crude_align estimates the two delays.  Then the   *)
(* first part is compared frame by frame, from the start of the utterance  *)
(* up to the break point, and a histogram H sums up what the frames say.   *)
(* When a later break point has the same estimate, its sum is not started  *)
(* again: the frames between the two are added to it.  The second part is  *)
(* done alike, from the end of the utterance and from the last break point *)
(* down, for those whose first part was convincing.                        *)
(*                                                                         *)
(* H is the frames it sums up, one after the other; what it says, a lag    *)
(* and how sure it is of it, is any value if there is a frame.             *)
(* Confidences are compared and added only: small numbers stand for them.  *)
(***************************************************************************)
EXTENDS SplitAnswers, FiniteSets, Sequences

CONSTANTS
  MaxBPs,       \* 40
  Utts,         \* bound: utterances, [start, speechStart, speechEnd, end]
  DegSamples,   \* bound: samples of the degraded signal
  Estimates,    \* bound: what crude_align may estimate
  FineLags,     \* bound: what a histogram may add to it
  MaxConf,      \* bound: levels of confidence
  Confs,        \* bound: how sure time_align was of the whole
  Undefined     \* a variable nothing was assigned to

ASSUME SplitAssumption ==
  /\ {Downsample, Align_Nfft, MaxBPs} \subseteq Nat \ {0}
  /\ Align_Nfft % (4 * Downsample) = 0
  /\ Pad \in Nat /\ MaxConf \in Nat /\ DegSamples \subseteq Nat
  /\ Confs \subseteq 0 .. MaxConf
  /\ Utts \subseteq [start : Int, speechStart : Int, speechEnd : Int, end : Int]
  /\ \A u \in Utts : Splittable(u)
  /\ Estimates \subseteq Int /\ FineLags \subseteq Fine
  /\ Undefined \notin Int

VARIABLES
  utt, degraded, conf,  \* the utterance, deg_info->Nsamples, Utt_DelayConf
  pc, bp,               \* which loop, and the break point it is at
  bps,                  \* Utt_BPs, of N_BPs break points
  ed1, ed2,             \* Utt_ED1, Utt_ED2
  d1, d2, dc1, dc2,     \* Utt_D1, Utt_D2, Utt_DC1, Utt_DC2
  from, startr, h,      \* estdelay, startr and the frames H sums up
  sum1, sum2,           \* history: the frames a break point's values rest on
  best                  \* what is answered

inputs == <<utt, degraded, conf, bps>>
first  == <<d1, dc1, sum1>>
second == <<d2, dc2, sum2>>
sums   == <<from, startr, h>>
vars   == <<inputs, pc, bp, ed1, ed2, first, second, sums, best>>

-----------------------------------------------------------------------------
(* The break points. *)

Delta == Align_Nfft \div (4 * Downsample)

\* 0.801 of the speech in MaxBPs steps, in multiples of Delta.
StepSize(length) ==
  Delta * ((801 * length + 1000 * (MaxBPs * Delta - 1))
             \div (1000 * MaxBPs * Delta))

\* A slip, for a mutant: the point that ended the loop is counted.
BreakPointsOver(u) ==
  LET length == u.speechEnd - u.speechStart
      pad    == Greater(length \div 10, Pad)
      at(i)  == u.speechStart + pad + i * StepSize(length)
      n      == Cardinality({i \in 0 .. MaxBPs - 1 : at(i) <= u.speechEnd - pad})
  IN [i \in 0 .. n |-> at(i)]

\* From behind the first pad to the front of the last one, but never more than
\* MaxBPs, and always one.
BreakPoints(u) ==
  LET length == u.speechEnd - u.speechStart
      pad    == Greater(length \div 10, Pad)
      at(i)  == u.speechStart + pad + i * StepSize(length)
      n      == Cardinality({i \in 0 .. MaxBPs - 1 :
                               i = 0 \/ at(i) <= u.speechEnd - pad})
  IN [i \in 0 .. n - 1 |-> at(i)]

BP    == DOMAIN bps
N_BPs == Cardinality(BP)

Unset == -2
\* The confidences of a break point: Unset, or a level.
Confidence == {Unset} \cup 0 .. MaxConf

NoAnswer == [ed1 |-> Undefined, d1 |-> Undefined, dc1 |-> 0,
             ed2 |-> Undefined, d2 |-> Undefined, dc2 |-> 0, bp |-> Undefined]

Init ==
  /\ utt \in Utts /\ degraded \in DegSamples /\ conf \in Confs
  /\ bps = BreakPoints(utt)
  /\ pc = "estimate" /\ bp = 0
  /\ ed1 = [i \in BP |-> Undefined] /\ ed2 = [i \in BP |-> Undefined]
  /\ d1 = [i \in BP |-> Undefined] /\ d2 = [i \in BP |-> Undefined]
  /\ dc1 = [i \in BP |-> Unset] /\ dc2 = [i \in BP |-> Undefined]
  /\ sum1 = [i \in BP |-> <<>>] /\ sum2 = [i \in BP |-> <<>>]
  /\ from = Undefined /\ startr = 0 /\ h = <<>>
  /\ best = NoAnswer

\* crude_align, on what is in front of the break point and on what follows.
Estimate ==
  /\ pc = "estimate"
  /\ \E e1, e2 \in Estimates :
       /\ ed1' = [ed1 EXCEPT ![bp] = e1]
       /\ ed2' = [ed2 EXCEPT ![bp] = e2]
  /\ bp' = IF bp + 1 \in BP THEN bp + 1 ELSE 0
  /\ pc' = IF bp + 1 \in BP THEN "estimate" ELSE "first"
  /\ UNCHANGED <<inputs, first, second, sums, best>>

-----------------------------------------------------------------------------
(* The first parts, upwards. *)

Hop == Align_Nfft \div 4

\* The frames from r on that end in front of break point i and of the end of
\* the degraded signal.
Ahead(r, e, i) ==
  LET last == Lesser(bps[i] * Downsample, degraded - e) - Align_Nfft
  IN [k \in 1 .. Greater(0, (last - r) \div Hop + 1) |-> r + (k - 1) * Hop]

\* A lag and a confidence; without a frame there is nothing to add.
Says(frames, e, d, c) ==
  \/ d = e /\ c = 0
  \/ frames /= <<>> /\ c \in 1 .. MaxConf /\ \E lag \in FineLags : d = e + lag

NoteFirst(i, e, frames) ==
  /\ \E c \in 0 .. MaxConf, lag \in FineLags \cup {0} :
       /\ Says(frames, e, e + lag, c)
       /\ d1' = [d1 EXCEPT ![i] = e + lag]
       /\ dc1' = [dc1 EXCEPT ![i] = c]
  /\ sum1' = [sum1 EXCEPT ![i] = frames]
  /\ h' = frames

\* The frames are added, and startr is left behind the last one.
AddFirst(i, e, r, frames) ==
  LET new == Ahead(r, e, i)
  IN /\ NoteFirst(i, e, frames \o new)
     /\ startr' = r + Len(new) * Hop

StartOfFirst(e) == Greater(utt.start * Downsample, -e)

\* A slip, for a mutant: what found nothing counts as not looked at.
Waiting1Again == {i \in BP : dc1[i] <= 0}

Waiting1 == {i \in BP : dc1[i] = Unset}

\* The lowest break point that was not looked at.
FirstFresh ==
  /\ pc = "first" /\ Waiting1 /= {}
  /\ LET i == CHOOSE i \in Waiting1 : \A j \in Waiting1 : i <= j
     IN /\ bp' = i
        /\ from' = ed1[i]
        /\ AddFirst(i, ed1[i], StartOfFirst(ed1[i]), <<>>)
  /\ pc' = "firstnext"
  /\ UNCHANGED <<inputs, ed1, ed2, second, best>>

\* A slip, for a mutant: the estimates are not compared.
FirstNextAny ==
  /\ pc = "firstnext" /\ bp < N_BPs - 1
  /\ bp' = bp + 1
  /\ IF dc1[bp + 1] = Unset
       THEN AddFirst(bp + 1, from, startr, h)
       ELSE UNCHANGED <<first, startr, h>>
  /\ UNCHANGED <<inputs, pc, ed1, ed2, from, second, best>>

\* The ones above it that share its estimate.
FirstNext ==
  /\ pc = "firstnext" /\ bp < N_BPs - 1
  /\ bp' = bp + 1
  /\ IF ed1[bp + 1] = from /\ dc1[bp + 1] = Unset
       THEN AddFirst(bp + 1, from, startr, h)
       ELSE UNCHANGED <<first, startr, h>>
  /\ UNCHANGED <<inputs, pc, ed1, ed2, from, second, best>>

FirstRound ==
  /\ pc = "firstnext" /\ bp = N_BPs - 1
  /\ pc' = "first"
  /\ UNCHANGED <<inputs, bp, ed1, ed2, first, second, sums, best>>

\* Only a convincing first part is worth a second.
Convinced ==
  /\ pc = "first" /\ Waiting1 = {}
  /\ dc2' = [i \in BP |-> IF dc1[i] > conf THEN Unset ELSE 0]
  /\ pc' = "second"
  /\ UNCHANGED <<inputs, bp, ed1, ed2, first, d2, sum2, sums, best>>

-----------------------------------------------------------------------------
(* The second parts, downwards. *)

\* The frames from r down that begin behind break point i and in the degraded
\* signal.
Behind(r, e, i) ==
  LET lowest == Greater(bps[i] * Downsample, -e)
  IN [k \in 1 .. Greater(0, (r - lowest) \div Hop + 1) |-> r - (k - 1) * Hop]

\* A slip, for a mutant: without a frame the confidence is not assigned.
NoteSecondIfAny(i, e, frames) ==
  /\ \E c \in 0 .. MaxConf, lag \in FineLags \cup {0} :
       /\ Says(frames, e, e + lag, c)
       /\ d2' = [d2 EXCEPT ![i] = e + lag]
       /\ dc2' = IF frames = <<>> THEN dc2 ELSE [dc2 EXCEPT ![i] = c]
  /\ sum2' = [sum2 EXCEPT ![i] = frames]
  /\ h' = frames

NoteSecond(i, e, frames) ==
  /\ \E c \in 0 .. MaxConf, lag \in FineLags \cup {0} :
       /\ Says(frames, e, e + lag, c)
       /\ d2' = [d2 EXCEPT ![i] = e + lag]
       /\ dc2' = [dc2 EXCEPT ![i] = c]
  /\ sum2' = [sum2 EXCEPT ![i] = frames]
  /\ h' = frames

AddSecond(i, e, r, frames) ==
  LET new == Behind(r, e, i)
  IN /\ NoteSecond(i, e, frames \o new)
     /\ startr' = r - Len(new) * Hop

StartOfSecond(e) ==
  Lesser(utt.end * Downsample, degraded - e) - Align_Nfft

Waiting2 == {i \in BP : dc2[i] = Unset}

SecondFresh ==
  /\ pc = "second" /\ Waiting2 /= {}
  /\ LET i == CHOOSE i \in Waiting2 : \A j \in Waiting2 : i >= j
     IN /\ bp' = i
        /\ from' = ed2[i]
        /\ AddSecond(i, ed2[i], StartOfSecond(ed2[i]), <<>>)
  /\ pc' = "secondnext"
  /\ UNCHANGED <<inputs, ed1, ed2, first, best>>

SecondNext ==
  /\ pc = "secondnext" /\ bp > 0
  /\ bp' = bp - 1
  /\ IF ed2[bp - 1] = from /\ dc2[bp - 1] = Unset
       THEN AddSecond(bp - 1, from, startr, h)
       ELSE UNCHANGED <<second, startr, h>>
  /\ UNCHANGED <<inputs, pc, ed1, ed2, from, first, best>>

SecondRound ==
  /\ pc = "secondnext" /\ bp = 0
  /\ pc' = "second"
  /\ UNCHANGED <<inputs, bp, ed1, ed2, first, second, sums, best>>

SecondDone ==
  /\ pc = "second" /\ Waiting2 = {}
  /\ pc' = "choose" /\ bp' = 0
  /\ UNCHANGED <<inputs, ed1, ed2, first, second, sums, best>>

-----------------------------------------------------------------------------
(* The choice. *)

Sum(a) == a.dc1 + a.dc2

Answer(i) == [ed1 |-> ed1[i], d1 |-> d1[i], dc1 |-> dc1[i],
              ed2 |-> ed2[i], d2 |-> d2[i], dc2 |-> dc2[i], bp |-> bps[i]]

\* The difference to a delay that was never assigned may be anything.
Apart(a) ==
  IF a.d2 = Undefined THEN BOOLEAN
  ELSE {a.d2 - a.d1 >= Downsample \/ a.d1 - a.d2 >= Downsample}

\* A slip, for a mutant: the second part is not asked.
TrustedFirst(a) == a.dc1 > conf

Trusted(a) == a.dc1 > conf /\ a.dc2 > conf

Choose ==
  /\ pc = "choose"
  /\ \E apart \in Apart(Answer(bp)) :
       best' = IF apart /\ Sum(Answer(bp)) > Sum(best) /\ Trusted(Answer(bp))
                 THEN Answer(bp) ELSE best
  /\ bp' = IF bp + 1 \in BP THEN bp + 1 ELSE bp
  /\ pc' = IF bp + 1 \in BP THEN "choose" ELSE "done"
  /\ UNCHANGED <<inputs, ed1, ed2, first, second, sums>>

Done == pc = "done" /\ UNCHANGED vars

Step == Estimate \/ FirstFresh \/ FirstNext \/ FirstRound \/ Convinced
          \/ SecondFresh \/ SecondNext \/ SecondRound \/ SecondDone \/ Choose

Next == Step \/ Done

\* A single thread that is never suspended for ever.
Spec == Init /\ [][Next]_vars /\ WF_vars(Step)

-----------------------------------------------------------------------------
\* Every variable keeps its type, the indices stay in the arrays, and a break
\* point leaves room on both sides of it.
TypeOK ==
  /\ utt \in Utts /\ degraded \in DegSamples /\ conf \in Confs
  /\ pc \in {"estimate", "first", "firstnext", "second", "secondnext", "choose",
             "done"}
  /\ bp \in BP /\ N_BPs \in 1 .. MaxBPs
  /\ \A i \in BP : bps[i] \in utt.speechStart + Pad .. utt.speechEnd - Pad
  /\ \A f \in {ed1, ed2, d1, d2} :
       DOMAIN f = BP /\ \A i \in BP : f[i] = Undefined \/ f[i] \in Int
  /\ dc1 \in [BP -> Confidence]
  /\ DOMAIN dc2 = BP /\ \A i \in BP : dc2[i] = Undefined \/ dc2[i] \in Confidence
  /\ startr \in Int

\* A sum that is carried from one break point to the next is the one a search
\* for that break point alone would make, whichever order the estimates are in.
SumsAreOwn ==
  \A i \in BP :
    /\ dc1[i] /= Unset =>
         sum1[i] = Ahead(StartOfFirst(ed1[i]), ed1[i], i)
    /\ d2[i] /= Undefined =>
         sum2[i] = Behind(StartOfSecond(ed2[i]), ed2[i], i)

\* No break point is looked at twice, or changed by what is found for another.
EvaluatedOnce ==
  [][\A i \in BP :
       /\ dc1[i] /= Unset => <<d1[i], dc1[i]>>' = <<d1[i], dc1[i]>>
       /\ d2[i] /= Undefined => <<d2[i], dc2[i]>>' = <<d2[i], dc2[i]>>]_vars

Candidate(i) ==
  /\ dc1[i] > conf /\ dc2[i] > conf
  /\ d2[i] - d1[i] >= Downsample \/ d1[i] - d2[i] >= Downsample

\* The answer is one break point's, the first of the best of those that are
\* trusted, and all of it was computed: whatever an unassigned delay holds, it
\* is not looked at.  The caller, which looks at the confidences, uses the rest
\* only when there is an answer.
AnswerIsTheBest ==
  pc = "done" =>
    LET trusted == {i \in BP : dc1[i] > conf /\ dc2[i] > conf}
        able    == {i \in trusted : Candidate(i)}
    IN /\ \A i \in trusted : d1[i] /= Undefined /\ d2[i] /= Undefined
       /\ IF able = {} THEN best = NoAnswer
          ELSE \E i \in able :
                 /\ best = Answer(i)
                 /\ \A j \in able : /\ Sum(Answer(j)) <= Sum(best)
                                    /\ j < i => Sum(Answer(j)) < Sum(best)
       /\ Trusted(best) <=> able /= {}

\* What utterance_split relies upon.
Call == INSTANCE SplitCall
          WITH answers <- IF pc = "done" THEN {best} ELSE {}

\* An answer that is trusted splits the utterance inside its speech, at delays a
\* window apart, and either delay lies within half a frame of what crude_align
\* estimated for that break point, found in frames on its side of it: no sum
\* that was carried on brings the delay of another break point along.
KeepsContract == Call!Spec

\* The two loops that go on until no break point is left do end.
Terminates == <>(pc = "done")
=============================================================================
