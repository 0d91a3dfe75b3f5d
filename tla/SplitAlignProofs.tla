--------------------------- MODULE SplitAlignProofs ---------------------------
(***************************************************************************)
(* The safety properties of SplitAlign for every utterance, number of      *)
(* break points, frame length and set of estimates.                        *)
(*                                                                         *)
(* The argument for the sums: the frames in front of a break point are a   *)
(* beginning of the frames in front of a later one with the same estimate, *)
(* and startr is where the rest begins (AheadGoesOn); so what the loop     *)
(* carries on from one break point to the next is always all the frames of *)
(* some break point it has passed (Carried).                               *)
(***************************************************************************)
EXTENDS SplitAlign, FiniteSetTheorems, SequenceTheorems, WellFoundedInduction,
        TLAPS

-----------------------------------------------------------------------------
(* Numbers. *)

LEMMA ProductKeepsOrder ==
  ASSUME NEW a \in Int, NEW b \in Int, a <= b, NEW c \in Nat
  PROVE  a * c \in Int /\ b * c \in Int /\ a * c <= b * c
  BY SMT

\* The only quotient.
LEMMA QuotientIs ==
  ASSUME NEW a \in Int, NEW q \in Int, NEW s \in Nat \ {0},
         q * s <= a, a < q * s + s
  PROVE  a \div s = q
<1> DEFINE d == a \div s
<1>1. d \in Int /\ d * s <= a /\ a < d * s + s
  BY SMT
<1> HIDE DEF d
<1>2. ~(d < q)
  <2> SUFFICES ASSUME d + 1 <= q PROVE FALSE  BY <1>1
  <2>1. (d + 1) * s <= q * s  BY <1>1, ProductKeepsOrder
  <2>2. (d + 1) * s = d * s + s  BY <1>1
  <2> QED  BY <1>1, <2>1, <2>2
<1>3. ~(d > q)
  <2> SUFFICES ASSUME q + 1 <= d PROVE FALSE  BY <1>1
  <2>1. (q + 1) * s <= d * s  BY <1>1, ProductKeepsOrder
  <2>2. (q + 1) * s = q * s + s  OBVIOUS
  <2> QED  BY <1>1, <2>1, <2>2
<1> QED  BY <1>1, <1>2, <1>3 DEF d

LEMMA QuotientRange ==
  ASSUME NEW a \in Int, NEW s \in Nat \ {0}
  PROVE  a \div s \in Int /\ (a \div s) * s <= a /\ a < (a \div s) * s + s
  BY SMT

LEMMA QuotientKeepsOrder ==
  ASSUME NEW a \in Int, NEW b \in Int, a <= b, NEW s \in Nat \ {0}
  PROVE  a \div s <= b \div s
<1> DEFINE d == a \div s  e == b \div s
<1>1. d \in Int /\ d * s <= a /\ e \in Int /\ b < e * s + s
  BY QuotientRange
<1> HIDE DEF d, e
<1>2. ~(e + 1 <= d)
  <2> SUFFICES ASSUME e + 1 <= d PROVE FALSE  OBVIOUS
  <2>1. (e + 1) * s <= d * s  BY <1>1, ProductKeepsOrder
  <2>2. (e + 1) * s = e * s + s  BY <1>1
  <2>3. e * s \in Int /\ d * s \in Int  BY <1>1
  <2> QED  BY <1>1, <2>1, <2>2, <2>3
<1> QED  BY <1>1, <1>2 DEF d, e

LEMMA QuotientShifts ==
  ASSUME NEW a \in Int, NEW m \in Int, NEW s \in Nat \ {0}
  PROVE  (a - m * s) \div s = (a \div s) - m
<1> DEFINE d == a \div s  q == d - m
<1>1. d \in Int /\ d * s <= a /\ a < d * s + s
  BY QuotientRange
<1> HIDE DEF d
<1>2. q \in Int /\ q * s = d * s - m * s /\ m * s \in Int /\ d * s \in Int
  BY <1>1
<1>3. q * s <= a - m * s /\ a - m * s < q * s + s /\ a - m * s \in Int
  BY <1>1, <1>2
<1> QED  BY <1>2, <1>3, QuotientIs DEF d

LEMMA SmallestExists ==
  ASSUME NEW S \in SUBSET Nat, S # {}
  PROVE  \E n \in S : \A i \in S : n <= i
<1> DEFINE R == {ss \in Nat \X Nat : ss[1] < ss[2]}
<1>1. \E n \in S : \A i \in S : <<i, n>> \notin R
  <2>1. IsWellFoundedOn(R, Nat)
    BY NatLessThanWellFounded DEF OpToRel
  <2> HIDE DEF R
  <2> QED  BY <2>1, WFMin
<1>2. PICK n \in S : \A i \in S : <<i, n>> \notin R  BY <1>1
<1>3. ASSUME NEW i \in S PROVE n <= i
  <2>1. i \in Nat /\ n \in Nat /\ <<i, n>> \notin R  BY <1>2
  <2> QED  BY <2>1
<1> QED  BY <1>3

-----------------------------------------------------------------------------
(* Frames, one hop after the other, upwards or downwards. *)

Walk(r, s, n) == [k \in 1 .. n |-> r + (k - 1) * s]

LEMMA WalkIsSeq ==
  ASSUME NEW r \in Int, NEW s \in Int, NEW n \in Nat
  PROVE  Walk(r, s, n) \in Seq(Int) /\ Len(Walk(r, s, n)) = n
<1>1. \A k \in 1 .. n : r + (k - 1) * s \in Int
  OBVIOUS
<1>2. Walk(r, s, n) \in [1 .. n -> Int]
  BY <1>1 DEF Walk
<1> QED  BY <1>2, SeqDef, LenProperties

LEMMA WalkGoesOn ==
  ASSUME NEW r \in Int, NEW s \in Int, NEW n \in Nat, NEW m \in Nat
  PROVE  Walk(r, s, n) \o Walk(r + n * s, s, m) = Walk(r, s, n + m)
<1> DEFINE f == Walk(r, s, n)  g == Walk(r + n * s, s, m)  w == Walk(r, s, n + m)
<1>1. f \in Seq(Int) /\ Len(f) = n  BY WalkIsSeq
<1>2. r + n * s \in Int  OBVIOUS
<1>3. g \in Seq(Int) /\ Len(g) = m  BY <1>2, WalkIsSeq
<1>4. w \in Seq(Int) /\ Len(w) = n + m  BY WalkIsSeq
<1>5. /\ f \o g \in Seq(Int) /\ Len(f \o g) = n + m
      /\ \A i \in 1 .. n + m :
           (f \o g)[i] = IF i <= n THEN f[i] ELSE g[i - n]
  <2> HIDE DEF f, g
  <2> QED  BY <1>1, <1>3, ConcatProperties
<1>6. ASSUME NEW i \in 1 .. n + m PROVE (f \o g)[i] = w[i]
  <2>1. w[i] = r + (i - 1) * s  BY DEF Walk
  <2>2. CASE i <= n
    <3>1. f[i] = r + (i - 1) * s  BY <2>2 DEF Walk
    <3> HIDE DEF f, g, w
    <3> QED  BY <1>5, <2>1, <2>2, <3>1
  <2>3. CASE ~(i <= n)
    <3>1. g[i - n] = r + n * s + (i - n - 1) * s  BY <2>3 DEF Walk
    <3>2. r + n * s + (i - n - 1) * s = r + (i - 1) * s  OBVIOUS
    <3> HIDE DEF f, g, w
    <3> QED  BY <1>5, <2>1, <2>3, <3>1, <3>2
  <2> QED  BY <2>2, <2>3
<1> HIDE DEF f, g, w
<1>7. f \o g = w  BY <1>4, <1>5, <1>6, SeqEqual
<1> QED  BY <1>7 DEF f, g, w
\* How many frames fit, counted at once or after the first ones.
LEMMA CountGoesOn ==
  ASSUME NEW a \in Int, NEW b \in Int, a <= b, NEW s \in Nat \ {0}
  PROVE  LET n == Greater(0, a \div s + 1)
             m == Greater(0, (b - n * s) \div s + 1)
         IN n \in Nat /\ m \in Nat /\ n + m = Greater(0, b \div s + 1)
<1> DEFINE p == a \div s  q == b \div s  n == Greater(0, p + 1)
<1>1. p \in Int /\ q \in Int /\ p <= q
  BY QuotientRange, QuotientKeepsOrder
<1> HIDE DEF p, q
<1>2. n \in Nat /\ (n = 0 \/ n = p + 1) /\ n >= p + 1
  BY <1>1 DEF Greater
<1> HIDE DEF n
<1>3. (b - n * s) \div s = q - n
  <2>1. n \in Int  BY <1>2
  <2> QED  BY <2>1, QuotientShifts, Zenon DEF q
<1>4. /\ Greater(0, q - n + 1) \in Nat
      /\ n + Greater(0, q - n + 1) = Greater(0, q + 1)
  BY <1>1, <1>2 DEF Greater
<1> QED  BY <1>2, <1>3, <1>4 DEF p, q, n

LEMMA HopIsPositive == Hop \in Nat \ {0} /\ Delta \in Nat \ {0}
<1> DEFINE w == 4 * Downsample
<1>1. /\ Align_Nfft \in Nat \ {0} /\ Downsample \in Nat \ {0}
      /\ w \in Nat \ {0} /\ w >= 4 /\ Align_Nfft % w = 0
  BY SplitAssumption
<1> HIDE DEF w
<1>2. Align_Nfft >= w
  <2>1. Align_Nfft < w => Align_Nfft % w = Align_Nfft  BY <1>1
  <2> QED  BY <1>1, <2>1
<1>3. Align_Nfft \div 4 \in Nat \ {0}  BY <1>1, <1>2
<1>4. Align_Nfft \div w >= 1
  <2>1. w \div w = 1  BY <1>1, QuotientIs
  <2>2. w \div w <= Align_Nfft \div w  BY <1>1, <1>2, QuotientKeepsOrder
  <2>3. Align_Nfft \div w \in Int  BY <1>1, QuotientRange
  <2> QED  BY <2>1, <2>2, <2>3
<1>5. Align_Nfft \div w \in Nat \ {0}
  BY <1>1, <1>4, QuotientRange
<1> QED  BY <1>3, <1>5 DEF Hop, Delta, w

LEMMA LagsAre == FineLags \subseteq Int
BY SplitAssumption DEF Fine

-----------------------------------------------------------------------------
(* The break points. *)

\* There is one at least and no more than the arrays hold, they do not decrease,
\* and they leave room on both sides.
Spread(points, u) ==
  \E n \in 1 .. MaxBPs :
    /\ DOMAIN points = 0 .. n - 1
    /\ \A i \in 0 .. n - 1 :
         points[i] \in u.speechStart + Pad .. u.speechEnd - Pad
    /\ \A i, j \in 0 .. n - 1 : i <= j => points[i] <= points[j]

\* A set of numbers that holds with each the smaller ones is an interval.
LEMMA DownwardClosed ==
  ASSUME NEW m \in Nat \ {0}, NEW S \in SUBSET (0 .. m - 1), 0 \in S,
         \A i, j \in 0 .. m - 1 : i <= j /\ j \in S => i \in S
  PROVE  Cardinality(S) \in 1 .. m /\ S = 0 .. Cardinality(S) - 1
<1> DEFINE Out == {i \in 0 .. m : i \notin S}
<1>1. Out \subseteq Nat /\ Out # {}
  <2>1. m \in Out  OBVIOUS
  <2> QED  BY <2>1
<1>2. PICK n \in Out : \A i \in Out : n <= i
  <2> HIDE DEF Out
  <2> QED  BY <1>1, SmallestExists
<1>3. n \in 0 .. m /\ n \notin S /\ \A i \in Out : n <= i
  BY <1>2
<1>4. \A i \in 0 .. m - 1 : i < n => i \in S
  BY <1>3
<1>5. \A i \in S : i < n
  BY <1>3
<1>6. S = 0 .. n - 1 /\ n # 0
  <2>1. n # 0  BY <1>3
  <2>2. 0 .. n - 1 \subseteq S
    <3>1. \A i \in 0 .. n - 1 : i \in 0 .. m - 1 /\ i < n  BY <1>3
    <3> QED  BY <1>4, <3>1
  <2>3. S \subseteq 0 .. n - 1
    <3>1. \A i \in 0 .. m - 1 : i < n => i \in 0 .. n - 1  BY <1>3
    <3> QED  BY <1>5, <3>1
  <2> QED  BY <2>1, <2>2, <2>3
<1>7. Cardinality(S) = n
  BY <1>3, <1>6, FS_Interval
<1> QED  BY <1>3, <1>6, <1>7

LEMMA StepIsNat ==
  ASSUME NEW length \in Nat
  PROVE  StepSize(length) \in Nat
<1> DEFINE w == MaxBPs * Delta
           a == 801 * length + 1000 * (w - 1)
           b == 1000 * MaxBPs * Delta
<1>1. w \in Nat \ {0} /\ Delta \in Nat
  <2>1. MaxBPs \in Nat \ {0} /\ Delta \in Nat \ {0}
    BY SplitAssumption, HopIsPositive
  <2>2. \A x, y \in Nat \ {0} : x * y \in Nat \ {0}  BY SMT
  <2> QED  BY <2>1, <2>2
<1>2. StepSize(length) = Delta * (a \div b)
  BY DEF StepSize
<1>3. b = 1000 * w
  BY SplitAssumption, <1>1
<1> HIDE DEF w
<1>4. a \in Nat /\ b \in Nat \ {0}
  <2> HIDE DEF b
  <2> QED  BY <1>1, <1>3
<1> HIDE DEF a, b
<1>5. a \div b \in Nat  BY <1>4
<1> QED  BY <1>1, <1>2, <1>5

LEMMA BreakPointsSpread ==
  ASSUME NEW u \in Utts
  PROVE  Spread(BreakPoints(u), u)
<1> DEFINE length == u.speechEnd - u.speechStart
           pad    == Greater(length \div 10, Pad)
           at(i)  == u.speechStart + pad + i * StepSize(length)
           S      == {i \in 0 .. MaxBPs - 1 : i = 0 \/ at(i) <= u.speechEnd - pad}
           n      == Cardinality(S)
<1>1. /\ u.speechStart \in Int /\ u.speechEnd \in Int /\ length > 2 * Pad
      /\ Pad \in Nat /\ MaxBPs \in Nat \ {0}
  BY SplitAssumption DEF Splittable
<1>2. length \in Nat  BY <1>1
<1>3. StepSize(length) \in Nat  BY <1>2, StepIsNat
<1>4. /\ pad \in Nat /\ pad >= Pad /\ pad <= length - Pad
  <2> HIDE DEF length
  <2>1. length \div 10 \in Nat /\ 10 * (length \div 10) <= length
    BY <1>2
  <2> QED  BY <1>1, <1>2, <2>1 DEF Greater
<1> HIDE DEF pad
<1>5. \A i \in Nat : at(i) \in Int /\ at(i) >= u.speechStart + pad
  <2> SUFFICES ASSUME NEW i \in Nat
               PROVE  at(i) \in Int /\ at(i) >= u.speechStart + pad
    OBVIOUS
  <2>1. i * StepSize(length) \in Nat  BY <1>3
  <2> HIDE DEF length
  <2> QED  BY <1>1, <1>4, <2>1
<1>6. \A i, j \in Nat : i <= j => at(i) <= at(j)
  <2> SUFFICES ASSUME NEW i \in Nat, NEW j \in Nat, i <= j PROVE at(i) <= at(j)
    OBVIOUS
  <2>1. /\ i * StepSize(length) <= j * StepSize(length)
        /\ i * StepSize(length) \in Int /\ j * StepSize(length) \in Int
    BY <1>3, ProductKeepsOrder
  <2> HIDE DEF length
  <2> QED  BY <1>1, <1>4, <2>1
<1>7. at(0) = u.speechStart + pad
  <2>1. 0 * StepSize(length) = 0  BY <1>3
  <2> HIDE DEF length
  <2> QED  BY <1>1, <1>4, <2>1
<1> HIDE DEF at
<1>8. n \in 1 .. MaxBPs /\ S = 0 .. n - 1
  <2>1. S \subseteq 0 .. MaxBPs - 1 /\ 0 \in S  BY <1>1
  <2>2. ASSUME NEW i \in 0 .. MaxBPs - 1, NEW j \in 0 .. MaxBPs - 1,
               i <= j, j \in S
        PROVE  i \in S
    <3>1. CASE j = 0  BY <2>2, <3>1
    <3>2. CASE j # 0
      <4>1. at(j) <= u.speechEnd - pad  BY <2>2, <3>2
      <4>2. /\ at(i) <= at(j) /\ at(i) \in Int /\ at(j) \in Int
            /\ u.speechEnd - pad \in Int
        BY <1>1, <1>4, <1>5, <1>6, <2>2
      <4>3. at(i) <= u.speechEnd - pad  BY <4>1, <4>2
      <4> QED  BY <4>3
    <3> QED  BY <3>1, <3>2
  <2> HIDE DEF S
  <2> QED  BY <1>1, <2>1, <2>2, DownwardClosed
<1>9. ASSUME NEW i \in S
      PROVE  at(i) \in u.speechStart + Pad .. u.speechEnd - Pad
  <2>1. i \in Nat /\ (i = 0 \/ at(i) <= u.speechEnd - pad)
    BY <1>1
  <2>2. at(i) \in Int /\ at(i) >= u.speechStart + pad
    BY <1>5, <2>1
  <2>3. at(0) <= u.speechEnd - Pad
    BY <1>1, <1>4, <1>7
  <2> QED  BY <1>1, <1>4, <2>1, <2>2, <2>3
<1>10. BreakPoints(u) = [i \in 0 .. n - 1 |-> at(i)]
  BY DEF BreakPoints, at, pad
<1> DEFINE points == BreakPoints(u)
<1>11. /\ DOMAIN points = 0 .. n - 1
       /\ \A i \in 0 .. n - 1 : points[i] = at(i) /\ i \in S /\ i \in Nat
  <2> HIDE DEF n, S
  <2> QED  BY <1>8, <1>10
<1> HIDE DEF points, n, S, length
<1>12. \A i \in 0 .. n - 1 :
         points[i] \in u.speechStart + Pad .. u.speechEnd - Pad
  BY <1>9, <1>11
<1>13. \A i, j \in 0 .. n - 1 : i <= j => points[i] <= points[j]
  BY <1>6, <1>11
<1> QED  BY <1>8, <1>11, <1>12, <1>13 DEF Spread, points

-----------------------------------------------------------------------------
(* The inductive invariant. *)

Placed ==
  utt \in Utts /\ degraded \in DegSamples /\ conf \in Confs /\ Spread(bps, utt)

FirstSteps  == {"estimate", "first", "firstnext"}
SecondSteps == {"second", "secondnext"}
LastSteps   == {"choose", "done"}

\* Every break point behind the first loop has its estimates.
Estimated ==
  /\ pc \in FirstSteps \cup SecondSteps \cup LastSteps /\ bp \in BP
  /\ DOMAIN ed1 = BP /\ DOMAIN ed2 = BP
  /\ \A i \in BP : /\ ed1[i] = Undefined \/ ed1[i] \in Int
                   /\ ed2[i] = Undefined \/ ed2[i] \in Int
                   /\ pc # "estimate" \/ i < bp => ed1[i] \in Int /\ ed2[i] \in Int

Own1(i) == sum1[i] = Ahead(StartOfFirst(ed1[i]), ed1[i], i)
Own2(i) == sum2[i] = Behind(StartOfSecond(ed2[i]), ed2[i], i)

\* What was looked at has its delay and its own sum.
FirstParts ==
  /\ DOMAIN d1 = BP /\ dc1 \in [BP -> Confidence] /\ DOMAIN sum1 = BP
  /\ pc = "estimate" => \A i \in BP : dc1[i] = Unset
  /\ pc \in SecondSteps \cup LastSteps => \A i \in BP : dc1[i] # Unset
  /\ \A i \in BP : /\ d1[i] = Undefined \/ d1[i] \in Int
                   /\ dc1[i] # Unset => d1[i] \in Int /\ Own1(i)

SecondParts ==
  /\ DOMAIN d2 = BP /\ DOMAIN dc2 = BP /\ DOMAIN sum2 = BP
  /\ pc \in FirstSteps =>
       \A i \in BP : d2[i] = Undefined /\ dc2[i] = Undefined
  /\ pc \in SecondSteps \cup LastSteps =>
       \A i \in BP : /\ dc2[i] \in Confidence
                     /\ dc2[i] \notin {Unset, 0} => d2[i] \in Int
  /\ pc \in LastSteps => \A i \in BP : dc2[i] # Unset
  /\ \A i \in BP : /\ d2[i] = Undefined \/ d2[i] \in Int
                   /\ d2[i] \in Int => dc2[i] # Unset /\ Own2(i)

\* H holds all the frames of a break point that was passed, and startr is where
\* those of the others go on.
Carried ==
  /\ startr \in Int
  /\ pc = "firstnext" =>
       /\ from \in Int
       /\ \E i \in BP : /\ i <= bp /\ h = Ahead(StartOfFirst(from), from, i)
                        /\ startr = StartOfFirst(from) + Len(h) * Hop
  /\ pc = "secondnext" =>
       /\ from \in Int
       /\ \E i \in BP : /\ i >= bp /\ h = Behind(StartOfSecond(from), from, i)
                        /\ startr = StartOfSecond(from) - Len(h) * Hop

\* The answer is the first of the best of the break points below b.
BestBelow(b) ==
  LET able == {i \in BP : i < b /\ Candidate(i)}
  IN IF able = {} THEN best = NoAnswer
     ELSE \E i \in able :
            /\ best = Answer(i)
            /\ \A j \in able : /\ Sum(Answer(j)) <= Sum(best)
                               /\ j < i => Sum(Answer(j)) < Sum(best)

Chosen ==
  /\ pc \in FirstSteps \cup SecondSteps => best = NoAnswer
  /\ pc = "choose" => BestBelow(bp)
  /\ pc = "done" => BestBelow(N_BPs)

IInv == Placed /\ Estimated /\ FirstParts /\ SecondParts /\ Carried /\ Chosen

-----------------------------------------------------------------------------
(* What is carried on. *)

LEMMA PointsAre ==
  ASSUME Placed
  PROVE  /\ N_BPs \in 1 .. MaxBPs /\ BP = 0 .. N_BPs - 1 /\ N_BPs \in Nat \ {0}
         /\ \A i \in BP : /\ bps[i] \in Int
                          /\ bps[i] \in utt.speechStart + Pad
                                         .. utt.speechEnd - Pad
         /\ \A i, j \in BP : i <= j => bps[i] <= bps[j]
<1>1. PICK n \in 1 .. MaxBPs :
        /\ DOMAIN bps = 0 .. n - 1
        /\ \A i \in 0 .. n - 1 :
             bps[i] \in utt.speechStart + Pad .. utt.speechEnd - Pad
        /\ \A i, j \in 0 .. n - 1 : i <= j => bps[i] <= bps[j]
  BY DEF Placed, Spread
<1>2. n \in Nat \ {0}  BY SplitAssumption
<1>3. Cardinality(0 .. n - 1) = n  BY <1>2, FS_Interval
<1>4. N_BPs = n  BY <1>1, <1>3 DEF N_BPs, BP
<1> QED  BY <1>1, <1>2, <1>4 DEF BP

LEMMA Numbers ==
  ASSUME Placed
  PROVE  /\ degraded \in Nat /\ conf \in Nat /\ conf \in Int
         /\ utt.start \in Int /\ utt.end \in Int
         /\ Downsample \in Nat \ {0} /\ Align_Nfft \in Nat \ {0}
         /\ MaxConf \in Nat /\ Hop \in Nat \ {0} /\ Hop \in Int
  BY SplitAssumption, HopIsPositive DEF Placed

LEMMA AheadGoesOn ==
  ASSUME Placed, NEW i \in BP, NEW j \in BP, i <= j, NEW r \in Int, NEW e \in Int
  PROVE  \A f, p : f = Ahead(r, e, i) /\ p = r + Len(f) * Hop =>
           /\ f \o Ahead(p, e, j) = Ahead(r, e, j)
           /\ p + Len(Ahead(p, e, j)) * Hop = r + Len(Ahead(r, e, j)) * Hop
<1> DEFINE last(l) == Lesser(bps[l] * Downsample, degraded - e) - Align_Nfft
           a == last(i) - r
           b == last(j) - r
           n == Greater(0, a \div Hop + 1)
           m == Greater(0, (b - n * Hop) \div Hop + 1)
           from2 == r + n * Hop
<1>1. last(i) \in Int /\ last(j) \in Int /\ last(i) <= last(j)
  <2>1. /\ bps[i] * Downsample \in Int /\ bps[j] * Downsample \in Int
        /\ bps[i] * Downsample <= bps[j] * Downsample
    BY PointsAre, Numbers, ProductKeepsOrder
  <2>2. degraded - e \in Int /\ Align_Nfft \in Int  BY Numbers
  <2> QED  BY <2>1, <2>2 DEF Lesser
<1> HIDE DEF last
<1>2. a \in Int /\ b \in Int /\ a <= b  BY <1>1
<1> HIDE DEF a, b
<1>3. n \in Nat /\ m \in Nat /\ n + m = Greater(0, b \div Hop + 1)
  BY <1>2, Numbers, CountGoesOn
<1> HIDE DEF n
<1>4. from2 \in Int /\ n * Hop \in Int  BY <1>3, Numbers
<1>5. Ahead(r, e, i) = Walk(r, Hop, n)
  BY DEF Ahead, Walk, last, n, a
<1>6. last(j) - from2 = b - n * Hop  BY <1>1, <1>4 DEF b
<1>7. Ahead(from2, e, j) = Walk(from2, Hop, Greater(0, (last(j) - from2) \div Hop + 1))
  BY DEF Ahead, Walk, last
<1>8. Ahead(r, e, j) = Walk(r, Hop, Greater(0, (last(j) - r) \div Hop + 1))
  BY DEF Ahead, Walk, last
<1>9. Ahead(from2, e, j) = Walk(from2, Hop, m) /\ Ahead(r, e, j) = Walk(r, Hop, n + m)
  BY <1>3, <1>6, <1>7, <1>8 DEF b
<1> HIDE DEF m
<1>10. /\ Len(Ahead(r, e, i)) = n /\ Len(Ahead(from2, e, j)) = m
       /\ Len(Ahead(r, e, j)) = n + m
  <2>1. /\ n \in Nat /\ m \in Nat /\ n + m \in Nat /\ Hop \in Int
        /\ from2 \in Int
    BY <1>3, <1>4, Numbers
  <2> HIDE DEF from2
  <2>2. /\ Len(Walk(r, Hop, n)) = n /\ Len(Walk(from2, Hop, m)) = m
        /\ Len(Walk(r, Hop, n + m)) = n + m
    BY <2>1, WalkIsSeq
  <2> QED  BY <1>5, <1>9, <2>2
<1>11. Walk(r, Hop, n) \o Walk(from2, Hop, m) = Walk(r, Hop, n + m)
  <2>1. n \in Nat /\ m \in Nat /\ Hop \in Int  BY <1>3, Numbers
  <2> QED  BY <2>1, WalkGoesOn
<1>12. from2 + m * Hop = r + (n + m) * Hop
  BY <1>3, Numbers
<1> QED  BY <1>4, <1>5, <1>9, <1>10, <1>11, <1>12

LEMMA BehindGoesOn ==
  ASSUME Placed, NEW i \in BP, NEW j \in BP, j <= i, NEW r \in Int, NEW e \in Int
  PROVE  \A f, p : f = Behind(r, e, i) /\ p = r - Len(f) * Hop =>
           /\ f \o Behind(p, e, j) = Behind(r, e, j)
           /\ p - Len(Behind(p, e, j)) * Hop = r - Len(Behind(r, e, j)) * Hop
<1> DEFINE lowest(l) == Greater(bps[l] * Downsample, -e)
           a == r - lowest(i)
           b == r - lowest(j)
           n == Greater(0, a \div Hop + 1)
           m == Greater(0, (b - n * Hop) \div Hop + 1)
           from2 == r - n * Hop
<1>1. lowest(i) \in Int /\ lowest(j) \in Int /\ lowest(j) <= lowest(i)
  <2>1. /\ bps[i] * Downsample \in Int /\ bps[j] * Downsample \in Int
        /\ bps[j] * Downsample <= bps[i] * Downsample
    BY PointsAre, Numbers, ProductKeepsOrder
  <2> QED  BY <2>1 DEF Greater
<1> HIDE DEF lowest
<1>2. a \in Int /\ b \in Int /\ a <= b  BY <1>1
<1> HIDE DEF a, b
<1>3. n \in Nat /\ m \in Nat /\ n + m = Greater(0, b \div Hop + 1)
  BY <1>2, Numbers, CountGoesOn
<1> HIDE DEF n
<1>4. from2 \in Int /\ n * Hop \in Int  BY <1>3, Numbers
<1>d. ASSUME NEW q \in Int, NEW l \in BP, lowest(l) \in Int
      PROVE  Behind(q, e, l) = Walk(q, -Hop, Greater(0, (q - lowest(l)) \div Hop + 1))
  <2> DEFINE c == Greater(0, (q - lowest(l)) \div Hop + 1)
  <2>1. \A k \in 1 .. c : q - (k - 1) * Hop = q + (k - 1) * (-Hop)
    BY Numbers
  <2>2. Behind(q, e, l) = [k \in 1 .. c |-> q - (k - 1) * Hop]
    BY DEF Behind, lowest
  <2> HIDE DEF c
  <2> QED  BY <2>1, <2>2 DEF Walk, c
<1>5. Behind(r, e, i) = Walk(r, -Hop, n)
  BY <1>1, <1>d DEF n, a
<1>6. from2 - lowest(j) = b - n * Hop  BY <1>1, <1>4 DEF b
<1>9. Behind(from2, e, j) = Walk(from2, -Hop, m) /\ Behind(r, e, j) = Walk(r, -Hop, n + m)
  BY <1>1, <1>3, <1>4, <1>6, <1>d DEF b
<1> HIDE DEF m
<1>10. /\ Len(Behind(r, e, i)) = n /\ Len(Behind(from2, e, j)) = m
       /\ Len(Behind(r, e, j)) = n + m
  <2>1. /\ n \in Nat /\ m \in Nat /\ n + m \in Nat /\ -Hop \in Int
        /\ from2 \in Int
    BY <1>3, <1>4, Numbers
  <2> HIDE DEF from2
  <2>2. /\ Len(Walk(r, -Hop, n)) = n /\ Len(Walk(from2, -Hop, m)) = m
        /\ Len(Walk(r, -Hop, n + m)) = n + m
    BY <2>1, WalkIsSeq
  <2> QED  BY <1>5, <1>9, <2>2
<1>11. Walk(r, -Hop, n) \o Walk(from2, -Hop, m) = Walk(r, -Hop, n + m)
  <2>1. /\ from2 = r + n * (-Hop) /\ -Hop \in Int
        /\ n \in Nat /\ m \in Nat
    BY <1>3, Numbers
  <2> HIDE DEF from2
  <2>2. Walk(r, -Hop, n) \o Walk(r + n * (-Hop), -Hop, m) = Walk(r, -Hop, n + m)
    BY <2>1, WalkGoesOn
  <2> QED  BY <2>1, <2>2
<1>12. from2 - m * Hop = r - (n + m) * Hop
  BY <1>3, Numbers
<1> QED  BY <1>4, <1>5, <1>9, <1>10, <1>11, <1>12

-----------------------------------------------------------------------------
(* Every step keeps the invariant. *)

LEMMA Initially == Init => IInv
<1> SUFFICES ASSUME Init PROVE IInv  OBVIOUS
<1>1. Placed
  BY BreakPointsSpread DEF Init, Placed
<1>2. bp \in BP
  BY <1>1, PointsAre DEF Init
<1>3. Unset \in Confidence /\ Undefined \notin Int
  BY SplitAssumption DEF Confidence
<1> QED
  BY <1>1, <1>2, <1>3
  DEF Init, IInv, Estimated, FirstParts, SecondParts, Carried, Chosen, FirstSteps,
      SecondSteps, LastSteps

\* The parts that only look at the two delays and at what they rest on.
LEMMA PartsStay ==
  ASSUME IInv, UNCHANGED <<inputs, ed1, ed2, first, second>>,
         pc' = pc \/ (pc = "firstnext" /\ pc' = "first")
                  \/ (pc = "secondnext" /\ pc' = "second")
                  \/ (pc \in LastSteps /\ pc' \in LastSteps)
  PROVE  Placed' /\ FirstParts' /\ SecondParts' /\ BP' = BP
<1>1. Placed' /\ BP' = BP
  BY DEF IInv, Placed, inputs, BP, Spread
<1>2. /\ pc' = "estimate" => pc = "estimate"
      /\ pc' \in FirstSteps <=> pc \in FirstSteps
      /\ pc' \in LastSteps <=> pc \in LastSteps
      /\ pc' \in SecondSteps \cup LastSteps <=> pc \in SecondSteps \cup LastSteps
  BY DEF FirstSteps, SecondSteps, LastSteps
<1>3. \A i : (Own1(i))' = Own1(i) /\ (Own2(i))' = Own2(i)
  BY DEF inputs, first, second, Own1, Own2, Ahead, Behind, StartOfFirst,
         StartOfSecond
<1>4. FirstParts'
  BY <1>1, <1>2, <1>3 DEF IInv, FirstParts, first
<1>5. SecondParts'
  BY <1>1, <1>2, <1>3 DEF IInv, SecondParts, second
<1> QED  BY <1>1, <1>4, <1>5

LEMMA EstimateKeeps == ASSUME IInv, Estimate PROVE IInv'
<1>1. /\ Placed' /\ BP' = BP /\ BP = 0 .. N_BPs - 1 /\ N_BPs \in Nat \ {0}
      /\ bp \in BP /\ DOMAIN ed1 = BP /\ DOMAIN ed2 = BP
  BY PointsAre DEF IInv, Placed, Estimate, inputs, BP, Spread, Estimated
<1>2. PICK e1 \in Int, e2 \in Int :
        ed1' = [ed1 EXCEPT ![bp] = e1] /\ ed2' = [ed2 EXCEPT ![bp] = e2]
  BY SplitAssumption DEF Estimate
<1>3. \/ bp' = bp + 1 /\ pc' = "estimate" /\ bp + 1 \in BP
      \/ bp' = 0 /\ pc' = "first" /\ bp + 1 \notin BP
  BY DEF Estimate
<1>4. /\ DOMAIN ed1' = BP /\ DOMAIN ed2' = BP /\ bp' \in BP
      /\ \A i \in BP :
           /\ ed1'[i] = IF i = bp THEN e1 ELSE ed1[i]
           /\ ed2'[i] = IF i = bp THEN e2 ELSE ed2[i]
  BY <1>1, <1>2, <1>3
<1>5. \A i \in BP : /\ ed1'[i] = Undefined \/ ed1'[i] \in Int
                    /\ ed2'[i] = Undefined \/ ed2'[i] \in Int
  BY <1>2, <1>4 DEF IInv, Estimated
<1>6. \A i \in BP : pc' # "estimate" \/ i < bp' => ed1'[i] \in Int /\ ed2'[i] \in Int
  <2> SUFFICES ASSUME NEW i \in BP, pc' # "estimate" \/ i < bp', i # bp
               PROVE  ed1[i] \in Int /\ ed2[i] \in Int
    BY <1>2, <1>4
  <2>1. i < bp  BY <1>1, <1>3
  <2> QED  BY <2>1 DEF IInv, Estimated
<1>7. Estimated'
  <2>1. pc' \in {"estimate", "first"}  BY <1>3
  <2>2. BP' = BP /\ bp' \in BP /\ DOMAIN ed1' = BP /\ DOMAIN ed2' = BP
    BY <1>1, <1>4
  <2> QED  BY <1>5, <1>6, <2>1, <2>2 DEF Estimated, FirstSteps
<1>8. /\ pc = "estimate" /\ UNCHANGED <<first, second, sums, best>>
      /\ \A i \in BP : dc1[i] = Unset /\ d2[i] = Undefined /\ dc2[i] = Undefined
  BY DEF Estimate, IInv, FirstParts, SecondParts, FirstSteps
<1>9. FirstParts'
  <2>1. d1' = d1 /\ dc1' = dc1 /\ sum1' = sum1  BY <1>8 DEF first
  <2> QED
    BY <1>1, <1>3, <1>8, <2>1
    DEF IInv, FirstParts, SecondSteps, LastSteps
<1>10. SecondParts'
  <2>1. d2' = d2 /\ dc2' = dc2 /\ sum2' = sum2  BY <1>8 DEF second
  <2> QED
    BY <1>1, <1>3, <1>8, <2>1, SplitAssumption
    DEF IInv, SecondParts, SecondSteps, LastSteps
<1>11. Carried'
  BY <1>3, <1>8 DEF IInv, Carried, sums
<1>12. Chosen'
  BY <1>3, <1>8 DEF IInv, Chosen, FirstSteps
<1> QED
  BY <1>1, <1>7, <1>9, <1>10, <1>11, <1>12 DEF IInv

LEMMA AheadIsSeq ==
  ASSUME Placed, NEW i \in BP, NEW r \in Int, NEW e \in Int
  PROVE  Ahead(r, e, i) \in Seq(Int) /\ Len(Ahead(r, e, i)) \in Nat
<1> DEFINE last == Lesser(bps[i] * Downsample, degraded - e) - Align_Nfft
           n == Greater(0, (last - r) \div Hop + 1)
<1>1. last \in Int
  <2>1. bps[i] * Downsample \in Int /\ degraded - e \in Int /\ Align_Nfft \in Int
    BY PointsAre, Numbers
  <2> QED  BY <2>1 DEF Lesser
<1> HIDE DEF last
<1>2. n \in Nat
  <2>1. (last - r) \div Hop \in Int  BY <1>1, Numbers, QuotientRange
  <2> QED  BY <2>1 DEF Greater
<1>3. Ahead(r, e, i) = Walk(r, Hop, n)  BY DEF Ahead, Walk, last, n
<1> HIDE DEF n
<1>4. Walk(r, Hop, n) \in Seq(Int) /\ Len(Walk(r, Hop, n)) = n
  <2>1. Hop \in Int  BY Numbers
  <2> QED  BY <1>2, <2>1, WalkIsSeq
<1> QED  BY <1>2, <1>3, <1>4

LEMMA BehindIsSeq ==
  ASSUME Placed, NEW i \in BP, NEW r \in Int, NEW e \in Int
  PROVE  Behind(r, e, i) \in Seq(Int) /\ Len(Behind(r, e, i)) \in Nat
<1> DEFINE lowest == Greater(bps[i] * Downsample, -e)
           n == Greater(0, (r - lowest) \div Hop + 1)
<1>1. lowest \in Int
  <2>1. bps[i] * Downsample \in Int  BY PointsAre, Numbers
  <2> QED  BY <2>1 DEF Greater
<1> HIDE DEF lowest
<1>2. n \in Nat
  <2>1. (r - lowest) \div Hop \in Int  BY <1>1, Numbers, QuotientRange
  <2> QED  BY <2>1 DEF Greater
<1>3. Behind(r, e, i) = [k \in 1 .. n |-> r - (k - 1) * Hop]
  BY DEF Behind, lowest, n
<1> HIDE DEF n
<1>4. \A k \in 1 .. n : r - (k - 1) * Hop = r + (k - 1) * (-Hop)
  BY <1>2, Numbers
<1>5. Behind(r, e, i) = Walk(r, -Hop, n)  BY <1>3, <1>4 DEF Walk
<1>6. Walk(r, -Hop, n) \in Seq(Int) /\ Len(Walk(r, -Hop, n)) = n
  <2>1. -Hop \in Int  BY Numbers
  <2> QED  BY <1>2, <2>1, WalkIsSeq
<1> QED  BY <1>2, <1>5, <1>6

LEMMA Starts ==
  ASSUME Placed, NEW e \in Int
  PROVE  StartOfFirst(e) \in Int /\ StartOfSecond(e) \in Int
<1>1. /\ utt.start * Downsample \in Int /\ utt.end * Downsample \in Int
      /\ degraded - e \in Int /\ Align_Nfft \in Int
  BY Numbers
<1> QED  BY <1>1 DEF StartOfFirst, StartOfSecond, Greater, Lesser

\* Frames are counted from the signals and the break points only.
LEMMA InputsStay ==
  ASSUME inputs' = inputs
  PROVE  /\ BP' = BP /\ (Placed => Placed')
         /\ \A i : (Own1(i))' = (sum1'[i] = Ahead(StartOfFirst(ed1'[i]), ed1'[i], i))
         /\ \A i : (Own2(i))' = (sum2'[i] = Behind(StartOfSecond(ed2'[i]), ed2'[i], i))
         /\ \A i : (Ahead(StartOfFirst(from), from, i))'
                     = Ahead(StartOfFirst(from'), from', i)
         /\ \A i : (Behind(StartOfSecond(from), from, i))'
                     = Behind(StartOfSecond(from'), from', i)
         /\ (StartOfFirst(from))' = StartOfFirst(from')
         /\ (StartOfSecond(from))' = StartOfSecond(from')
  BY DEF inputs, BP, Placed, Spread, Own1, Own2, Ahead, Behind, StartOfFirst,
         StartOfSecond

\* A first part is noted, with all of its frames.
LEMMA FirstNoted ==
  ASSUME IInv, NEW i \in BP, dc1[i] = Unset, ed1[i] \in Int,
         pc \in {"first", "firstnext"}, pc' = "firstnext",
         NoteFirst(i, ed1[i], Ahead(StartOfFirst(ed1[i]), ed1[i], i)),
         UNCHANGED <<inputs, ed1, ed2, second>>
  PROVE  FirstParts' /\ SecondParts'
<1> DEFINE e == ed1[i]
<1>1. PICK c \in 0 .. MaxConf, lag \in FineLags \cup {0} :
        d1' = [d1 EXCEPT ![i] = e + lag] /\ dc1' = [dc1 EXCEPT ![i] = c]
  BY DEF NoteFirst
<1>2. sum1' = [sum1 EXCEPT ![i] = Ahead(StartOfFirst(e), e, i)]
  BY DEF NoteFirst
<1>3. e + lag \in Int /\ c \in Confidence /\ c # Unset
  <2>1. lag \in Int /\ MaxConf \in Nat
    <3>1. lag \in Int  BY LagsAre
    <3>2. MaxConf \in Nat  BY SplitAssumption
    <3> QED  BY <3>1, <3>2
  <2>2. c \in Confidence /\ c # Unset  BY <2>1 DEF Confidence, Unset
  <2>3. e + lag \in Int  BY <2>1
  <2> QED  BY <2>2, <2>3
<1>4. /\ DOMAIN d1 = BP /\ DOMAIN sum1 = BP /\ dc1 \in [BP -> Confidence]
      /\ \A j \in BP : /\ d1[j] = Undefined \/ d1[j] \in Int
                       /\ dc1[j] # Unset => d1[j] \in Int /\ Own1(j)
  BY DEF IInv, FirstParts
<1>5. /\ DOMAIN d1' = BP /\ DOMAIN sum1' = BP /\ dc1' \in [BP -> Confidence]
      /\ \A j \in BP : j # i => /\ d1'[j] = d1[j] /\ dc1'[j] = dc1[j]
                                /\ sum1'[j] = sum1[j]
      /\ d1'[i] = e + lag /\ sum1'[i] = Ahead(StartOfFirst(e), e, i)
  BY <1>1, <1>2, <1>3, <1>4
<1>6. ASSUME NEW j \in BP
      PROVE  /\ d1'[j] = Undefined \/ d1'[j] \in Int
             /\ dc1'[j] # Unset => d1'[j] \in Int /\ (Own1(j))'
  <2>1. (Own1(j))' = (sum1'[j] = Ahead(StartOfFirst(ed1[j]), ed1[j], j))
    BY InputsStay
  <2>2. CASE j = i  BY <1>3, <1>5, <2>1, <2>2
  <2>3. CASE j # i  BY <1>4, <1>5, <2>1, <2>3 DEF Own1
  <2> QED  BY <2>2, <2>3
<1>7. FirstParts'
  BY <1>5, <1>6, InputsStay DEF FirstParts, SecondSteps, LastSteps
<1>8. SecondParts'
  <2>1. d2' = d2 /\ dc2' = dc2 /\ sum2' = sum2  BY DEF second
  <2>2. \A j \in BP : d2[j] = Undefined /\ dc2[j] = Undefined
    BY DEF IInv, SecondParts, FirstSteps
  <2> QED
    BY <2>1, <2>2, InputsStay, SplitAssumption
    DEF IInv, SecondParts, SecondSteps, LastSteps
<1> QED  BY <1>7, <1>8

LEMMA FirstFreshKeeps == ASSUME IInv, FirstFresh PROVE IInv'
<1>1. Placed /\ Waiting1 \subseteq BP /\ BP \subseteq Nat
  BY PointsAre DEF IInv, Waiting1
<1>2. \E l \in Waiting1 : \A j \in Waiting1 : l <= j
  BY <1>1, SmallestExists DEF FirstFresh
<1>3. PICK i \in Waiting1 :
        /\ bp' = i /\ from' = ed1[i]
        /\ AddFirst(i, ed1[i], StartOfFirst(ed1[i]), <<>>)
  BY <1>2 DEF FirstFresh
<1>4. /\ pc = "first" /\ pc' = "firstnext"
      /\ UNCHANGED <<inputs, ed1, ed2, second, best>>
  BY DEF FirstFresh
<1>5. i \in BP /\ dc1[i] = Unset /\ ed1[i] \in Int
  BY <1>1, <1>4 DEF Waiting1, IInv, Estimated
<1>6. PICK e \in Int : e = ed1[i]  BY <1>5
<1>7. PICK s \in Int : s = StartOfFirst(e)  BY <1>1, Starts
<1>8. PICK f \in Seq(Int) : f = Ahead(s, e, i) /\ Len(f) \in Nat
  BY <1>1, <1>5, AheadIsSeq
<1>9. NoteFirst(i, e, f) /\ startr' = s + Len(f) * Hop
  <2>1. NoteFirst(i, e, <<>> \o f) /\ startr' = s + Len(f) * Hop
    BY <1>3, <1>6, <1>7, <1>8 DEF AddFirst
  <2>2. <<>> \o f = f  BY ConcatEmptySeq
  <2> QED  BY <2>1, <2>2
<1>10. FirstParts' /\ SecondParts'
  BY <1>4, <1>5, <1>6, <1>7, <1>8, <1>9, FirstNoted
<1>11. h' = f  BY <1>9 DEF NoteFirst
<1>12. Placed' /\ BP' = BP  BY <1>1, <1>4, InputsStay
<1>13. Carried'
  <2>1. startr' \in Int  BY <1>1, <1>8, <1>9, Numbers
  <2>2. i \in BP' /\ i <= bp'  BY <1>1, <1>3, <1>5, <1>12
  <2>3. /\ StartOfFirst(from)' = s /\ Ahead(StartOfFirst(from), from, i)' = f
        /\ from' = e
    BY <1>3, <1>4, <1>6, <1>7, <1>8, InputsStay
  <2>4. startr' = s + Len(h') * Hop  BY <1>9, <1>11
  <2>5. \E j \in BP' : /\ j <= bp' /\ h' = Ahead(StartOfFirst(from), from, j)'
                       /\ startr' = StartOfFirst(from)' + Len(h') * Hop
    BY <1>11, <2>2, <2>3, <2>4
  <2> QED  BY <1>4, <2>1, <2>3, <2>5 DEF Carried
<1>14. Estimated'
  BY <1>3, <1>4, <1>5, <1>12 DEF IInv, Estimated, FirstSteps
<1>15. Chosen'
  BY <1>4 DEF IInv, Chosen, FirstSteps
<1> QED  BY <1>10, <1>12, <1>13, <1>14, <1>15 DEF IInv

LEMMA FirstNextKeeps == ASSUME IInv, FirstNext PROVE IInv'
<1>1. Placed /\ BP = 0 .. N_BPs - 1 /\ N_BPs \in Nat \ {0} /\ bp \in BP
  BY PointsAre DEF IInv, Estimated
<1>2. /\ pc = "firstnext" /\ pc' = "firstnext" /\ bp' = bp + 1 /\ from' = from
      /\ UNCHANGED <<inputs, ed1, ed2, second, best>> /\ bp < N_BPs - 1
  BY DEF FirstNext
<1>3. bp + 1 \in BP  BY <1>1, <1>2
<1>4. Placed' /\ BP' = BP  BY <1>1, <1>2, InputsStay
<1>5. Estimated'
  BY <1>2, <1>3, <1>4 DEF IInv, Estimated, FirstSteps
<1>6. Chosen'
  BY <1>2 DEF IInv, Chosen, FirstSteps
<1>7. PICK e \in Int : e = from  BY <1>2 DEF IInv, Carried
<1>8. PICK s \in Int : s = StartOfFirst(e)  BY <1>1, Starts
<1>9. PICK i \in BP : /\ i <= bp /\ h = Ahead(s, e, i)
                      /\ startr = s + Len(h) * Hop
  BY <1>2, <1>7, <1>8 DEF IInv, Carried
<1>10. /\ StartOfFirst(from)' = s /\ from' = e
       /\ \A j : Ahead(StartOfFirst(from), from, j)' = Ahead(s, e, j)
  BY <1>2, <1>7, <1>8, InputsStay
<1>11. CASE ed1[bp + 1] = from /\ dc1[bp + 1] = Unset
  <2>1. PICK j \in BP : j = bp + 1 /\ dc1[j] = Unset /\ ed1[j] = e
    BY <1>3, <1>7, <1>11
  <2>2. i <= j  BY <1>1, <1>9, <2>1
  <2>3. PICK f : f = Ahead(s, e, j)  OBVIOUS
  <2>4. /\ h \o Ahead(startr, e, j) = f
        /\ startr + Len(Ahead(startr, e, j)) * Hop = s + Len(f) * Hop
    <3>1. Placed  BY <1>1
    <3>2. h = Ahead(s, e, i) /\ startr = s + Len(h) * Hop  BY <1>9
    <3>3. \A g, p : g = Ahead(s, e, i) /\ p = s + Len(g) * Hop =>
            /\ g \o Ahead(p, e, j) = Ahead(s, e, j)
            /\ p + Len(Ahead(p, e, j)) * Hop = s + Len(Ahead(s, e, j)) * Hop
      BY <2>2, <3>1, AheadGoesOn
    <3> QED  BY <2>3, <3>2, <3>3
  <2>5. NoteFirst(j, e, f) /\ startr' = s + Len(f) * Hop
    BY <1>7, <1>11, <2>1, <2>4 DEF FirstNext, AddFirst
  <2>6. FirstParts' /\ SecondParts'
    BY <1>2, <1>8, <2>1, <2>3, <2>5, FirstNoted
  <2>7. h' = f  BY <2>5 DEF NoteFirst
  <2>8. Carried'
    <3>1. startr' \in Int
      <4>1. Len(f) \in Nat  BY <1>1, <2>3, AheadIsSeq
      <4> QED  BY <1>1, <2>5, <4>1, Numbers
    <3>2. j \in BP' /\ j <= bp'  BY <1>1, <1>2, <1>4, <2>1
    <3>3. \E l \in BP' : /\ l <= bp' /\ h' = Ahead(StartOfFirst(from), from, l)'
                         /\ startr' = StartOfFirst(from)' + Len(h') * Hop
      BY <1>10, <2>3, <2>5, <2>7, <3>2
    <3> QED  BY <1>2, <1>10, <3>1, <3>3 DEF Carried
  <2> QED  BY <1>4, <1>5, <1>6, <2>6, <2>8 DEF IInv
<1>12. CASE ~(ed1[bp + 1] = from /\ dc1[bp + 1] = Unset)
  <2>1. UNCHANGED <<first, startr, h>>  BY <1>12 DEF FirstNext
  <2>2. FirstParts' /\ SecondParts'
    BY <1>2, <2>1, PartsStay
  <2>3. Carried'
    <3>1. startr' \in Int  BY <2>1 DEF IInv, Carried
    <3>2. i \in BP' /\ i <= bp'  BY <1>1, <1>2, <1>4, <1>9
    <3>3. \E l \in BP' : /\ l <= bp' /\ h' = Ahead(StartOfFirst(from), from, l)'
                         /\ startr' = StartOfFirst(from)' + Len(h') * Hop
      BY <1>9, <1>10, <2>1, <3>2
    <3> QED  BY <1>2, <1>10, <3>1, <3>3 DEF Carried
  <2> QED  BY <1>4, <1>5, <1>6, <2>2, <2>3 DEF IInv
<1> QED  BY <1>11, <1>12

\* A loop over the break points ends, and the search for a fresh one goes on.
LEMMA RoundKeeps == ASSUME IInv, FirstRound \/ SecondRound PROVE IInv'
<1>1. /\ \/ pc = "firstnext" /\ pc' = "first"
         \/ pc = "secondnext" /\ pc' = "second"
      /\ UNCHANGED <<inputs, bp, ed1, ed2, first, second, sums, best>>
  BY DEF FirstRound, SecondRound
<1>2. Placed' /\ FirstParts' /\ SecondParts' /\ BP' = BP
  BY <1>1, PartsStay
<1>3. Estimated'
  BY <1>1, <1>2 DEF IInv, Estimated, FirstSteps, SecondSteps
<1>4. Carried'
  BY <1>1 DEF IInv, Carried, sums
<1>5. Chosen'
  BY <1>1 DEF IInv, Chosen, FirstSteps, SecondSteps
<1> QED  BY <1>2, <1>3, <1>4, <1>5 DEF IInv

LEMMA ConvincedKeeps == ASSUME IInv, Convinced PROVE IInv'
<1>1. /\ pc = "first" /\ pc' = "second"
      /\ dc2' = [i \in BP |-> IF dc1[i] > conf THEN Unset ELSE 0]
      /\ UNCHANGED <<inputs, bp, ed1, ed2, first, d2, sum2, sums, best>>
      /\ Waiting1 = {}
  BY DEF Convinced
<1>2. Placed' /\ BP' = BP  BY <1>1, InputsStay DEF IInv
<1>3. \A i \in BP : dc1[i] # Unset  BY <1>1 DEF Waiting1
<1>4. FirstParts'
  <2>1. d1' = d1 /\ dc1' = dc1 /\ sum1' = sum1 /\ ed1' = ed1
    BY <1>1 DEF first
  <2>2. \A i : (Own1(i))' = Own1(i)
    BY <1>1, <2>1, InputsStay DEF Own1
  <2> QED
    BY <1>1, <1>2, <1>3, <2>1, <2>2
    DEF IInv, FirstParts, SecondSteps, LastSteps
<1>5. SecondParts'
  <2>1. \A i \in BP : d2'[i] = Undefined /\ d2[i] = Undefined
    BY <1>1 DEF IInv, SecondParts, FirstSteps
  <2>2. DOMAIN d2' = BP /\ DOMAIN sum2' = BP /\ DOMAIN dc2' = BP
    BY <1>1 DEF IInv, SecondParts
  <2>3. \A i \in BP : dc2'[i] \in {Unset, 0}  BY <1>1
  <2>4. {Unset, 0} \subseteq Confidence
    <3>1. MaxConf \in Nat  BY SplitAssumption
    <3> QED  BY <3>1 DEF Confidence
  <2> QED
    BY <1>1, <1>2, <2>1, <2>2, <2>3, <2>4, SplitAssumption
    DEF SecondParts, FirstSteps, LastSteps
<1>6. Estimated'
  BY <1>1, <1>2 DEF IInv, Estimated, SecondSteps
<1>7. Carried'
  BY <1>1 DEF IInv, Carried, sums
<1>8. Chosen'
  BY <1>1 DEF IInv, Chosen, FirstSteps, SecondSteps
<1> QED  BY <1>2, <1>4, <1>5, <1>6, <1>7, <1>8 DEF IInv

LEMMA LargestExists ==
  ASSUME NEW m \in Nat \ {0}, NEW S \in SUBSET (0 .. m - 1), S # {}
  PROVE  \E n \in S : \A i \in S : n >= i
<1> DEFINE R == {m - 1 - i : i \in S}
<1>1. R \subseteq Nat /\ R # {}
  <2>1. \A i \in S : m - 1 - i \in Nat  OBVIOUS
  <2> QED  BY <2>1
<1>2. PICK q \in R : \A r \in R : q <= r
  <2> HIDE DEF R
  <2> QED  BY <1>1, SmallestExists
<1>3. PICK n \in S : q = m - 1 - n  BY <1>2
<1>4. ASSUME NEW i \in S PROVE n >= i
  <2>1. m - 1 - i \in R  OBVIOUS
  <2>2. q <= m - 1 - i  BY <1>2, <2>1
  <2>3. n \in 0 .. m - 1 /\ i \in 0 .. m - 1  OBVIOUS
  <2> HIDE DEF R
  <2> QED  BY <1>3, <2>2, <2>3
<1> QED  BY <1>4

\* A second part is noted, with all of its frames.
LEMMA SecondNoted ==
  ASSUME IInv, NEW i \in BP, dc2[i] = Unset, ed2[i] \in Int,
         pc \in SecondSteps, pc' = "secondnext",
         NoteSecond(i, ed2[i], Behind(StartOfSecond(ed2[i]), ed2[i], i)),
         UNCHANGED <<inputs, ed1, ed2, first>>
  PROVE  FirstParts' /\ SecondParts'
<1> DEFINE e == ed2[i]
<1>1. PICK c \in 0 .. MaxConf, lag \in FineLags \cup {0} :
        d2' = [d2 EXCEPT ![i] = e + lag] /\ dc2' = [dc2 EXCEPT ![i] = c]
  BY DEF NoteSecond
<1>2. sum2' = [sum2 EXCEPT ![i] = Behind(StartOfSecond(e), e, i)]
  BY DEF NoteSecond
<1>3. e + lag \in Int /\ c \in Confidence /\ c # Unset
  <2>1. lag \in Int /\ MaxConf \in Nat
    <3>1. lag \in Int  BY LagsAre
    <3>2. MaxConf \in Nat  BY SplitAssumption
    <3> QED  BY <3>1, <3>2
  <2>2. c \in Confidence /\ c # Unset  BY <2>1 DEF Confidence, Unset
  <2>3. e + lag \in Int  BY <2>1
  <2> QED  BY <2>2, <2>3
<1>4. /\ DOMAIN d2 = BP /\ DOMAIN sum2 = BP /\ DOMAIN dc2 = BP
      /\ \A j \in BP : /\ dc2[j] \in Confidence
                       /\ dc2[j] \notin {Unset, 0} => d2[j] \in Int
                       /\ d2[j] = Undefined \/ d2[j] \in Int
                       /\ d2[j] \in Int => dc2[j] # Unset /\ Own2(j)
  BY DEF IInv, SecondParts
<1>5. /\ DOMAIN d2' = BP /\ DOMAIN sum2' = BP /\ DOMAIN dc2' = BP
      /\ \A j \in BP : j # i => /\ d2'[j] = d2[j] /\ dc2'[j] = dc2[j]
                                /\ sum2'[j] = sum2[j]
      /\ d2'[i] = e + lag /\ dc2'[i] = c
      /\ sum2'[i] = Behind(StartOfSecond(e), e, i)
  BY <1>1, <1>2, <1>4
<1>6. ASSUME NEW j \in BP
      PROVE  /\ dc2'[j] \in Confidence
             /\ dc2'[j] \notin {Unset, 0} => d2'[j] \in Int
             /\ d2'[j] = Undefined \/ d2'[j] \in Int
             /\ d2'[j] \in Int => dc2'[j] # Unset /\ (Own2(j))'
  <2>1. (Own2(j))' = (sum2'[j] = Behind(StartOfSecond(ed2[j]), ed2[j], j))
    BY InputsStay
  <2>2. CASE j = i  BY <1>3, <1>5, <2>1, <2>2
  <2>3. CASE j # i  BY <1>4, <1>5, <2>1, <2>3 DEF Own2
  <2> QED  BY <2>2, <2>3
<1>7. SecondParts'
  BY <1>5, <1>6, InputsStay DEF SecondParts, FirstSteps, LastSteps
<1>8. FirstParts'
  <2>1. d1' = d1 /\ dc1' = dc1 /\ sum1' = sum1 /\ ed1' = ed1  BY DEF first
  <2>2. \A j : (Own1(j))' = Own1(j)
    BY <2>1, InputsStay DEF Own1
  <2> QED
    BY <2>1, <2>2, InputsStay
    DEF IInv, FirstParts, SecondSteps
<1> QED  BY <1>7, <1>8

LEMMA SecondFreshKeeps == ASSUME IInv, SecondFresh PROVE IInv'
<1>1. /\ Placed /\ Waiting2 \subseteq BP /\ BP = 0 .. N_BPs - 1
      /\ N_BPs \in Nat \ {0}
  BY PointsAre DEF IInv, Waiting2
<1>2. \E l \in Waiting2 : \A j \in Waiting2 : l >= j
  BY <1>1, LargestExists DEF SecondFresh
<1>3. PICK i \in Waiting2 :
        /\ bp' = i /\ from' = ed2[i]
        /\ AddSecond(i, ed2[i], StartOfSecond(ed2[i]), <<>>)
  BY <1>2 DEF SecondFresh
<1>4. /\ pc = "second" /\ pc' = "secondnext"
      /\ UNCHANGED <<inputs, ed1, ed2, first, best>>
  BY DEF SecondFresh
<1>5. i \in BP /\ dc2[i] = Unset /\ ed2[i] \in Int
  BY <1>1, <1>4 DEF Waiting2, IInv, Estimated
<1>6. PICK e \in Int : e = ed2[i]  BY <1>5
<1>7. PICK s \in Int : s = StartOfSecond(e)  BY <1>1, Starts
<1>8. PICK f \in Seq(Int) : f = Behind(s, e, i) /\ Len(f) \in Nat
  BY <1>1, <1>5, BehindIsSeq
<1>9. NoteSecond(i, e, f) /\ startr' = s - Len(f) * Hop
  <2>1. NoteSecond(i, e, <<>> \o f) /\ startr' = s - Len(f) * Hop
    BY <1>3, <1>6, <1>7, <1>8 DEF AddSecond
  <2>2. <<>> \o f = f  BY ConcatEmptySeq
  <2> QED  BY <2>1, <2>2
<1>10. FirstParts' /\ SecondParts'
  BY <1>4, <1>5, <1>6, <1>7, <1>8, <1>9, SecondNoted DEF SecondSteps
<1>11. h' = f  BY <1>9 DEF NoteSecond
<1>12. Placed' /\ BP' = BP  BY <1>1, <1>4, InputsStay
<1>13. Carried'
  <2>1. startr' \in Int  BY <1>1, <1>8, <1>9, Numbers
  <2>2. i \in BP' /\ i >= bp'  BY <1>1, <1>3, <1>5, <1>12
  <2>3. /\ StartOfSecond(from)' = s /\ Behind(StartOfSecond(from), from, i)' = f
        /\ from' = e
    BY <1>3, <1>4, <1>6, <1>7, <1>8, InputsStay
  <2>4. startr' = s - Len(h') * Hop  BY <1>9, <1>11
  <2>5. \E j \in BP' : /\ j >= bp' /\ h' = Behind(StartOfSecond(from), from, j)'
                       /\ startr' = StartOfSecond(from)' - Len(h') * Hop
    BY <1>11, <2>2, <2>3, <2>4
  <2> QED  BY <1>4, <2>1, <2>3, <2>5 DEF Carried
<1>14. Estimated'
  BY <1>3, <1>4, <1>5, <1>12 DEF IInv, Estimated, SecondSteps
<1>15. Chosen'
  BY <1>4 DEF IInv, Chosen, SecondSteps
<1> QED  BY <1>10, <1>12, <1>13, <1>14, <1>15 DEF IInv

LEMMA SecondNextKeeps == ASSUME IInv, SecondNext PROVE IInv'
<1>1. Placed /\ BP = 0 .. N_BPs - 1 /\ N_BPs \in Nat \ {0} /\ bp \in BP
  BY PointsAre DEF IInv, Estimated
<1>2. /\ pc = "secondnext" /\ pc' = "secondnext" /\ bp' = bp - 1 /\ from' = from
      /\ UNCHANGED <<inputs, ed1, ed2, first, best>> /\ bp > 0
  BY DEF SecondNext
<1>3. bp - 1 \in BP  BY <1>1, <1>2
<1>4. Placed' /\ BP' = BP  BY <1>1, <1>2, InputsStay
<1>5. Estimated'
  BY <1>2, <1>3, <1>4 DEF IInv, Estimated, SecondSteps
<1>6. Chosen'
  BY <1>2 DEF IInv, Chosen, SecondSteps
<1>7. PICK e \in Int : e = from  BY <1>2 DEF IInv, Carried
<1>8. PICK s \in Int : s = StartOfSecond(e)  BY <1>1, Starts
<1>9. PICK i \in BP : /\ i >= bp /\ h = Behind(s, e, i)
                      /\ startr = s - Len(h) * Hop
  BY <1>2, <1>7, <1>8 DEF IInv, Carried
<1>10. /\ StartOfSecond(from)' = s /\ from' = e
       /\ \A j : Behind(StartOfSecond(from), from, j)' = Behind(s, e, j)
  BY <1>2, <1>7, <1>8, InputsStay
<1>11. CASE ed2[bp - 1] = from /\ dc2[bp - 1] = Unset
  <2>1. PICK j \in BP : j = bp - 1 /\ dc2[j] = Unset /\ ed2[j] = e
    BY <1>3, <1>7, <1>11
  <2>2. j <= i  BY <1>1, <1>9, <2>1
  <2>3. PICK f : f = Behind(s, e, j)  OBVIOUS
  <2>4. /\ h \o Behind(startr, e, j) = f
        /\ startr - Len(Behind(startr, e, j)) * Hop = s - Len(f) * Hop
    <3>1. Placed  BY <1>1
    <3>2. h = Behind(s, e, i) /\ startr = s - Len(h) * Hop  BY <1>9
    <3>3. \A g, p : g = Behind(s, e, i) /\ p = s - Len(g) * Hop =>
            /\ g \o Behind(p, e, j) = Behind(s, e, j)
            /\ p - Len(Behind(p, e, j)) * Hop = s - Len(Behind(s, e, j)) * Hop
      BY <2>2, <3>1, BehindGoesOn
    <3> QED  BY <2>3, <3>2, <3>3
  <2>5. NoteSecond(j, e, f) /\ startr' = s - Len(f) * Hop
    BY <1>7, <1>11, <2>1, <2>4 DEF SecondNext, AddSecond
  <2>6. FirstParts' /\ SecondParts'
    BY <1>2, <1>8, <2>1, <2>3, <2>5, SecondNoted DEF SecondSteps
  <2>7. h' = f  BY <2>5 DEF NoteSecond
  <2>8. Carried'
    <3>1. startr' \in Int
      <4>1. Len(f) \in Nat  BY <1>1, <2>3, BehindIsSeq
      <4> QED  BY <1>1, <2>5, <4>1, Numbers
    <3>2. j \in BP' /\ j >= bp'  BY <1>1, <1>2, <1>4, <2>1
    <3>3. \E l \in BP' :
            /\ l >= bp' /\ h' = Behind(StartOfSecond(from), from, l)'
            /\ startr' = StartOfSecond(from)' - Len(h') * Hop
      BY <1>10, <2>3, <2>5, <2>7, <3>2
    <3> QED  BY <1>2, <1>10, <3>1, <3>3 DEF Carried
  <2> QED  BY <1>4, <1>5, <1>6, <2>6, <2>8 DEF IInv
<1>12. CASE ~(ed2[bp - 1] = from /\ dc2[bp - 1] = Unset)
  <2>1. UNCHANGED <<second, startr, h>>  BY <1>12 DEF SecondNext
  <2>2. FirstParts' /\ SecondParts'
    BY <1>2, <2>1, PartsStay
  <2>3. Carried'
    <3>1. startr' \in Int  BY <2>1 DEF IInv, Carried
    <3>2. i \in BP' /\ i >= bp'  BY <1>1, <1>2, <1>4, <1>9
    <3>3. \E l \in BP' :
            /\ l >= bp' /\ h' = Behind(StartOfSecond(from), from, l)'
            /\ startr' = StartOfSecond(from)' - Len(h') * Hop
      BY <1>9, <1>10, <2>1, <3>2
    <3> QED  BY <1>2, <1>10, <3>1, <3>3 DEF Carried
  <2> QED  BY <1>4, <1>5, <1>6, <2>2, <2>3 DEF IInv
<1> QED  BY <1>11, <1>12

LEMMA SecondDoneKeeps == ASSUME IInv, SecondDone PROVE IInv'
<1>1. /\ pc = "second" /\ pc' = "choose" /\ bp' = 0 /\ Waiting2 = {}
      /\ UNCHANGED <<inputs, ed1, ed2, first, second, sums, best>>
  BY DEF SecondDone
<1>2. Placed' /\ BP' = BP /\ 0 \in BP /\ BP \subseteq Nat
  BY <1>1, PointsAre, InputsStay DEF IInv
<1>3. /\ d1' = d1 /\ dc1' = dc1 /\ sum1' = sum1 /\ ed1' = ed1
      /\ d2' = d2 /\ dc2' = dc2 /\ sum2' = sum2 /\ ed2' = ed2
  BY <1>1 DEF first, second
<1>4. \A i : (Own1(i))' = Own1(i) /\ (Own2(i))' = Own2(i)
  BY <1>1, <1>3, InputsStay DEF Own1, Own2
<1>5. FirstParts'
  BY <1>1, <1>2, <1>3, <1>4
  DEF IInv, FirstParts, SecondSteps, LastSteps
<1>6. SecondParts'
  BY <1>1, <1>2, <1>3, <1>4
  DEF IInv, SecondParts, FirstSteps, SecondSteps, LastSteps, Waiting2
<1>7. Estimated'
  BY <1>1, <1>2 DEF IInv, Estimated, LastSteps
<1>8. Carried'
  BY <1>1 DEF IInv, Carried, sums
<1>9. Chosen'
  <2>1. best' = NoAnswer  BY <1>1 DEF IInv, Chosen, SecondSteps
  <2>2. \A i \in BP : ~(i < 0)  BY <1>2
  <2>3. {i \in BP' : i < 0 /\ Candidate(i)'} = {}  BY <1>2, <2>2
  <2>4. BestBelow(0)'  BY <2>1, <2>3 DEF BestBelow
  <2> QED  BY <1>1, <2>4 DEF Chosen, FirstSteps, SecondSteps, BestBelow
<1> QED  BY <1>2, <1>5, <1>6, <1>7, <1>8, <1>9 DEF IInv

\* In the last loop a trusted break point has both of its delays, and the
\* difference between them is what is looked at.
LEMMA TrustedIsWhole ==
  ASSUME IInv, pc \in LastSteps, NEW i \in BP, dc1[i] > conf, dc2[i] > conf
  PROVE  d1[i] \in Int /\ d2[i] \in Int
<1>1. dc1[i] # Unset /\ dc2[i] \notin {Unset, 0}
  BY Numbers DEF IInv, Unset
<1> QED  BY <1>1 DEF IInv, FirstParts, SecondParts

LEMMA Levels ==
  ASSUME IInv, pc \in LastSteps, NEW i \in BP
  PROVE  dc1[i] \in Int /\ dc2[i] \in Int /\ Sum(Answer(i)) = dc1[i] + dc2[i]
<1>1. dc1[i] \in Confidence /\ dc2[i] \in Confidence
  BY DEF IInv, FirstParts, SecondParts
<1>2. MaxConf \in Nat  BY SplitAssumption
<1> QED  BY <1>1, <1>2 DEF Confidence, Unset, Sum, Answer

LEMMA ChooseKeeps == ASSUME IInv, Choose PROVE IInv'
<1>1. /\ pc = "choose" /\ bp \in BP
      /\ UNCHANGED <<inputs, ed1, ed2, first, second, sums>>
      /\ \/ bp' = bp + 1 /\ pc' = "choose" /\ bp + 1 \in BP
         \/ bp' = bp /\ pc' = "done" /\ bp + 1 \notin BP
  BY DEF Choose, IInv, Estimated
<1>2. /\ Placed /\ BP = 0 .. N_BPs - 1 /\ N_BPs \in Nat \ {0} /\ conf \in Nat
  BY PointsAre, Numbers DEF IInv
<1>3. Placed' /\ FirstParts' /\ SecondParts' /\ BP' = BP
  BY <1>1, PartsStay DEF LastSteps
<1>4. Estimated'
  BY <1>1, <1>3 DEF IInv, Estimated, LastSteps
<1>5. Carried'
  BY <1>1 DEF IInv, Carried, sums
<1>6. best' = IF Candidate(bp) /\ Sum(Answer(bp)) > Sum(best)
                THEN Answer(bp) ELSE best
  <2>1. PICK apart \in Apart(Answer(bp)) :
          best' = IF apart /\ Sum(Answer(bp)) > Sum(best) /\ Trusted(Answer(bp))
                    THEN Answer(bp) ELSE best
    BY DEF Choose
  <2>2. Trusted(Answer(bp)) = (dc1[bp] > conf /\ dc2[bp] > conf)
    BY DEF Trusted, Answer
  <2>3. CASE ~Trusted(Answer(bp))
    BY <2>1, <2>2, <2>3 DEF Candidate
  <2>4. CASE Trusted(Answer(bp))
    <3>1. d2[bp] \in Int /\ pc \in LastSteps
      BY <1>1, <2>2, <2>4, TrustedIsWhole DEF LastSteps
    <3>2. d2[bp] # Undefined  BY <3>1, SplitAssumption
    <3>3. apart = (\/ d2[bp] - d1[bp] >= Downsample
                   \/ d1[bp] - d2[bp] >= Downsample)
      BY <2>1, <3>2 DEF Apart, Answer
    <3>4. Candidate(bp) = apart
      BY <2>2, <2>4, <3>3 DEF Candidate
    <3> QED  BY <2>1, <2>4, <3>4
  <2> QED  BY <2>3, <2>4
<1>7. \A i \in BP : /\ Candidate(i) => dc1[i] > conf /\ dc2[i] > conf
                    /\ dc1[i] \in Int /\ dc2[i] \in Int
                    /\ Sum(Answer(i)) = dc1[i] + dc2[i]
  BY <1>1, Levels DEF Candidate, LastSteps
<1> DEFINE able(b) == {i \in BP : i < b /\ Candidate(i)}
<1>8. IF able(bp) = {} THEN best = NoAnswer
      ELSE \E i \in able(bp) :
             /\ best = Answer(i)
             /\ \A j \in able(bp) : /\ Sum(Answer(j)) <= Sum(best)
                                    /\ j < i => Sum(Answer(j)) < Sum(best)
  BY <1>1 DEF IInv, Chosen, BestBelow
<1>9. able(bp + 1) = IF Candidate(bp) THEN able(bp) \cup {bp} ELSE able(bp)
  <2>1. \A i \in BP : i < bp + 1 <=> (i < bp \/ i = bp)  BY <1>1, <1>2
  <2> QED  BY <1>1, <2>1
<1>10. \A i \in able(bp) : i \in BP /\ i < bp /\ Candidate(i)
  OBVIOUS
<1> HIDE DEF able
<1>11. IF able(bp + 1) = {} THEN best' = NoAnswer
       ELSE \E i \in able(bp + 1) :
              /\ best' = Answer(i)
              /\ \A j \in able(bp + 1) :
                   /\ Sum(Answer(j)) <= Sum(best')
                   /\ j < i => Sum(Answer(j)) < Sum(best')
  <2>1. CASE ~Candidate(bp)
    <3>1. best' = best /\ able(bp + 1) = able(bp)  BY <1>6, <1>9, <2>1
    <3> QED  BY <1>8, <3>1
  <2>2. CASE Candidate(bp) /\ able(bp) = {}
    <3>1. best = NoAnswer /\ Sum(best) = 0
      BY <1>8, <2>2 DEF Sum, NoAnswer
    <3>2. Sum(Answer(bp)) > 0  BY <1>1, <1>2, <1>7, <2>2
    <3>3. best' = Answer(bp) /\ able(bp + 1) = {bp}
      BY <1>6, <1>9, <2>2, <3>1, <3>2
    <3>4. Sum(Answer(bp)) \in Int /\ bp \in Int  BY <1>1, <1>2, <1>7
    <3> QED  BY <3>3, <3>4
  <2>3. CASE Candidate(bp) /\ able(bp) # {}
    <3>1. PICK i \in able(bp) :
            /\ best = Answer(i)
            /\ \A j \in able(bp) : /\ Sum(Answer(j)) <= Sum(best)
                                   /\ j < i => Sum(Answer(j)) < Sum(best)
      BY <1>8, <2>3
    <3>2. able(bp + 1) = able(bp) \cup {bp}  BY <1>9, <2>3
    <3>3. /\ \A j \in able(bp) : j < bp /\ j \in Int /\ Sum(Answer(j)) \in Int
          /\ bp \in Int /\ Sum(Answer(bp)) \in Int /\ Sum(best) \in Int
      BY <1>1, <1>2, <1>7, <1>10, <3>1
    <3>4. CASE Sum(Answer(bp)) > Sum(best)
      <4>1. best' = Answer(bp)  BY <1>6, <2>3, <3>4
      <4>2. \A j \in able(bp) : Sum(Answer(j)) < Sum(Answer(bp))
        BY <3>1, <3>3, <3>4
      <4> QED  BY <3>2, <3>3, <4>1, <4>2
    <3>5. CASE ~(Sum(Answer(bp)) > Sum(best))
      <4>1. best' = best  BY <1>6, <3>5
      <4>2. Sum(Answer(bp)) <= Sum(best) /\ ~(bp < i)  BY <3>3, <3>5
      <4> QED  BY <3>1, <3>2, <4>1, <4>2
    <3> QED  BY <3>4, <3>5
  <2> QED  BY <2>1, <2>2, <2>3
<1>12. /\ \A i : Candidate(i)' = Candidate(i) /\ Answer(i)' = Answer(i)
       /\ N_BPs' = N_BPs
  BY <1>1, <1>3 DEF inputs, first, second, Candidate, Answer, N_BPs, BP
<1>13. PICK c : c = bp + 1  OBVIOUS
<1>14. BestBelow(c)'
  <2>1. able(c) = {i \in BP' : i < c /\ Candidate(i)'}
    BY <1>3, <1>12 DEF able
  <2>2. IF able(c) = {} THEN best' = NoAnswer
        ELSE \E i \in able(c) :
               /\ best' = Answer(i)'
               /\ \A j \in able(c) :
                    /\ Sum(Answer(j))' <= Sum(best)'
                    /\ j < i => Sum(Answer(j))' < Sum(best)'
    BY <1>11, <1>12, <1>13 DEF Sum
  <2> QED  BY <2>1, <2>2 DEF BestBelow
<1>15. /\ pc' = "choose" => bp' = c
       /\ pc' = "done" => N_BPs' = c
  BY <1>1, <1>2, <1>12, <1>13
<1>16. Chosen'
  BY <1>1, <1>14, <1>15 DEF Chosen, FirstSteps, SecondSteps, BestBelow
<1> QED  BY <1>3, <1>4, <1>5, <1>16 DEF IInv

LEMMA StutterKeeps == ASSUME IInv, UNCHANGED vars PROVE IInv'
<1>1. /\ UNCHANGED <<inputs, pc, bp, ed1, ed2, first, second, sums, best>>
  BY DEF vars
<1>2. Placed' /\ FirstParts' /\ SecondParts' /\ BP' = BP
  BY <1>1, PartsStay
<1>3. Estimated'
  BY <1>1, <1>2 DEF IInv, Estimated
<1>4. Carried'
  BY <1>1, <1>2, InputsStay DEF IInv, Carried, sums
<1>5. Chosen'
  BY <1>1, <1>2
  DEF IInv, Chosen, BestBelow, Candidate, Answer, inputs, first, second, N_BPs,
      Sum, BP
<1> QED  BY <1>2, <1>3, <1>4, <1>5 DEF IInv

\* The invariant holds in every behaviour.
LEMMA Inductive == Spec => []IInv
<1>1. IInv /\ [Next]_vars => IInv'
  BY EstimateKeeps, FirstFreshKeeps, FirstNextKeeps, RoundKeeps, ConvincedKeeps,
     SecondFreshKeeps, SecondNextKeeps, SecondDoneKeeps, ChooseKeeps, StutterKeeps
  DEF Next, Step, Done
<1> QED  BY Initially, <1>1, PTL DEF Spec

-----------------------------------------------------------------------------
(* The theorems. *)

\* The indices of split_align (pesqdsp.c:651) stay in its arrays of MaxBPs
\* entries and every break point leaves 75 windows of speech on both sides,
\* however long the utterance is.
THEOREM TypeCorrect == Spec => []TypeOK
<1>1. ASSUME IInv PROVE TypeOK
  <2>1. /\ Placed /\ N_BPs \in 1 .. MaxBPs
        /\ \A i \in BP :
             bps[i] \in utt.speechStart + Pad .. utt.speechEnd - Pad
    BY <1>1, PointsAre DEF IInv
  <2>2. utt \in Utts /\ degraded \in DegSamples /\ conf \in Confs
    BY <2>1 DEF Placed
  <2>3. /\ pc \in {"estimate", "first", "firstnext", "second", "secondnext",
                   "choose", "done"}
        /\ bp \in BP /\ startr \in Int
    BY <1>1 DEF IInv, Estimated, Carried, FirstSteps, SecondSteps, LastSteps
  <2>4. /\ DOMAIN ed1 = BP /\ \A i \in BP : ed1[i] = Undefined \/ ed1[i] \in Int
        /\ DOMAIN ed2 = BP /\ \A i \in BP : ed2[i] = Undefined \/ ed2[i] \in Int
    BY <1>1 DEF IInv, Estimated
  <2>5. /\ DOMAIN d1 = BP /\ \A i \in BP : d1[i] = Undefined \/ d1[i] \in Int
        /\ DOMAIN d2 = BP /\ \A i \in BP : d2[i] = Undefined \/ d2[i] \in Int
    BY <1>1 DEF IInv, FirstParts, SecondParts
  <2>6. /\ dc1 \in [BP -> Confidence]
        /\ DOMAIN dc2 = BP
    BY <1>1 DEF IInv, FirstParts, SecondParts
  <2>7. \A i \in BP : dc2[i] = Undefined \/ dc2[i] \in Confidence
    BY <1>1, <2>3
    DEF IInv, SecondParts, FirstSteps, SecondSteps, LastSteps
  <2>8. \A f \in {ed1, ed2, d1, d2} :
          DOMAIN f = BP /\ \A i \in BP : f[i] = Undefined \/ f[i] \in Int
    BY <2>4, <2>5
  <2> QED  BY <2>1, <2>2, <2>3, <2>6, <2>7, <2>8 DEF TypeOK
<1> QED  BY Inductive, <1>1, PTL

\* What split_align carries from one break point to the next with the same
\* estimate (pesqdsp.c:808-872 upwards, 966-1030 downwards) is what a search
\* for that break point alone would sum up, for any break points and estimates.
THEOREM SumsCorrect == Spec => []SumsAreOwn
<1>1. ASSUME IInv PROVE SumsAreOwn
  BY <1>1 DEF IInv, FirstParts, SecondParts, Own1, Own2, SumsAreOwn
<1> QED  BY Inductive, <1>1, PTL

\* The marks of -2 keep a break point from being looked at twice
\* (pesqdsp.c:727-731, 811, 885-889, 969): what was found for one is never
\* changed by what is found for another.
THEOREM EvaluatedOnceCorrect == Spec => EvaluatedOnce
<1> DEFINE Kept1 == \A i \in BP :
                      dc1[i] # Unset => <<d1[i], dc1[i]>>' = <<d1[i], dc1[i]>>
           Kept2 == \A i \in BP :
                      d2[i] # Undefined => <<d2[i], dc2[i]>>' = <<d2[i], dc2[i]>>
<1>1. ASSUME NEW i \in BP, dc1[i] = Unset, NEW e, NEW f, NoteFirst(i, e, f)
      PROVE  Kept1
  BY <1>1 DEF NoteFirst
<1>2. ASSUME NEW i \in BP, IInv, pc \in SecondSteps, dc2[i] = Unset, NEW e, NEW f,
             NoteSecond(i, e, f)
      PROVE  Kept2
  <2>1. d2[i] = Undefined  BY <1>2 DEF IInv, SecondParts
  <2> QED  BY <1>2, <2>1 DEF NoteSecond
<1>3. ASSUME IInv, Next \/ UNCHANGED vars PROVE Kept1 /\ Kept2
  <2>1. Placed /\ BP = 0 .. N_BPs - 1 /\ N_BPs \in Nat \ {0} /\ bp \in BP
    BY <1>3, PointsAre DEF IInv, Estimated
  <2>2. CASE UNCHANGED <<first, second>>
    BY <2>2 DEF first, second
  <2>3. CASE FirstFresh
    <3>1. \E l \in Waiting1 : \A j \in Waiting1 : l <= j
      <4>1. Waiting1 \subseteq Nat  BY <2>1 DEF Waiting1
      <4> QED  BY <2>3, <4>1, SmallestExists DEF FirstFresh
    <3>2. PICK i \in Waiting1 :
            AddFirst(i, ed1[i], StartOfFirst(ed1[i]), <<>>)
      BY <2>3, <3>1 DEF FirstFresh
    <3>3. i \in BP /\ dc1[i] = Unset  BY DEF Waiting1
    <3>4. Kept1
      BY <1>1, <3>2, <3>3 DEF AddFirst
    <3> QED  BY <2>3, <3>4 DEF FirstFresh, second
  <2>4. CASE FirstNext
    <3>1. UNCHANGED second /\ bp + 1 \in BP
      BY <2>1, <2>4 DEF FirstNext
    <3>2. CASE dc1[bp + 1] = Unset /\ ed1[bp + 1] = from
      <4>1. AddFirst(bp + 1, from, startr, h)  BY <2>4, <3>2 DEF FirstNext
      <4>2. Kept1  BY <1>1, <3>1, <3>2, <4>1 DEF AddFirst
      <4> QED  BY <3>1, <4>2 DEF second
    <3>3. CASE ~(dc1[bp + 1] = Unset /\ ed1[bp + 1] = from)
      BY <2>4, <3>1, <3>3 DEF FirstNext, first, second
    <3> QED  BY <3>2, <3>3
  <2>5. CASE Convinced
    <3>1. d1' = d1 /\ dc1' = dc1  BY <2>5 DEF Convinced, first
    <3>2. \A i \in BP : d2[i] = Undefined
      BY <1>3, <2>5 DEF Convinced, IInv, SecondParts, FirstSteps
    <3> QED  BY <3>1, <3>2
  <2>6. CASE SecondFresh
    <3>1. \E l \in Waiting2 : \A j \in Waiting2 : l >= j
      <4>1. Waiting2 \subseteq 0 .. N_BPs - 1  BY <2>1 DEF Waiting2
      <4> QED  BY <2>1, <2>6, <4>1, LargestExists DEF SecondFresh
    <3>2. PICK i \in Waiting2 :
            AddSecond(i, ed2[i], StartOfSecond(ed2[i]), <<>>)
      BY <2>6, <3>1 DEF SecondFresh
    <3>3. i \in BP /\ dc2[i] = Unset /\ pc \in SecondSteps
      BY <2>6 DEF Waiting2, SecondFresh, SecondSteps
    <3>4. Kept2
      BY <1>2, <1>3, <3>2, <3>3 DEF AddSecond
    <3> QED  BY <2>6, <3>4 DEF SecondFresh, first
  <2>7. CASE SecondNext
    <3>1. UNCHANGED first /\ bp - 1 \in BP /\ pc \in SecondSteps
      BY <2>1, <2>7 DEF SecondNext, SecondSteps
    <3>2. CASE dc2[bp - 1] = Unset /\ ed2[bp - 1] = from
      <4>1. AddSecond(bp - 1, from, startr, h)  BY <2>7, <3>2 DEF SecondNext
      <4>2. Kept2  BY <1>2, <1>3, <3>1, <3>2, <4>1 DEF AddSecond
      <4> QED  BY <3>1, <4>2 DEF first
    <3>3. CASE ~(dc2[bp - 1] = Unset /\ ed2[bp - 1] = from)
      BY <2>7, <3>1, <3>3 DEF SecondNext, first, second
    <3> QED  BY <3>2, <3>3
  <2>8. \/ UNCHANGED <<first, second>> \/ FirstFresh \/ FirstNext \/ Convinced
        \/ SecondFresh \/ SecondNext
    BY <1>3
    DEF Next, Step, Done, vars, Estimate, FirstRound, SecondRound, SecondDone,
        Choose
  <2> QED  BY <2>2, <2>3, <2>4, <2>5, <2>6, <2>7, <2>8
<1>4. ASSUME IInv, [Next]_vars
      PROVE  [\A i \in BP :
                /\ dc1[i] /= Unset => <<d1[i], dc1[i]>>' = <<d1[i], dc1[i]>>
                /\ d2[i] /= Undefined => <<d2[i], dc2[i]>>' = <<d2[i], dc2[i]>>]_vars
  BY <1>3, <1>4
<1> QED  BY Inductive, <1>4, PTL DEF Spec, EvaluatedOnce

\* What the last loop of split_align answers (pesqdsp.c:1034-1044) is the first
\* of the best of the break points that are trusted and whose delays lie apart,
\* or nothing: no delay that was never assigned has a say in it.
THEOREM AnswerCorrect == Spec => []AnswerIsTheBest
<1>1. ASSUME IInv, pc = "done" PROVE AnswerIsTheBest
  <2> DEFINE trusted == {i \in BP : dc1[i] > conf /\ dc2[i] > conf}
             able    == {i \in trusted : Candidate(i)}
  <2>1. \A i \in trusted : d1[i] # Undefined /\ d2[i] # Undefined
    BY <1>1, TrustedIsWhole, SplitAssumption DEF LastSteps
  <2>2. able = {i \in BP : i < N_BPs /\ Candidate(i)}
    <3>1. \A i \in BP : i < N_BPs
      BY <1>1, PointsAre DEF IInv
    <3> QED  BY <3>1 DEF Candidate
  <2>3. BestBelow(N_BPs)  BY <1>1 DEF IInv, Chosen
  <2>4. IF able = {} THEN best = NoAnswer
        ELSE \E i \in able :
               /\ best = Answer(i)
               /\ \A j \in able : /\ Sum(Answer(j)) <= Sum(best)
                                  /\ j < i => Sum(Answer(j)) < Sum(best)
    <3> HIDE DEF able
    <3> QED  BY <2>2, <2>3 DEF BestBelow
  <2>5. Trusted(best) <=> able # {}
    <3>1. conf \in Nat  BY <1>1, Numbers DEF IInv
    <3>2. CASE able = {}
      <4>1. best = NoAnswer  BY <2>4, <3>2
      <4> QED  BY <3>1, <3>2, <4>1 DEF Trusted, NoAnswer
    <3>3. CASE able # {}
      <4>1. PICK i \in able : best = Answer(i)  BY <2>4, <3>3
      <4> QED  BY <3>3, <4>1 DEF Trusted, Answer
    <3> QED  BY <3>2, <3>3
  <2> HIDE DEF able, trusted
  <2>6. /\ \A i \in trusted : d1[i] # Undefined /\ d2[i] # Undefined
        /\ IF able = {} THEN best = NoAnswer
           ELSE \E i \in able :
                  /\ best = Answer(i)
                  /\ \A j \in able : /\ Sum(Answer(j)) <= Sum(best)
                                     /\ j < i => Sum(Answer(j)) < Sum(best)
        /\ Trusted(best) <=> able # {}
    BY <2>1, <2>4, <2>5
  <2> QED  BY <2>6 DEF AnswerIsTheBest, able, trusted
<1>2. ASSUME IInv PROVE AnswerIsTheBest
  BY <1>1, <1>2 DEF AnswerIsTheBest
<1> QED  BY Inductive, <1>2, PTL

-----------------------------------------------------------------------------
(* The contract. *)

\* A confidence that was found rests on frames, and the delay that goes with it
\* on the break point's own estimate.
Backed1(i) ==
  dc1[i] \in 1 .. MaxConf => sum1[i] # <<>> /\ d1[i] - ed1[i] \in FineLags
Backed2(i) ==
  dc2[i] \in 1 .. MaxConf => sum2[i] # <<>> /\ d2[i] - ed2[i] \in FineLags

Backed == \A i \in BP : Backed1(i) /\ Backed2(i)

\* What a histogram says, if it says anything.
LEMMA SaidLag ==
  ASSUME NEW e \in Int, NEW frames, NEW d, NEW c \in 1 .. MaxConf,
         Says(frames, e, d, c)
  PROVE  frames # <<>> /\ d - e \in FineLags
<1>1. c # 0  OBVIOUS
<1>2. PICK lag \in FineLags : d = e + lag /\ frames # <<>>
  BY <1>1 DEF Says
<1>3. lag \in Int  BY LagsAre
<1>4. d - e = lag  BY <1>2, <1>3
<1> QED  BY <1>2, <1>4

LEMMA NotedFirstBacked ==
  ASSUME IInv, Backed, NEW i \in BP, ed1[i] \in Int, NEW frames,
         NoteFirst(i, ed1[i], frames), UNCHANGED <<inputs, ed1, ed2, second>>
  PROVE  Backed'
<1>1. PICK c \in 0 .. MaxConf, lag \in FineLags \cup {0} :
        /\ Says(frames, ed1[i], ed1[i] + lag, c)
        /\ d1' = [d1 EXCEPT ![i] = ed1[i] + lag]
        /\ dc1' = [dc1 EXCEPT ![i] = c]
  BY DEF NoteFirst
<1>2. sum1' = [sum1 EXCEPT ![i] = frames]  BY DEF NoteFirst
<1>3. DOMAIN d1 = BP /\ DOMAIN sum1 = BP /\ DOMAIN dc1 = BP
  BY DEF IInv, FirstParts
<1>4. BP' = BP /\ ed1' = ed1 /\ ed2' = ed2 /\ d2' = d2 /\ dc2' = dc2 /\ sum2' = sum2
  BY InputsStay DEF second
<1>5. ASSUME NEW j \in BP PROVE Backed1(j)'
  <2>1. CASE j = i
    <3>1. dc1'[i] = c /\ d1'[i] = ed1[i] + lag /\ sum1'[i] = frames
      BY <1>1, <1>2, <1>3
    <3>2. c \in 1 .. MaxConf => frames # <<>> /\ (ed1[i] + lag) - ed1[i] \in FineLags
      BY <1>1, SaidLag
    <3> QED  BY <1>4, <2>1, <3>1, <3>2 DEF Backed1
  <2>2. CASE j # i
    <3>1. dc1'[j] = dc1[j] /\ d1'[j] = d1[j] /\ sum1'[j] = sum1[j]
      BY <1>1, <1>2, <1>3, <2>2
    <3> QED  BY <1>4, <3>1 DEF Backed, Backed1
  <2> QED  BY <2>1, <2>2
<1>6. ASSUME NEW j \in BP PROVE Backed2(j)'
  BY <1>4 DEF Backed, Backed2
<1> QED  BY <1>4, <1>5, <1>6 DEF Backed

LEMMA NotedSecondBacked ==
  ASSUME IInv, Backed, NEW i \in BP, ed2[i] \in Int, NEW frames,
         NoteSecond(i, ed2[i], frames), UNCHANGED <<inputs, ed1, ed2, first>>
  PROVE  Backed'
<1>1. PICK c \in 0 .. MaxConf, lag \in FineLags \cup {0} :
        /\ Says(frames, ed2[i], ed2[i] + lag, c)
        /\ d2' = [d2 EXCEPT ![i] = ed2[i] + lag]
        /\ dc2' = [dc2 EXCEPT ![i] = c]
  BY DEF NoteSecond
<1>2. sum2' = [sum2 EXCEPT ![i] = frames]  BY DEF NoteSecond
<1>3. DOMAIN d2 = BP /\ DOMAIN sum2 = BP /\ DOMAIN dc2 = BP
  BY DEF IInv, SecondParts
<1>4. BP' = BP /\ ed1' = ed1 /\ ed2' = ed2 /\ d1' = d1 /\ dc1' = dc1 /\ sum1' = sum1
  BY InputsStay DEF first
<1>5. ASSUME NEW j \in BP PROVE Backed2(j)'
  <2>1. CASE j = i
    <3>1. dc2'[i] = c /\ d2'[i] = ed2[i] + lag /\ sum2'[i] = frames
      BY <1>1, <1>2, <1>3
    <3>2. c \in 1 .. MaxConf => frames # <<>> /\ (ed2[i] + lag) - ed2[i] \in FineLags
      BY <1>1, SaidLag
    <3> QED  BY <1>4, <2>1, <3>1, <3>2 DEF Backed2
  <2>2. CASE j # i
    <3>1. dc2'[j] = dc2[j] /\ d2'[j] = d2[j] /\ sum2'[j] = sum2[j]
      BY <1>1, <1>2, <1>3, <2>2
    <3> QED  BY <1>4, <3>1 DEF Backed, Backed2
  <2> QED  BY <2>1, <2>2
<1>6. ASSUME NEW j \in BP PROVE Backed1(j)'
  BY <1>4 DEF Backed, Backed1
<1> QED  BY <1>4, <1>5, <1>6 DEF Backed

LEMMA BackedStays ==
  ASSUME Backed, UNCHANGED <<inputs, ed1, ed2, first, second>>
  PROVE  Backed'
BY InputsStay DEF Backed, Backed1, Backed2, first, second

LEMMA BackedKeeps == ASSUME IInv, Backed, [Next]_vars PROVE Backed'
<1>1. CASE Estimate
  <2>1. UNCHANGED <<inputs, first, second>> /\ pc = "estimate"  BY <1>1 DEF Estimate
  <2>2. \A i \in BP : dc1[i] \notin 1 .. MaxConf /\ dc2[i] \notin 1 .. MaxConf
    BY <2>1, SplitAssumption DEF IInv, FirstParts, SecondParts, FirstSteps, Unset
  <2> QED
    BY <2>1, <2>2, InputsStay DEF Backed, Backed1, Backed2, first, second
<1>2. CASE FirstFresh
  <2>1. Waiting1 \subseteq BP /\ BP \subseteq Nat /\ Waiting1 # {} /\ pc = "first"
    BY <1>2, PointsAre DEF IInv, Waiting1, FirstFresh
  <2>2. \E l \in Waiting1 : \A j \in Waiting1 : l <= j
    BY <2>1, SmallestExists
  <2>3. PICK i \in Waiting1 : AddFirst(i, ed1[i], StartOfFirst(ed1[i]), <<>>)
    BY <1>2, <2>2 DEF FirstFresh
  <2>4. i \in BP /\ ed1[i] \in Int  BY <2>1 DEF IInv, Estimated
  <2>5. \E frames : NoteFirst(i, ed1[i], frames)  BY <2>3 DEF AddFirst
  <2>6. UNCHANGED <<inputs, ed1, ed2, second>>  BY <1>2 DEF FirstFresh
  <2> QED  BY <2>4, <2>5, <2>6, NotedFirstBacked
<1>3. CASE FirstNext
  <2>1. /\ UNCHANGED <<inputs, ed1, ed2, second>> /\ bp + 1 \in BP
        /\ pc = "firstnext" /\ from \in Int
    BY <1>3, PointsAre DEF FirstNext, IInv, Estimated, Carried
  <2>2. CASE ed1[bp + 1] = from /\ dc1[bp + 1] = Unset
    <3>1. AddFirst(bp + 1, from, startr, h)  BY <1>3, <2>2 DEF FirstNext
    <3>2. \E frames : NoteFirst(bp + 1, ed1[bp + 1], frames)
      BY <2>2, <3>1 DEF AddFirst
    <3> QED  BY <2>1, <2>2, <3>2, NotedFirstBacked
  <2>3. CASE ~(ed1[bp + 1] = from /\ dc1[bp + 1] = Unset)
    <3>1. UNCHANGED first  BY <1>3, <2>3 DEF FirstNext
    <3> QED  BY <2>1, <3>1, BackedStays
  <2> QED  BY <2>2, <2>3
<1>4. CASE Convinced
  <2>1. /\ UNCHANGED <<inputs, ed1, ed2, first, d2, sum2>>
        /\ dc2' = [i \in BP |-> IF dc1[i] > conf THEN Unset ELSE 0]
    BY <1>4 DEF Convinced
  <2>2. \A i \in BP : dc2'[i] \notin 1 .. MaxConf
    BY <2>1, SplitAssumption DEF Unset
  <2> QED  BY <2>1, <2>2, InputsStay DEF Backed, Backed1, Backed2, first
<1>5. CASE SecondFresh
  <2>1. /\ Waiting2 \subseteq BP /\ Waiting2 # {} /\ pc = "second"
        /\ BP = 0 .. N_BPs - 1 /\ N_BPs \in Nat \ {0}
    BY <1>5, PointsAre DEF IInv, Waiting2, SecondFresh
  <2>2. \E l \in Waiting2 : \A j \in Waiting2 : l >= j
    BY <2>1, LargestExists
  <2>3. PICK i \in Waiting2 : AddSecond(i, ed2[i], StartOfSecond(ed2[i]), <<>>)
    BY <1>5, <2>2 DEF SecondFresh
  <2>4. i \in BP /\ ed2[i] \in Int  BY <2>1 DEF IInv, Estimated
  <2>5. \E frames : NoteSecond(i, ed2[i], frames)  BY <2>3 DEF AddSecond
  <2>6. UNCHANGED <<inputs, ed1, ed2, first>>  BY <1>5 DEF SecondFresh
  <2> QED  BY <2>4, <2>5, <2>6, NotedSecondBacked
<1>6. CASE SecondNext
  <2>1. /\ UNCHANGED <<inputs, ed1, ed2, first>> /\ bp - 1 \in BP
        /\ pc = "secondnext" /\ from \in Int
    BY <1>6, PointsAre DEF SecondNext, IInv, Estimated, Carried
  <2>2. CASE ed2[bp - 1] = from /\ dc2[bp - 1] = Unset
    <3>1. AddSecond(bp - 1, from, startr, h)  BY <1>6, <2>2 DEF SecondNext
    <3>2. \E frames : NoteSecond(bp - 1, ed2[bp - 1], frames)
      BY <2>2, <3>1 DEF AddSecond
    <3> QED  BY <2>1, <2>2, <3>2, NotedSecondBacked
  <2>3. CASE ~(ed2[bp - 1] = from /\ dc2[bp - 1] = Unset)
    <3>1. UNCHANGED second  BY <1>6, <2>3 DEF SecondNext
    <3> QED  BY <2>1, <3>1, BackedStays
  <2> QED  BY <2>2, <2>3
<1>7. CASE FirstRound \/ SecondRound \/ SecondDone \/ Choose
  <2>1. UNCHANGED <<inputs, ed1, ed2, first, second>>
    BY <1>7 DEF FirstRound, SecondRound, SecondDone, Choose
  <2> QED  BY <2>1, BackedStays
<1>8. CASE UNCHANGED vars
  BY <1>8, BackedStays DEF vars
<1> QED
  BY <1>1, <1>2, <1>3, <1>4, <1>5, <1>6, <1>7, <1>8 DEF Next, Step, Done

\* There is a frame only where the search for one does not end at once.
LEMMA FrameInFront ==
  ASSUME Placed, NEW i \in BP, NEW e \in Int,
         Ahead(StartOfFirst(e), e, i) # <<>>
  PROVE  HasFramesBefore(utt, degraded, bps[i], e)
<1> DEFINE r    == StartOfFirst(e)
           top  == bps[i] * Downsample
           last == Lesser(top, degraded - e) - Align_Nfft
           n    == Greater(0, (last - r) \div Hop + 1)
<1>1. /\ top \in Int /\ degraded \in Int /\ Align_Nfft \in Int
      /\ Hop \in Nat \ {0} /\ r \in Int
  <2>1. bps[i] \in Int  BY PointsAre
  <2>2. /\ Downsample \in Nat /\ degraded \in Int /\ Align_Nfft \in Int
        /\ Hop \in Nat \ {0}
    BY Numbers
  <2>3. r \in Int  BY Starts
  <2>4. top \in Int  BY <2>1, <2>2
  <2> QED  BY <2>2, <2>3, <2>4
<1>2. Ahead(r, e, i) = [k \in 1 .. n |-> r + (k - 1) * Hop]
  BY DEF Ahead
<1>3. last \in Int /\ last <= top - Align_Nfft /\ last <= degraded - e - Align_Nfft
  BY <1>1 DEF Lesser
<1>4. r = Greater(utt.start * Downsample, -e)  BY DEF StartOfFirst
<1> HIDE DEF r, last, top
<1>5. last >= r
  <2> SUFFICES ASSUME last < r PROVE n = 0
    <3>1. n = 0 => Ahead(r, e, i) = <<>>
      <4> HIDE DEF n
      <4> QED  BY <1>2
    <3>2. Ahead(r, e, i) # <<>>  BY DEF r
    <3> QED  BY <1>1, <1>3, <3>1, <3>2
  <2>1. last - r \in Int /\ last - r < 0  BY <1>1, <1>3
  <2>2. PICK q \in Int : q = (last - r) \div Hop  BY <1>1, <2>1, QuotientRange
  <2>3. q * Hop <= last - r  BY <1>1, <2>1, <2>2, QuotientRange
  <2>4. q < 0
    <3> SUFFICES ASSUME 0 <= q PROVE FALSE  OBVIOUS
    <3>1. 0 * Hop <= q * Hop /\ q * Hop \in Int /\ 0 * Hop = 0
      BY <1>1, ProductKeepsOrder
    <3> QED  BY <2>1, <2>3, <3>1
  <2> QED  BY <2>2, <2>4 DEF Greater
<1>6. r + Align_Nfft <= top /\ r + e + Align_Nfft <= degraded
  BY <1>1, <1>3, <1>5
<1> QED  BY <1>4, <1>6 DEF HasFramesBefore, top

LEMMA FrameBehind ==
  ASSUME Placed, NEW i \in BP, NEW e \in Int,
         Behind(StartOfSecond(e), e, i) # <<>>
  PROVE  HasFramesBehind(utt, degraded, bps[i], e)
<1> DEFINE r      == StartOfSecond(e)
           bottom == bps[i] * Downsample
           lowest == Greater(bottom, -e)
           n      == Greater(0, (r - lowest) \div Hop + 1)
<1>1. bottom \in Int /\ Hop \in Nat \ {0} /\ r \in Int
  <2>1. bps[i] \in Int  BY PointsAre
  <2>2. Downsample \in Nat /\ Hop \in Nat \ {0}  BY Numbers
  <2>3. r \in Int  BY Starts
  <2>4. bottom \in Int  BY <2>1, <2>2
  <2> QED  BY <2>2, <2>3, <2>4
<1>2. Behind(r, e, i) = [k \in 1 .. n |-> r - (k - 1) * Hop]
  BY DEF Behind
<1>3. lowest \in Int /\ lowest >= bottom /\ lowest >= -e
  BY <1>1 DEF Greater
<1>4. r = Lesser(utt.end * Downsample, degraded - e) - Align_Nfft
  BY DEF StartOfSecond
<1> HIDE DEF r, lowest, bottom
<1>5. r >= lowest
  <2> SUFFICES ASSUME r < lowest PROVE n = 0
    <3>1. n = 0 => Behind(r, e, i) = <<>>
      <4> HIDE DEF n
      <4> QED  BY <1>2
    <3>2. Behind(r, e, i) # <<>>  BY DEF r
    <3> QED  BY <1>1, <1>3, <3>1, <3>2
  <2>1. r - lowest \in Int /\ r - lowest < 0  BY <1>1, <1>3
  <2>2. PICK q \in Int : q = (r - lowest) \div Hop  BY <1>1, <2>1, QuotientRange
  <2>3. q * Hop <= r - lowest  BY <1>1, <2>1, <2>2, QuotientRange
  <2>4. q < 0
    <3> SUFFICES ASSUME 0 <= q PROVE FALSE  OBVIOUS
    <3>1. 0 * Hop <= q * Hop /\ q * Hop \in Int /\ 0 * Hop = 0
      BY <1>1, ProductKeepsOrder
    <3> QED  BY <2>1, <2>3, <3>1
  <2> QED  BY <2>2, <2>4 DEF Greater
<1>6. r >= bottom /\ r + e >= 0
  BY <1>1, <1>3, <1>5
<1> QED  BY <1>4, <1>6 DEF HasFramesBehind, bottom

\* What is answered is usable if it is trusted.
Kept == pc = "done" /\ Trusted(best) => Usable(utt, degraded, best)

LEMMA AnswerIsUsable == ASSUME IInv, Backed PROVE Kept
<1> SUFFICES ASSUME pc = "done", Trusted(best)
             PROVE  Usable(utt, degraded, best)
  BY DEF Kept
<1>1. Placed /\ conf \in Nat /\ MaxConf \in Nat  BY Numbers DEF IInv
<1>2. best # NoAnswer  BY <1>1 DEF Trusted, NoAnswer
<1>3. PICK i \in BP : best = Answer(i) /\ Candidate(i)
  BY <1>2 DEF IInv, Chosen, BestBelow
<1>4. dc1[i] > conf /\ dc2[i] > conf
      /\ (d2[i] - d1[i] >= Downsample \/ d1[i] - d2[i] >= Downsample)
  BY <1>3 DEF Candidate
<1>5. dc1[i] \in 1 .. MaxConf /\ dc2[i] \in 1 .. MaxConf
  <2>1. dc1[i] \in Confidence /\ dc2[i] \in Confidence
    BY DEF IInv, FirstParts, SecondParts, LastSteps
  <2> QED  BY <1>1, <1>4, <2>1 DEF Confidence, Unset
<1>6. ed1[i] \in Int /\ ed2[i] \in Int
  BY DEF IInv, Estimated
<1>7. Own1(i) /\ Own2(i)
  <2>1. d2[i] \in Int /\ dc1[i] # Unset
    BY <1>4, <1>5, TrustedIsWhole DEF LastSteps, Unset
  <2> QED  BY <2>1 DEF IInv, FirstParts, SecondParts
<1>8. /\ sum1[i] # <<>> /\ d1[i] - ed1[i] \in FineLags
      /\ sum2[i] # <<>> /\ d2[i] - ed2[i] \in FineLags
  BY <1>5 DEF Backed, Backed1, Backed2
<1>9. HasFramesBefore(utt, degraded, bps[i], ed1[i])
  BY <1>1, <1>6, <1>7, <1>8, FrameInFront DEF Own1
<1>10. HasFramesBehind(utt, degraded, bps[i], ed2[i])
  BY <1>1, <1>6, <1>7, <1>8, FrameBehind DEF Own2
<1>11. d1[i] - ed1[i] \in Fine /\ d2[i] - ed2[i] \in Fine
  BY <1>8, SplitAssumption
<1>12. bps[i] \in utt.speechStart + Pad .. utt.speechEnd - Pad
  BY <1>1, PointsAre
<1>13. /\ best.bp = bps[i] /\ best.ed1 = ed1[i] /\ best.ed2 = ed2[i]
       /\ best.d1 = d1[i] /\ best.d2 = d2[i]
  BY <1>3 DEF Answer
<1> QED  BY <1>4, <1>9, <1>10, <1>11, <1>12, <1>13 DEF Usable

LEMMA SameContract ==
  ASSUME NEW u, NEW d, NEW a
  PROVE  Call!Usable(u, d, a) <=> Usable(u, d, a)
BY DEF Call!Usable, Usable, Call!HasFramesBefore, HasFramesBefore,
       Call!HasFramesBehind, HasFramesBehind, Call!Fine, Fine, Call!Greater,
       Greater, Call!Lesser, Lesser

\* One call of split_align (pesqdsp.c:646) is one step of SplitCall: whatever the
\* histograms say and in whichever order the break points are looked at, an
\* answer that utterance_split trusts (pesqmod.c:338) breaks the utterance inside
\* its speech, with frames on either side, at two delays a window apart, each of
\* them within half a frame of what crude_align estimated for that part.
THEOREM ContractCorrect == Spec => KeepsContract
<1>1. Init => Call!Init
  BY DEF Init, Call!Init
<1>2. IInv /\ Kept' /\ [Next]_vars => [Call!Return]_(Call!vars)
  <2> SUFFICES ASSUME IInv, Kept', [Next]_vars
               PROVE  [Call!Return]_(Call!vars)
    OBVIOUS
  <2>1. CASE Step
    <3>1. pc # "done" /\ UNCHANGED <<utt, degraded, conf>>
      BY <2>1 DEF Step, Estimate, FirstFresh, FirstNext, FirstRound, Convinced,
                  SecondFresh, SecondNext, SecondRound, SecondDone, Choose, inputs
    <3>2. CASE pc' # "done"
      BY <3>1, <3>2 DEF Call!vars
    <3>3. CASE pc' = "done"
      <4>2. Trusted(best)' => Usable(utt, degraded, best)'
        BY <3>3 DEF Kept
      <4>3. Call!Trusted(best') => Call!Usable(utt, degraded, best')
        BY <3>1, <4>2, SameContract DEF Trusted, Call!Trusted, Usable,
           HasFramesBefore, HasFramesBehind
      <4> QED  BY <3>1, <3>3, <4>3 DEF Call!Return
    <3> QED  BY <3>2, <3>3
  <2>2. CASE UNCHANGED vars
    BY <2>2 DEF vars, inputs, Call!vars
  <2> QED  BY <2>1, <2>2 DEF Next, Done
<1>3. Init => Backed
  BY SplitAssumption DEF Init, Backed, Backed1, Backed2, Unset, BP
<1>4. IInv /\ Backed /\ [Next]_vars => Backed'  BY BackedKeeps
<1>5. IInv /\ Backed => Kept  BY AnswerIsUsable
<1> QED
  BY <1>1, <1>2, <1>3, <1>4, <1>5, Inductive, PTL
  DEF Spec, KeepsContract, Call!Spec

-----------------------------------------------------------------------------
(* The steps that are left. *)

\* An upper bound of the steps that are left: a round of either loop looks at the
\* break points once and takes one of those that wait at least.
StepsLeft ==
  LET n      == N_BPs
      round  == n + 2
      choice == n + 1
      rounds == n * round + choice + 1
  IN CASE pc = "estimate"   -> n - bp + n * round + rounds
       [] pc = "first"      -> Cardinality(Waiting1) * round + rounds
       [] pc = "firstnext"  -> Cardinality(Waiting1) * round + (n - bp) + rounds
       [] pc = "second"     -> Cardinality(Waiting2) * round + choice
       [] pc = "secondnext" -> Cardinality(Waiting2) * round + (bp + 1) + choice
       [] pc = "choose"     -> n - bp
       [] OTHER             -> 0

\* Every step uses up one of them at least: the two loops that go on until no
\* break point is left never come back to where they were, and split_align takes
\* a number of steps that is quadratic in its break points.
UsesUpSteps == [][StepsLeft' \in 0 .. StepsLeft - 1]_vars

\* StepsLeft of the values it looks at: n break points, and what the rounds of
\* those that wait and of all of them take.
Left(n, p, b, some, all) ==
  CASE p = "estimate"   -> n - b + all + (all + (n + 1) + 1)
    [] p = "first"      -> some + (all + (n + 1) + 1)
    [] p = "firstnext"  -> some + (n - b) + (all + (n + 1) + 1)
    [] p = "second"     -> some + (n + 1)
    [] p = "secondnext" -> some + (b + 1) + (n + 1)
    [] p = "choose"     -> n - b
    [] OTHER            -> 0

Shrinks(a, b) == b \in 0 .. a - 1

\* Those that wait in the loop that runs.
Waiting == IF pc \in FirstSteps THEN Waiting1 ELSE Waiting2

LEMMA LeftIs ==
  StepsLeft = Left(N_BPs, pc, bp, Cardinality(Waiting) * (N_BPs + 2),
                   N_BPs * (N_BPs + 2))
<1>1. CASE pc \in FirstSteps
  BY <1>1 DEF StepsLeft, Left, Waiting, FirstSteps
<1>2. CASE pc \notin FirstSteps
  BY <1>2 DEF StepsLeft, Left, Waiting, FirstSteps
<1> QED  BY <1>1, <1>2

LEMMA LeftWillBe ==
  ASSUME inputs' = inputs
  PROVE  StepsLeft' = Left(N_BPs, pc', bp', Cardinality(Waiting') * (N_BPs + 2),
                           N_BPs * (N_BPs + 2))
<1>1. StepsLeft' = Left(N_BPs', pc', bp', Cardinality(Waiting') * (N_BPs' + 2),
                         N_BPs' * (N_BPs' + 2))
  <2>1. CASE pc' \in FirstSteps
    BY <2>1 DEF StepsLeft, Left, Waiting, FirstSteps
  <2>2. CASE pc' \notin FirstSteps
    BY <2>2 DEF StepsLeft, Left, Waiting, FirstSteps
  <2> QED  BY <2>1, <2>2
<1>2. N_BPs' = N_BPs  BY DEF N_BPs, BP, inputs
<1> QED  BY <1>1, <1>2

\* A round for each of those that wait.
LEMMA Rounds ==
  ASSUME NEW n \in Nat \ {0}, NEW k \in 0 .. n, NEW l \in 0 .. k
  PROVE  /\ n * (n + 2) \in Nat /\ k * (n + 2) \in Nat /\ l * (n + 2) \in Nat
         /\ l * (n + 2) <= k * (n + 2) /\ k * (n + 2) <= n * (n + 2)
         /\ l < k => l * (n + 2) + n + 2 <= k * (n + 2)
<1>1. PICK r \in Nat : r = n + 2  OBVIOUS
<1>2. n * r \in Nat /\ k * r \in Nat /\ l * r \in Nat  BY <1>1
<1>3. l * r <= k * r /\ k * r <= n * r  BY <1>1, ProductKeepsOrder
<1>4. l < k => l * r + r <= k * r
  <2>1. l + 1 <= k => (l + 1) * r <= k * r  BY <1>1, ProductKeepsOrder
  <2>2. (l + 1) * r = l * r + r  BY <1>1
  <2> QED  BY <2>1, <2>2
<1>5. l < k => l * r + n + 2 <= k * r  BY <1>1, <1>2, <1>4
<1> QED  BY <1>1, <1>2, <1>3, <1>5

LEMMA WaitingIsBounded ==
  ASSUME Placed, NEW S \in SUBSET BP, NEW T \in SUBSET S
  PROVE  /\ Cardinality(S) \in 0 .. N_BPs /\ Cardinality(T) \in 0 .. Cardinality(S)
         /\ S # T => Cardinality(T) < Cardinality(S)
<1>1. N_BPs \in Nat \ {0} /\ BP = 0 .. N_BPs - 1  BY PointsAre
<1>2. IsFiniteSet(BP) /\ Cardinality(BP) = N_BPs
  BY <1>1, FS_Interval DEF N_BPs
<1>3. IsFiniteSet(S) /\ Cardinality(S) <= N_BPs  BY <1>2, FS_Subset
<1>4. /\ IsFiniteSet(T) /\ Cardinality(T) <= Cardinality(S)
      /\ Cardinality(S) = Cardinality(T) => S = T
  BY <1>3, FS_Subset
<1>5. Cardinality(S) \in Nat /\ Cardinality(T) \in Nat
  BY <1>3, <1>4, FS_CardinalityType
<1> QED  BY <1>1, <1>3, <1>4, <1>5


\* What the rounds take, as numbers.
LEMMA RoundsAre ==
  ASSUME Placed, NEW S \in SUBSET BP, NEW T \in SUBSET S
  PROVE  \E n \in Nat \ {0} : \E all \in Nat : \E some \in 0 .. all :
         \E less \in 0 .. some :
           /\ n = N_BPs /\ BP = 0 .. n - 1 /\ all = N_BPs * (N_BPs + 2)
           /\ some = Cardinality(S) * (N_BPs + 2)
           /\ less = Cardinality(T) * (N_BPs + 2)
           /\ S # T => less + n + 2 <= some
<1>1. PICK n \in Nat \ {0} : n = N_BPs /\ BP = 0 .. n - 1  BY PointsAre
<1>2. PICK k \in 0 .. n : k = Cardinality(S)
  BY <1>1, WaitingIsBounded
<1>3. PICK l \in 0 .. k : l = Cardinality(T) /\ (S # T => l < k)
  BY <1>2, WaitingIsBounded
<1>4. /\ n * (n + 2) \in Nat /\ k * (n + 2) \in Nat /\ l * (n + 2) \in Nat
      /\ l * (n + 2) <= k * (n + 2) /\ k * (n + 2) <= n * (n + 2)
      /\ l < k => l * (n + 2) + n + 2 <= k * (n + 2)
  BY Rounds
<1>5. PICK all \in Nat : all = n * (n + 2)  BY <1>4
<1>6. PICK some \in Nat : some = k * (n + 2)  BY <1>4
<1>7. PICK less \in Nat : less = l * (n + 2)  BY <1>4
<1>8. /\ some \in 0 .. all /\ less \in 0 .. some
      /\ S # T => less + n + 2 <= some
  BY <1>3, <1>4, <1>5, <1>6, <1>7
<1> QED  BY <1>1, <1>2, <1>3, <1>5, <1>6, <1>7, <1>8

LEMMA EstimateShrinks == ASSUME IInv, Estimate PROVE Shrinks(StepsLeft, StepsLeft')
<1>1. /\ Placed /\ bp \in BP
      /\ Waiting' \in SUBSET BP /\ Waiting' \in SUBSET Waiting'
  BY InputsStay DEF IInv, Estimated, Estimate, Waiting, Waiting1, Waiting2
<1>2. PICK n \in Nat \ {0}, all \in Nat :
        \E some \in 0 .. all :
          /\ n = N_BPs /\ BP = 0 .. n - 1 /\ all = N_BPs * (N_BPs + 2)
          /\ some = Cardinality(Waiting') * (N_BPs + 2)
  BY <1>1, RoundsAre
<1>3. PICK some \in 0 .. all : some = Cardinality(Waiting') * (N_BPs + 2)
  BY <1>2
<1>4. PICK b \in 0 .. n - 1 : b = bp  BY <1>1, <1>2
<1>5. /\ pc = "estimate" /\ inputs' = inputs
      /\ \/ pc' = "estimate" /\ bp' = b + 1 /\ b + 1 \in 0 .. n - 1
         \/ pc' = "first"
  BY <1>1, <1>2, <1>4 DEF Estimate
<1>6. /\ StepsLeft = Left(n, "estimate", b, Cardinality(Waiting) * (N_BPs + 2), all)
      /\ StepsLeft' = Left(n, pc', bp', some, all)
  BY <1>2, <1>3, <1>4, <1>5, LeftIs, LeftWillBe
<1>7. CASE pc' = "estimate"
  BY <1>5, <1>6, <1>7 DEF Left, Shrinks
<1>8. CASE pc' = "first"
  BY <1>6, <1>8 DEF Left, Shrinks
<1> QED  BY <1>5, <1>7, <1>8

\* One that was noted waits no longer, and the others as before.
LEMMA NotedFirst ==
  ASSUME IInv, NEW i \in BP, NEW e, NEW f, NoteFirst(i, e, f), inputs' = inputs,
         dc1[i] = Unset
  PROVE  i \in Waiting1 /\ Waiting1' \in SUBSET (Waiting1 \ {i})
<1>1. PICK c \in 0 .. MaxConf : dc1' = [dc1 EXCEPT ![i] = c]
  BY DEF NoteFirst
<1>2. dc1 \in [BP -> Confidence] /\ BP' = BP  BY InputsStay DEF IInv, FirstParts
<1>3. dc1'[i] # Unset  BY <1>1, <1>2, SplitAssumption DEF Unset
<1> QED  BY <1>1, <1>2, <1>3 DEF Waiting1

LEMMA NotedSecond ==
  ASSUME IInv, NEW i \in BP, NEW e, NEW f, NoteSecond(i, e, f), inputs' = inputs,
         dc2[i] = Unset
  PROVE  i \in Waiting2 /\ Waiting2' \in SUBSET (Waiting2 \ {i})
<1>1. PICK c \in 0 .. MaxConf : dc2' = [dc2 EXCEPT ![i] = c]
  BY DEF NoteSecond
<1>2. DOMAIN dc2 = BP /\ BP' = BP  BY InputsStay DEF IInv, SecondParts
<1>3. dc2'[i] # Unset  BY <1>1, <1>2, SplitAssumption DEF Unset
<1> QED  BY <1>1, <1>2, <1>3 DEF Waiting2

\* A round begins: one waits no longer.
LEMMA FreshShrinks ==
  ASSUME IInv, FirstFresh \/ SecondFresh PROVE Shrinks(StepsLeft, StepsLeft')
<1>1. Placed /\ BP = 0 .. N_BPs - 1 /\ N_BPs \in Nat \ {0}  BY PointsAre DEF IInv
<1>2. inputs' = inputs  BY DEF FirstFresh, SecondFresh
<1>3. /\ Waiting \in SUBSET BP /\ Waiting' \in SUBSET Waiting /\ Waiting # Waiting'
      /\ bp' \in BP
      /\ \/ pc = "first" /\ pc' = "firstnext"
         \/ pc = "second" /\ pc' = "secondnext"
  <2>1. CASE FirstFresh
    <3>1. \E l \in Waiting1 : \A j \in Waiting1 : l <= j
      <4>1. Waiting1 \subseteq Nat  BY <1>1 DEF Waiting1
      <4> QED  BY <2>1, <4>1, SmallestExists DEF FirstFresh
    <3>2. PICK i \in Waiting1 :
            bp' = i /\ AddFirst(i, ed1[i], StartOfFirst(ed1[i]), <<>>)
      BY <2>1, <3>1 DEF FirstFresh
    <3>3. i \in BP /\ dc1[i] = Unset  BY DEF Waiting1
    <3>4. Waiting1' \in SUBSET (Waiting1 \ {i})
      BY <1>2, <3>2, <3>3, NotedFirst DEF AddFirst
    <3>5. Waiting = Waiting1 /\ Waiting' = Waiting1' /\ Waiting1 \subseteq BP
      BY <2>1 DEF FirstFresh, Waiting, FirstSteps, Waiting1
    <3> QED  BY <2>1, <3>2, <3>3, <3>4, <3>5 DEF FirstFresh
  <2>2. CASE SecondFresh
    <3>1. \E l \in Waiting2 : \A j \in Waiting2 : l >= j
      <4>1. Waiting2 \subseteq 0 .. N_BPs - 1  BY <1>1 DEF Waiting2
      <4> QED  BY <1>1, <2>2, <4>1, LargestExists DEF SecondFresh
    <3>2. PICK i \in Waiting2 :
            bp' = i /\ AddSecond(i, ed2[i], StartOfSecond(ed2[i]), <<>>)
      BY <2>2, <3>1 DEF SecondFresh
    <3>3. i \in BP /\ dc2[i] = Unset  BY DEF Waiting2
    <3>4. Waiting2' \in SUBSET (Waiting2 \ {i})
      BY <1>2, <3>2, <3>3, NotedSecond DEF AddSecond
    <3>5. Waiting = Waiting2 /\ Waiting' = Waiting2' /\ Waiting2 \subseteq BP
      BY <2>2 DEF SecondFresh, Waiting, FirstSteps, Waiting2
    <3> QED  BY <2>2, <3>2, <3>3, <3>4, <3>5 DEF SecondFresh
  <2> QED  BY <2>1, <2>2
<1>4. PICK n \in Nat \ {0}, all \in Nat :
        \E some \in 0 .. all : \E less \in 0 .. some :
          /\ n = N_BPs /\ BP = 0 .. n - 1 /\ all = N_BPs * (N_BPs + 2)
          /\ some = Cardinality(Waiting) * (N_BPs + 2)
          /\ less = Cardinality(Waiting') * (N_BPs + 2)
          /\ less + n + 2 <= some
  <2> DEFINE S == Waiting  T == Waiting'
  <2>1. Placed /\ S \in SUBSET BP /\ T \in SUBSET S /\ S # T  BY <1>1, <1>3
  <2> HIDE DEF S, T
  <2>2. \E n \in Nat \ {0} : \E all \in Nat : \E some \in 0 .. all :
        \E less \in 0 .. some :
          /\ n = N_BPs /\ BP = 0 .. n - 1 /\ all = N_BPs * (N_BPs + 2)
          /\ some = Cardinality(S) * (N_BPs + 2)
          /\ less = Cardinality(T) * (N_BPs + 2)
          /\ S # T => less + n + 2 <= some
    BY <2>1, RoundsAre
  <2> QED  BY <2>1, <2>2 DEF S, T
<1>5. PICK some \in 0 .. all : \E less \in 0 .. some :
        /\ some = Cardinality(Waiting) * (N_BPs + 2)
        /\ less = Cardinality(Waiting') * (N_BPs + 2)
        /\ less + n + 2 <= some
  BY <1>4
<1>6. PICK less \in 0 .. some :
        less = Cardinality(Waiting') * (N_BPs + 2) /\ less + n + 2 <= some
  BY <1>5
<1>7. PICK b \in 0 .. n - 1 : b = bp'  BY <1>3, <1>4
<1>8. /\ StepsLeft = Left(n, pc, bp, some, all)
      /\ StepsLeft' = Left(n, pc', b, less, all)
  BY <1>2, <1>4, <1>5, <1>6, <1>7, LeftIs, LeftWillBe
<1>9. CASE pc = "first" /\ pc' = "firstnext"
  BY <1>6, <1>7, <1>8, <1>9 DEF Left, Shrinks
<1>10. CASE pc = "second" /\ pc' = "secondnext"
  BY <1>6, <1>7, <1>8, <1>10 DEF Left, Shrinks
<1> QED  BY <1>3, <1>9, <1>10

\* A round goes on or ends.
LEMMA RoundShrinks ==
  ASSUME IInv, FirstNext \/ SecondNext \/ FirstRound \/ SecondRound
  PROVE  Shrinks(StepsLeft, StepsLeft')
<1>1. Placed /\ BP = 0 .. N_BPs - 1 /\ N_BPs \in Nat \ {0} /\ bp \in BP
  BY PointsAre DEF IInv, Estimated
<1>2. inputs' = inputs  BY DEF FirstNext, SecondNext, FirstRound, SecondRound
<1>3. /\ Waiting \in SUBSET BP /\ Waiting' \in SUBSET Waiting
      /\ \/ pc = "firstnext" /\ pc' = "firstnext" /\ bp' = bp + 1 /\ bp + 1 \in BP
         \/ pc = "secondnext" /\ pc' = "secondnext" /\ bp' = bp - 1 /\ bp - 1 \in BP
         \/ pc = "firstnext" /\ pc' = "first"
         \/ pc = "secondnext" /\ pc' = "second"
  <2>1. CASE FirstNext
    <3>1. bp + 1 \in BP  BY <1>1, <2>1 DEF FirstNext
    <3>2. Waiting1' \in SUBSET Waiting1
      <4>1. CASE ed1[bp + 1] = from /\ dc1[bp + 1] = Unset
        <5>1. AddFirst(bp + 1, from, startr, h)  BY <2>1, <4>1 DEF FirstNext
        <5>2. Waiting1' \in SUBSET (Waiting1 \ {bp + 1})
          BY <1>2, <3>1, <4>1, <5>1, NotedFirst DEF AddFirst
        <5> QED  BY <5>2
      <4>2. CASE ~(ed1[bp + 1] = from /\ dc1[bp + 1] = Unset)
        <5>1. dc1' = dc1 /\ BP' = BP
          BY <1>2, <2>1, <4>2, InputsStay DEF FirstNext, first
        <5> QED  BY <5>1 DEF Waiting1
      <4> QED  BY <4>1, <4>2
    <3>3. Waiting = Waiting1 /\ Waiting' = Waiting1' /\ Waiting1 \subseteq BP
      BY <2>1 DEF FirstNext, Waiting, FirstSteps, Waiting1
    <3> QED  BY <2>1, <3>1, <3>2, <3>3 DEF FirstNext
  <2>2. CASE SecondNext
    <3>1. bp - 1 \in BP  BY <1>1, <2>2 DEF SecondNext
    <3>2. Waiting2' \in SUBSET Waiting2
      <4>1. CASE ed2[bp - 1] = from /\ dc2[bp - 1] = Unset
        <5>1. AddSecond(bp - 1, from, startr, h)  BY <2>2, <4>1 DEF SecondNext
        <5>2. Waiting2' \in SUBSET (Waiting2 \ {bp - 1})
          BY <1>2, <3>1, <4>1, <5>1, NotedSecond DEF AddSecond
        <5> QED  BY <5>2
      <4>2. CASE ~(ed2[bp - 1] = from /\ dc2[bp - 1] = Unset)
        <5>1. dc2' = dc2 /\ BP' = BP
          BY <1>2, <2>2, <4>2, InputsStay DEF SecondNext, second
        <5> QED  BY <5>1 DEF Waiting2
      <4> QED  BY <4>1, <4>2
    <3>3. Waiting = Waiting2 /\ Waiting' = Waiting2' /\ Waiting2 \subseteq BP
      BY <2>2 DEF SecondNext, Waiting, FirstSteps, Waiting2
    <3> QED  BY <2>2, <3>1, <3>2, <3>3 DEF SecondNext
  <2>3. CASE FirstRound \/ SecondRound
    <3>1. dc1' = dc1 /\ dc2' = dc2 /\ BP' = BP
      BY <1>2, <2>3, InputsStay DEF FirstRound, SecondRound, first, second
    <3>2. Waiting1' = Waiting1 /\ Waiting2' = Waiting2
      BY <3>1 DEF Waiting1, Waiting2
    <3>3. Waiting' = Waiting /\ Waiting \in SUBSET BP
      BY <2>3, <3>2
      DEF FirstRound, SecondRound, Waiting, FirstSteps, Waiting1, Waiting2
    <3> QED  BY <2>3, <3>3 DEF FirstRound, SecondRound
  <2> QED  BY <2>1, <2>2, <2>3
<1>4. PICK n \in Nat \ {0}, all \in Nat :
        \E some \in 0 .. all : \E less \in 0 .. some :
          /\ n = N_BPs /\ BP = 0 .. n - 1 /\ all = N_BPs * (N_BPs + 2)
          /\ some = Cardinality(Waiting) * (N_BPs + 2)
          /\ less = Cardinality(Waiting') * (N_BPs + 2)
  <2> DEFINE S == Waiting  T == Waiting'
  <2>1. Placed /\ S \in SUBSET BP /\ T \in SUBSET S  BY <1>1, <1>3
  <2> HIDE DEF S, T
  <2>2. \E n \in Nat \ {0} : \E all \in Nat : \E some \in 0 .. all :
        \E less \in 0 .. some :
          /\ n = N_BPs /\ BP = 0 .. n - 1 /\ all = N_BPs * (N_BPs + 2)
          /\ some = Cardinality(S) * (N_BPs + 2)
          /\ less = Cardinality(T) * (N_BPs + 2)
          /\ S # T => less + n + 2 <= some
    BY <2>1, RoundsAre
  <2> QED  BY <2>1, <2>2 DEF S, T
<1>5. PICK some \in 0 .. all : \E less \in 0 .. some :
        /\ some = Cardinality(Waiting) * (N_BPs + 2)
        /\ less = Cardinality(Waiting') * (N_BPs + 2)
  BY <1>4
<1>6. PICK less \in 0 .. some : less = Cardinality(Waiting') * (N_BPs + 2)
  BY <1>5
<1>7. PICK b \in 0 .. n - 1 : b = bp  BY <1>1, <1>4
<1>8. /\ StepsLeft = Left(n, pc, b, some, all)
      /\ StepsLeft' = Left(n, pc', bp', less, all)
  BY <1>2, <1>4, <1>5, <1>6, <1>7, LeftIs, LeftWillBe
<1>9. CASE pc = "firstnext" /\ pc' = "firstnext" /\ bp' = b + 1 /\ b + 1 \in 0 .. n - 1
  BY <1>8, <1>9 DEF Left, Shrinks
<1>10. CASE pc = "secondnext" /\ pc' = "secondnext" /\ bp' = b - 1 /\ b - 1 \in 0 .. n - 1
  BY <1>8, <1>10 DEF Left, Shrinks
<1>11. CASE pc = "firstnext" /\ pc' = "first"
  BY <1>8, <1>11 DEF Left, Shrinks
<1>12. CASE pc = "secondnext" /\ pc' = "second"
  BY <1>8, <1>12 DEF Left, Shrinks
<1> QED  BY <1>3, <1>4, <1>7, <1>9, <1>10, <1>11, <1>12

\* A loop is left, or the choice goes on.
LEMMA LoopShrinks ==
  ASSUME IInv, Convinced \/ SecondDone \/ Choose
  PROVE  Shrinks(StepsLeft, StepsLeft')
<1>1. Placed /\ bp \in BP  BY DEF IInv, Estimated
<1>2. inputs' = inputs /\ BP' = BP
  BY InputsStay DEF Convinced, SecondDone, Choose
<1>3. /\ Waiting \in SUBSET BP /\ {} \in SUBSET Waiting
      /\ Waiting' \in SUBSET BP /\ {} \in SUBSET Waiting'
  BY <1>2 DEF Waiting, Waiting1, Waiting2
<1>4. PICK n \in Nat \ {0}, all \in Nat :
        \E some \in 0 .. all :
          /\ n = N_BPs /\ BP = 0 .. n - 1 /\ all = N_BPs * (N_BPs + 2)
          /\ some = Cardinality(Waiting) * (N_BPs + 2)
  BY <1>1, <1>3, RoundsAre
<1>5. PICK some \in 0 .. all : some = Cardinality(Waiting) * (N_BPs + 2)
  BY <1>4
<1>6. PICK next \in 0 .. all : next = Cardinality(Waiting') * (N_BPs + 2)
  BY <1>1, <1>3, <1>4, RoundsAre
<1>7. PICK b \in 0 .. n - 1 : b = bp  BY <1>1, <1>4
<1>8. /\ StepsLeft = Left(n, pc, b, some, all)
      /\ StepsLeft' = Left(n, pc', bp', next, all)
  BY <1>2, <1>4, <1>5, <1>6, <1>7, LeftIs, LeftWillBe
<1>9. CASE Convinced
  <2>1. pc = "first" /\ pc' = "second"  BY <1>9 DEF Convinced
  <2> QED  BY <1>8, <2>1 DEF Left, Shrinks
<1>10. CASE SecondDone
  <2>1. pc = "second" /\ pc' = "choose" /\ bp' = 0  BY <1>10 DEF SecondDone
  <2> QED  BY <1>8, <2>1 DEF Left, Shrinks
<1>11. CASE Choose
  <2>1. /\ pc = "choose"
        /\ \/ pc' = "choose" /\ bp' = b + 1 /\ b + 1 \in 0 .. n - 1
           \/ pc' = "done"
    BY <1>4, <1>7, <1>11 DEF Choose
  <2> QED  BY <1>8, <2>1 DEF Left, Shrinks
<1> QED  BY <1>9, <1>10, <1>11

LEMMA EveryStepCounts ==
  ASSUME IInv, Step
  PROVE  StepsLeft' \in 0 .. StepsLeft - 1
  BY EstimateShrinks, FreshShrinks, RoundShrinks, LoopShrinks DEF Step, Shrinks

\* UsesUpSteps: the loops that look for break points that wait
\* (pesqdsp.c:727-731, 885-889) end, and split_align with them, whatever the
\* estimates and the number of break points are: no step leaves as many steps as
\* there were before it.
THEOREM ProgressCorrect == Spec => UsesUpSteps
<1>1. ASSUME IInv, [Next]_vars PROVE [StepsLeft' \in 0 .. StepsLeft - 1]_vars
  BY <1>1, EveryStepCounts DEF Next, Done
<1> QED  BY Inductive, <1>1, PTL DEF Spec, UsesUpSteps
=============================================================================
