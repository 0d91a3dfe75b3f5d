--------------------------- MODULE UtterancesProofs ---------------------------
(***************************************************************************)
(* The safety properties of Utterances for every row of speech, every two  *)
(* signals, and every length of a window, a buffer and an utterance.       *)
(*                                                                         *)
(* The argument: the scan has counted the runs that end in front of its    *)
(* window, so that there is a slot for the next one; the second scan meets *)
(* the same runs.  The limits are facts about division towards zero, and   *)
(* the slot that split_align experiments in lies behind the live ones.     *)
(***************************************************************************)
EXTENDS Utterances, FiniteSetTheorems, WellFoundedInduction, TLAPS

Row == [Window -> BOOLEAN]

LEMMA Sizes ==
  /\ Downsample \in Nat /\ Downsample >= 1
  /\ SEARCHBUFFER \in Nat /\ SEARCHBUFFER >= 1
  /\ MINUTTLENGTH \in Nat /\ MINUTTLENGTH >= 1
  /\ MAXNUTTERANCES \in Nat /\ MAXNUTTERANCES >= 1
  /\ MinSplit \in Nat /\ Pad \in Nat /\ Align_Nfft \in Nat
  /\ RefWindows \in Nat /\ RefWindows > 2
  /\ LastWindow = RefWindows - 1 /\ LastWindow \in Nat
  /\ Window = 0 .. LastWindow /\ Slot = 0 .. MAXNUTTERANCES - 1
  BY UtteranceAssumption DEF Window, LastWindow, Slot

LEMMA SmallestExists ==
  ASSUME NEW S \in SUBSET Nat, S # {}
  PROVE  \E m \in S : \A i \in S : m <= i
<1> DEFINE R == {ss \in Nat \X Nat : ss[1] < ss[2]}
<1>1. \E m \in S : \A i \in S : <<i, m>> \notin R
  <2>1. IsWellFoundedOn(R, Nat)
    BY NatLessThanWellFounded DEF OpToRel
  <2> HIDE DEF R
  <2> QED  BY <2>1, WFMin
<1>2. PICK m \in S : \A i \in S : <<i, m>> \notin R  BY <1>1
<1>3. ASSUME NEW i \in S PROVE m <= i
  <2>1. i \in Nat /\ m \in Nat /\ <<i, m>> \notin R  BY <1>2
  <2> QED  BY <2>1
<1> QED  BY <1>3

-----------------------------------------------------------------------------
(* Runs. *)

LEMMA SpeechIs ==
  ASSUME NEW v \in Row, NEW i
  PROVE  Speech(v, i) <=> i \in Window /\ v[i]
  BY DEF Speech, Row

\* What is speech goes on up to an end.
LEMMA EndExists ==
  ASSUME NEW v \in Row, NEW s \in Window, v[s]
  PROVE  \E e \in s + 1 .. RefWindows :
           ~Speech(v, e) /\ \A i \in s .. e - 1 : v[i]
<1> DEFINE S == {k \in s + 1 .. RefWindows : ~Speech(v, k)}
<1>1. S \subseteq Nat /\ S # {}
  <2>1. RefWindows \in S  BY Sizes, SpeechIs
  <2>2. s \in Nat  BY Sizes
  <2> QED  BY <2>1, <2>2, Sizes
<1>2. PICK e \in S : \A k \in S : e <= k
  <2> HIDE DEF S
  <2> QED  BY <1>1, SmallestExists
<1>3. ASSUME NEW i \in s .. e - 1 PROVE v[i]
  <2>1. CASE i = s  BY <2>1
  <2>2. CASE i # s
    <3>1. i \in s + 1 .. RefWindows /\ ~(e <= i)
      BY <1>2, <2>2, Sizes
    <3>2. Speech(v, i)  BY <1>2, <3>1
    <3> QED  BY <3>2, SpeechIs
  <2> QED  BY <2>1, <2>2
<1> QED  BY <1>2, <1>3

\* And back to a start.
LEMMA StartExists ==
  ASSUME NEW v \in Row, NEW f \in Window, v[f], ~v[0]
  PROVE  \E s \in 1 .. f : ~v[s - 1] /\ \A i \in s .. f : v[i]
<1> DEFINE S == {k \in 0 .. f : ~v[f - k]}
<1>1. S \subseteq Nat /\ S # {}
  <2>1. f \in S  BY Sizes
  <2> QED  BY <2>1
<1>2. PICK m \in S : \A k \in S : m <= k
  <2> HIDE DEF S
  <2> QED  BY <1>1, SmallestExists
<1>3. m \in 1 .. f /\ ~v[f - m]
  <2>1. m # 0  BY <1>2, Sizes
  <2> QED  BY <1>2, <2>1, Sizes
<1>4. ASSUME NEW i \in f - m + 1 .. f PROVE v[i]
  <2>1. f - i \in 0 .. f /\ ~(m <= f - i)  BY <1>3, Sizes
  <2>2. v[f - (f - i)]  BY <1>2, <2>1
  <2>3. f - (f - i) = i  BY Sizes
  <2> QED  BY <2>2, <2>3
<1>5. f - m + 1 \in 1 .. f /\ (f - m + 1) - 1 = f - m  BY <1>3, Sizes
<1> QED  BY <1>3, <1>4, <1>5

LEMMA RunAt ==
  ASSUME NEW v \in Row, NEW s \in Window, NEW e \in s + 1 .. RefWindows,
         ~Speech(v, s - 1), ~Speech(v, e), \A i \in s .. e - 1 : v[i]
  PROVE  EndOf(v, s) = e /\ [start |-> s, end |-> e] \in Runs(v)
<1> DEFINE S == {i + 1 : i \in DOMAIN v}
           P(f) == f > s /\ ~Speech(v, f) /\ \A i \in s .. f - 1 : v[i]
<1>1. DOMAIN v = Window /\ s \in Int /\ e \in Int  BY Sizes DEF Row
<1>2. e \in S /\ P(e)
  <2>1. e - 1 \in Window /\ e = (e - 1) + 1  BY Sizes
  <2>2. e > s  BY Sizes
  <2> QED  BY <1>1, <2>1, <2>2
<1>3. ASSUME NEW f \in S, P(f) PROVE f = e
  <2>1. f \in s + 1 .. RefWindows  BY <1>1, <1>3, Sizes
  <2>2. ~(f < e)
    <3> SUFFICES ASSUME f < e PROVE FALSE  OBVIOUS
    <3>1. f \in s .. e - 1 /\ f \in Window  BY <2>1, Sizes
    <3> QED  BY <1>3, <3>1, SpeechIs
  <2>3. ~(e < f)
    <3> SUFFICES ASSUME e < f PROVE FALSE  OBVIOUS
    <3>1. e \in s .. f - 1 /\ e \in Window  BY <2>1, Sizes
    <3> QED  BY <1>3, <3>1, SpeechIs
  <2> QED  BY <1>1, <2>1, <2>2, <2>3
<1>4. EndOf(v, s) = CHOOSE f \in S : P(f)  BY DEF EndOf
<1> HIDE DEF S, P
<1>5. EndOf(v, s) = e  BY <1>2, <1>3, <1>4
<1>6. s \in Starts(v)
  <2>1. v[s]  BY Sizes
  <2> QED  BY <1>1, <2>1 DEF Starts
<1> QED  BY <1>5, <1>6 DEF Runs

LEMMA RunIs ==
  ASSUME NEW v \in Row, NEW r \in Runs(v)
  PROVE  \E s \in Nat, e \in Nat :
           /\ r.start = s /\ r.end = e /\ r = [start |-> s, end |-> e]
           /\ s \in Window /\ s < e /\ e <= RefWindows
           /\ ~Speech(v, s - 1) /\ ~Speech(v, e)
           /\ \A i \in s .. e - 1 : v[i]
<1>1. PICK s \in Starts(v) : r = [start |-> s, end |-> EndOf(v, s)]
  BY DEF Runs
<1>2. s \in Window /\ v[s] /\ ~Speech(v, s - 1)  BY DEF Starts, Row
<1>3. PICK e \in s + 1 .. RefWindows :
        ~Speech(v, e) /\ \A i \in s .. e - 1 : v[i]
  BY <1>2, EndExists
<1>4. EndOf(v, s) = e  BY <1>2, <1>3, RunAt
<1>5. s \in Nat /\ e \in Nat /\ s < e /\ e <= RefWindows  BY <1>2, <1>3, Sizes
<1> QED  BY <1>1, <1>2, <1>3, <1>4, <1>5
-----------------------------------------------------------------------------
(* Division towards zero. *)

LEMMA TimesGrows ==
  ASSUME NEW a \in Int, NEW b \in Int, NEW d \in Nat, a + 1 <= b
  PROVE  a * d + d <= b * d
<1>1. PICK m \in Nat : b = (a + 1) + m  OBVIOUS
<1>2. b * d = (a + 1) * d + m * d /\ m * d \in Nat  BY <1>1
<1>3. (a + 1) * d = a * d + d /\ a * d \in Int  OBVIOUS
<1> QED  BY <1>2, <1>3

LEMMA Quotient ==
  ASSUME NEW a \in Nat, NEW d \in Nat, d > 0
  PROVE  a \div d \in Nat /\ (a \div d) * d <= a /\ a < (a \div d) * d + d
<1> DEFINE q == a \div d
<1>1. q \in Nat /\ a % d \in 0 .. d - 1 /\ a = d * q + (a % d)
  OBVIOUS
<1>2. q * d = d * q /\ q * d \in Nat  BY <1>1
<1> HIDE DEF q
<1> QED  BY <1>1, <1>2 DEF q

LEMMA DivIs ==
  ASSUME NEW a \in Int, NEW d \in Nat, d > 0
  PROVE  \E q \in Int :
           /\ q = Div(a, d) /\ q * d \in Int
           /\ a >= 0 => q >= 0 /\ q * d <= a /\ a < q * d + d
           /\ a < 0 => q <= 0 /\ a <= q * d /\ q * d < a + d
<1>1. CASE a >= 0
  <2>1. a \in Nat /\ Div(a, d) = a \div d  BY <1>1 DEF Div
  <2> QED  BY <1>1, <2>1, Quotient
<1>2. CASE a < 0
  <2>1. -a \in Nat /\ Div(a, d) = -((-a) \div d)  BY <1>2 DEF Div
  <2>2. PICK q \in Nat : q = (-a) \div d /\ q * d <= -a /\ -a < q * d + d
    BY <2>1, Quotient
  <2>3. (-q) * d = -(q * d) /\ q * d \in Nat  OBVIOUS
  <2> WITNESS -q \in Int
  <2> QED  BY <1>2, <2>1, <2>2, <2>3
<1> QED  BY <1>1, <1>2

\* Rounded up, a sample is not behind the start of its window.
LEMMA DivUp ==
  ASSUME NEW x \in Int, NEW d \in Nat, d > 0
  PROVE  \E q \in Int :
           /\ q = Div(d - 1 + x, d) /\ q * d \in Int /\ q * d >= x
           /\ \A k \in Nat : k * d <= x => k <= q
<1>1. PICK a \in Int : a = d - 1 + x  OBVIOUS
<1>2. PICK q \in Int :
        /\ q = Div(a, d) /\ q * d \in Int
        /\ a >= 0 => q >= 0 /\ q * d <= a /\ a < q * d + d
        /\ a < 0 => q <= 0 /\ a <= q * d /\ q * d < a + d
  BY DivIs
<1>3. q * d >= x  BY <1>1, <1>2
<1>4. ASSUME NEW k \in Nat, k * d <= x PROVE k <= q
  <2> SUFFICES ASSUME q + 1 <= k PROVE FALSE  OBVIOUS
  <2>1. q * d + d <= k * d  BY TimesGrows
  <2>2. a < q * d + d  BY <1>2
  <2>3. x <= a  BY <1>1
  <2>4. CASE a >= 0
    <3>1. k * d \in Nat  OBVIOUS
    <3>2. a < k * d  BY <1>2, <2>1, <2>4, <3>1
    <3> QED  BY <1>4, <2>3, <3>1, <3>2
  <2>5. CASE a < 0
    <3>1. k * d \in Nat  OBVIOUS
    <3> QED  BY <1>4, <2>3, <2>5, <3>1
  <2> QED  BY <2>4, <2>5
<1> QED  BY <1>1, <1>2, <1>3, <1>4

\* Rounded down, a sample in front of window k is not behind it.
LEMMA DivDown ==
  ASSUME NEW x \in Int, NEW d \in Nat, d > 0, NEW k \in Nat, x <= k * d
  PROVE  Div(x, d) <= k
<1>1. PICK q \in Int :
        /\ q = Div(x, d) /\ q * d \in Int
        /\ x >= 0 => q >= 0 /\ q * d <= x /\ x < q * d + d
        /\ x < 0 => q <= 0 /\ x <= q * d /\ q * d < x + d
  BY DivIs
<1>2. CASE x < 0  BY <1>1, <1>2
<1>3. CASE x >= 0
  <2> SUFFICES ASSUME k + 1 <= q PROVE FALSE  BY <1>1
  <2>1. k * d + d <= q * d /\ k * d \in Nat  BY TimesGrows
  <2> QED  BY <1>1, <1>3, <2>1
<1> QED  BY <1>2, <1>3

\* The middle of two numbers lies between them.
LEMMA MiddleIs ==
  ASSUME NEW a \in Int, NEW b \in Int
  PROVE  \E q \in Int : q = Div(a + b, 2) /\ (a <= b => a <= q /\ q <= b)
<1>1. PICK c \in Int : c = a + b  OBVIOUS
<1>2. PICK d \in Nat : d = 2  OBVIOUS
<1>3. d > 0  BY <1>2
<1>4. PICK q \in Int :
        /\ q = Div(c, d) /\ q * d \in Int
        /\ c >= 0 => q >= 0 /\ q * d <= c /\ c < q * d + d
        /\ c < 0 => q <= 0 /\ c <= q * d /\ q * d < c + d
  BY <1>3, DivIs
<1> QED  BY <1>1, <1>2, <1>4

-----------------------------------------------------------------------------
(* The limits. *)

\* Where neighbours with the delays c and d meet, who would meet at window m.
MeetEnd(m, c, d) ==
  LET x == Div(InDegraded(m, d) + InDegraded(m, c), 2)
  IN IF InDegraded(m, d) < InDegraded(m, c) THEN Div(x - c, Downsample) ELSE m
MeetStart(m, c, d) ==
  LET x == Div(InDegraded(m, d) + InDegraded(m, c), 2)
  IN IF InDegraded(m, d) < InDegraded(m, c)
       THEN Div(Downsample - 1 + x - d, Downsample) ELSE m

LEMMA NeighboursMeet ==
  ASSUME NEW m \in Nat, NEW c \in Int, NEW d \in Int
  PROVE  \E e \in Int, s \in Int :
           /\ e = MeetEnd(m, c, d) /\ s = MeetStart(m, c, d)
           /\ e <= m /\ m <= s
           /\ InOrder(InDegraded(e, c) - InDegraded(s, d), e)
<1>1. PICK D \in Nat : D = Downsample  BY Sizes
<1>2. D > 0  BY <1>1, Sizes
<1>3. PICK a \in Int : a = m * D  OBVIOUS
<1>4. InDegraded(m, d) = a + d /\ InDegraded(m, c) = a + c
  BY <1>1, <1>3 DEF InDegraded
<1>5. CASE ~(a + d < a + c)
  <2>1. MeetEnd(m, c, d) = m /\ MeetStart(m, c, d) = m
    BY <1>4, <1>5 DEF MeetEnd, MeetStart
  <2>2. InOrder(InDegraded(m, c) - InDegraded(m, d), m)
    BY <1>2, <1>1, <1>4, <1>5 DEF InOrder
  <2> QED  BY <2>1, <2>2
<1>6. CASE a + d < a + c
  <2>1. \A b \in Int, f \in Int :
          \E q \in Int : q = Div(b + f, 2) /\ (b <= f => b <= q /\ q <= f)
    BY MiddleIs
  <2>2. PICK x \in Int :
           /\ x = Div((a + d) + (a + c), 2)
           /\ a + d <= a + c => a + d <= x /\ x <= a + c
    <3>1. a + d \in Int /\ a + c \in Int  OBVIOUS
    <3> QED  BY <2>1, <3>1
  <2>3. PICK y \in Int : y = x - c  OBVIOUS
  <2>4. PICK z \in Int : z = x - d  OBVIOUS
  <2>5. PICK e \in Int :
          /\ e = Div(y, D) /\ e * D \in Int
          /\ y >= 0 => e >= 0 /\ e * D <= y /\ y < e * D + D
          /\ y < 0 => e <= 0 /\ y <= e * D /\ e * D < y + D
    BY <1>2, DivIs
  <2>6. PICK s \in Int :
          /\ s = Div(D - 1 + z, D) /\ s * D \in Int /\ s * D >= z
          /\ \A k \in Nat : k * D <= z => k <= s
    BY <1>2, DivUp
  <2>7. Downsample - 1 + x - d = D - 1 + z  BY <1>1, <2>4
  <2>8. e = MeetEnd(m, c, d) /\ s = MeetStart(m, c, d)
    BY <1>1, <1>4, <1>6, <2>2, <2>3, <2>5, <2>6, <2>7 DEF MeetEnd, MeetStart
  <2>9. e <= m
    <3>1. y <= m * D  BY <1>3, <1>6, <2>2, <2>3
    <3> QED  BY <1>2, <2>5, <3>1, DivDown
  <2>10. m <= s  BY <1>3, <1>6, <2>2, <2>4, <2>6
  <2>11. InOrder(InDegraded(e, c) - InDegraded(s, d), e)
    <3>1. InDegraded(e, c) = e * D + c /\ InDegraded(s, d) = s * D + d
      BY <1>1 DEF InDegraded
    <3>2. PICK p \in Int : p = e * D  BY <2>5
    <3>3. PICK q \in Int : q = s * D  BY <2>6
    <3>4. p + c - (q + d) < D
      BY <1>1, <2>3, <2>4, <2>5, <2>6, <3>2, <3>3
    <3>5. e > 0 => p + c - (q + d) <= 0
      BY <2>3, <2>4, <2>5, <2>6, <3>2, <3>3
    <3> QED  BY <1>1, <3>1, <3>2, <3>3, <3>4, <3>5 DEF InOrder
  <2> QED  BY <2>8, <2>9, <2>10, <2>11
<1> QED  BY <1>5, <1>6

\* The outer limits: InDegraded(SEARCHBUFFER, d) is where the first one starts.
OuterStart(d) ==
  IF InDegraded(SEARCHBUFFER, d) < SEARCHBUFFER * Downsample
    THEN SEARCHBUFFER + Div(Downsample - 1 - d, Downsample) ELSE SEARCHBUFFER
OuterEnd(d) ==
  IF InDegraded(RefWindows - SEARCHBUFFER, d) > degraded - SEARCHBUFFER * Downsample
    THEN Div(degraded - d, Downsample) - SEARCHBUFFER
    ELSE RefWindows - SEARCHBUFFER

LEMMA OuterStartIs ==
  ASSUME NEW d \in Int
  PROVE  \E s \in Int :
           /\ s = OuterStart(d) /\ s >= 0
           /\ InDegraded(s, d) >= SEARCHBUFFER * Downsample
<1>1. PICK D \in Nat : D = Downsample  BY Sizes
<1>2. PICK B \in Nat : B = SEARCHBUFFER  BY Sizes
<1>3. D > 0  BY <1>1, Sizes
<1>4. PICK b \in Nat : b = B * D  OBVIOUS
<1>5. InDegraded(B, d) = b + d  BY <1>1, <1>4 DEF InDegraded
<1>6. CASE ~(b + d < b)
  <2>1. OuterStart(d) = B  BY <1>1, <1>2, <1>4, <1>5, <1>6 DEF OuterStart
  <2> QED  BY <1>1, <1>2, <1>4, <1>5, <1>6, <2>1
<1>7. CASE b + d < b
  <2>1. PICK x \in Int : x = -d  OBVIOUS
  <2>2. PICK q \in Int :
          /\ q = Div(D - 1 + x, D) /\ q * D \in Int /\ q * D >= x
          /\ \A k \in Nat : k * D <= x => k <= q
    BY <1>3, DivUp
  <2>3. D - 1 + x = D - 1 - d  BY <2>1
  <2>4. OuterStart(d) = B + q
    BY <1>1, <1>2, <1>4, <1>5, <1>7, <2>2, <2>3 DEF OuterStart
  <2>5. q >= 0
    <3>1. 0 * D <= x  BY <1>7, <2>1
    <3> QED  BY <2>2, <3>1
  <2>6. (B + q) * D = b + q * D  BY <1>4
  <2>7. InDegraded(B + q, d) >= b
    BY <1>1, <2>1, <2>2, <2>6 DEF InDegraded
  <2> QED  BY <1>1, <1>2, <1>4, <2>4, <2>5, <2>7
<1> QED  BY <1>6, <1>7

LEMMA OuterEndIs ==
  ASSUME NEW d \in Int, degraded \in Nat
  PROVE  \E e \in Int :
           /\ e = OuterEnd(d) /\ e <= LastWindow
           /\ InOrder(InDegraded(e + SEARCHBUFFER, d) - degraded, e + SEARCHBUFFER)
<1>1. PICK D \in Nat : D = Downsample  BY Sizes
<1>2. PICK B \in Nat : B = SEARCHBUFFER  BY Sizes
<1>3. D > 0 /\ B > 0  BY <1>1, <1>2, Sizes
<1>4. PICK b \in Nat : b = B * D  OBVIOUS
<1>5. PICK W \in Nat : W = RefWindows  BY Sizes
<1>6. PICK w \in Nat : w = W * D  OBVIOUS
<1>7. (W - B) * D = w - b  BY <1>4, <1>6
<1>8. InDegraded(W - B, d) = w - b + d  BY <1>1, <1>7 DEF InDegraded
<1>9. PICK g \in Nat : g = degraded  OBVIOUS
<1>10. CASE ~(w - b + d > g - b)
  <2>1. OuterEnd(d) = W - B
    BY <1>1, <1>2, <1>4, <1>5, <1>8, <1>9, <1>10 DEF OuterEnd
  <2>2. (W - B) + B = W  OBVIOUS
  <2>3. InDegraded(W, d) = w + d  BY <1>1, <1>6 DEF InDegraded
  <2>4. InOrder(w + d - g, W)  BY <1>1, <1>3, <1>10 DEF InOrder
  <2> QED  BY <1>2, <1>3, <1>5, <1>9, <2>1, <2>2, <2>3, <2>4, Sizes
<1>11. CASE w - b + d > g - b
  <2>1. PICK y \in Int : y = g - d  OBVIOUS
  <2>2. PICK q \in Int :
          /\ q = Div(y, D) /\ q * D \in Int
          /\ y >= 0 => q >= 0 /\ q * D <= y /\ y < q * D + D
          /\ y < 0 => q <= 0 /\ y <= q * D /\ q * D < y + D
    BY <1>3, DivIs
  <2>3. OuterEnd(d) = q - B
    BY <1>1, <1>2, <1>4, <1>5, <1>8, <1>9, <1>11, <2>1, <2>2 DEF OuterEnd
  <2>4. q <= W
    <3>1. y <= W * D  BY <1>6, <1>11, <2>1
    <3> QED  BY <1>3, <2>2, <3>1, DivDown
  <2>5. PICK p \in Int : p = q * D  BY <2>2
  <2>6. (q - B) + B = q  OBVIOUS
  <2>7. InDegraded(q, d) = p + d  BY <1>1, <2>5 DEF InDegraded
  <2>8. InOrder(p + d - g, q)
    BY <1>1, <1>3, <2>1, <2>2, <2>5 DEF InOrder
  <2> QED  BY <1>2, <1>3, <1>5, <1>9, <2>3, <2>4, <2>6, <2>7, <2>8, Sizes
<1> QED  BY <1>10, <1>11

Meets(k) == (utt[k].start + utt[k - 1].end) \div 2

Limits == Separated(Clamped(Halfway))

\* What SetLimits writes, limit by limit.
LEMMA LimitsOf ==
  ASSUME n \in Nat, n > 0
  PROVE  /\ Limits[0].start = OuterStart(utt[0].delay)
         /\ Limits[n - 1].end = OuterEnd(utt[n - 1].delay)
         /\ \A k \in 1 .. n - 1 :
              /\ Limits[k].start = MeetStart(Meets(k), utt[k - 1].delay, utt[k].delay)
              /\ Limits[k - 1].end = MeetEnd(Meets(k), utt[k - 1].delay, utt[k].delay)
<1>1. PICK N \in Nat : N = n /\ N > 0  OBVIOUS
<1>2. PICK h \in {Halfway} : TRUE  OBVIOUS
<1>3. /\ h[0].start = SEARCHBUFFER /\ h[N - 1].end = RefWindows - SEARCHBUFFER
      /\ \A k \in 1 .. N - 1 : h[k].start = Meets(k) /\ h[k - 1].end = Meets(k)
      /\ DOMAIN h = 0 .. N - 1
      /\ \A k \in 0 .. N - 1 : h[k] = [start |-> h[k].start, end |-> h[k].end]
  <2>1. \A u \in 0 .. N - 1 :
          h[u] = [start |-> IF u = 0 THEN SEARCHBUFFER ELSE Meets(u),
                  end   |-> IF u = N - 1 THEN RefWindows - SEARCHBUFFER
                                         ELSE Meets(u + 1)]
    BY <1>1, <1>2 DEF Halfway, Meets
  <2>2. DOMAIN h = 0 .. N - 1  BY <1>1, <1>2 DEF Halfway
  <2>3. 0 \in 0 .. N - 1 /\ N - 1 \in 0 .. N - 1  BY <1>1
  <2>4. ASSUME NEW k \in 1 .. N - 1
        PROVE  h[k].start = Meets(k) /\ h[k - 1].end = Meets(k)
    <3>1. /\ k \in 0 .. N - 1 /\ k # 0
          /\ k - 1 \in 0 .. N - 1 /\ k - 1 # N - 1 /\ (k - 1) + 1 = k
      BY <1>1
    <3>2. h[k - 1].end = (utt[k].start + utt[k - 1].end) \div 2
      BY <1>1, <1>2, <3>1 DEF Halfway
    <3>3. h[k].start = (utt[k].start + utt[k - 1].end) \div 2
      BY <1>1, <1>2, <3>1 DEF Halfway
    <3> QED  BY <3>2, <3>3 DEF Meets
  <2> QED  BY <2>1, <2>2, <2>3, <2>4
<1>4. PICK c \in {Clamped(h)} : TRUE  OBVIOUS
<1>5. /\ c[0].start = OuterStart(utt[0].delay)
      /\ c[N - 1].end = OuterEnd(utt[N - 1].delay)
      /\ \A k \in 1 .. N - 1 : c[k].start = Meets(k) /\ c[k - 1].end = Meets(k)
  <2>1. c = [h EXCEPT ![0].start = OuterStart(utt[0].delay),
                      ![N - 1].end = OuterEnd(utt[N - 1].delay)]
    BY <1>1, <1>3, <1>4 DEF Clamped, OuterStart, OuterEnd
  <2>2. 0 \in DOMAIN h /\ N - 1 \in DOMAIN h  BY <1>1, <1>3
  <2>3. ASSUME NEW k \in 1 .. N - 1
        PROVE  c[k].start = Meets(k) /\ c[k - 1].end = Meets(k)
    <3>1. k \in DOMAIN h /\ k # 0 /\ k - 1 \in DOMAIN h /\ k - 1 # N - 1
      BY <1>1, <1>3
    <3> QED  BY <1>3, <2>1, <2>2, <3>1
  <2> QED  BY <1>3, <2>1, <2>2, <2>3
<1>6. /\ Limits[0].start = c[0].start /\ Limits[N - 1].end = c[N - 1].end
      /\ \A k \in 1 .. N - 1 :
           /\ Limits[k].start = MeetStart(Meets(k), utt[k - 1].delay, utt[k].delay)
           /\ Limits[k - 1].end = MeetEnd(Meets(k), utt[k - 1].delay, utt[k].delay)
  <2> DEFINE begin(u) == InDegraded(c[u].start, utt[u].delay)
             finish(u) == InDegraded(c[u].end, utt[u].delay)
             mid(u) == Div(begin(u) + finish(u - 1), 2)
  <2>1. Limits = [u \in 0 .. N - 1 |->
          [start |-> IF u > 0 /\ begin(u) < finish(u - 1)
                       THEN Div(Downsample - 1 + mid(u) - utt[u].delay, Downsample)
                       ELSE c[u].start,
           end   |-> IF u < N - 1 /\ begin(u + 1) < finish(u + 1 - 1)
                       THEN Div(mid(u + 1) - utt[u].delay, Downsample)
                       ELSE c[u].end]]
    BY <1>1, <1>2, <1>4 DEF Limits, Separated
  <2>2. 0 \in 0 .. N - 1 /\ N - 1 \in 0 .. N - 1  BY <1>1
  <2>3. ASSUME NEW k \in 1 .. N - 1
        PROVE  /\ Limits[k].start = MeetStart(Meets(k), utt[k - 1].delay, utt[k].delay)
               /\ Limits[k - 1].end = MeetEnd(Meets(k), utt[k - 1].delay, utt[k].delay)
    <3>1. /\ k \in 0 .. N - 1 /\ k > 0
          /\ k - 1 \in 0 .. N - 1 /\ k - 1 < N - 1 /\ (k - 1) + 1 = k
      BY <1>1
    <3>2. /\ begin(k) = InDegraded(Meets(k), utt[k].delay)
          /\ finish(k - 1) = InDegraded(Meets(k), utt[k - 1].delay)
      BY <1>5
    <3> HIDE DEF begin, finish
    <3>3. Limits[k].start
            = IF begin(k) < finish(k - 1)
                THEN Div(Downsample - 1 + mid(k) - utt[k].delay, Downsample)
                ELSE c[k].start
      BY <2>1, <3>1
    <3>4. Limits[k - 1].end
            = IF begin(k) < finish(k - 1)
                THEN Div(mid(k) - utt[k - 1].delay, Downsample)
                ELSE c[k - 1].end
      BY <2>1, <3>1
    <3> QED  BY <1>5, <3>2, <3>3, <3>4 DEF MeetStart, MeetEnd
  <2> HIDE DEF begin, finish, mid
  <2>4. Limits[0].start = c[0].start /\ Limits[N - 1].end = c[N - 1].end
    BY <1>1, <2>1, <2>2
  <2> QED  BY <2>3, <2>4
<1> QED  BY <1>1, <1>5, <1>6

LEMMA LimitsAre ==
  ASSUME n \in Nat, n > 0, degraded \in Nat,
         \A k \in Live : /\ utt[k].start \in Window /\ utt[k].end \in Window
                         /\ utt[k].delay \in Int
  PROVE  /\ \A k \in Live : /\ Limits[k].start \in Int /\ Limits[k].end \in Int
                            /\ Limits[k].start >= 0 /\ Limits[k].end <= LastWindow
         /\ \A k \in 1 .. n - 1 :
              InOrder(InDegraded(Limits[k - 1].end, utt[k - 1].delay)
                        - InDegraded(Limits[k].start, utt[k].delay),
                      Limits[k - 1].end)
         /\ InDegraded(Limits[0].start, utt[0].delay) >= SEARCHBUFFER * Downsample
         /\ InOrder(InDegraded(Limits[n - 1].end + SEARCHBUFFER, utt[n - 1].delay)
                      - degraded,
                    Limits[n - 1].end + SEARCHBUFFER)
<1>1. ASSUME NEW k \in 1 .. n - 1
      PROVE  /\ Limits[k].start \in Int /\ Limits[k].start >= 0
             /\ Limits[k - 1].end \in Int /\ Limits[k - 1].end <= LastWindow
             /\ InOrder(InDegraded(Limits[k - 1].end, utt[k - 1].delay)
                          - InDegraded(Limits[k].start, utt[k].delay),
                        Limits[k - 1].end)
  <2>1. k \in Live /\ k - 1 \in Live  BY DEF Live
  <2>2. PICK c \in Int : c = utt[k - 1].delay  BY <2>1
  <2>3. PICK d \in Int : d = utt[k].delay  BY <2>1
  <2>4. PICK m \in Nat : m = Meets(k) /\ m <= LastWindow
    <3>1. PICK p \in Nat : p = utt[k].start /\ p <= LastWindow  BY <2>1, Sizes
    <3>2. PICK q \in Nat : q = utt[k - 1].end /\ q <= LastWindow  BY <2>1, Sizes
    <3>3. PICK l \in Nat : l = LastWindow  BY Sizes
    <3>4. (p + q) \div 2 \in Nat /\ (p + q) \div 2 <= l
      BY <3>1, <3>2, <3>3
    <3> QED  BY <3>1, <3>2, <3>3, <3>4 DEF Meets
  <2>5. PICK e \in Int, s \in Int :
          /\ e = MeetEnd(m, c, d) /\ s = MeetStart(m, c, d)
          /\ e <= m /\ m <= s
          /\ InOrder(InDegraded(e, c) - InDegraded(s, d), e)
    BY NeighboursMeet
  <2>6. Limits[k].start = s /\ Limits[k - 1].end = e
    BY <2>2, <2>3, <2>4, <2>5, LimitsOf
  <2>7. \A l \in Nat, a, b \in Int : a <= m /\ m <= b /\ m <= l => a <= l /\ b >= 0
    OBVIOUS
  <2>8. e <= LastWindow /\ s >= 0
    <3>1. LastWindow \in Nat  BY Sizes
    <3> QED  BY <2>4, <2>5, <2>7, <3>1
  <2> QED  BY <2>2, <2>3, <2>5, <2>6, <2>8
<1>2. 0 \in Live /\ n - 1 \in Live  BY DEF Live
<1>3. PICK s \in Int :
        /\ s = OuterStart(utt[0].delay) /\ s >= 0
        /\ InDegraded(s, utt[0].delay) >= SEARCHBUFFER * Downsample
  BY <1>2, OuterStartIs
<1>4. PICK e \in Int :
        /\ e = OuterEnd(utt[n - 1].delay) /\ e <= LastWindow
        /\ InOrder(InDegraded(e + SEARCHBUFFER, utt[n - 1].delay) - degraded,
                   e + SEARCHBUFFER)
  BY <1>2, OuterEndIs
<1>5. Limits[0].start = s /\ Limits[n - 1].end = e
  BY <1>3, <1>4, LimitsOf
<1>6. ASSUME NEW k \in Live
      PROVE  /\ Limits[k].start \in Int /\ Limits[k].end \in Int
             /\ Limits[k].start >= 0 /\ Limits[k].end <= LastWindow
  <2>1. Limits[k].start \in Int /\ Limits[k].start >= 0
    <3>1. CASE k = 0  BY <1>3, <1>5, <3>1
    <3>2. CASE k # 0
      <4>1. k \in 1 .. n - 1  BY <3>2 DEF Live
      <4> QED  BY <1>1, <4>1
    <3> QED  BY <3>1, <3>2
  <2>2. Limits[k].end \in Int /\ Limits[k].end <= LastWindow
    <3>1. CASE k = n - 1  BY <1>4, <1>5, <3>1
    <3>2. CASE k # n - 1
      <4>1. k + 1 \in 1 .. n - 1 /\ (k + 1) - 1 = k  BY <3>2 DEF Live
      <4> QED  BY <1>1, <4>1
    <3> QED  BY <3>1, <3>2
  <2> QED  BY <2>1, <2>2
<1> QED  BY <1>1, <1>3, <1>4, <1>5, <1>6

LEMMA RunsAreFinite ==
  ASSUME NEW v \in Row
  PROVE  IsFiniteSet(Runs(v))
<1> DEFINE f == [s \in Starts(v) |-> [start |-> s, end |-> EndOf(v, s)]]
<1>1. IsFiniteSet(Window)  BY Sizes, FS_Interval
<1>2. Starts(v) \in SUBSET Window  BY DEF Starts, Row
<1>3. IsFiniteSet(Starts(v))  BY <1>1, <1>2, FS_Subset
<1>4. f \in Surjection(Starts(v), Runs(v))  BY DEF Surjection, Runs
<1> QED  BY <1>3, <1>4, FS_Surjection

\* As many runs as follow one another.
LEMMA RoomFor ==
  ASSUME NEW v \in Row, NEW m \in Nat, NEW f \in [1 .. m -> Runs(v)],
         \A i, j \in 1 .. m : i < j => f[i].end < f[j].start
  PROVE  m <= Cardinality(Runs(v)) /\ Cardinality(Runs(v)) \in Nat
<1>1. ASSUME NEW i \in 1 .. m, NEW j \in 1 .. m, f[i] = f[j]
      PROVE  i = j
  <2>1. PICK r \in Runs(v) : r = f[i] /\ r = f[j]  BY <1>1
  <2>2. ~(r.end < r.start)  BY RunIs
  <2>3. ~(i < j) /\ ~(j < i)  BY <2>1, <2>2
  <2> QED  BY <2>3
<1>2. f \in Injection(1 .. m, Runs(v))  BY <1>1 DEF Injection, IsInjective
<1>3. IsFiniteSet(Runs(v))  BY RunsAreFinite
<1>4. Cardinality(1 .. m) <= Cardinality(Runs(v))  BY <1>2, <1>3, FS_Injection
<1>5. Cardinality(1 .. m) = m  BY FS_Interval
<1> QED  BY <1>3, <1>4, <1>5, FS_CardinalityType

-----------------------------------------------------------------------------
(* The invariant. *)

Types ==
  /\ row \in Row /\ SpeechRow(row) /\ degraded \in DegSamples /\ crude \in Int
  /\ pc \in Steps /\ at \in Nat /\ n \in Nat
  /\ count \in Window /\ speech \in BOOLEAN /\ this_start \in Window
  /\ utt \in [Slot -> SlotType \cup {Junk}]
  /\ found \in Seq([start : Int, end : Int])

\* The run the scan is in, if it is in one.
Reading ==
  /\ speech => /\ this_start < count /\ ~Speech(row, this_start - 1)
               /\ \A i \in this_start .. count - 1 : row[i]
  /\ ~speech /\ count > 0 => ~row[count - 1]

\* What was found are runs that count, in order.
FoundRuns ==
  /\ \A i \in 1 .. Len(found) :
       found[i] \in Runs(row) /\ Counts(found[i].start, found[i].end)
  /\ \A i, j \in 1 .. Len(found) : i < j => found[i].end < found[j].start

\* Of those that end in front of window c, all of them.
AllFound(c) ==
  \A r \in Runs(row) :
    r.end < c /\ Counts(r.start, r.end) => \E i \in 1 .. Len(found) : found[i] = r

Behind(r) == \A i \in 1 .. Len(found) : found[i].end < r.start

\* A run behind what was found has been given a slot, too.
Spare(c) ==
  (\E r \in Runs(row) : r.start < c /\ Behind(r)) => utt[Len(found)] \in SlotType

Searching ==
  pc = "search" =>
    /\ at = Len(found) /\ n = 0
    /\ \A i \in 1 .. Len(found) : found[i].end < count
    /\ AllFound(count) /\ Spare(count)
    /\ \A k \in 0 .. at - 1 : utt[k] \in SlotType

Searched ==
  pc /= "search" =>
    /\ Len(found) <= n /\ n <= MAXNUTTERANCES
    /\ AllFound(RefWindows)
    /\ \A k \in Live : utt[k] \in SlotType

Aligning ==
  pc \in {"crude", "time"} =>
    /\ n = Len(found) /\ at < n /\ count = 0 /\ ~speech /\ Spare(RefWindows)

\* The second scan meets what the first one found, in the same slots.
Identifying ==
  pc = "identify" =>
    /\ n = Len(found) /\ at <= n /\ Spare(RefWindows)
    /\ \A i \in 1 .. n : i <= at <=> found[i].end < count
    /\ \A k \in 0 .. at - 1 :
         utt[k].start = found[k + 1].start /\ utt[k].end = found[k + 1].end
    /\ speech => at < MAXNUTTERANCES /\ utt[at].start = this_start

Located ==
  pc = "limits" =>
    /\ n = Len(found) /\ at = 0
    /\ \A k \in Live :
         utt[k].start = found[k + 1].start /\ utt[k].end = found[k + 1].end

Splitting ==
  pc \in {"split", "done"} =>
    /\ at <= n
    /\ n = Len(found) =>
         \A k \in Live : utt[k].start >= 0 /\ utt[k].end <= LastWindow

IInv ==
  /\ Types /\ Reading /\ FoundRuns /\ Searching /\ Searched /\ Aligning
  /\ Identifying /\ Located /\ Splitting /\ DegradedInOrder

-----------------------------------------------------------------------------
(* The scan. *)

LEMMA InvariantTypes ==
  ASSUME IInv
  PROVE  /\ row \in Row /\ ~row[0] /\ ~row[LastWindow]
         /\ Cardinality(Runs(row)) <= MAXNUTTERANCES
         /\ degraded \in Nat /\ crude \in Int /\ at \in Nat /\ n \in Nat
         /\ count \in Window /\ count \in Nat /\ count <= LastWindow
         /\ speech \in BOOLEAN /\ this_start \in Window /\ this_start \in Nat
         /\ Len(found) \in Nat /\ DOMAIN found = 1 .. Len(found)
         /\ \A i \in 0 .. LastWindow : row[i] \in BOOLEAN
  BY Sizes, UtteranceAssumption DEF IInv, Types, SpeechRow, Row

\* Since the last window is silent, a run ends at the first silent window.
LEMMA EndsIs ==
  ASSUME IInv
  PROVE  /\ Ends <=> speech /\ ~row[count]
         /\ Begins <=> ~speech /\ row[count]
         /\ Ends => Start = this_start
         /\ (speech \/ Begins) /\ ~Ends <=> row[count]
  BY InvariantTypes, Sizes DEF Ends, Begins, Start

LEMMA ScanIs ==
  ASSUME IInv
  PROVE  /\ Ends => /\ [start |-> this_start, end |-> count] \in Runs(row)
                    /\ this_start < count
         /\ \A r \in Runs(row) :
              /\ r.end = count => Ends /\ r = [start |-> this_start, end |-> count]
              /\ r.start = count => Begins
              /\ speech /\ r.start < count /\ r.end >= count => r.start = this_start
         /\ Begins => \E r \in Runs(row) : r.start = count
<1> USE InvariantTypes, Sizes
<1>1. Reading  BY DEF IInv
<1>2. ASSUME Ends
      PROVE  /\ [start |-> this_start, end |-> count] \in Runs(row)
             /\ this_start < count
  <2>1. speech /\ ~row[count]  BY <1>2, EndsIs
  <2>2. /\ this_start < count /\ ~Speech(row, this_start - 1)
        /\ \A i \in this_start .. count - 1 : row[i]
    BY <1>1, <2>1 DEF Reading
  <2>3. count \in this_start + 1 .. RefWindows  BY <2>2
  <2>4. ~Speech(row, count)  BY <2>1, SpeechIs
  <2> QED  BY <2>2, <2>3, <2>4, RunAt
<1>3. ASSUME NEW r \in Runs(row)
      PROVE  /\ r.end = count => Ends /\ r = [start |-> this_start, end |-> count]
             /\ r.start = count => Begins
             /\ speech /\ r.start < count /\ r.end >= count => r.start = this_start
  <2>1. PICK s \in Nat, e \in Nat :
          /\ r.start = s /\ r.end = e /\ r = [start |-> s, end |-> e]
          /\ s \in Window /\ s < e /\ e <= RefWindows
          /\ ~Speech(row, s - 1) /\ ~Speech(row, e)
          /\ \A i \in s .. e - 1 : row[i]
    BY RunIs
  <2> /\ row \in Row /\ this_start \in Nat /\ count \in Nat
      /\ LastWindow \in Nat /\ count <= LastWindow /\ Window = 0 .. LastWindow
      /\ RefWindows \in Nat /\ RefWindows - 1 = LastWindow
    OBVIOUS
  <2> HIDE InvariantTypes, Sizes
  <2>2. ASSUME s < count, count <= e
        PROVE  speech /\ this_start = s
    <3>1. row[count - 1]  BY <2>1, <2>2
    <3>2. speech  BY <1>1, <2>2, <3>1 DEF Reading
    <3>3. /\ this_start < count /\ ~Speech(row, this_start - 1)
          /\ \A i \in this_start .. count - 1 : row[i]
      BY <1>1, <3>2 DEF Reading
    <3>4. ~(this_start < s)
      <4> SUFFICES ASSUME this_start < s PROVE FALSE  OBVIOUS
      <4>1. s - 1 \in this_start .. count - 1 /\ s - 1 \in Window
        BY <2>1, <2>2
      <4> QED  BY <2>1, <3>3, <4>1, SpeechIs
    <3>5. ~(s < this_start)
      <4> SUFFICES ASSUME s < this_start PROVE FALSE  OBVIOUS
      <4>1. this_start - 1 \in s .. e - 1 /\ this_start - 1 \in Window
        BY <2>1, <2>2, <3>3
      <4> QED  BY <2>1, <3>3, <4>1, SpeechIs
    <3> QED  BY <3>2, <3>4, <3>5
  <2>3. ASSUME e = count
        PROVE  Ends /\ r = [start |-> this_start, end |-> count]
    <3>1. speech /\ this_start = s  BY <2>1, <2>2, <2>3
    <3>2. ~row[count]  BY <2>1, <2>3, SpeechIs
    <3> QED  BY <2>1, <2>3, <3>1, <3>2, EndsIs
  <2>4. ASSUME s = count PROVE Begins
    <3>1. row[count]  BY <2>1, <2>4
    <3>2. ~speech
      <4> SUFFICES ASSUME speech PROVE FALSE  OBVIOUS
      <4>1. this_start < count /\ \A i \in this_start .. count - 1 : row[i]
        BY <1>1 DEF Reading
      <4>2. row[count - 1] /\ count - 1 \in Window  BY <4>1
      <4> QED  BY <2>1, <2>4, <4>2, SpeechIs
    <3> QED  BY <3>1, <3>2, EndsIs
  <2> QED  BY <2>1, <2>2, <2>3, <2>4
<1>4. ASSUME Begins PROVE \E r \in Runs(row) : r.start = count
  <2>1. ~speech /\ row[count]  BY <1>4, EndsIs
  <2>2. ~Speech(row, count - 1)
    <3>1. CASE count = 0  BY <2>1, <3>1
    <3>2. CASE count > 0  BY <1>1, <2>1, <3>2, SpeechIs DEF Reading
    <3> QED  BY <3>1, <3>2
  <2>3. PICK e \in count + 1 .. RefWindows :
          ~Speech(row, e) /\ \A i \in count .. e - 1 : row[i]
    BY <2>1, EndExists
  <2>4. [start |-> count, end |-> e] \in Runs(row)  BY <2>2, <2>3, RunAt
  <2> QED  BY <2>4
<1> QED  BY <1>2, <1>3, <1>4

\* What ended in front of this window ended in front of the run it is in.
LEMMA EarlierRuns ==
  ASSUME IInv, speech, NEW r \in Runs(row), r.end < count
  PROVE  r.end < this_start
<1> USE InvariantTypes, Sizes
<1>1. PICK s \in Nat, e \in Nat :
        /\ r.start = s /\ r.end = e /\ r = [start |-> s, end |-> e]
        /\ s \in Window /\ s < e /\ e <= RefWindows
        /\ ~Speech(row, s - 1) /\ ~Speech(row, e)
        /\ \A i \in s .. e - 1 : row[i]
  BY RunIs
<1>2. \A i \in this_start .. count - 1 : row[i]  BY DEF IInv, Reading
<1>3. ~(this_start <= e)
  <2> SUFFICES ASSUME this_start <= e PROVE FALSE  OBVIOUS
  <2>1. e \in this_start .. count - 1 /\ e \in Window  BY <1>1
  <2> QED  BY <1>1, <1>2, <2>1, SpeechIs
<1> QED  BY <1>1, <1>3

LEMMA RoomBehind ==
  ASSUME IInv, NEW r \in Runs(row), Behind(r)
  PROVE  Len(found) \in Slot
<1> USE InvariantTypes
<1>1. PICK L \in Nat : L = Len(found)  OBVIOUS
<1> DEFINE f == [i \in 1 .. L + 1 |-> IF i <= L THEN found[i] ELSE r]
<1>2. FoundRuns  BY DEF IInv
<1>3. f \in [1 .. L + 1 -> Runs(row)]  BY <1>1, <1>2 DEF FoundRuns
<1>4. \A i, j \in 1 .. L + 1 : i < j => f[i].end < f[j].start
  BY <1>1, <1>2 DEF FoundRuns, Behind
<1> HIDE DEF f
<1> row \in Row /\ Cardinality(Runs(row)) <= MAXNUTTERANCES  OBVIOUS
<1> HIDE InvariantTypes
<1>5. L + 1 <= Cardinality(Runs(row)) /\ Cardinality(Runs(row)) \in Nat
  BY <1>3, <1>4, RoomFor
<1> QED  BY <1>1, <1>5, Sizes

LEMMA RoomForAll ==
  ASSUME IInv
  PROVE  Len(found) <= MAXNUTTERANCES
<1> USE InvariantTypes
<1>1. PICK L \in Nat : L = Len(found)  OBVIOUS
<1> DEFINE f == [i \in 1 .. L |-> found[i]]
<1>2. FoundRuns  BY DEF IInv
<1>3. f \in [1 .. L -> Runs(row)]  BY <1>1, <1>2 DEF FoundRuns
<1>4. \A i, j \in 1 .. L : i < j => f[i].end < f[j].start
  BY <1>1, <1>2 DEF FoundRuns
<1> HIDE DEF f
<1> /\ row \in Row /\ MAXNUTTERANCES \in Nat
    /\ Cardinality(Runs(row)) <= MAXNUTTERANCES
  BY Sizes
<1> HIDE InvariantTypes
<1>5. L <= Cardinality(Runs(row)) /\ Cardinality(Runs(row)) \in Nat
  BY <1>3, <1>4, RoomFor
<1> QED  BY <1>1, <1>5

LEMMA ScanKeepsReading ==
  ASSUME IInv, NEW next, ScanWindow(next), row' = row
  PROVE  /\ Reading' /\ speech' \in BOOLEAN /\ this_start' \in Window
         /\ count' \in Window
         /\ count < LastWindow => count' = count + 1 /\ at' = Counted /\ pc' = pc
         /\ count = LastWindow => count' = 0 /\ at' = 0 /\ pc' = next /\ ~speech'
         /\ speech' => this_start' = Start
<1> USE InvariantTypes, Sizes
<1>1. Reading  BY DEF IInv
<1>2. /\ speech' = ((speech \/ Begins) /\ ~Ends)
      /\ this_start' = Start
  BY DEF ScanWindow
<1>3. speech' <=> row[count]  BY <1>2, EndsIs
<1>4. speech' \in BOOLEAN
  <2>1. Begins \in BOOLEAN /\ Ends \in BOOLEAN  BY DEF Begins, Ends
  <2> QED  BY <1>2, <2>1
<1>5. this_start' \in Window  BY <1>2 DEF Start
<1>6. CASE count < LastWindow
  <2>1. count' = count + 1 /\ at' = Counted /\ pc' = pc
    BY <1>6 DEF ScanWindow
  <2>2. ~speech' => ~row[count]  BY <1>3
  <2>3. ASSUME speech'
        PROVE  /\ this_start' < count + 1 /\ ~Speech(row, this_start' - 1)
               /\ \A i \in this_start' .. count : row[i]
    <3>1. row[count]  BY <1>3, <2>3
    <3>2. CASE Begins
      <4>1. this_start' = count  BY <1>2, <3>2 DEF Start
      <4>2. ~Speech(row, count - 1)
        <5>1. CASE count = 0  BY <5>1, SpeechIs
        <5>2. CASE count > 0  BY <1>1, <3>2, <5>2, EndsIs, SpeechIs DEF Reading
        <5> QED  BY <5>1, <5>2
      <4> QED  BY <3>1, <4>1, <4>2
    <3>3. CASE ~Begins
      <4>1. this_start' = this_start /\ speech  BY <1>2, <3>1, <3>3, EndsIs DEF Start
      <4>2. /\ this_start < count /\ ~Speech(row, this_start - 1)
            /\ \A i \in this_start .. count - 1 : row[i]
        BY <1>1, <4>1 DEF Reading
      <4>3. \A i \in this_start .. count : i = count \/ i \in this_start .. count - 1
        OBVIOUS
      <4> QED  BY <3>1, <4>1, <4>2, <4>3
    <3> QED  BY <3>2, <3>3
  <2>4. Reading'
    <3>1. (count + 1) - 1 = count  OBVIOUS
    <3> QED  BY <2>1, <2>2, <2>3, <3>1 DEF Reading
  <2> QED  BY <1>2, <1>4, <1>5, <1>6, <2>1, <2>4
<1>7. CASE count = LastWindow
  <2>1. count' = 0 /\ at' = 0 /\ pc' = next
    BY <1>7 DEF ScanWindow
  <2>2. ~speech'  BY <1>3, <1>7
  <2> QED  BY <1>2, <1>4, <1>5, <1>7, <2>1, <2>2 DEF Reading
<1> QED  BY <1>6, <1>7

LEMMA SlotIs ==
  /\ Blank \in SlotType
  /\ \A s \in SlotType, i \in Int :
       /\ [s EXCEPT !.search.start = i] \in SlotType
       /\ [s EXCEPT !.search.end = i] \in SlotType
       /\ [s EXCEPT !.est = i] \in SlotType /\ [s EXCEPT !.delay = i] \in SlotType
       /\ [s EXCEPT !.start = i] \in SlotType /\ [s EXCEPT !.end = i] \in SlotType
  /\ Junk \notin SlotType
  BY UtteranceAssumption DEF Blank, SlotType

\* What a window does to the slots and to what was found.
LEMMA SearchWindow ==
  ASSUME IInv, IdSearchwindows
  PROVE  /\ utt' \in [Slot -> SlotType \cup {Junk}]
         /\ \A k \in 0 .. at - 1 : utt'[k] \in SlotType
         /\ Begins \/ (Spare(count) /\ utt[at] \in SlotType) => utt'[at] \in SlotType
         /\ Ends /\ Counts(this_start, count) =>
              /\ Counted = at + 1 /\ at \in Slot /\ utt'[at] \in SlotType
              /\ found' = Append(found, [start |-> this_start, end |-> count])
              /\ \A i \in 1 .. Len(found) : found[i].end < this_start
         /\ ~(Ends /\ Counts(this_start, count)) => Counted = at /\ found' = found
<1> USE InvariantTypes, Sizes
<1>1. pc = "search" /\ utt \in [Slot -> SlotType \cup {Junk}]
  BY DEF IdSearchwindows, IInv, Types
<1>2. /\ at = Len(found) /\ \A i \in 1 .. Len(found) : found[i].end < count
      /\ Spare(count) /\ \A k \in 0 .. at - 1 : utt[k] \in SlotType
  BY <1>1 DEF IInv, Searching
<1>3. FoundRuns  BY DEF IInv
<1>4. ASSUME Begins PROVE at \in Slot
  <2>1. PICK r \in Runs(row) : r.start = count  BY <1>4, ScanIs
  <2>2. Behind(r)  BY <1>2, <2>1 DEF Behind
  <2> QED  BY <1>2, <2>1, <2>2, RoomBehind
<1>5. ASSUME Ends
      PROVE  /\ at \in Slot /\ utt[at] \in SlotType
             /\ \A i \in 1 .. Len(found) : found[i].end < this_start
  <2>1. PICK r \in Runs(row) :
          r = [start |-> this_start, end |-> count] /\ this_start < count
    BY <1>5, ScanIs
  <2>2. speech  BY <1>5, EndsIs
  <2>3. \A i \in 1 .. Len(found) : found[i].end < this_start
    BY <1>2, <1>3, <2>2, EarlierRuns DEF FoundRuns
  <2>4. Behind(r)  BY <2>1, <2>3 DEF Behind
  <2>5. utt[at] \in SlotType  BY <1>2, <2>1, <2>4 DEF Spare
  <2> QED  BY <1>2, <2>1, <2>3, <2>4, <2>5, RoomBehind
<1> /\ at \in Nat /\ count \in Nat
    /\ SEARCHBUFFER \in Nat /\ LastWindow \in Nat
    /\ MAXNUTTERANCES \in Nat /\ Slot = 0 .. MAXNUTTERANCES - 1
  BY Sizes
<1> HIDE InvariantTypes, Sizes
<1>6. at \in Nat /\ ~(at > at)  OBVIOUS
<1>7. CASE Begins
  <2>1. ~Ends  BY <1>7, EndsIs
  <2>2. Greater(count - SEARCHBUFFER, 0) \in Int  BY DEF Greater
  <2>3. PICK b \in SlotType :
          b = [Blank EXCEPT !.search.start = Greater(count - SEARCHBUFFER, 0)]
    BY <2>2, SlotIs
  <2>4. utt' = [utt EXCEPT ![at] = b]
    BY <1>7, <2>1, <2>3 DEF IdSearchwindows
  <2>5. Counted = at  BY <2>1 DEF Counted
  <2>6. found' = found  BY <1>6, <2>5 DEF IdSearchwindows
  <2>7. at \in Slot  BY <1>4, <1>7
  <2>8. utt' \in [Slot -> SlotType \cup {Junk}] /\ utt'[at] \in SlotType
    BY <1>1, <2>4, <2>7
  <2>9. ASSUME NEW k \in 0 .. at - 1 PROVE utt'[k] \in SlotType
    <3>1. k \in Slot /\ k # at  BY <2>7
    <3> QED  BY <1>1, <1>2, <2>4, <3>1
  <2> QED  BY <2>1, <2>5, <2>6, <2>8, <2>9
<1>8. CASE Ends
  <2>1. ~Begins /\ Start = this_start  BY <1>8, EndsIs
  <2>2. Lesser(count + SEARCHBUFFER, LastWindow) \in Int  BY DEF Lesser
  <2>3. PICK b \in SlotType :
          b = [utt[at] EXCEPT !.search.end = Lesser(count + SEARCHBUFFER, LastWindow)]
    BY <1>5, <1>8, <2>2, SlotIs
  <2>4. utt' = [utt EXCEPT ![at] = b]
    BY <1>8, <2>1, <2>3 DEF IdSearchwindows
  <2>5. Counted = at + (IF Counts(this_start, count) THEN 1 ELSE 0)
    BY <1>8, <2>1 DEF Counted
  <2>6. found' = IF Counted > at
                   THEN Append(found, [start |-> this_start, end |-> count])
                   ELSE found
    BY <2>1 DEF IdSearchwindows
  <2>7. at \in Slot  BY <1>5, <1>8
  <2>8. utt' \in [Slot -> SlotType \cup {Junk}] /\ utt'[at] \in SlotType
    BY <1>1, <2>4, <2>7
  <2>9. ASSUME NEW k \in 0 .. at - 1 PROVE utt'[k] \in SlotType
    <3>1. k \in Slot /\ k # at  BY <2>7
    <3> QED  BY <1>1, <1>2, <2>4, <3>1
  <2>10. CASE Counts(this_start, count)
    <3>1. Counted = at + 1  BY <2>5, <2>10
    <3>2. found' = Append(found, [start |-> this_start, end |-> count])
      BY <2>6, <3>1
    <3> QED  BY <1>5, <1>8, <2>7, <2>8, <2>9, <2>10, <3>1, <3>2
  <2>11. CASE ~Counts(this_start, count)
    <3>1. Counted = at  BY <2>5, <2>11
    <3>2. found' = found  BY <1>6, <2>6, <3>1
    <3> QED  BY <2>8, <2>9, <2>11, <3>1, <3>2
  <2> QED  BY <2>10, <2>11
<1>9. CASE ~Begins /\ ~Ends
  <2>1. utt' = utt  BY <1>9 DEF IdSearchwindows
  <2>2. Counted = at  BY <1>9 DEF Counted
  <2>3. found' = found  BY <1>6, <2>2 DEF IdSearchwindows
  <2> QED  BY <1>1, <1>2, <1>9, <2>1, <2>2, <2>3
<1> QED  BY <1>7, <1>8, <1>9

LEMMA SearchKeeps ==
  ASSUME IInv, IdSearchwindows
  PROVE  IInv'
<1> USE InvariantTypes, Sizes
<1>1. /\ pc = "search" /\ row' = row /\ degraded' = degraded /\ crude' = crude
      /\ ScanWindow(IF Counted = 0 THEN "identify" ELSE "crude")
      /\ n' = IF count = LastWindow THEN Counted ELSE n
  BY DEF IdSearchwindows
<1>2. /\ at = Len(found) /\ n = 0 /\ \A i \in 1 .. Len(found) : found[i].end < count
      /\ AllFound(count) /\ Spare(count)
  BY <1>1 DEF IInv, Searching
<1>3. FoundRuns /\ found \in Seq([start : Int, end : Int])  BY DEF IInv, Types
<1>4. DegStart' = DegStart /\ DegEnd' = DegEnd  BY <1>1 DEF DegStart, DegEnd
<1>5. /\ Reading' /\ speech' \in BOOLEAN /\ this_start' \in Window
      /\ count' \in Window
      /\ count < LastWindow => count' = count + 1 /\ at' = Counted /\ pc' = pc
      /\ count = LastWindow => /\ count' = 0 /\ at' = 0 /\ ~speech'
                               /\ pc' = IF Counted = 0 THEN "identify" ELSE "crude"
  BY <1>1, ScanKeepsReading
<1>6. /\ utt' \in [Slot -> SlotType \cup {Junk}]
      /\ \A k \in 0 .. at - 1 : utt'[k] \in SlotType
      /\ Begins \/ (Spare(count) /\ utt[at] \in SlotType) => utt'[at] \in SlotType
      /\ Ends /\ Counts(this_start, count) =>
           /\ Counted = at + 1 /\ at \in Slot /\ utt'[at] \in SlotType
           /\ found' = Append(found, [start |-> this_start, end |-> count])
           /\ \A i \in 1 .. Len(found) : found[i].end < this_start
      /\ ~(Ends /\ Counts(this_start, count)) => Counted = at /\ found' = found
  BY SearchWindow
<1>7. /\ found' \in Seq([start : Int, end : Int]) /\ FoundRuns'
      /\ Counted \in Nat /\ Len(found') = Counted /\ Counted <= MAXNUTTERANCES
      /\ \A i \in 1 .. Counted : found'[i].end < count + 1
      /\ \A r \in Runs(row) :
           r.end < count + 1 /\ Counts(r.start, r.end) =>
             \E i \in 1 .. Counted : found'[i] = r
      /\ \A r \in Runs(row) :
           r.start < count + 1 /\ (\A i \in 1 .. Counted : found'[i].end < r.start) =>
             utt'[Counted] \in SlotType
      /\ \A k \in 0 .. Counted - 1 : utt'[k] \in SlotType
  <2> /\ row \in Row /\ at \in Nat /\ count \in Nat /\ this_start \in Nat
      /\ MAXNUTTERANCES \in Nat /\ Slot = 0 .. MAXNUTTERANCES - 1
    BY DEF Slot
  <2> HIDE InvariantTypes, Sizes
  <2>1. CASE Ends /\ Counts(this_start, count)
    <3>1. PICK last \in Runs(row) :
            last = [start |-> this_start, end |-> count] /\ this_start < count
      BY <2>1, ScanIs
    <3>2. /\ Counted = at + 1 /\ at \in Slot /\ utt'[at] \in SlotType
          /\ found' = Append(found, last)
          /\ \A i \in 1 .. Len(found) : found[i].end < this_start
      BY <1>6, <2>1, <3>1
    <3>3. last \in [start : Int, end : Int]  BY <3>1
    <3>4. /\ found' \in Seq([start : Int, end : Int]) /\ Len(found') = Counted
          /\ \A i \in 1 .. at : found'[i] = found[i]
          /\ found'[at + 1] = last
      BY <1>2, <1>3, <3>2, <3>3
    <3>5. /\ at + 1 \in 1 .. Counted
          /\ \A i \in 1 .. Counted : i \in 1 .. at \/ i = at + 1
          /\ \A i \in 1 .. at : i \in 1 .. Counted
      BY <3>2
    <3>6. ASSUME NEW i \in 1 .. Counted
          PROVE  found'[i] \in Runs(row) /\ Counts(found'[i].start, found'[i].end)
      <4>1. CASE i = at + 1  BY <2>1, <3>1, <3>4, <4>1
      <4>2. CASE i # at + 1
        <5>1. i \in 1 .. at  BY <3>5, <4>2
        <5> QED  BY <1>2, <1>3, <3>4, <5>1 DEF FoundRuns
      <4> QED  BY <4>1, <4>2
    <3>7. \A i, j \in 1 .. Counted : i < j => found'[i].end < found'[j].start
      <4> SUFFICES ASSUME NEW i \in 1 .. Counted, NEW j \in 1 .. Counted, i < j
                   PROVE  found'[i].end < found'[j].start
        OBVIOUS
      <4>1. i \in 1 .. at  BY <3>2
      <4>2. CASE j = at + 1  BY <1>2, <3>1, <3>2, <3>4, <4>1, <4>2
      <4>3. CASE j # at + 1
        <5>1. j \in 1 .. at  BY <3>5, <4>3
        <5> QED  BY <1>2, <1>3, <3>4, <4>1, <5>1 DEF FoundRuns
      <4> QED  BY <4>2, <4>3
    <3>8. FoundRuns'
      BY <1>1, <1>4, <3>4, <3>6, <3>7 DEF FoundRuns, Counts
    <3>9. \A i \in 1 .. Counted : found'[i].end < count + 1
      <4> SUFFICES ASSUME NEW i \in 1 .. Counted PROVE found'[i].end < count + 1
        OBVIOUS
      <4>1. CASE i = at + 1  BY <3>1, <3>4, <4>1
      <4>2. CASE i # at + 1
        <5>1. i \in 1 .. at  BY <3>5, <4>2
        <5>2. PICK r \in Runs(row) : r = found[i] /\ r.end < count
          BY <1>2, <1>3, <5>1 DEF FoundRuns
        <5>3. r.end \in Nat  BY RunIs
        <5> QED  BY <3>4, <5>1, <5>2, <5>3
      <4> QED  BY <4>1, <4>2
    <3>10. ASSUME NEW r \in Runs(row), r.end < count + 1, Counts(r.start, r.end)
           PROVE  \E i \in 1 .. Counted : found'[i] = r
      <4>1. r.end \in Nat  BY RunIs
      <4>2. CASE r.end = count
        <5>1. r = last  BY <3>1, <4>2, ScanIs
        <5> QED  BY <3>2, <3>4, <5>1
      <4>3. CASE r.end # count
        <5>1. r.end < count  BY <3>10, <4>1, <4>3
        <5>2. PICK i \in 1 .. at : found[i] = r
          BY <1>2, <3>10, <5>1 DEF AllFound
        <5> QED  BY <3>4, <3>5, <5>2
      <4> QED  BY <4>2, <4>3
    <3>11. ASSUME NEW r \in Runs(row), r.start < count + 1,
                  \A i \in 1 .. Counted : found'[i].end < r.start
           PROVE  FALSE
      <4>1. r.start \in Nat  BY RunIs
      <4>2. found'[at + 1].end < r.start  BY <3>5, <3>11
      <4> QED  BY <3>1, <3>4, <3>11, <4>1, <4>2
    <3>12. ASSUME NEW k \in 0 .. Counted - 1 PROVE utt'[k] \in SlotType
      <4>1. k = at \/ k \in 0 .. at - 1  BY <3>2
      <4> QED  BY <1>6, <3>2, <4>1
    <3>13. Counted \in Nat /\ Counted <= MAXNUTTERANCES  BY <3>2
    <3> QED  BY <3>4, <3>8, <3>9, <3>10, <3>11, <3>12, <3>13
  <2>2. CASE ~(Ends /\ Counts(this_start, count))
    <3>1. Counted = at /\ found' = found  BY <1>6, <2>2
    <3>2. FoundRuns'
      BY <1>1, <1>3, <1>4, <3>1 DEF FoundRuns, Counts
    <3>3. \A i \in 1 .. at : found[i].end < count + 1
      <4> SUFFICES ASSUME NEW i \in 1 .. at PROVE found[i].end < count + 1
        OBVIOUS
      <4>1. PICK r \in Runs(row) : r = found[i] /\ r.end < count
        BY <1>2, <1>3 DEF FoundRuns
      <4>2. r.end \in Nat  BY RunIs
      <4> QED  BY <4>1, <4>2
    <3>4. ASSUME NEW r \in Runs(row), r.end < count + 1, Counts(r.start, r.end)
          PROVE  \E i \in 1 .. at : found[i] = r
      <4>1. r.end \in Nat  BY RunIs
      <4>2. r.end # count
        <5> SUFFICES ASSUME r.end = count PROVE FALSE  OBVIOUS
        <5>1. Ends /\ r = [start |-> this_start, end |-> count]  BY ScanIs
        <5> QED  BY <2>2, <3>4, <5>1
      <4> QED  BY <1>2, <3>4, <4>1, <4>2 DEF AllFound
    <3>5. ASSUME NEW r \in Runs(row), r.start < count + 1,
                 \A i \in 1 .. at : found[i].end < r.start
          PROVE  utt'[at] \in SlotType
      <4>1. r.start \in Nat  BY RunIs
      <4>2. CASE r.start = count
        <5>1. Begins  BY <4>2, ScanIs
        <5> QED  BY <1>6, <5>1
      <4>3. CASE r.start # count
        <5>1. r.start < count  BY <3>5, <4>1, <4>3
        <5>2. utt[at] \in SlotType  BY <1>2, <3>5, <5>1 DEF Spare, Behind
        <5> QED  BY <1>2, <1>6, <5>2
      <4> QED  BY <4>2, <4>3
    <3>6. at \in Nat /\ at <= MAXNUTTERANCES  BY <1>2, RoomForAll
    <3> QED  BY <1>2, <1>3, <1>6, <3>1, <3>2, <3>3, <3>4, <3>5, <3>6
  <2> QED  BY <2>1, <2>2
<1>8. pc' \in {"search", "crude", "identify"} /\ at' \in Nat /\ n' \in Nat
  BY <1>1, <1>2, <1>5, <1>7
<1>9. Types'
  <2>1. row \in Row /\ SpeechRow(row) /\ degraded \in DegSamples  BY DEF IInv, Types
  <2> QED  BY <1>1, <1>5, <1>6, <1>7, <1>8, <2>1 DEF Types, Steps, Row, SpeechRow
<1>10. CASE count < LastWindow
  <2>1. pc' = "search" /\ count' = count + 1 /\ at' = Counted /\ n' = 0
    BY <1>1, <1>2, <1>5, <1>10
  <2>2. Searching'
    BY <1>1, <1>4, <1>7, <2>1 DEF Searching, AllFound, Spare, Behind, Counts
  <2>3. /\ Searched' /\ Aligning' /\ Identifying' /\ Located' /\ Splitting'
        /\ DegradedInOrder'
    BY <2>1 DEF Searched, Aligning, Identifying, Located, Splitting, DegradedInOrder
  <2> QED  BY <1>5, <1>7, <1>9, <2>2, <2>3 DEF IInv
<1>11. CASE count = LastWindow
  <2>1. /\ pc' = IF Counted = 0 THEN "identify" ELSE "crude"
        /\ count' = 0 /\ at' = 0 /\ ~speech' /\ n' = Counted
        /\ count + 1 = RefWindows
    BY <1>1, <1>5, <1>11
  <2>2. AllFound(RefWindows)' /\ Spare(RefWindows)'
    BY <1>1, <1>4, <1>7, <2>1 DEF AllFound, Spare, Behind, Counts
  <2>3. Searched'
    BY <1>7, <2>1, <2>2 DEF Searched, Live
  <2>4. Aligning'  BY <1>7, <2>1, <2>2 DEF Aligning
  <2>5. Identifying'  BY <1>7, <2>1, <2>2 DEF Identifying
  <2>6. Searching' /\ Located' /\ Splitting' /\ DegradedInOrder'
    BY <2>1 DEF Searching, Located, Splitting, DegradedInOrder
  <2> QED  BY <1>5, <1>7, <1>9, <2>3, <2>4, <2>5, <2>6 DEF IInv
<1> QED  BY <1>10, <1>11

-----------------------------------------------------------------------------
(* Aligning. *)

LEMMA AlignedIs ==
  ASSUME NEW from, NEW to, NEW delay \in Int
  PROVE  CrudeAligned(from, to, delay) \subseteq Int /\ FineAligned(delay) \subseteq Int
<1>1. Lags \subseteq Int /\ Downsample \in Nat /\ Align_Nfft \in Nat
  BY UtteranceAssumption
<1>2. ASSUME NEW lag \in Int PROVE delay + Downsample * lag \in Int
  BY <1>1
<1>3. CrudeAligned(from, to, delay) \subseteq Int
  BY <1>1, <1>2 DEF CrudeAligned
<1>4. FineAligned(delay) \subseteq Int
  BY <1>1 DEF FineAligned, Fine
<1> QED  BY <1>3, <1>4

\* A live slot that is rewritten stays one, whatever its delays are.
LEMMA AlignKeeps ==
  ASSUME IInv, pc \in {"crude", "time"}, NEW b \in SlotType,
         utt' = [utt EXCEPT ![at] = b],
         UNCHANGED <<row, degraded, crude, scan, n, found>>,
         \/ pc' \in {"crude", "time"} /\ at' \in Nat /\ at' < n
         \/ pc' = "identify" /\ at' = 0
  PROVE  IInv'
<1> USE InvariantTypes, Sizes
<1>1. /\ n = Len(found) /\ at < n /\ count = 0 /\ ~speech /\ Spare(RefWindows)
      /\ n <= MAXNUTTERANCES /\ AllFound(RefWindows)
      /\ \A k \in Live : utt[k] \in SlotType
  BY DEF IInv, Aligning, Searched
<1>2. /\ row' = row /\ degraded' = degraded /\ crude' = crude /\ n' = n
      /\ found' = found /\ count' = count /\ speech' = speech
      /\ this_start' = this_start
  BY DEF scan
<1>3. /\ DegStart' = DegStart /\ DegEnd' = DegEnd  BY <1>2 DEF DegStart, DegEnd
<1>4. at \in Slot /\ n # at  BY <1>1
<1>5. Types  BY DEF IInv
<1>6. utt' \in [Slot -> SlotType \cup {Junk}]  BY <1>4, <1>5 DEF Types
<1>7. Types'
  BY <1>2, <1>5, <1>6 DEF Types, SpeechRow, Row, Steps
<1>8. \A k \in Live : utt'[k] \in SlotType
  <2> SUFFICES ASSUME NEW k \in Live PROVE utt'[k] \in SlotType  OBVIOUS
  <2>1. k \in Slot  BY <1>1 DEF Live
  <2> QED  BY <1>1, <1>4, <1>5, <2>1 DEF Types
<1>9. AllFound(RefWindows)'  BY <1>1, <1>2, <1>3 DEF AllFound, Counts
<1>10. Spare(RefWindows)'
  <2>1. utt[n] \in SlotType => utt'[n] \in SlotType
    <3>1. CASE n \in Slot  BY <1>4, <1>5, <3>1 DEF Types
    <3>2. CASE n \notin Slot
      <4> SUFFICES ASSUME NEW r \in Runs(row), Behind(r) PROVE FALSE
        BY <1>1, <1>2, <3>2 DEF Spare, Behind
      <4> QED  BY <1>1, <3>2, RoomBehind
    <3> QED  BY <3>1, <3>2
  <2> QED  BY <1>1, <1>2, <2>1 DEF Spare, Behind
<1>11. FoundRuns /\ Reading  BY DEF IInv
<1>12. FoundRuns' /\ Reading'
  BY <1>1, <1>2, <1>3, <1>11 DEF FoundRuns, Reading, Counts
<1>13. Searched'  BY <1>1, <1>2, <1>8, <1>9 DEF Searched, Live
<1>14. Aligning'  BY <1>1, <1>2, <1>10 DEF Aligning
<1>15. Identifying'
  <2> row \in Row /\ n \in Nat  OBVIOUS
  <2> HIDE InvariantTypes, Sizes
  <2>1. ASSUME NEW i \in 1 .. n PROVE ~(found[i].end < 0)
    <3>1. found[i] \in Runs(row)  BY <1>1, <1>11 DEF FoundRuns
    <3>2. found[i].end \in Nat  BY <3>1, RunIs
    <3> QED  BY <3>2
  <2>2. pc' = "identify" => at' = 0  OBVIOUS
  <2> QED  BY <1>1, <1>2, <1>10, <2>1, <2>2 DEF Identifying
<1>16. Searching' /\ Located' /\ Splitting' /\ DegradedInOrder'
  BY DEF Searching, Located, Splitting, DegradedInOrder
<1> QED  BY <1>7, <1>12, <1>13, <1>14, <1>15, <1>16 DEF IInv

LEMMA CrudeAlignKeeps ==
  ASSUME IInv, CrudeAlign
  PROVE  IInv'
<1> USE InvariantTypes
<1>1. at \in Live /\ utt[at] \in SlotType
  BY DEF CrudeAlign, IInv, Aligning, Searched, Live
<1>2. PICK est \in CrudeAligned(utt[at].search.start, utt[at].search.end, crude) :
        utt' = [utt EXCEPT ![at].est = est]
  BY DEF CrudeAlign
<1>3. est \in Int  BY AlignedIs
<1>4. PICK b \in SlotType : b = [utt[at] EXCEPT !.est = est]
  BY <1>1, <1>3, SlotIs
<1>5. utt' = [utt EXCEPT ![at] = b]  BY <1>2, <1>4
<1>6. pc' \in {"crude", "time"} /\ at' \in Nat /\ at' < n
  BY <1>1 DEF CrudeAlign, Live
<1> QED  BY <1>5, <1>6, AlignKeeps DEF CrudeAlign

LEMMA TimeAlignKeeps ==
  ASSUME IInv, TimeAlign
  PROVE  IInv'
<1> USE InvariantTypes
<1>1. at \in Live /\ utt[at] \in SlotType
  BY DEF TimeAlign, IInv, Aligning, Searched, Live
<1>2. PICK delay \in FineAligned(utt[at].est) :
        utt' = [utt EXCEPT ![at].delay = delay]
  BY DEF TimeAlign
<1>3. utt[at].est \in Int  BY <1>1 DEF SlotType
<1>4. delay \in Int  BY <1>3, AlignedIs
<1>5. PICK b \in SlotType : b = [utt[at] EXCEPT !.delay = delay]
  BY <1>1, <1>4, SlotIs
<1>6. utt' = [utt EXCEPT ![at] = b]  BY <1>2, <1>5
<1>7. \/ pc' \in {"crude", "time"} /\ at' \in Nat /\ at' < n
      \/ pc' = "identify" /\ at' = 0
  BY DEF TimeAlign
<1> QED  BY <1>6, <1>7, AlignKeeps DEF TimeAlign

-----------------------------------------------------------------------------
(* The second scan. *)

\* A run that begins or ends at the window has a slot that is a record.
LEMMA IdentifiedSlot ==
  ASSUME IInv, pc = "identify", Begins \/ Ends
  PROVE  at \in Slot /\ utt[at] \in SlotType
<1> USE InvariantTypes, Sizes
<1>1. /\ n = Len(found) /\ at <= n /\ Spare(RefWindows) /\ n <= MAXNUTTERANCES
      /\ \A i \in 1 .. n : i <= at <=> found[i].end < count
      /\ \A k \in Live : utt[k] \in SlotType
  BY DEF IInv, Identifying, Searched
<1>2. FoundRuns  BY DEF IInv
<1>3. CASE at < n  BY <1>1, <1>3 DEF Live
<1>4. CASE at = n
  <2>1. \A i \in 1 .. n : found[i].end < count  BY <1>1, <1>4
  <2>2. PICK r \in Runs(row) : Behind(r)
    <3>1. CASE Begins
      <4>1. PICK r \in Runs(row) : r.start = count  BY <3>1, ScanIs
      <4> QED  BY <1>1, <2>1, <4>1 DEF Behind
    <3>2. CASE Ends
      <4>1. [start |-> this_start, end |-> count] \in Runs(row)  BY <3>2, ScanIs
      <4>2. speech  BY <3>2, EndsIs
      <4>3. \A i \in 1 .. n : found[i].end < this_start
        BY <1>1, <1>2, <2>1, <4>2, EarlierRuns DEF FoundRuns
      <4> QED  BY <1>1, <4>1, <4>3 DEF Behind
    <3> QED  BY <3>1, <3>2
  <2>3. r.start < RefWindows  BY RunIs
  <2>4. utt[n] \in SlotType  BY <1>1, <2>2, <2>3 DEF Spare
  <2> QED  BY <1>1, <1>4, <2>2, <2>4, RoomBehind
<1> QED  BY <1>1, <1>3, <1>4

LEMMA IdentifyWindow ==
  ASSUME IInv, IdUtterances
  PROVE  /\ utt' \in [Slot -> SlotType \cup {Junk}]
         /\ \A k \in Slot : utt[k] \in SlotType => utt'[k] \in SlotType
         /\ \A k \in 0 .. at - 1 : utt'[k] = utt[k]
         /\ Begins => at \in Slot /\ utt'[at].start = count
         /\ Ends => /\ at \in Slot
                    /\ utt'[at].start = utt[at].start /\ utt'[at].end = count
         /\ ~Begins /\ ~Ends => utt' = utt
<1> USE InvariantTypes, Sizes
<1>1. /\ pc = "identify" /\ utt \in [Slot -> SlotType \cup {Junk}]
      /\ n <= MAXNUTTERANCES /\ at <= n
  BY DEF IdUtterances, IInv, Types, Searched, Identifying
<1>2. count \in Int /\ \A k \in 0 .. at - 1 : k \in Slot /\ k # at  BY <1>1
<1>3. CASE Begins
  <2>1. ~Ends  BY <1>3, EndsIs
  <2>2. at \in Slot /\ utt[at] \in SlotType  BY <1>1, <1>3, IdentifiedSlot
  <2>3. PICK b \in SlotType : b = [utt[at] EXCEPT !.start = count]
    BY <1>2, <2>2, SlotIs
  <2>4. utt' = [utt EXCEPT ![at] = b]  BY <1>3, <2>1, <2>3 DEF IdUtterances
  <2>5. b.start = count  BY <2>2, <2>3 DEF SlotType
  <2>6. /\ utt' \in [Slot -> SlotType \cup {Junk}] /\ utt'[at] = b
        /\ \A k \in Slot : k # at => utt'[k] = utt[k]
    BY <1>1, <2>2, <2>4
  <2> QED  BY <1>2, <1>3, <2>1, <2>2, <2>5, <2>6
<1>4. CASE Ends
  <2>1. ~Begins  BY <1>4, EndsIs
  <2>2. at \in Slot /\ utt[at] \in SlotType  BY <1>1, <1>4, IdentifiedSlot
  <2>3. PICK b \in SlotType : b = [utt[at] EXCEPT !.end = count]
    BY <1>2, <2>2, SlotIs
  <2>4. utt' = [utt EXCEPT ![at] = b]  BY <1>4, <2>1, <2>3 DEF IdUtterances
  <2>5. b.start = utt[at].start /\ b.end = count  BY <2>2, <2>3 DEF SlotType
  <2>6. /\ utt' \in [Slot -> SlotType \cup {Junk}] /\ utt'[at] = b
        /\ \A k \in Slot : k # at => utt'[k] = utt[k]
    BY <1>1, <2>2, <2>4
  <2> QED  BY <1>2, <1>4, <2>1, <2>2, <2>5, <2>6
<1>5. CASE ~Begins /\ ~Ends
  <2>1. utt' = utt  BY <1>5 DEF IdUtterances
  <2> QED  BY <1>1, <1>5, <2>1
<1> QED  BY <1>3, <1>4, <1>5

LEMMA IdentifyKeeps ==
  ASSUME IInv, IdUtterances
  PROVE  IInv'
<1> USE InvariantTypes, Sizes
<1>1. /\ pc = "identify" /\ row' = row /\ degraded' = degraded /\ crude' = crude
      /\ n' = n /\ found' = found /\ ScanWindow("limits")
  BY DEF IdUtterances
<1>2. /\ n = Len(found) /\ at <= n /\ Spare(RefWindows) /\ n <= MAXNUTTERANCES
      /\ AllFound(RefWindows) /\ \A k \in Live : utt[k] \in SlotType
      /\ \A i \in 1 .. n : i <= at <=> found[i].end < count
      /\ \A k \in 0 .. at - 1 :
           utt[k].start = found[k + 1].start /\ utt[k].end = found[k + 1].end
      /\ speech => at < MAXNUTTERANCES /\ utt[at].start = this_start
  BY <1>1 DEF IInv, Identifying, Searched
<1>3. FoundRuns /\ found \in Seq([start : Int, end : Int])  BY DEF IInv, Types
<1>4. DegStart' = DegStart /\ DegEnd' = DegEnd  BY <1>1 DEF DegStart, DegEnd
<1>5. /\ Reading' /\ speech' \in BOOLEAN /\ this_start' \in Window
      /\ count' \in Window
      /\ count < LastWindow => count' = count + 1 /\ at' = Counted /\ pc' = pc
      /\ count = LastWindow => count' = 0 /\ at' = 0 /\ pc' = "limits" /\ ~speech'
      /\ speech' => this_start' = Start
  BY <1>1, ScanKeepsReading
<1>6. /\ utt' \in [Slot -> SlotType \cup {Junk}]
      /\ \A k \in Slot : utt[k] \in SlotType => utt'[k] \in SlotType
      /\ \A k \in 0 .. at - 1 : utt'[k] = utt[k]
      /\ Begins => at \in Slot /\ utt'[at].start = count
      /\ Ends => /\ at \in Slot
                 /\ utt'[at].start = utt[at].start /\ utt'[at].end = count
      /\ ~Begins /\ ~Ends => utt' = utt
  BY IdentifyWindow
<1>7. \A i \in 1 .. n :
        /\ found[i] \in Runs(row) /\ Counts(found[i].start, found[i].end)
        /\ found[i].start \in Nat /\ found[i].end \in Nat
        /\ found[i].start < found[i].end
  <2> SUFFICES ASSUME NEW i \in 1 .. n
               PROVE  /\ found[i] \in Runs(row)
                      /\ Counts(found[i].start, found[i].end)
                      /\ found[i].start \in Nat /\ found[i].end \in Nat
                      /\ found[i].start < found[i].end
    OBVIOUS
  <2>1. PICK r \in Runs(row) : r = found[i] /\ Counts(r.start, r.end)
    BY <1>2, <1>3 DEF FoundRuns
  <2>2. r.start \in Nat /\ r.end \in Nat /\ r.start < r.end  BY RunIs
  <2> QED  BY <2>1, <2>2
<1>8. \A i, j \in 1 .. n : i < j => found[i].end < found[j].start
  BY <1>2, <1>3 DEF FoundRuns
<1>9. /\ Counted \in Nat /\ Counted <= n
      /\ \A i \in 1 .. n : i <= Counted <=> found[i].end < count + 1
      /\ \A k \in 0 .. Counted - 1 :
           utt'[k].start = found[k + 1].start /\ utt'[k].end = found[k + 1].end
      /\ ~Ends => Counted = at
  <2> /\ row \in Row /\ at \in Nat /\ n \in Nat /\ count \in Nat
      /\ this_start \in Nat /\ RefWindows \in Nat /\ count < RefWindows
    OBVIOUS
  <2> HIDE InvariantTypes, Sizes
  <2>1. CASE Ends /\ Counts(this_start, count)
    <3>1. PICK last \in Runs(row) :
            last = [start |-> this_start, end |-> count] /\ this_start < count
      BY <2>1, ScanIs
    <3>2. PICK j \in 1 .. n : found[j] = last
      BY <1>2, <2>1, <3>1 DEF AllFound
    <3>3. found[j].start = this_start /\ found[j].end = count  BY <3>1, <3>2
    <3>4. at < j  BY <1>2, <3>3
    <3>5. j = at + 1
      <4> SUFFICES ASSUME at + 1 < j PROVE FALSE  BY <3>4
      <4>1. at + 1 \in 1 .. n  BY <3>4
      <4>2. found[at + 1].end < found[j].start  BY <1>8, <4>1
      <4>3. found[at + 1].end < count  BY <1>7, <3>1, <3>3, <4>1, <4>2
      <4> QED  BY <1>2, <4>1, <4>3
    <3>6. Counted = at + 1
      <4>1. Start = this_start  BY <2>1, EndsIs
      <4> QED  BY <2>1, <4>1 DEF Counted
    <3>7. ASSUME NEW i \in 1 .. n PROVE i <= at + 1 <=> found[i].end < count + 1
      <4>1. CASE i <= at
        <5>1. found[i].end \in Nat /\ found[i].end < count  BY <1>2, <1>7, <4>1
        <5>2. i <= at + 1 /\ found[i].end < count + 1  BY <4>1, <5>1
        <5> QED  BY <5>2
      <4>2. CASE i = at + 1  BY <3>3, <3>5, <4>2
      <4>3. CASE i > at + 1
        <5>1. count < found[i].start  BY <1>8, <3>3, <3>5, <4>3
        <5>2. PICK s \in Nat, e \in Nat :
                s = found[i].start /\ e = found[i].end /\ s < e
          BY <1>7
        <5>3. count \in Nat /\ count < s  BY <5>1, <5>2
        <5>4. ~(e < count + 1)
          <6>1. \A c, a, b \in Nat : c < a /\ a < b => ~(b < c + 1)  OBVIOUS
          <6> QED  BY <5>2, <5>3, <6>1
        <5>5. ~(i <= at + 1)  BY <4>3
        <5> QED  BY <5>2, <5>4, <5>5
      <4> QED  BY <4>1, <4>2, <4>3
    <3>8. ASSUME NEW k \in 0 .. at
          PROVE  utt'[k].start = found[k + 1].start /\ utt'[k].end = found[k + 1].end
      <4>1. CASE k = at
        <5>1. speech  BY <2>1, EndsIs
        <5>2. utt[at].start = this_start  BY <1>2, <5>1
        <5> QED  BY <1>6, <2>1, <3>3, <3>5, <4>1, <5>2
      <4>2. CASE k # at
        <5>1. k \in 0 .. at - 1  BY <4>2
        <5> QED  BY <1>2, <1>6, <5>1
      <4> QED  BY <4>1, <4>2
    <3>9. at + 1 \in Nat /\ at + 1 <= n /\ (at + 1) - 1 = at  BY <3>5
    <3> QED  BY <2>1, <3>6, <3>7, <3>8, <3>9
  <2>2. CASE ~(Ends /\ Counts(this_start, count))
    <3>1. Counted = at
      <4>1. Ends => Start = this_start  BY EndsIs
      <4> QED  BY <2>2, <4>1 DEF Counted
    <3>2. ASSUME NEW i \in 1 .. n PROVE i <= at <=> found[i].end < count + 1
      <4>1. found[i].end # count
        <5> SUFFICES ASSUME found[i].end = count PROVE FALSE  OBVIOUS
        <5>1. PICK r \in Runs(row) :
                r = found[i] /\ r.end = count /\ Counts(r.start, r.end)
          BY <1>7
        <5>2. Ends /\ r = [start |-> this_start, end |-> count]  BY <5>1, ScanIs
        <5> QED  BY <2>2, <5>1, <5>2
      <4>2. PICK e \in Nat : e = found[i].end  BY <1>7
      <4>3. e < count <=> e < count + 1  BY <4>1, <4>2
      <4> QED  BY <1>2, <4>2, <4>3
    <3>3. \A k \in 0 .. at - 1 :
            utt'[k].start = found[k + 1].start /\ utt'[k].end = found[k + 1].end
      BY <1>2, <1>6
    <3> QED  BY <1>2, <3>1, <3>2, <3>3
  <2> QED  BY <2>1, <2>2
<1>10. speech' => Counted < MAXNUTTERANCES /\ utt'[Counted].start = this_start'
  <2> SUFFICES ASSUME speech'
               PROVE  Counted < MAXNUTTERANCES /\ utt'[Counted].start = this_start'
    OBVIOUS
  <2>1. speech' = ((speech \/ Begins) /\ ~Ends)  BY <1>1 DEF ScanWindow
  <2>2. ~Ends /\ Counted = at /\ this_start' = Start  BY <1>5, <1>9, <2>1
  <2>3. CASE Begins
    <3>1. this_start' = count  BY <2>2, <2>3 DEF Start
    <3> QED  BY <1>6, <2>2, <2>3, <3>1
  <2>4. CASE ~Begins
    <3>1. this_start' = this_start /\ speech  BY <2>1, <2>2, <2>4 DEF Start
    <3> QED  BY <1>2, <1>6, <2>2, <2>4, <3>1
  <2> QED  BY <2>3, <2>4
<1>11. Types'
  <2>1. row \in Row /\ SpeechRow(row) /\ degraded \in DegSamples  BY DEF IInv, Types
  <2>2. pc' \in Steps /\ at' \in Nat  BY <1>1, <1>5, <1>9 DEF Steps
  <2> QED  BY <1>1, <1>3, <1>5, <1>6, <2>1, <2>2 DEF Types, Row, SpeechRow
<1>12. FoundRuns'  BY <1>1, <1>3, <1>4 DEF FoundRuns, Counts
<1>13. \A k \in Live : k \in Slot /\ utt'[k] \in SlotType
  <2>1. \A k \in Live : k \in Slot  BY <1>2 DEF Live
  <2> QED  BY <1>2, <1>6, <2>1
<1>14. AllFound(RefWindows)'
  BY <1>1, <1>2, <1>4 DEF AllFound, Counts
<1>15. pc' # "search"  BY <1>1, <1>5
<1>16. Searched'
  BY <1>1, <1>2, <1>13, <1>14, <1>15 DEF Searched, Live
<1>17. CASE count < LastWindow
  <2>1. pc' = "identify" /\ count' = count + 1 /\ at' = Counted
    BY <1>1, <1>5, <1>17
  <2>2. Spare(RefWindows)'
    <3>1. ASSUME NEW r \in Runs(row), Behind(r) PROVE n \in Slot
      BY <1>2, <3>1, RoomBehind
    <3> QED  BY <1>1, <1>2, <1>6, <3>1 DEF Spare, Behind
  <2>3. Identifying'
    BY <1>1, <1>2, <1>9, <1>10, <2>1, <2>2 DEF Identifying
  <2>4. Searching' /\ Aligning' /\ Located' /\ Splitting' /\ DegradedInOrder'
    BY <2>1 DEF Searching, Aligning, Located, Splitting, DegradedInOrder
  <2> QED  BY <1>5, <1>11, <1>12, <1>16, <2>3, <2>4 DEF IInv
<1>18. CASE count = LastWindow
  <2>1. pc' = "limits" /\ count' = 0 /\ at' = 0  BY <1>5, <1>18
  <2>2. \A i \in 1 .. n : found[i].end < count + 1
    <3> SUFFICES ASSUME NEW i \in 1 .. n PROVE found[i].end < count + 1
      OBVIOUS
    <3>1. PICK s \in Nat, e \in Nat :
            /\ found[i].start = s /\ found[i].end = e
            /\ found[i] = [start |-> s, end |-> e]
            /\ s \in Window /\ s < e /\ e <= RefWindows
            /\ ~Speech(row, s - 1) /\ ~Speech(row, e)
            /\ \A k \in s .. e - 1 : row[k]
      BY <1>7, RunIs
    <3>2. e # RefWindows
      <4> SUFFICES ASSUME e = RefWindows PROVE FALSE  OBVIOUS
      <4>1. LastWindow \in s .. e - 1  BY <3>1
      <4> QED  BY <3>1, <4>1
    <3> QED  BY <1>18, <3>1, <3>2
  <2>3. Counted = n
    <3>1. CASE n = 0  BY <1>9, <3>1
    <3>2. CASE n > 0
      <4>1. n \in 1 .. n  BY <3>2
      <4> QED  BY <1>9, <2>2, <4>1
    <3> QED  BY <3>1, <3>2
  <2>4. Located'  BY <1>1, <1>2, <1>9, <2>1, <2>3 DEF Located, Live
  <2>5. /\ Searching' /\ Aligning' /\ Identifying' /\ Splitting' /\ DegradedInOrder'
    BY <2>1 DEF Searching, Aligning, Identifying, Splitting, DegradedInOrder
  <2> QED  BY <1>5, <1>11, <1>12, <1>16, <2>4, <2>5 DEF IInv
<1> QED  BY <1>17, <1>18

-----------------------------------------------------------------------------
(* The limits and the splits. *)

\* The last window is silent, so that every run ends inside the row.
LEMMA RunInRow ==
  ASSUME IInv, NEW r \in Runs(row)
  PROVE  r.start \in Window /\ r.end \in Window
<1> USE InvariantTypes, Sizes
<1>1. PICK s \in Nat, e \in Nat :
        /\ r.start = s /\ r.end = e /\ r = [start |-> s, end |-> e]
        /\ s \in Window /\ s < e /\ e <= RefWindows
        /\ ~Speech(row, s - 1) /\ ~Speech(row, e)
        /\ \A k \in s .. e - 1 : row[k]
  BY RunIs
<1>2. e # RefWindows
  <2> SUFFICES ASSUME e = RefWindows PROVE FALSE  OBVIOUS
  <2>1. LastWindow \in s .. e - 1  BY <1>1
  <2> QED  BY <1>1, <2>1
<1> QED  BY <1>1, <1>2

\* Past the second scan, what was found stays as it is.
LEMMA FoundStays ==
  ASSUME IInv, pc # "search", UNCHANGED <<row, degraded, crude, scan, found>>
  PROVE  /\ FoundRuns' /\ Reading' /\ AllFound(RefWindows)'
         /\ row' \in Row /\ SpeechRow(row)' /\ degraded' \in DegSamples
         /\ crude' \in Int /\ count' \in Window /\ speech' \in BOOLEAN
         /\ this_start' \in Window /\ found' \in Seq([start : Int, end : Int])
         /\ Len(found') = Len(found)
<1>1. /\ row' = row /\ degraded' = degraded /\ crude' = crude /\ found' = found
      /\ count' = count /\ speech' = speech /\ this_start' = this_start
  BY DEF scan
<1>2. DegStart' = DegStart /\ DegEnd' = DegEnd  BY <1>1 DEF DegStart, DegEnd
<1>3. FoundRuns /\ Reading /\ AllFound(RefWindows)  BY DEF IInv, Searched
<1>4. FoundRuns' /\ AllFound(RefWindows)'
  BY <1>1, <1>2, <1>3 DEF FoundRuns, AllFound, Counts
<1>5. Reading'  BY <1>1, <1>3 DEF Reading
<1> QED  BY <1>1, <1>4, <1>5 DEF IInv, Types, SpeechRow, Row

LEMMA SetLimitsKeeps ==
  ASSUME IInv, SetLimits
  PROVE  IInv'
<1> USE InvariantTypes, Sizes
<1>1. /\ pc = "limits" /\ pc' = "split" /\ at' = at /\ n' = n
      /\ UNCHANGED <<row, degraded, crude, scan, found>>
  BY DEF SetLimits
<1>2. n = 0 => utt' = utt  BY DEF SetLimits
<1>3. n # 0 => utt' = [k \in Slot |->
                         IF k < n THEN [utt[k] EXCEPT !.start = Limits[k].start,
                                                      !.end = Limits[k].end]
                                  ELSE utt[k]]
  BY DEF SetLimits, Limits
<1>4. /\ n = Len(found) /\ at = 0 /\ n <= MAXNUTTERANCES
      /\ \A k \in Live : /\ utt[k] \in SlotType
                         /\ utt[k].start = found[k + 1].start
                         /\ utt[k].end = found[k + 1].end
      /\ utt \in [Slot -> SlotType \cup {Junk}]
  BY <1>1 DEF IInv, Types, Located, Searched
<1>5. /\ FoundRuns' /\ Reading' /\ AllFound(RefWindows)'
      /\ row' \in Row /\ SpeechRow(row)' /\ degraded' \in DegSamples
      /\ crude' \in Int /\ count' \in Window /\ speech' \in BOOLEAN
      /\ this_start' \in Window /\ found' \in Seq([start : Int, end : Int])
      /\ Len(found') = Len(found)
  BY <1>1, FoundStays
<1>6. degraded' = degraded /\ found' = found /\ Len(found') = n /\ Live' = Live
  BY <1>1, <1>4 DEF Live
<1>7. ASSUME n > 0
      PROVE  /\ \A k \in Live : Limits[k].start \in Int /\ Limits[k].end \in Int
                                /\ Limits[k].start >= 0 /\ Limits[k].end <= LastWindow
             /\ \A k \in 1 .. n - 1 :
                  InOrder(InDegraded(Limits[k - 1].end, utt[k - 1].delay)
                            - InDegraded(Limits[k].start, utt[k].delay),
                          Limits[k - 1].end)
             /\ InDegraded(Limits[0].start, utt[0].delay) >= SEARCHBUFFER * Downsample
             /\ InOrder(InDegraded(Limits[n - 1].end + SEARCHBUFFER, utt[n - 1].delay)
                          - degraded,
                        Limits[n - 1].end + SEARCHBUFFER)
  <2>1. ASSUME NEW k \in Live
        PROVE  /\ utt[k].start \in Window /\ utt[k].end \in Window
               /\ utt[k].delay \in Int
    <3>1. k + 1 \in 1 .. Len(found)  BY <1>4 DEF Live
    <3>2. found[k + 1] \in Runs(row)  BY <3>1 DEF IInv, FoundRuns
    <3>3. found[k + 1].start \in Window /\ found[k + 1].end \in Window
      BY <3>2, RunInRow
    <3> QED  BY <1>4, <3>3 DEF SlotType
  <2> QED  BY <1>7, <2>1, LimitsAre
<1>8. ASSUME NEW k \in Live
      PROVE  /\ utt'[k] \in SlotType /\ utt'[k].delay = utt[k].delay
             /\ utt'[k].start = Limits[k].start /\ utt'[k].end = Limits[k].end
  <2>1. n > 0 /\ k < n /\ k \in Slot  BY <1>4 DEF Live
  <2>2. Limits[k].start \in Int /\ Limits[k].end \in Int  BY <1>7, <2>1
  <2>3. utt'[k] = [utt[k] EXCEPT !.start = Limits[k].start, !.end = Limits[k].end]
    <3>1. n # 0  BY <2>1
    <3> HIDE InvariantTypes, Sizes
    <3> QED  BY <1>3, <2>1, <3>1
  <2>4. utt[k] \in SlotType  BY <1>4
  <2> QED  BY <2>2, <2>3, <2>4 DEF SlotType
<1>9. utt' \in [Slot -> SlotType \cup {Junk}]
  <2>1. CASE n = 0  BY <1>4, <1>2, <2>1
  <2>2. CASE n # 0
    <3>2. ASSUME NEW k \in Slot PROVE utt'[k] \in SlotType \cup {Junk}
      <4>1. CASE k < n
        <5>1. k \in Live  BY <4>1 DEF Live
        <5> QED  BY <1>8, <5>1
      <4>2. CASE ~(k < n)  BY <1>4, <1>3, <2>2, <4>2
      <4> QED  BY <4>1, <4>2
    <3> QED  BY <1>3, <2>2, <3>2
  <2> QED  BY <2>1, <2>2
<1>10. Types'  BY <1>1, <1>5, <1>9 DEF Types, Steps
<1>11. Searched'
  <2>1. n' = n /\ pc' # "search"  BY <1>1
  <2> QED  BY <1>4, <1>5, <1>6, <1>8, <2>1 DEF Searched
<1>12. Splitting'
  <2>1. ASSUME NEW k \in Live PROVE utt'[k].start >= 0 /\ utt'[k].end <= LastWindow
    <3>1. n > 0  BY DEF Live
    <3> QED  BY <1>7, <1>8, <3>1
  <2>2. n' = n /\ at' <= n  BY <1>1, <1>4
  <2> QED  BY <1>6, <2>1, <2>2 DEF Splitting
<1>13. DegradedInOrder'
  <2> SUFFICES ASSUME n > 0
               PROVE  /\ \A k \in 1 .. n - 1 :
                           InOrder(InDegraded(utt'[k - 1].end, utt'[k - 1].delay)
                                     - InDegraded(utt'[k].start, utt'[k].delay),
                                   utt'[k - 1].end)
                      /\ InDegraded(utt'[0].start, utt'[0].delay)
                           >= SEARCHBUFFER * Downsample
                      /\ InOrder(InDegraded(utt'[n - 1].end + SEARCHBUFFER,
                                            utt'[n - 1].delay) - degraded,
                                 utt'[n - 1].end + SEARCHBUFFER)
    BY <1>1, <1>6 DEF DegradedInOrder
  <2>1. 0 \in Live /\ n - 1 \in Live  BY DEF Live
  <2>2. \A k \in 1 .. n - 1 : k \in Live /\ k - 1 \in Live  BY DEF Live
  <2> QED  BY <1>7, <1>8, <2>1, <2>2
<1>14. Searching' /\ Aligning' /\ Identifying' /\ Located'
  BY <1>1 DEF Searching, Aligning, Identifying, Located
<1> QED  BY <1>5, <1>10, <1>11, <1>12, <1>13, <1>14 DEF IInv

\* The windows that the loops for speech end at are there to be found.
LEMMA SpeechLimits ==
  ASSUME NEW u \in SlotType, NEW outside
  PROVE  /\ SpeechStart(u, outside) \in Int /\ SpeechStart(u, outside) >= u.start
         /\ SpeechEnd(u, outside) \in Int /\ SpeechEnd(u, outside) <= u.end + 1
<1>1. PICK a \in Int, e \in Int : a = u.start /\ e = u.end  BY DEF SlotType
<1>2. SpeechStart(u, outside) \in Int /\ SpeechStart(u, outside) >= u.start
  <2> DEFINE P(i) == /\ i >= e \/ Heard(i, outside)
                     /\ \A j \in a .. i - 1 : ~Heard(j, outside)
             T == {k \in Nat : a + k >= e \/ Heard(a + k, outside)}
  <2>1. PICK g \in Int : g = Greater(a, e) /\ g >= a /\ g >= e
    BY DEF Greater
  <2>2. g - a \in T  BY <2>1
  <2>3. PICK k \in T : \A i \in T : k <= i
    <3>1. T \in SUBSET Nat /\ T # {}  BY <2>2
    <3> HIDE DEF T
    <3> QED  BY <3>1, SmallestExists
  <2>4. a + k \in a .. g  BY <2>1, <2>2, <2>3
  <2>5. P(a + k)
    <3>1. a + k >= e \/ Heard(a + k, outside)  BY <2>3
    <3>2. ASSUME NEW j \in a .. a + k - 1 PROVE ~Heard(j, outside)
      <4>1. j - a \in Nat /\ ~(k <= j - a) /\ a + (j - a) = j  OBVIOUS
      <4> QED  BY <2>3, <4>1
    <3> QED  BY <3>1, <3>2
  <2>6. SpeechStart(u, outside) = CHOOSE i \in a .. g : P(i)
    BY <1>1, <2>1 DEF SpeechStart
  <2> HIDE DEF P
  <2>7. SpeechStart(u, outside) \in a .. g  BY <2>4, <2>5, <2>6
  <2> QED  BY <1>1, <2>7
<1>3. SpeechEnd(u, outside) \in Int /\ SpeechEnd(u, outside) <= u.end + 1
  <2> DEFINE P(i) == /\ i <= a \/ Heard(i, outside)
                     /\ \A j \in i + 1 .. e : ~Heard(j, outside)
             T == {k \in Nat : e - k <= a \/ Heard(e - k, outside)}
  <2>1. PICK g \in Int : g = Lesser(a, e) /\ g <= a /\ g <= e
    BY DEF Lesser
  <2>2. e - g \in T  BY <2>1
  <2>3. PICK k \in T : \A i \in T : k <= i
    <3>1. T \in SUBSET Nat /\ T # {}  BY <2>2
    <3> HIDE DEF T
    <3> QED  BY <3>1, SmallestExists
  <2>4. e - k \in g .. e  BY <2>1, <2>2, <2>3
  <2>5. P(e - k)
    <3>1. e - k <= a \/ Heard(e - k, outside)  BY <2>3
    <3>2. ASSUME NEW j \in e - k + 1 .. e PROVE ~Heard(j, outside)
      <4>1. e - j \in Nat /\ ~(k <= e - j) /\ e - (e - j) = j  OBVIOUS
      <4> QED  BY <2>3, <4>1
    <3> QED  BY <3>1, <3>2
  <2>6. SpeechEnd(u, outside) = 1 + CHOOSE i \in g .. e : P(i)
    BY <1>1, <2>1 DEF SpeechEnd
  <2> HIDE DEF P
  <2>7. (CHOOSE i \in g .. e : P(i)) \in g .. e  BY <2>4, <2>5
  <2> QED  BY <1>1, <2>6, <2>7
<1> QED  BY <1>2, <1>3

LEMMA PartsType ==
  ASSUME degraded \in Nat, NEW u \in SlotType, NEW bp \in Int,
         NEW est1 \in Int, NEW d1 \in Int, NEW est2 \in Int, NEW d2 \in Int
  PROVE  /\ Parts(u, bp, est1, d1, est2, d2)[1] \in SlotType
         /\ Parts(u, bp, est1, d1, est2, d2)[2] \in SlotType
<1>1. \A a \in Int, d \in Nat : d > 0 => Div(a, d) \in Int  BY DivIs
<1>2. /\ Downsample \in Nat /\ Downsample > 0 /\ SEARCHBUFFER \in Nat
      /\ 2 * Downsample \in Nat /\ 2 * Downsample > 0
  BY Sizes
<1>3. Div(d2 - d1, 2 * Downsample) \in Int  BY <1>1, <1>2
<1>4. Div(Downsample - 1 - d1, Downsample) \in Int  BY <1>1, <1>2
<1>5. Div(degraded - d2, Downsample) \in Int  BY <1>1, <1>2
<1>6. /\ u.search \in [start : Int, end : Int] /\ u.start \in Int /\ u.end \in Int
  BY DEF SlotType
<1> QED  BY <1>2, <1>3, <1>4, <1>5, <1>6 DEF Parts, SlotType

\* The slots after a split: two parts, and the others where they belong.
LEMMA SplitSlots ==
  ASSUME IInv, Split
  PROVE  /\ n' = n + 1 /\ n < MAXNUTTERANCES /\ at < n
         /\ utt' \in [Slot -> SlotType \cup {Junk}]
         /\ utt'[at] \in SlotType /\ utt'[at + 1] \in SlotType
         /\ \A k \in 0 .. at - 1 : utt'[k] = utt[k]
         /\ \A k \in at + 1 .. n - 1 : utt'[k + 1] = Moved(utt[k])
<1> USE InvariantTypes, Sizes
<1>1. pc = "split" /\ at < n /\ n < MAXNUTTERANCES /\ n' = n + 1
  BY DEF Split, Trying
<1>2. /\ utt \in [Slot -> SlotType \cup {Junk}]
      /\ \A k \in Live : utt[k] \in SlotType
  BY <1>1 DEF IInv, Types, Searched
<1>3. at \in Slot /\ at + 1 \in Slot /\ \A k \in Live : k \in Slot /\ k < MAXNUTTERANCES - 1
  BY <1>1 DEF Live
<1>4. utt[at] \in SlotType  BY <1>1, <1>2 DEF Live
<1>5. PICK a \in SlotType, b \in SlotType :
        utt' = [Shifted(Tried, at) EXCEPT ![at] = a, ![at + 1] = b]
  <2> DEFINE u == utt[at]
  <2>1. u \in SlotType  BY <1>4
  <2> DEFINE Answer(bp, est1, d1, est2, d2) ==
               LET parts == Parts(u, bp, est1, d1, est2, d2)
               IN utt' = [Shifted(Tried, at) EXCEPT ![at] = parts[1],
                                                    ![at + 1] = parts[2]]
             Delays(outside, bp, est1, est2) ==
               \E d1 \in FineAligned(est1), d2 \in FineAligned(est2) :
                 /\ Usable(Given(u, outside), degraded,
                           [bp |-> bp, ed1 |-> est1, d1 |-> d1,
                                       ed2 |-> est2, d2 |-> d2])
                 /\ Answer(bp, est1, d1, est2, d2)
             Estimates(outside, bp) ==
               \E est1 \in CrudeAligned(u.start, bp, u.est) :
               \E est2 \in CrudeAligned(bp, u.end, u.est) :
                 Delays(outside, bp, est1, est2)
  <2>2. \E outside \in BOOLEAN :
          /\ IsLong(u, outside)
          /\ \E bp \in SpeechStart(u, outside) + Pad .. SpeechEnd(u, outside) - Pad :
               Estimates(outside, bp)
    BY Zenon DEF Split
  <2> HIDE DEF Estimates, u
  <2>3. PICK outside \in BOOLEAN :
        \E bp \in SpeechStart(u, outside) + Pad .. SpeechEnd(u, outside) - Pad :
          Estimates(outside, bp)
    BY <2>2
  <2>4. PICK bp \in Int : Estimates(outside, bp)
    <3>1. SpeechStart(u, outside) \in Int /\ SpeechEnd(u, outside) \in Int
      BY <2>1, SpeechLimits
    <3> QED  BY <2>3, <3>1
  <2>5. u.est \in Int  BY <2>1 DEF SlotType
  <2> HIDE DEF Delays
  <2>6. PICK est1 \in CrudeAligned(u.start, bp, u.est),
             est2 \in CrudeAligned(bp, u.end, u.est) :
        Delays(outside, bp, est1, est2)
    BY <2>4 DEF Estimates
  <2>7. est1 \in Int /\ est2 \in Int  BY <2>5, AlignedIs
  <2> HIDE DEF Answer
  <2>8. PICK d1 \in FineAligned(est1), d2 \in FineAligned(est2) :
          Answer(bp, est1, d1, est2, d2)
    BY <2>6 DEF Delays
  <2>9. d1 \in Int /\ d2 \in Int  BY <2>7, AlignedIs
  <2>10. /\ Parts(u, bp, est1, d1, est2, d2)[1] \in SlotType
         /\ Parts(u, bp, est1, d1, est2, d2)[2] \in SlotType
    BY <2>1, <2>4, <2>7, <2>9, PartsType
  <2> QED  BY <2>8, <2>10 DEF Answer
<1>6. PICK s \in {Shifted(Tried, at)} : utt' = [s EXCEPT ![at] = a, ![at + 1] = b]
  BY <1>5
<1>7. /\ DOMAIN s = Slot
      /\ \A k \in Slot :
           s[k] = IF k > at + 1 /\ k <= n THEN Moved(Tried[k - 1]) ELSE Tried[k]
  BY <1>6 DEF Shifted
<1> /\ at \in Nat /\ n \in Nat /\ MAXNUTTERANCES \in Nat
    /\ Slot = 0 .. MAXNUTTERANCES - 1
  BY Sizes
<1> HIDE InvariantTypes, Sizes
<1>8. /\ \A k \in Slot : Tried[k] \in SlotType \cup {Junk}
      /\ \A k \in Live : Tried[k] = utt[k]
  BY <1>2, <1>3 DEF Tried
<1>9. ASSUME NEW k \in at + 1 .. n - 1
      PROVE  utt'[k + 1] = Moved(utt[k]) /\ s[k + 1] = Moved(utt[k])
  <2>1. k \in Live /\ k + 1 \in Slot /\ k + 1 > at + 1 /\ k + 1 <= n /\ (k + 1) - 1 = k
    BY <1>1 DEF Live
  <2>2. s[k + 1] = Moved(Tried[k])  BY <1>7, <2>1
  <2> QED  BY <1>6, <1>7, <1>8, <2>1, <2>2
<1>10. ASSUME NEW k \in 0 .. at - 1 PROVE utt'[k] = utt[k]
  <2>1. k \in Live /\ k \in Slot /\ k # at /\ k # at + 1 /\ ~(k > at + 1)
    BY <1>1 DEF Live
  <2> QED  BY <1>6, <1>7, <1>8, <2>1
<1>11. \A t \in SlotType : Moved(t) \in SlotType  BY DEF Moved, SlotType
<1>12. ASSUME NEW k \in Slot PROVE s[k] \in SlotType \cup {Junk}
  <2>1. CASE k > at + 1 /\ k <= n
    <3>1. k - 1 \in at + 1 .. n - 1 /\ (k - 1) + 1 = k /\ k - 1 \in Live
      BY <2>1 DEF Live
    <3>2. s[k] = Moved(utt[k - 1])  BY <1>9, <3>1
    <3> QED  BY <1>2, <1>11, <3>1, <3>2
  <2>2. CASE ~(k > at + 1 /\ k <= n)  BY <1>7, <1>8, <2>2
  <2> QED  BY <2>1, <2>2
<1>13. /\ utt' \in [Slot -> SlotType \cup {Junk}]
       /\ utt'[at] = a /\ utt'[at + 1] = b
  <2>1. s \in [Slot -> SlotType \cup {Junk}]
    <3>1. s = [k \in Slot |-> s[k]]  BY <1>6, <1>7 DEF Shifted
    <3> QED  BY <1>12, <3>1
  <2> QED  BY <1>3, <1>6, <2>1
<1> QED  BY <1>1, <1>9, <1>10, <1>13

LEMMA SplitKeeps ==
  ASSUME IInv, Split
  PROVE  IInv'
<1> USE InvariantTypes, Sizes
<1>1. /\ pc = "split" /\ pc' = "split" /\ at' = at
      /\ UNCHANGED <<row, degraded, crude, scan, found>>
  BY DEF Split, Trying
<1>2. /\ n' = n + 1 /\ n < MAXNUTTERANCES /\ at < n
      /\ utt' \in [Slot -> SlotType \cup {Junk}]
      /\ utt'[at] \in SlotType /\ utt'[at + 1] \in SlotType
      /\ \A k \in 0 .. at - 1 : utt'[k] = utt[k]
      /\ \A k \in at + 1 .. n - 1 : utt'[k + 1] = Moved(utt[k])
  BY SplitSlots
<1>3. Len(found) <= n /\ \A k \in Live : utt[k] \in SlotType
  BY <1>1 DEF IInv, Searched
<1>4. /\ FoundRuns' /\ Reading' /\ AllFound(RefWindows)'
      /\ row' \in Row /\ SpeechRow(row)' /\ degraded' \in DegSamples
      /\ crude' \in Int /\ count' \in Window /\ speech' \in BOOLEAN
      /\ this_start' \in Window /\ found' \in Seq([start : Int, end : Int])
      /\ Len(found') = Len(found)
  BY <1>1, FoundStays
<1>5. \A t \in SlotType : Moved(t) \in SlotType  BY DEF Moved, SlotType
<1> at \in Nat /\ n \in Nat /\ MAXNUTTERANCES \in Nat  BY Sizes
<1> HIDE InvariantTypes, Sizes
<1>6. ASSUME NEW k \in 0 .. n PROVE utt'[k] \in SlotType
  <2>1. CASE k < at
    <3>1. k \in 0 .. at - 1 /\ k \in Live  BY <1>2, <2>1 DEF Live
    <3> QED  BY <1>2, <1>3, <3>1
  <2>2. CASE k = at \/ k = at + 1  BY <1>2, <2>2
  <2>3. CASE k > at + 1
    <3>1. k - 1 \in at + 1 .. n - 1 /\ k - 1 \in Live /\ (k - 1) + 1 = k
      BY <2>3 DEF Live
    <3>2. utt'[(k - 1) + 1] = Moved(utt[k - 1])  BY <1>2, <3>1
    <3> QED  BY <1>3, <1>5, <3>1, <3>2
  <2> QED  BY <2>1, <2>2, <2>3
<1>7. Types'
  <2>1. n' \in Nat /\ at' \in Nat /\ pc' \in Steps  BY <1>1, <1>2 DEF Steps
  <2> QED  BY <1>2, <1>4, <2>1 DEF Types
<1>8. Searched'
  <2>1. Live' = 0 .. n /\ n' <= MAXNUTTERANCES /\ Len(found') <= n'
    BY <1>2, <1>3, <1>4 DEF Live
  <2> QED  BY <1>4, <1>6, <2>1 DEF Searched
<1>9. Splitting' /\ DegradedInOrder'
  <2>1. n' # Len(found') /\ at' <= n'  BY <1>1, <1>2, <1>3, <1>4
  <2> QED  BY <2>1 DEF Splitting, DegradedInOrder
<1>10. Searching' /\ Aligning' /\ Identifying' /\ Located'
  BY <1>1 DEF Searching, Aligning, Identifying, Located
<1> QED  BY <1>4, <1>7, <1>8, <1>9, <1>10 DEF IInv

\* An experiment leaves the live slots alone, and nothing else happens.
LEMMA LiveStay ==
  ASSUME IInv, pc = "split", pc' \in {"split", "done"}, at' \in Nat, at' <= n,
         UNCHANGED <<row, degraded, crude, scan, n, found>>,
         utt' \in [Slot -> SlotType \cup {Junk}],
         \A k \in Live : utt'[k] = utt[k]
  PROVE  IInv'
<1> USE InvariantTypes, Sizes
<1>1. /\ FoundRuns' /\ Reading' /\ AllFound(RefWindows)'
      /\ row' \in Row /\ SpeechRow(row)' /\ degraded' \in DegSamples
      /\ crude' \in Int /\ count' \in Window /\ speech' \in BOOLEAN
      /\ this_start' \in Window /\ found' \in Seq([start : Int, end : Int])
      /\ Len(found') = Len(found)
  BY FoundStays
<1>2. n' = n /\ Live' = Live /\ found' = found /\ degraded' = degraded  BY DEF Live
<1>3. Types'  BY <1>1, <1>2 DEF Types, Steps
<1>4. Searched'  BY <1>1, <1>2 DEF IInv, Searched
<1>5. Splitting'  BY <1>2 DEF IInv, Splitting
<1>6. DegradedInOrder'
  <2> SUFFICES ASSUME n = Len(found), n > 0
               PROVE  /\ \A k \in 1 .. n - 1 :
                           InOrder(InDegraded(utt'[k - 1].end, utt'[k - 1].delay)
                                     - InDegraded(utt'[k].start, utt'[k].delay),
                                   utt'[k - 1].end)
                      /\ InDegraded(utt'[0].start, utt'[0].delay)
                           >= SEARCHBUFFER * Downsample
                      /\ InOrder(InDegraded(utt'[n - 1].end + SEARCHBUFFER,
                                            utt'[n - 1].delay) - degraded,
                                 utt'[n - 1].end + SEARCHBUFFER)
    BY <1>2 DEF DegradedInOrder
  <2>1. 0 \in Live /\ n - 1 \in Live  BY DEF Live
  <2>2. \A k \in 1 .. n - 1 : k \in Live /\ k - 1 \in Live  BY DEF Live
  <2>3. DegradedInOrder  BY DEF IInv
  <2>4. \A k \in 1 .. n - 1 :
          InOrder(InDegraded(utt[k - 1].end, utt[k - 1].delay)
                    - InDegraded(utt[k].start, utt[k].delay),
                  utt[k - 1].end)
    BY <2>3 DEF DegradedInOrder
  <2>5. /\ InDegraded(utt[0].start, utt[0].delay) >= SEARCHBUFFER * Downsample
        /\ InOrder(InDegraded(utt[n - 1].end + SEARCHBUFFER, utt[n - 1].delay)
                     - degraded,
                   utt[n - 1].end + SEARCHBUFFER)
    BY <2>3 DEF DegradedInOrder
  <2> QED  BY <2>1, <2>2, <2>4, <2>5
<1>7. Searching' /\ Aligning' /\ Identifying' /\ Located'
  BY DEF Searching, Aligning, Identifying, Located
<1> QED  BY <1>1, <1>3, <1>4, <1>5, <1>6, <1>7 DEF IInv

LEMMA KeepKeeps ==
  ASSUME IInv, Keep
  PROVE  IInv'
<1> USE InvariantTypes, Sizes
<1>1. /\ pc = "split" /\ pc' = "split" /\ at < n /\ n < MAXNUTTERANCES
      /\ at' = at + 1 /\ (utt' = Tried \/ utt' = utt)
      /\ UNCHANGED <<row, degraded, crude, scan, n, found>>
  BY DEF Keep, Trying
<1>2. utt \in [Slot -> SlotType \cup {Junk}]  BY DEF IInv, Types
<1>3. \A k \in Live : k \in Slot /\ k # MAXNUTTERANCES - 1  BY <1>1 DEF Live
<1>4. /\ utt' \in [Slot -> SlotType \cup {Junk}]
      /\ \A k \in Live : utt'[k] = utt[k]
  BY <1>1, <1>2, <1>3 DEF Tried
<1>5. at' \in Nat /\ at' <= n  BY <1>1
<1> QED  BY <1>1, <1>4, <1>5, LiveStay

LEMMA FinishKeeps ==
  ASSUME IInv, Finish
  PROVE  IInv'
<1> USE InvariantTypes, Sizes
<1>1. /\ pc = "split" /\ pc' = "done"
      /\ UNCHANGED <<row, degraded, crude, at, scan, n, utt, found>>
  BY DEF Finish
<1>2. utt' \in [Slot -> SlotType \cup {Junk}] /\ at' \in Nat /\ at' <= n
  BY <1>1 DEF IInv, Types, Splitting
<1> QED  BY <1>1, <1>2, LiveStay

-----------------------------------------------------------------------------
(* The theorems. *)

LEMMA Initially == Init => IInv
<1> SUFFICES ASSUME Init PROVE IInv  OBVIOUS
<1> USE Sizes
<1>1. /\ row \in Row /\ SpeechRow(row) /\ degraded \in DegSamples
      /\ pc = "search" /\ at = 0 /\ n = 0
      /\ count = 0 /\ speech = FALSE /\ this_start = 0
      /\ utt = [k \in Slot |-> Junk] /\ found = <<>>
  BY DEF Init, Row
<1>2. crude \in Int
  <2>1. PICK c \in Crudes : crude = Downsample * c  BY DEF Init
  <2>2. c \in Int  BY UtteranceAssumption
  <2> QED  BY <2>1, <2>2
<1>3. Types
  <2>1. count \in Window /\ this_start \in Window /\ at \in Nat /\ n \in Nat
    BY <1>1
  <2>2. utt \in [Slot -> SlotType \cup {Junk}]  BY <1>1
  <2>3. found \in Seq([start : Int, end : Int])  BY <1>1
  <2>4. pc \in Steps /\ speech \in BOOLEAN  BY <1>1 DEF Steps
  <2> QED  BY <1>1, <1>2, <2>1, <2>2, <2>3, <2>4 DEF Types
<1>4. Reading /\ FoundRuns  BY <1>1 DEF Reading, FoundRuns
<1>5. \A r \in Runs(row) : r.start \in Nat /\ r.end \in Nat  BY <1>1, RunIs
<1>6. AllFound(0) /\ Spare(0)  BY <1>5 DEF AllFound, Spare
<1>7. Searching  BY <1>1, <1>6 DEF Searching
<1>8. /\ Searched /\ Aligning /\ Identifying /\ Located /\ Splitting /\ DegradedInOrder
  BY <1>1 DEF Searched, Aligning, Identifying, Located, Splitting, DegradedInOrder
<1> QED  BY <1>3, <1>4, <1>7, <1>8 DEF IInv

LEMMA Stutters ==
  ASSUME IInv, UNCHANGED vars
  PROVE  IInv'
<1>1. /\ row' = row /\ degraded' = degraded /\ crude' = crude /\ pc' = pc /\ at' = at
      /\ count' = count /\ speech' = speech /\ this_start' = this_start /\ n' = n
      /\ utt' = utt /\ found' = found
  BY DEF vars, scan
<1>2. DegStart' = DegStart /\ DegEnd' = DegEnd /\ Live' = Live
  BY <1>1 DEF DegStart, DegEnd, Live
<1>3. Types' /\ Reading'
  BY <1>1 DEF IInv, Types, SpeechRow, Reading
<1>4. FoundRuns' /\ Searching' /\ Searched'
  BY <1>1, <1>2
  DEF IInv, FoundRuns, Searching, Searched, AllFound, Spare, Behind, Counts
<1>5. Aligning' /\ Identifying' /\ Located' /\ Splitting'
  BY <1>1, <1>2 DEF IInv, Aligning, Identifying, Located, Splitting, Spare, Behind
<1>6. DegradedInOrder'  BY <1>1 DEF IInv, DegradedInOrder
<1> QED  BY <1>3, <1>4, <1>5, <1>6 DEF IInv

LEMMA Inductive == IInv /\ [Next]_vars => IInv'
<1> SUFFICES ASSUME IInv, [Next]_vars PROVE IInv'  OBVIOUS
<1>1. CASE IdSearchwindows  BY <1>1, SearchKeeps
<1>2. CASE CrudeAlign  BY <1>2, CrudeAlignKeeps
<1>3. CASE TimeAlign  BY <1>3, TimeAlignKeeps
<1>4. CASE IdUtterances  BY <1>4, IdentifyKeeps
<1>5. CASE SetLimits  BY <1>5, SetLimitsKeeps
<1>6. CASE Split  BY <1>6, SplitKeeps
<1>7. CASE Keep  BY <1>7, KeepKeeps
<1>8. CASE Finish  BY <1>8, FinishKeeps
<1>9. CASE Done \/ UNCHANGED vars  BY <1>9, Stutters DEF Done
<1> QED
  BY <1>1, <1>2, <1>3, <1>4, <1>5, <1>6, <1>7, <1>8, <1>9 DEF Next, Step

LEMMA Invariant == Spec => []IInv
  BY Initially, Inductive, PTL DEF Spec

\* TypeOK: every variable keeps its type, and there are never more utterances
\* than slots, for every row of speech that has no more runs than slots.
THEOREM TypeCorrect == Spec => []TypeOK
<1>1. IInv => TypeOK
  <2> SUFFICES ASSUME IInv PROVE TypeOK  OBVIOUS
  <2> USE InvariantTypes, Sizes
  <2>1. n <= MAXNUTTERANCES
    <3>1. CASE pc = "search"  BY <3>1 DEF IInv, Searching
    <3>2. CASE pc # "search"  BY <3>2 DEF IInv, Searched
    <3> QED  BY <3>1, <3>2
  <2>2. at <= MAXNUTTERANCES
    <3>1. pc \in Steps  BY DEF IInv, Types
    <3>2. CASE pc = "search"  BY <3>2, RoomForAll DEF IInv, Searching
    <3>3. CASE pc # "search"
      <4>1. at <= n
        BY <3>1, <3>3 DEF IInv, Steps, Aligning, Identifying, Located, Splitting
      <4> QED  BY <2>1, <4>1
    <3> QED  BY <3>2, <3>3
  <2> QED  BY <2>1, <2>2 DEF IInv, Types, TypeOK, Row
<1> QED  BY <1>1, Invariant, PTL

\* FindsTheSpeech: the two scans count the same stretches of speech, those that
\* are long enough and have degraded data beside them, for every row.
THEOREM SpeechFound == Spec => []FindsTheSpeech
<1>1. IInv => FindsTheSpeech
  <2> SUFFICES ASSUME IInv PROVE FindsTheSpeech  OBVIOUS
  <2> USE InvariantTypes, Sizes
  <2>1. FoundRuns  BY DEF IInv
  <2>2. ASSUME pc # "search"
        PROVE  {found[i] : i \in DOMAIN found}
                 = {r \in Runs(row) : Counts(r.start, r.end)}
    <3>1. AllFound(RefWindows)  BY <2>2 DEF IInv, Searched
    <3>2. \A r \in Runs(row) : r.end < RefWindows  BY RunInRow
    <3> QED  BY <2>1, <3>1, <3>2 DEF FoundRuns, AllFound
  <2>3. \A i \in 1 .. Len(found) - 1 : found[i].end < found[i + 1].start
    <3> SUFFICES ASSUME NEW i \in 1 .. Len(found) - 1
                 PROVE  found[i].end < found[i + 1].start
      OBVIOUS
    <3>1. i \in 1 .. Len(found) /\ i + 1 \in 1 .. Len(found) /\ i < i + 1  OBVIOUS
    <3> QED  BY <2>1, <3>1 DEF FoundRuns
  <2>4. ASSUME pc = "limits", NEW k \in Live
        PROVE  found[k + 1] = [start |-> utt[k].start, end |-> utt[k].end]
    <3>1. /\ n = Len(found) /\ utt[k].start = found[k + 1].start
          /\ utt[k].end = found[k + 1].end
      BY <2>4 DEF IInv, Located
    <3>2. k + 1 \in 1 .. Len(found)  BY <3>1 DEF Live
    <3>3. found[k + 1] \in Runs(row)  BY <2>1, <3>2 DEF FoundRuns
    <3>4. found[k + 1] = [start |-> found[k + 1].start, end |-> found[k + 1].end]
      BY <3>3, RunIs
    <3> QED  BY <3>1, <3>4
  <2> QED  BY <2>2, <2>3, <2>4 DEF FindsTheSpeech
<1> QED  BY <1>1, Invariant, PTL

\* LiveSlotsAreKept: an experiment of split_align overwrites no utterance.
THEOREM LiveKept == Spec => []LiveSlotsAreKept
<1>1. IInv => LiveSlotsAreKept
  <2> SUFFICES ASSUME IInv, pc # "search", NEW k \in Live
               PROVE  k \in Slot /\ utt[k] # Junk
    BY DEF LiveSlotsAreKept
  <2>1. n <= MAXNUTTERANCES /\ utt[k] \in SlotType  BY DEF IInv, Searched
  <2>2. utt[k] # Junk  BY <2>1, UtteranceAssumption
  <2>3. n \in Nat /\ MAXNUTTERANCES \in Nat /\ Slot = 0 .. MAXNUTTERANCES - 1
    BY InvariantTypes, Sizes
  <2>4. k \in Slot  BY <2>1, <2>3 DEF Live
  <2> QED  BY <2>2, <2>4
<1> QED  BY <1>1, Invariant, PTL

\* DegradedInOrder: the limits id_utterances sets keep neighbours apart in the
\* degraded signal and clear of its ends, whatever the delays are.
THEOREM OrderCorrect == Spec => []DegradedInOrder
<1>1. IInv => DegradedInOrder  BY DEF IInv
<1> QED  BY <1>1, Invariant, PTL

\* LooksInsideTheRow: until a split, the loops for speech stay inside VAD.
THEOREM LooksInside == Spec => []LooksInsideTheRow
<1>1. IInv => LooksInsideTheRow
  <2> SUFFICES ASSUME IInv, Trying, n = Len(found), utt[at].start < utt[at].end
               PROVE  utt[at].start \in Window /\ utt[at].end \in Window
    BY DEF LooksInsideTheRow
  <2> USE InvariantTypes, Sizes
  <2>1. pc = "split" /\ at \in Live  BY DEF Trying, Live
  <2>2. utt[at] \in SlotType  BY <2>1 DEF IInv, Searched
  <2>3. utt[at].start >= 0 /\ utt[at].end <= LastWindow
    BY <2>1 DEF IInv, Splitting
  <2>4. utt[at].start \in Int /\ utt[at].end \in Int  BY <2>2 DEF SlotType
  <2> QED  BY <2>3, <2>4
<1> QED  BY <1>1, Invariant, PTL

\* SplitKeepsOthers: a split leaves the other utterances, in their order, with
\* the delays and limits they had.
THEOREM OthersKept == Spec => SplitKeepsOthers
<1>1. IInv /\ [Next]_vars =>
        [n' > n /\ pc = "split" =>
           \A k \in Live \ {at} :
             Timed(utt'[IF k < at THEN k ELSE k + 1]) = Timed(utt[k])]_vars
  <2> SUFFICES ASSUME IInv, Next, n' > n, pc = "split", NEW k \in Live \ {at}
               PROVE  Timed(utt'[IF k < at THEN k ELSE k + 1]) = Timed(utt[k])
    OBVIOUS
  <2> USE InvariantTypes, Sizes
  <2>1. Split
    BY DEF Next, Step, IdSearchwindows, CrudeAlign, TimeAlign, IdUtterances,
           SetLimits, Keep, Finish, Done, vars
  <2>2. /\ at < n
        /\ \A i \in 0 .. at - 1 : utt'[i] = utt[i]
        /\ \A i \in at + 1 .. n - 1 : utt'[i + 1] = Moved(utt[i])
    BY <2>1, SplitSlots
  <2>3. CASE k < at
    <3>1. k \in 0 .. at - 1  BY <2>3 DEF Live
    <3> QED  BY <2>2, <2>3, <3>1
  <2>4. CASE ~(k < at)
    <3>1. k \in at + 1 .. n - 1 /\ k \in Live  BY <2>4 DEF Live
    <3>2. utt'[k + 1] = Moved(utt[k])  BY <2>2, <3>1
    <3>3. utt[k] \in SlotType  BY <3>1 DEF IInv, Searched
    <3>4. \A t \in SlotType : Timed(Moved(t)) = Timed(t)
      BY DEF Moved, Timed, SlotType
    <3>5. Timed(utt'[k + 1]) = Timed(utt[k])  BY <3>2, <3>3, <3>4
    <3> QED  BY <2>4, <3>5
  <2> QED  BY <2>3, <2>4
<1> QED  BY <1>1, Invariant, PTL DEF Spec, SplitKeepsOthers

-----------------------------------------------------------------------------
(* The contract with split_align. *)

\* Every utterance that is handed to split_align is one it can split: the speech
\* found from either end lies inside its limits and leaves a pad on both sides,
\* whatever earlier splits did to the limits and whatever lies outside the row.
HandsOverSplittable ==
  Trying => \A outside \in BOOLEAN :
              IsLong(utt[at], outside) => Splittable(Given(utt[at], outside))

\* utterance_split (pesqmod.c:321-336) keeps its side of the contract: what
\* SplitAlign assumes of its utterances holds of each that is handed over.
THEOREM SplittableCorrect == Spec => []HandsOverSplittable
<1>1. ASSUME IInv, Trying, NEW outside \in BOOLEAN, IsLong(utt[at], outside)
      PROVE  Splittable(Given(utt[at], outside))
  <2>1. utt[at] \in SlotType
    BY <1>1, InvariantTypes DEF Trying, IInv, Searched, Live
  <2>2. PICK u \in SlotType : u = utt[at]  BY <2>1
  <2>3. PICK g : g = Given(u, outside)  OBVIOUS
  <2>4. /\ g.start = u.start /\ g.end = u.end
        /\ g.speechStart = SpeechStart(u, outside)
        /\ g.speechEnd = SpeechEnd(u, outside)
    BY <2>3 DEF Given
  <2>5. /\ g.speechStart \in Int /\ g.speechStart >= g.start
        /\ g.speechEnd \in Int /\ g.speechEnd <= g.end + 1
    BY <2>4, SpeechLimits
  <2>6. g.speechEnd - g.speechStart >= MinSplit
    BY <1>1, <2>2, <2>4 DEF IsLong
  <2>7. g.start \in Int /\ g.end \in Int /\ MinSplit \in Nat /\ Pad \in Nat
        /\ MinSplit > 2 * Pad
    BY <2>4, UtteranceAssumption DEF SlotType
  <2>8. Splittable(g)  BY <2>5, <2>6, <2>7 DEF Splittable
  <2> QED  BY <2>2, <2>3, <2>8
<1>2. IInv => HandsOverSplittable  BY <1>1 DEF HandsOverSplittable
<1> QED  BY <1>2, Invariant, PTL

-----------------------------------------------------------------------------
(* The steps that are left. *)

\* An upper bound of the steps that are left: a split looks at the same place
\* again, but fills a slot, and there are MAXNUTTERANCES.
StepsLeft ==
  LET splits == 2 * MAXNUTTERANCES + 1
      scans  == splits + 1 + RefWindows
      align  == 2 * (MAXNUTTERANCES - at) + scans
  IN CASE pc = "search"   -> 2 * MAXNUTTERANCES + scans + (RefWindows - count)
       [] pc = "crude"    -> align
       [] pc = "time"     -> align - 1
       [] pc = "identify" -> splits + 1 + (RefWindows - count)
       [] pc = "limits"   -> splits + 1
       [] pc = "split"    -> splits - at - n
       [] OTHER           -> 0

\* Every step uses up one of them at least: utterance_split, which counts
\* neither its rounds nor its splits, takes at most two rounds for each slot.
UsesUpSteps == [][StepsLeft' \in 0 .. StepsLeft - 1]_vars

LEMMA EveryStepCounts ==
  ASSUME IInv, Step
  PROVE  StepsLeft' \in 0 .. StepsLeft - 1
<1> DEFINE M == MAXNUTTERANCES  W == RefWindows
<1>1. M \in Nat /\ M >= 1 /\ W \in Nat /\ LastWindow = W - 1
  BY Sizes
<1>2. at \in Nat /\ n \in Nat /\ count \in Nat /\ count <= LastWindow
  BY InvariantTypes
<1>3. CASE IdSearchwindows
  <2>1. /\ pc = "search"
        /\ \/ pc' = "search" /\ count' = count + 1 /\ count < LastWindow
           \/ pc' \in {"identify", "crude"} /\ count' = 0 /\ at' = 0
    BY <1>2, <1>3 DEF IdSearchwindows, ScanWindow
  <2>2. StepsLeft = 2 * M + (2 * M + 2 + W) + (W - count)
    BY <1>1, <1>2, <2>1 DEF StepsLeft
  <2>3. CASE pc' = "search"
    BY <1>1, <1>2, <2>1, <2>2, <2>3 DEF StepsLeft
  <2>4. CASE pc' = "identify"
    BY <1>1, <1>2, <2>1, <2>2, <2>4 DEF StepsLeft
  <2>5. CASE pc' = "crude"
    BY <1>1, <1>2, <2>1, <2>2, <2>5 DEF StepsLeft
  <2> QED  BY <2>1, <2>3, <2>4, <2>5
<1>4. CASE CrudeAlign
  <2>1. pc = "crude" /\ pc' = "time" /\ at' = at  BY <1>4 DEF CrudeAlign
  <2>2. at < M
    BY <1>1, <1>2, <2>1 DEF IInv, Aligning, Searched
  <2> QED  BY <1>1, <1>2, <2>1, <2>2 DEF StepsLeft
<1>5. CASE TimeAlign
  <2>1. /\ pc = "time" /\ count' = count
        /\ \/ pc' = "crude" /\ at' = at + 1 /\ at + 1 < n
           \/ pc' = "identify"
    BY <1>5 DEF TimeAlign, scan
  <2>2. at < n /\ n <= M /\ count = 0
    BY <1>1, <1>2, <2>1 DEF IInv, Aligning, Searched
  <2>3. StepsLeft = 2 * (M - at) + (2 * M + 2 + W) - 1
    BY <1>1, <1>2, <2>1 DEF StepsLeft
  <2>4. CASE pc' = "crude"
    BY <1>1, <1>2, <2>1, <2>2, <2>3, <2>4 DEF StepsLeft
  <2>5. CASE pc' = "identify"
    BY <1>1, <1>2, <2>1, <2>2, <2>3, <2>5 DEF StepsLeft
  <2> QED  BY <2>1, <2>4, <2>5
<1>6. CASE IdUtterances
  <2>1. /\ pc = "identify"
        /\ \/ pc' = "identify" /\ count' = count + 1 /\ count < LastWindow
           \/ pc' = "limits"
    BY <1>2, <1>6 DEF IdUtterances, ScanWindow
  <2>2. StepsLeft = 2 * M + 2 + (W - count)
    BY <1>1, <1>2, <2>1 DEF StepsLeft
  <2>3. CASE pc' = "identify"
    BY <1>1, <1>2, <2>1, <2>2, <2>3 DEF StepsLeft
  <2>4. CASE pc' = "limits"
    BY <1>1, <1>2, <2>2, <2>4 DEF StepsLeft
  <2> QED  BY <2>1, <2>3, <2>4
<1>7. CASE SetLimits
  <2>1. pc = "limits" /\ pc' = "split" /\ at' = at /\ n' = n
    BY <1>7 DEF SetLimits
  <2>2. at = 0 /\ n <= M
    BY <2>1 DEF IInv, Located, Searched
  <2> QED  BY <1>1, <1>2, <2>1, <2>2 DEF StepsLeft
<1>8. CASE Split \/ Keep
  <2>1. /\ pc = "split" /\ pc' = "split" /\ at < n /\ n < M
        /\ \/ at' = at /\ n' = n + 1
           \/ at' = at + 1 /\ n' = n
    BY <1>8 DEF Split, Keep, Trying
  <2> QED  BY <1>1, <1>2, <2>1 DEF StepsLeft
<1>9. CASE Finish
  <2>1. pc = "split" /\ pc' = "done"  BY <1>9 DEF Finish
  <2>2. at <= n /\ n <= M
    BY <2>1 DEF IInv, Splitting, Searched
  <2> QED  BY <1>1, <1>2, <2>1, <2>2 DEF StepsLeft
<1> QED
  BY <1>3, <1>4, <1>5, <1>6, <1>7, <1>8, <1>9 DEF Step

\* UsesUpSteps: the scans of id_searchwindows and id_utterances (pesqmod.c:159,
\* 211), the alignment (pesqmod.c:394) and the loop of utterance_split
\* (pesqmod.c:312), which looks again at what it has split, end: no step leaves
\* as many steps as there were before it, whatever the signals.
THEOREM ProgressCorrect == Spec => UsesUpSteps
<1>1. ASSUME IInv, [Next]_vars PROVE [StepsLeft' \in 0 .. StepsLeft - 1]_vars
  BY <1>1, EveryStepCounts DEF Next, Done
<1> QED  BY <1>1, Invariant, PTL DEF Spec, UsesUpSteps
=============================================================================
