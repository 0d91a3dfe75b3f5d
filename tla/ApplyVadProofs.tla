---------------------------- MODULE ApplyVadProofs -----------------------------
(***************************************************************************)
(* The safety properties of ApplyVad for every number of windows and every *)
(* length of the runs and silences that count.                             *)
(*                                                                         *)
(* The argument: in front of the index of a sweep the row already is what  *)
(* the definition says, behind it still what the sweep started from; only  *)
(* the run, or the silence, the index is in is undecided.  What is handed  *)
(* on is then what the definitions make of the row, and that its speech is *)
(* separated is a fact about them.                                         *)
(***************************************************************************)
EXTENDS ApplyVad, WellFoundedInduction, TLAPS

Row == [Window -> BOOLEAN]

LEMMA Sizes ==
  /\ Nwindows \in Nat /\ Nwindows > 6 /\ Nwindows > MINSPEECHLGTH + 5
  /\ MINSPEECHLGTH \in Nat /\ MINSPEECHLGTH >= 1
  /\ JOINSPEECHLGTH \in Nat /\ JOINSPEECHLGTH >= 4
  /\ Last = Nwindows - 1 /\ Last \in Nat /\ Window = 0 .. Last
  BY VadAssumption DEF Last, Window

LEMMA SmallestExists ==
  ASSUME NEW S \in SUBSET Nat, S # {}
  PROVE  \E n \in S : \A i \in S : n <= i
<1> DEFINE R == {ss \in Nat \X Nat : ss[1] < ss[2]}
<1>1. \E n \in S : \A i \in S : <<i, n>> \notin R
  <2>1. IsWellFoundedOn(R, Nat)
    BY NatLessThanWellFounded DEF OpToRel
  <2> HIDE DEF R
  <2> QED  BY <2>1, WFMin
<1>2. PICK n \in S : \A i \in S : <<i, n>> \notin R  BY <1>1
<1>3. ASSUME NEW i \in S PROVE n <= i
  <2>1. i \in Nat /\ n \in Nat /\ <<i, n>> \notin R  BY <1>2
  <2> QED  BY <2>1
<1> QED  BY <1>3

-----------------------------------------------------------------------------
(* Runs. *)

LEMMA SpeechIs ==
  ASSUME NEW row \in Row, NEW i
  PROVE  Speech(row, i) <=> i \in Window /\ row[i]
  BY DEF Speech, Row

\* What is speech goes on up to an end.
LEMMA EndExists ==
  ASSUME NEW row \in Row, NEW s \in Window, row[s]
  PROVE  \E e \in s + 1 .. Nwindows :
           ~Speech(row, e) /\ \A i \in s .. e - 1 : row[i]
<1> DEFINE S == {k \in s + 1 .. Nwindows : ~Speech(row, k)}
<1>1. S \subseteq Nat /\ S # {}
  <2>1. Nwindows \in S  BY Sizes, SpeechIs
  <2>2. s \in Nat  BY Sizes
  <2> QED  BY <2>1, <2>2, Sizes
<1>2. PICK e \in S : \A k \in S : e <= k
  <2> HIDE DEF S
  <2> QED  BY <1>1, SmallestExists
<1>3. ASSUME NEW i \in s .. e - 1 PROVE row[i]
  <2>1. CASE i = s  BY <2>1
  <2>2. CASE i # s
    <3>1. i \in s + 1 .. Nwindows /\ ~(e <= i)
      BY <1>2, <2>2, Sizes
    <3>2. Speech(row, i)  BY <1>2, <3>1
    <3> QED  BY <3>2, SpeechIs
  <2> QED  BY <2>1, <2>2
<1> QED  BY <1>2, <1>3

\* And back to a start.
LEMMA StartExists ==
  ASSUME NEW row \in Row, NEW f \in Window, row[f], ~row[0]
  PROVE  \E s \in 1 .. f : ~row[s - 1] /\ \A i \in s .. f : row[i]
<1> DEFINE S == {k \in 0 .. f : ~row[f - k]}
<1>1. S \subseteq Nat /\ S # {}
  <2>1. f \in S  BY Sizes
  <2> QED  BY <2>1
<1>2. PICK n \in S : \A k \in S : n <= k
  <2> HIDE DEF S
  <2> QED  BY <1>1, SmallestExists
<1>3. n \in 1 .. f /\ ~row[f - n]
  <2>1. n # 0  BY <1>2, Sizes
  <2> QED  BY <1>2, <2>1, Sizes
<1>4. ASSUME NEW i \in f - n + 1 .. f PROVE row[i]
  <2>1. f - i \in 0 .. f /\ ~(n <= f - i)  BY <1>3, Sizes
  <2>2. row[f - (f - i)]  BY <1>2, <2>1
  <2>3. f - (f - i) = i  BY Sizes
  <2> QED  BY <2>2, <2>3
<1>5. f - n + 1 \in 1 .. f /\ (f - n + 1) - 1 = f - n  BY <1>3, Sizes
<1> QED  BY <1>3, <1>4, <1>5

LEMMA RunAt ==
  ASSUME NEW row \in Row, NEW s \in Window, NEW e \in s + 1 .. Nwindows,
         ~Speech(row, s - 1), ~Speech(row, e), \A i \in s .. e - 1 : row[i]
  PROVE  EndOf(row, s) = e /\ [start |-> s, end |-> e] \in Runs(row)
<1> DEFINE S == {i + 1 : i \in DOMAIN row}
           P(f) == f > s /\ ~Speech(row, f) /\ \A i \in s .. f - 1 : row[i]
<1>1. DOMAIN row = Window /\ s \in Int /\ e \in Int  BY Sizes DEF Row
<1>2. e \in S /\ P(e)
  <2>1. e - 1 \in Window /\ e = (e - 1) + 1  BY Sizes
  <2>2. e > s  BY Sizes
  <2> QED  BY <1>1, <2>1, <2>2
<1>3. ASSUME NEW f \in S, P(f) PROVE f = e
  <2>1. f \in s + 1 .. Nwindows  BY <1>1, <1>3, Sizes
  <2>2. ~(f < e)
    <3> SUFFICES ASSUME f < e PROVE FALSE  OBVIOUS
    <3>1. f \in s .. e - 1 /\ f \in Window  BY <2>1, Sizes
    <3> QED  BY <1>3, <3>1, SpeechIs
  <2>3. ~(e < f)
    <3> SUFFICES ASSUME e < f PROVE FALSE  OBVIOUS
    <3>1. e \in s .. f - 1 /\ e \in Window  BY <2>1, Sizes
    <3> QED  BY <1>3, <3>1, SpeechIs
  <2> QED  BY <1>1, <2>1, <2>2, <2>3
<1>4. EndOf(row, s) = CHOOSE f \in S : P(f)  BY DEF EndOf
<1> HIDE DEF S, P
<1>5. EndOf(row, s) = e  BY <1>2, <1>3, <1>4
<1>6. s \in Starts(row)
  <2>1. row[s]  BY Sizes
  <2> QED  BY <1>1, <2>1 DEF Starts
<1> QED  BY <1>5, <1>6 DEF Runs

LEMMA RunIs ==
  ASSUME NEW row \in Row, NEW r \in Runs(row)
  PROVE  /\ r.start \in Window /\ r.end \in r.start + 1 .. Nwindows
         /\ ~Speech(row, r.start - 1) /\ ~Speech(row, r.end)
         /\ \A i \in r.start .. r.end - 1 : row[i]
         /\ r = [start |-> r.start, end |-> r.end]
<1>1. PICK s \in Starts(row) : r = [start |-> s, end |-> EndOf(row, s)]
  BY DEF Runs
<1>2. s \in Window /\ row[s] /\ ~Speech(row, s - 1)  BY DEF Starts, Row
<1>3. PICK e \in s + 1 .. Nwindows :
        ~Speech(row, e) /\ \A i \in s .. e - 1 : row[i]
  BY <1>2, EndExists
<1>4. EndOf(row, s) = e  BY <1>2, <1>3, RunAt
<1> QED  BY <1>1, <1>2, <1>3, <1>4

LEMMA RunStarting ==
  ASSUME NEW row \in Row, NEW s \in Window, row[s], ~Speech(row, s - 1)
  PROVE  \E r \in Runs(row) : r.start = s
<1>1. PICK e \in s + 1 .. Nwindows :
        ~Speech(row, e) /\ \A i \in s .. e - 1 : row[i]
  BY EndExists
<1>2. [start |-> s, end |-> e] \in Runs(row)  BY <1>1, RunAt
<1> QED  BY <1>2

LEMMA RunEnding ==
  ASSUME NEW row \in Row, ~row[0], NEW e \in 1 .. Nwindows, ~Speech(row, e),
         row[e - 1]
  PROVE  \E r \in Runs(row) : r.end = e
<1>1. e - 1 \in Window  BY Sizes
<1>2. PICK s \in 1 .. e - 1 : ~row[s - 1] /\ \A i \in s .. e - 1 : row[i]
  BY <1>1, StartExists
<1>3. s \in Window /\ e \in s + 1 .. Nwindows /\ ~Speech(row, s - 1)
  BY <1>2, Sizes, SpeechIs
<1>4. [start |-> s, end |-> e] \in Runs(row)  BY <1>2, <1>3, RunAt
<1> QED  BY <1>4

\* A window is in no more than one run.
LEMMA SameRun ==
  ASSUME NEW row \in Row, NEW q \in Runs(row), NEW r \in Runs(row), NEW i \in Int,
         Within(i, q), Within(i, r)
  PROVE  q = r
<1>1. ASSUME NEW a \in Runs(row), NEW b \in Runs(row), Within(i, a), Within(i, b)
      PROVE  ~(a.start < b.start)
  <2> SUFFICES ASSUME a.start < b.start PROVE FALSE  OBVIOUS
  <2>1. /\ a.start \in Window /\ b.start \in Window /\ a.end \in Int
        /\ ~Speech(row, b.start - 1) /\ \A k \in a.start .. a.end - 1 : row[k]
    BY RunIs, Sizes
  <2>2. i < a.end /\ b.start <= i  BY <1>1 DEF Within
  <2>3. b.start - 1 \in a.start .. a.end - 1 /\ b.start - 1 \in Window
    BY <2>1, <2>2, Sizes
  <2> QED  BY <2>1, <2>3, SpeechIs
<1>2. q.start = r.start
  <2>1. q.start \in Int /\ r.start \in Int  BY RunIs, Sizes
  <2> QED  BY <1>1, <2>1
<1>3. /\ q = [start |-> q.start, end |-> EndOf(row, q.start)]
      /\ r = [start |-> r.start, end |-> EndOf(row, r.start)]
  BY DEF Runs
<1> QED  BY <1>2, <1>3

-----------------------------------------------------------------------------
(* What the definitions say of a row, run by run and silence by silence. *)

EndsSilent(row) == ~row[0] /\ ~row[Last]

\* A run that begins at i is longer than MINSPEECHLGTH.
RunsAreLong(row) ==
  \A i \in 1 .. Last : row[i] /\ ~row[i - 1] =>
    /\ i + MINSPEECHLGTH < Last
    /\ \A k \in i .. i + MINSPEECHLGTH : row[k]

\* A silence that begins at j is longer than JOINSPEECHLGTH, or the last one.
RunsAreApart(row) ==
  \A j \in 1 .. Last : ~row[j] /\ row[j - 1] =>
    \A k \in j .. Last : k <= j + JOINSPEECHLGTH => ~row[k]

LEMMA LongOnlyIs ==
  ASSUME NEW row \in Row
  PROVE  /\ LongOnly(row, MINSPEECHLGTH) \in Row
         /\ \A i \in Window : ~row[i] => ~LongOnly(row, MINSPEECHLGTH)[i]
         /\ \A r \in Runs(row) : \A i \in r.start .. r.end - 1 :
              LongOnly(row, MINSPEECHLGTH)[i] = (r.end - r.start > MINSPEECHLGTH)
<1> DEFINE l == LongOnly(row, MINSPEECHLGTH)
           Long(i) == \E r \in Runs(row) :
                        Within(i, r) /\ r.end - r.start > MINSPEECHLGTH
<1>1. l = [i \in Window |-> Long(i)]
  BY DEF LongOnly, Row
<1>2. \A i \in Window : l[i] = Long(i)  BY <1>1
<1>3. l \in Row
  <2>1. \A i \in Window : Long(i) \in BOOLEAN  OBVIOUS
  <2> HIDE DEF Long
  <2> QED  BY <1>1, <2>1 DEF Row
<1>4. ASSUME NEW i \in Window, Long(i) PROVE row[i]
  <2>1. PICK r \in Runs(row) : Within(i, r)  BY <1>4
  <2>2. i \in r.start .. r.end - 1  BY <2>1, RunIs, Sizes DEF Within
  <2> QED  BY <2>2, RunIs
<1>5. ASSUME NEW r \in Runs(row), NEW i \in r.start .. r.end - 1
      PROVE  l[i] = (r.end - r.start > MINSPEECHLGTH)
  <2>1. i \in Window /\ i \in Int /\ Within(i, r)
    BY RunIs, Sizes DEF Within
  <2>2. \A q \in Runs(row) : Within(i, q) => q = r
    BY <2>1, SameRun
  <2>3. Long(i) <=> r.end - r.start > MINSPEECHLGTH
    BY <2>1, <2>2
  <2> HIDE DEF Long
  <2>4. l[i] = Long(i)  BY <1>2, <2>1
  <2>5. Long(i) \in BOOLEAN  BY DEF Long
  <2> QED  BY <2>3, <2>4, <2>5
<1> QED  BY <1>2, <1>3, <1>4, <1>5

LEMMA LongOnlyIsLong ==
  ASSUME NEW row \in Row, EndsSilent(row)
  PROVE  RunsAreLong(LongOnly(row, MINSPEECHLGTH))
<1> DEFINE l == LongOnly(row, MINSPEECHLGTH)
<1>1. /\ \A i \in Window : ~row[i] => ~l[i]
      /\ \A r \in Runs(row) : \A i \in r.start .. r.end - 1 :
           l[i] = (r.end - r.start > MINSPEECHLGTH)
  BY LongOnlyIs
<1> HIDE DEF l
<1>2. SUFFICES ASSUME NEW i \in 1 .. Last, l[i], ~l[i - 1]
               PROVE  /\ i + MINSPEECHLGTH < Last
                      /\ \A k \in i .. i + MINSPEECHLGTH : l[k]
  BY DEF RunsAreLong, l
<1>3. i \in Window /\ i - 1 \in Window /\ i \in Int  BY Sizes
<1>4. row[i]  BY <1>1, <1>2, <1>3
<1>5. PICK s \in 1 .. i : ~row[s - 1] /\ \A k \in s .. i : row[k]
  BY <1>3, <1>4, StartExists DEF EndsSilent
<1>6. s \in Window /\ row[s] /\ ~Speech(row, s - 1)
  BY <1>5, Sizes, SpeechIs
<1>7. PICK r \in Runs(row) : r.start = s  BY <1>6, RunStarting
<1>8. /\ r.end \in s + 1 .. Nwindows /\ ~Speech(row, r.end)
      /\ \A k \in s .. r.end - 1 : row[k]
  BY <1>7, RunIs
<1>9. i < r.end
  <2> SUFFICES ASSUME r.end <= i PROVE FALSE  BY <1>8, Sizes
  <2>1. r.end \in s .. i /\ r.end \in Window  BY <1>8, Sizes
  <2> QED  BY <1>5, <1>8, <2>1, SpeechIs
<1>10. r.end - s > MINSPEECHLGTH
  <2>1. i \in r.start .. r.end - 1  BY <1>7, <1>8, <1>9, Sizes
  <2> QED  BY <1>1, <1>2, <1>7, <2>1
<1>11. \A k \in s .. r.end - 1 : l[k]  BY <1>1, <1>7, <1>10
<1>12. i = s
  <2> SUFFICES ASSUME s < i PROVE FALSE  BY Sizes
  <2>1. i - 1 \in s .. r.end - 1  BY <1>8, <1>9, Sizes
  <2> QED  BY <1>2, <1>11, <2>1
<1>13. r.end <= Last
  <2> SUFFICES ASSUME r.end = Nwindows PROVE FALSE  BY <1>8, Sizes
  <2>1. Last \in s .. r.end - 1  BY <1>6, Sizes
  <2> QED  BY <1>8, <2>1 DEF EndsSilent
<1> QED  BY <1>8, <1>10, <1>11, <1>12, <1>13, Sizes

LEMMA JoinedIs ==
  ASSUME NEW row \in Row, EndsSilent(row)
  PROVE  LET j == Joined(row, JOINSPEECHLGTH)
         IN /\ j \in Row
            /\ \A i \in Window : row[i] => j[i]
            /\ \A i \in Window :
                 (\A k \in 0 .. i : ~row[k]) \/ (\A k \in i .. Last : ~row[k]) =>
                   ~j[i]
            /\ \A f, c \in 1 .. Last :
                 f < c /\ row[f - 1] /\ row[c] /\ (\A k \in f .. c - 1 : ~row[k]) =>
                   \A i \in f .. c - 1 : j[i] = (c - f <= JOINSPEECHLGTH)
<1> DEFINE j == Joined(row, JOINSPEECHLGTH)
           Between(i) == \E q, r \in Runs(row) :
                           /\ q.end <= i /\ i < r.start
                           /\ r.start - q.end <= JOINSPEECHLGTH
<1>1. j = [i \in Window |-> row[i] \/ Between(i)]
  BY DEF Joined, Row
<1>2. \A i \in Window : j[i] = (row[i] \/ Between(i))  BY <1>1
<1>3. j \in Row
  <2>1. \A i \in Window : (row[i] \/ Between(i)) \in BOOLEAN  OBVIOUS
  <2> HIDE DEF Between
  <2> QED  BY <1>1, <2>1 DEF Row
<1>4. ASSUME NEW i \in Window, Between(i)
      PROVE  \E k \in 0 .. i, l \in i .. Last, q, r \in Runs(row) :
               /\ row[k] /\ row[l] /\ k = q.end - 1 /\ l = r.start
               /\ r.start - q.end <= JOINSPEECHLGTH
  <2>1. PICK q, r \in Runs(row) : /\ q.end <= i /\ i < r.start
                                  /\ r.start - q.end <= JOINSPEECHLGTH
    BY <1>4
  <2>2. /\ q.start \in Window /\ q.end \in q.start + 1 .. Nwindows
        /\ \A k \in q.start .. q.end - 1 : row[k]
    BY RunIs
  <2>3. /\ r.start \in Window /\ r.end \in r.start + 1 .. Nwindows
        /\ \A k \in r.start .. r.end - 1 : row[k]
    BY RunIs
  <2>4. q.end - 1 \in 0 .. i /\ row[q.end - 1]
    <3>1. q.end - 1 \in q.start .. q.end - 1 /\ q.end - 1 \in 0 .. i
      BY <2>1, <2>2, Sizes
    <3> QED  BY <2>2, <3>1
  <2>5. r.start \in i .. Last /\ row[r.start]
    <3>1. r.start \in r.start .. r.end - 1 /\ r.start \in i .. Last
      BY <2>1, <2>3, Sizes
    <3> QED  BY <2>3, <3>1
  <2> QED  BY <2>1, <2>4, <2>5
<1>5. ASSUME NEW i \in Window,
             (\A k \in 0 .. i : ~row[k]) \/ (\A k \in i .. Last : ~row[k])
      PROVE  ~j[i]
  <2>1. ~Between(i)  BY <1>4, <1>5
  <2>2. ~row[i]
    <3>1. i \in 0 .. i /\ i \in i .. Last  BY Sizes
    <3> QED  BY <1>5, <3>1
  <2> HIDE DEF Between
  <2> QED  BY <1>2, <2>1, <2>2
<1>6. ASSUME NEW f \in 1 .. Last, NEW c \in 1 .. Last, f < c, row[f - 1], row[c],
             \A k \in f .. c - 1 : ~row[k], NEW i \in f .. c - 1
      PROVE  j[i] = (c - f <= JOINSPEECHLGTH)
  <2>1. i \in Window /\ ~row[i] /\ f \in Window /\ c \in Window /\ i \in Int
    BY <1>6, Sizes
  <2>2. ASSUME Between(i) PROVE c - f <= JOINSPEECHLGTH
    <3>1. PICK k \in 0 .. i, l \in i .. Last, q, r \in Runs(row) :
            /\ row[k] /\ row[l] /\ k = q.end - 1 /\ l = r.start
            /\ r.start - q.end <= JOINSPEECHLGTH
      BY <1>4, <2>1, <2>2
    <3>2. k < f
      <4> SUFFICES ASSUME f <= k PROVE FALSE  BY Sizes
      <4>1. k \in f .. c - 1  BY Sizes
      <4> QED  BY <1>6, <3>1, <4>1
    <3>3. c <= l
      <4> SUFFICES ASSUME l < c PROVE FALSE  BY Sizes
      <4>1. l \in f .. c - 1  BY Sizes
      <4> QED  BY <1>6, <3>1, <4>1
    <3>4. q.end \in Int  BY RunIs, Sizes
    <3> QED  BY <3>1, <3>2, <3>3, <3>4, Sizes
  <2>3. ASSUME c - f <= JOINSPEECHLGTH PROVE Between(i)
    <3>1. ~Speech(row, f)
      <4>1. f \in f .. c - 1  BY <1>6, Sizes
      <4> QED  BY <1>6, <4>1, SpeechIs
    <3>2. PICK q \in Runs(row) : q.end = f
      <4>1. f \in 1 .. Nwindows  BY Sizes
      <4> QED  BY <1>6, <3>1, <4>1, RunEnding DEF EndsSilent
    <3>3. ~Speech(row, c - 1)
      <4>1. c - 1 \in f .. c - 1  BY <1>6, Sizes
      <4> QED  BY <1>6, <4>1, SpeechIs
    <3>4. PICK r \in Runs(row) : r.start = c
      BY <1>6, <2>1, <3>3, RunStarting
    <3>5. q.end <= i /\ i < r.start  BY <2>1, <3>2, <3>4, Sizes
    <3>6. r.start - q.end <= JOINSPEECHLGTH  BY <2>3, <3>2, <3>4
    <3> QED  BY <3>5, <3>6
  <2>4. j[i] \in BOOLEAN /\ (j[i] <=> Between(i))
    <3> HIDE DEF Between, j
    <3> QED  BY <1>2, <1>3, <2>1 DEF Row
  <2> HIDE DEF Between, j
  <2> QED  BY <2>2, <2>3, <2>4
<1>7. \A i \in Window : row[i] => j[i]
  <2> HIDE DEF Between
  <2> QED  BY <1>2
<1> HIDE DEF j
<1>8. \A f, c \in 1 .. Last :
        f < c /\ row[f - 1] /\ row[c] /\ (\A k \in f .. c - 1 : ~row[k]) =>
          \A i \in f .. c - 1 : j[i] = (c - f <= JOINSPEECHLGTH)
  BY <1>6
<1> QED  BY <1>3, <1>5, <1>7, <1>8 DEF j

\* The silence a window between two runs is in.
LEMMA SilenceAround ==
  ASSUME NEW row \in Row, NEW i \in Window, ~row[i],
         \E k \in 0 .. i : row[k], \E k \in i .. Last : row[k]
  PROVE  \E f \in 1 .. i, c \in i + 1 .. Last :
           row[f - 1] /\ row[c] /\ \A k \in f .. c - 1 : ~row[k]
<1> DEFINE S == {k \in 0 .. i : row[i - k]}
           T == {k \in i .. Last : row[k]}
<1>1. S \subseteq Nat /\ S # {} /\ T \subseteq Nat /\ T # {}
  <2>1. PICK k \in 0 .. i : row[k]  OBVIOUS
  <2>2. i - k \in 0 .. i /\ i - (i - k) = k  BY Sizes
  <2>3. i - k \in S  BY <2>1, <2>2
  <2>4. T \subseteq Nat  BY Sizes
  <2>5. T # {}  OBVIOUS
  <2> QED  BY <2>3, <2>4, <2>5
<1>2. PICK n \in S : \A k \in S : n <= k
  <2> HIDE DEF S
  <2> QED  BY <1>1, SmallestExists
<1>3. PICK c \in T : \A k \in T : c <= k
  <2> HIDE DEF T
  <2> QED  BY <1>1, SmallestExists
<1>4. n # 0 /\ c # i
  <2>1. i - 0 = i  BY Sizes
  <2> QED  BY <1>2, <1>3, <2>1
<1>5. PICK f \in 1 .. i : f = i - n + 1 /\ row[f - 1]
  <2>1. i - n + 1 \in 1 .. i /\ (i - n + 1) - 1 = i - n
    BY <1>2, <1>4, Sizes
  <2> QED  BY <1>2, <2>1
<1>6. c \in i + 1 .. Last /\ row[c]  BY <1>3, <1>4, Sizes
<1>7. ASSUME NEW k \in f .. c - 1 PROVE ~row[k]
  <2>1. CASE k <= i
    <3>1. i - k \in 0 .. i /\ ~(n <= i - k) /\ i - (i - k) = k
      BY <1>2, <1>5, <2>1, Sizes
    <3> QED  BY <1>2, <3>1
  <2>2. CASE ~(k <= i)
    <3>1. k \in i .. Last /\ ~(c <= k)  BY <1>5, <1>6, <2>2, Sizes
    <3> QED  BY <1>3, <3>1
  <2> QED  BY <2>1, <2>2
<1> QED  BY <1>5, <1>6, <1>7

LEMMA JoinedIsApart ==
  ASSUME NEW row \in Row, EndsSilent(row), RunsAreLong(row)
  PROVE  LET j == Joined(row, JOINSPEECHLGTH)
         IN EndsSilent(j) /\ RunsAreLong(j) /\ RunsAreApart(j)
<1> DEFINE j == Joined(row, JOINSPEECHLGTH)
<1>1. /\ j \in Row
      /\ \A i \in Window : row[i] => j[i]
      /\ \A i \in Window :
           (\A k \in 0 .. i : ~row[k]) \/ (\A k \in i .. Last : ~row[k]) => ~j[i]
      /\ \A f, c \in 1 .. Last :
           f < c /\ row[f - 1] /\ row[c] /\ (\A k \in f .. c - 1 : ~row[k]) =>
             \A i \in f .. c - 1 : j[i] = (c - f <= JOINSPEECHLGTH)
  BY JoinedIs
<1> HIDE DEF j
<1>2. EndsSilent(j)
  <2>1. /\ 0 \in Window /\ Last \in Window
        /\ \A k \in 0 .. 0 : ~row[k]
        /\ \A k \in Last .. Last : ~row[k]
    BY Sizes DEF EndsSilent
  <2>2. ~j[0]  BY <1>1, <2>1
  <2>3. ~j[Last]  BY <1>1, <2>1
  <2> QED  BY <2>2, <2>3 DEF EndsSilent
\* Joining leaves the beginnings and ends of runs where they were, or none.
<1>3. ASSUME NEW i \in 1 .. Last, j[i], ~j[i - 1] PROVE row[i] /\ ~row[i - 1]
  <2>1. i \in Window /\ i - 1 \in Window  BY Sizes
  <2>2. ~row[i - 1]  BY <1>1, <1>3, <2>1
  <2>3. ASSUME ~row[i] PROVE FALSE
    <3>1. (\E k \in 0 .. i : row[k]) /\ \E k \in i .. Last : row[k]
      BY <1>1, <1>3, <2>1
    <3>2. PICK f \in 1 .. i, c \in i + 1 .. Last :
            row[f - 1] /\ row[c] /\ \A k \in f .. c - 1 : ~row[k]
      BY <2>1, <2>3, <3>1, SilenceAround
    <3>3. f # i  BY <2>2, <3>2
    <3>4. /\ f \in 1 .. Last /\ c \in 1 .. Last /\ f < c
          /\ i \in f .. c - 1 /\ i - 1 \in f .. c - 1
      BY <3>3, Sizes
    <3>5. /\ j[i] = (c - f <= JOINSPEECHLGTH)
          /\ j[i - 1] = (c - f <= JOINSPEECHLGTH)
      BY <1>1, <3>2, <3>4
    <3> QED  BY <1>3, <3>5
  <2> QED  BY <2>2, <2>3
<1>4. RunsAreLong(j)
  <2> SUFFICES ASSUME NEW i \in 1 .. Last, j[i], ~j[i - 1]
               PROVE  /\ i + MINSPEECHLGTH < Last
                      /\ \A k \in i .. i + MINSPEECHLGTH : j[k]
    BY DEF RunsAreLong
  <2>1. /\ i + MINSPEECHLGTH < Last
        /\ \A k \in i .. i + MINSPEECHLGTH : row[k]
    BY <1>3 DEF RunsAreLong
  <2>2. \A k \in i .. i + MINSPEECHLGTH : k \in Window  BY <2>1, Sizes
  <2> QED  BY <1>1, <2>1, <2>2
<1>5. RunsAreApart(j)
  <2> SUFFICES ASSUME NEW f \in 1 .. Last, ~j[f], j[f - 1],
                      NEW k \in f .. Last, k <= f + JOINSPEECHLGTH
               PROVE  ~j[k]
    BY DEF RunsAreApart
  <2>1. f \in Window /\ f - 1 \in Window /\ k \in Window  BY Sizes
  <2>2. ~row[f]  BY <1>1, <2>1
  <2>3. row[f - 1]
    <3> SUFFICES ASSUME ~row[f - 1] PROVE FALSE  OBVIOUS
    <3>1. (\E m \in 0 .. f - 1 : row[m]) /\ \E m \in f - 1 .. Last : row[m]
      BY <1>1, <2>1
    <3>2. PICK e \in 1 .. f - 1, c \in (f - 1) + 1 .. Last :
            row[e - 1] /\ row[c] /\ \A m \in e .. c - 1 : ~row[m]
      BY <2>1, <3>1, SilenceAround
    <3>3. c # f  BY <2>2, <3>2
    <3>4. /\ e \in 1 .. Last /\ c \in 1 .. Last /\ e < c
          /\ f \in e .. c - 1 /\ f - 1 \in e .. c - 1
      BY <3>3, Sizes
    <3>5. /\ j[f] = (c - e <= JOINSPEECHLGTH)
          /\ j[f - 1] = (c - e <= JOINSPEECHLGTH)
      BY <1>1, <3>2, <3>4
    <3> QED  BY <3>5
  <2>4. CASE \A m \in f .. Last : ~row[m]
    <3>1. \A m \in k .. Last : ~row[m]  BY <2>4, Sizes
    <3> QED  BY <1>1, <2>1, <3>1
  <2>5. CASE \E m \in f .. Last : row[m]
    <3>1. \E m \in 0 .. f : row[m]
      <4>1. f - 1 \in 0 .. f  BY Sizes
      <4> QED  BY <2>3, <4>1
    <3>2. PICK e \in 1 .. f, c \in f + 1 .. Last :
            row[e - 1] /\ row[c] /\ \A m \in e .. c - 1 : ~row[m]
      BY <2>1, <2>2, <2>5, <3>1, SilenceAround
    <3>3. e = f
      <4> SUFFICES ASSUME e # f PROVE FALSE  OBVIOUS
      <4>1. f - 1 \in e .. c - 1  BY Sizes
      <4> QED  BY <2>3, <3>2, <4>1
    <3>4. c \in 1 .. Last /\ f < c /\ f \in f .. c - 1  BY Sizes
    <3>5. \A i \in f .. c - 1 : j[i] = (c - f <= JOINSPEECHLGTH)
      BY <1>1, <3>2, <3>3, <3>4
    <3>6. ~(c - f <= JOINSPEECHLGTH)  BY <3>4, <3>5
    <3>7. k \in f .. c - 1  BY <3>6, Sizes
    <3> QED  BY <3>5, <3>6, <3>7
  <2> QED  BY <2>4, <2>5
<1> QED  BY <1>2, <1>4, <1>5 DEF j

\* Where a run grows to the front, and where to the back.
Rise(row, i) == i \in 2 .. Nwindows - 3 /\ row[i] /\ ~row[i - 1]
Fall(row, i) == i \in 1 .. Nwindows - 3 /\ ~row[i] /\ row[i - 1]

LEMMA WidenedIs ==
  ASSUME NEW row \in Row, EndsSilent(row)
  PROVE  /\ Widened(row, Nwindows) \in Row
         /\ \A i \in Window :
              Widened(row, Nwindows)[i] <=>
                \/ row[i]
                \/ i > 0 /\ (Rise(row, i + 1) \/ Rise(row, i + 2))
                \/ Fall(row, i) \/ Fall(row, i - 1)
<1> DEFINE w == Widened(row, Nwindows)
           Front(r, i) == /\ r.start \in 2 .. Nwindows - 3 /\ i > 0
                          /\ i \in {r.start - 2, r.start - 1}
           Back(r, i) == r.end <= Nwindows - 3 /\ i \in {r.end, r.end + 1}
           Grown(i) == row[i] \/ \E r \in Runs(row) : Front(r, i) \/ Back(r, i)
<1>1. w = [i \in Window |-> Grown(i)]
  BY DEF Widened, Row
<1>2. \A i \in Window : w[i] = Grown(i)  BY <1>1
<1>3. w \in Row
  <2>1. \A i \in Window : Grown(i) \in BOOLEAN  BY DEF Row
  <2> HIDE DEF Grown
  <2> QED  BY <1>1, <2>1 DEF Row
<1>4. ASSUME NEW s \in Int, Rise(row, s)
      PROVE  \E r \in Runs(row) : r.start = s
  <2>1. s \in Window /\ row[s] /\ ~Speech(row, s - 1)
    BY <1>4, Sizes, SpeechIs DEF Rise
  <2> QED  BY <2>1, RunStarting
<1>5. ASSUME NEW e \in Int, Fall(row, e)
      PROVE  \E r \in Runs(row) : r.end = e
  <2>1. e \in 1 .. Nwindows /\ row[e - 1] /\ ~Speech(row, e) /\ ~row[0]
    BY <1>5, Sizes, SpeechIs DEF Fall, EndsSilent
  <2> QED  BY <2>1, RunEnding
<1>6. ASSUME NEW r \in Runs(row), r.start \in 2 .. Nwindows - 3
      PROVE  Rise(row, r.start)
  <2>1. /\ r.end \in r.start + 1 .. Nwindows /\ ~Speech(row, r.start - 1)
        /\ \A i \in r.start .. r.end - 1 : row[i]
    BY RunIs
  <2>2. row[r.start]
    <3>1. r.start \in r.start .. r.end - 1  BY <1>6, <2>1, Sizes
    <3> QED  BY <2>1, <3>1
  <2>3. ~row[r.start - 1]
    <3>1. r.start - 1 \in Window  BY <1>6, Sizes
    <3> QED  BY <2>1, <3>1, SpeechIs
  <2> QED  BY <1>6, <2>2, <2>3 DEF Rise
<1>7. ASSUME NEW r \in Runs(row), r.end <= Nwindows - 3
      PROVE  Fall(row, r.end)
  <2>1. /\ r.start \in Window /\ r.end \in r.start + 1 .. Nwindows
        /\ ~Speech(row, r.end) /\ \A i \in r.start .. r.end - 1 : row[i]
    BY RunIs
  <2>2. row[r.end - 1]
    <3>1. r.end - 1 \in r.start .. r.end - 1  BY <2>1, Sizes
    <3> QED  BY <2>1, <3>1
  <2>3. ~row[r.end] /\ r.end \in 1 .. Nwindows - 3
    <3>1. r.end \in Window /\ r.end \in 1 .. Nwindows - 3
      BY <1>7, <2>1, Sizes
    <3> QED  BY <2>1, <3>1, SpeechIs
  <2> QED  BY <2>2, <2>3 DEF Fall
<1>8. ASSUME NEW i \in Window
      PROVE  Grown(i) <=> \/ row[i]
                          \/ i > 0 /\ (Rise(row, i + 1) \/ Rise(row, i + 2))
                          \/ Fall(row, i) \/ Fall(row, i - 1)
  <2>1. i \in Int /\ i + 1 \in Int /\ i + 2 \in Int /\ i - 1 \in Int  BY Sizes
  <2>2. ASSUME i > 0, NEW s \in {i + 1, i + 2}, Rise(row, s)
        PROVE  Grown(i)
    <3>1. PICK r \in Runs(row) : r.start = s  BY <1>4, <2>1, <2>2
    <3>2. s \in 2 .. Nwindows - 3 /\ i \in {s - 2, s - 1}
      BY <2>1, <2>2 DEF Rise
    <3>3. Front(r, i)  BY <2>2, <3>1, <3>2
    <3> HIDE DEF Front, Back
    <3> QED  BY <3>3
  <2>3. ASSUME NEW e \in {i, i - 1}, Fall(row, e)
        PROVE  Grown(i)
    <3>1. PICK r \in Runs(row) : r.end = e  BY <1>5, <2>1, <2>3
    <3>2. e <= Nwindows - 3 /\ i \in {e, e + 1}
      BY <2>1, <2>3, Sizes DEF Fall
    <3>3. Back(r, i)  BY <3>1, <3>2
    <3> HIDE DEF Front, Back
    <3> QED  BY <3>3
  <2>4. ASSUME NEW r \in Runs(row), Front(r, i)
        PROVE  i > 0 /\ (Rise(row, i + 1) \/ Rise(row, i + 2))
    <3>1. Rise(row, r.start)  BY <1>6, <2>4
    <3> PICK s : s = r.start  OBVIOUS
    <3>2. s \in Int /\ i \in {s - 2, s - 1}  BY <2>4, Sizes
    <3>3. s = i + 1 \/ s = i + 2  BY <2>1, <3>2
    <3> QED  BY <2>4, <3>1, <3>3
  <2>5. ASSUME NEW r \in Runs(row), Back(r, i)
        PROVE  Fall(row, i) \/ Fall(row, i - 1)
    <3>1. Fall(row, r.end)  BY <1>7, <2>5
    <3> PICK e : e = r.end  OBVIOUS
    <3>2. e \in Int /\ i \in {e, e + 1}  BY <2>5, RunIs, Sizes
    <3>3. e = i \/ e = i - 1  BY <2>1, <3>2
    <3> QED  BY <3>1, <3>3
  <2> HIDE DEF Front, Back
  <2> QED  BY <2>2, <2>3, <2>4, <2>5
<1> HIDE DEF Grown, w
<1>9. ASSUME NEW i \in Window
      PROVE  w[i] <=> \/ row[i]
                      \/ i > 0 /\ (Rise(row, i + 1) \/ Rise(row, i + 2))
                      \/ Fall(row, i) \/ Fall(row, i - 1)
  BY <1>2, <1>8
<1> QED  BY <1>3, <1>9 DEF w

\* What a row is made into by growing its runs: they stay apart.
Separated(row) ==
  /\ Runs(row) /= {}
  /\ EndsSilent(row)
  /\ \A q, r \in Runs(row) :
       /\ r.end - r.start > MINSPEECHLGTH
       /\ q.end <= r.start => r.start - q.end > JOINSPEECHLGTH - 4

LEMMA WidenedIsSeparated ==
  ASSUME NEW row \in Row, EndsSilent(row), RunsAreLong(row), RunsAreApart(row),
         \E i \in Window : row[i]
  PROVE  Separated(Widened(row, Nwindows))
<1> DEFINE w == Widened(row, Nwindows)
<1>1. /\ w \in Row
      /\ \A i \in Window : w[i] <=>
           \/ row[i]
           \/ i > 0 /\ (Rise(row, i + 1) \/ Rise(row, i + 2))
           \/ Fall(row, i) \/ Fall(row, i - 1)
  BY WidenedIs
<1> HIDE DEF w
<1>2. EndsSilent(w)
  <2>1. 0 \in Window /\ Last \in Window  BY Sizes
  <2>2. ~Fall(row, 0) /\ ~Fall(row, 0 - 1)  BY DEF Fall
  <2>3. /\ ~Rise(row, Last + 1) /\ ~Rise(row, Last + 2)
        /\ ~Fall(row, Last) /\ ~Fall(row, Last - 1)
    BY Sizes DEF Rise, Fall
  <2> QED  BY <1>1, <2>1, <2>2, <2>3 DEF EndsSilent
<1>3. Runs(w) # {}
  <2>1. PICK i \in Window : row[i]  OBVIOUS
  <2>2. w[i] /\ ~w[0]  BY <1>1, <1>2, <2>1 DEF EndsSilent
  <2>3. PICK s \in 1 .. i : ~w[s - 1] /\ \A k \in s .. i : w[k]
    BY <1>1, <2>2, StartExists
  <2>4. s \in Window /\ w[s] /\ ~Speech(w, s - 1)
    BY <1>1, <2>3, Sizes, SpeechIs
  <2> QED  BY <1>1, <2>4, RunStarting
\* Where a run of the wider row begins, one of the row does, two windows on.
<1>4. ASSUME NEW s \in 1 .. Last, w[s], ~w[s - 1]
      PROVE  \E b \in s .. s + 2 :
               /\ b \in 1 .. Last /\ row[b] /\ ~row[b - 1]
               /\ b = s + 2 \/ s = 1
               /\ \A k \in s .. b : w[k]
  <2>1. s \in Window /\ s - 1 \in Window /\ s - 1 >= 0 /\ s \in Int  BY Sizes
  <2>2. ~row[s - 1] /\ ~Fall(row, s - 1)  BY <1>1, <1>4, <2>1
  <2>3. ~Fall(row, s)  BY <2>2 DEF Fall
  <2>4. s > 1 => ~Rise(row, s) /\ ~Rise(row, s + 1)
    <3> SUFFICES ASSUME s > 1, Rise(row, s) \/ Rise(row, s + 1) PROVE FALSE
      OBVIOUS
    <3>1. (s - 1) + 1 = s /\ (s - 1) + 2 = s + 1 /\ s - 1 > 0  BY <2>1
    <3>2. Rise(row, (s - 1) + 1) \/ Rise(row, (s - 1) + 2)  BY <3>1
    <3> QED  BY <1>1, <1>4, <2>1, <3>1, <3>2
  <2>5. CASE row[s]
    <3>1. s = 1
      <4> SUFFICES ASSUME s # 1 PROVE FALSE  OBVIOUS
      <4>1. s + MINSPEECHLGTH < Last  BY <2>2, <2>5 DEF RunsAreLong
      <4>2. Rise(row, s)  BY <2>1, <2>2, <2>5, <4>1, Sizes DEF Rise
      <4> QED  BY <2>1, <2>4, <4>2
    <3>2. \A k \in s .. s : w[k]  BY <1>4, <2>1
    <3>3. s \in s .. s + 2  BY <2>1
    <3> QED  BY <2>2, <2>5, <3>1, <3>2, <3>3
  <2>6. CASE ~row[s] /\ Rise(row, s + 1)
    <3>1. s = 1  BY <2>1, <2>4, <2>6
    <3>2. s + 1 \in 1 .. Last /\ row[s + 1] /\ ~row[(s + 1) - 1]
      BY <2>1, <2>6, Sizes DEF Rise
    <3>3. \A k \in s .. s + 1 : k = s \/ k = s + 1  BY <2>1
    <3>4. w[s + 1]
      <4>1. s + 1 \in Window  BY <3>2, Sizes
      <4> QED  BY <1>1, <3>2, <4>1
    <3>5. s + 1 \in s .. s + 2  BY <2>1
    <3> QED  BY <1>4, <3>1, <3>2, <3>3, <3>4, <3>5
  <2>7. CASE ~row[s] /\ ~Rise(row, s + 1)
    <3>1. Rise(row, s + 2)  BY <1>1, <1>4, <2>1, <2>2, <2>3, <2>7
    <3>2. s + 2 \in 1 .. Last /\ row[s + 2] /\ ~row[(s + 2) - 1]
      BY <2>1, <3>1, Sizes DEF Rise
    <3>3. \A k \in s .. s + 2 : k = s \/ k = s + 1 \/ k = s + 2  BY <2>1
    <3>4. w[s + 1] /\ w[s + 2]
      <4>1. s + 1 \in Window /\ s + 2 \in Window /\ s + 1 > 0  BY <2>1, <3>2, Sizes
      <4>2. Rise(row, (s + 1) + 1)
        <5>1. (s + 1) + 1 = s + 2  BY <2>1
        <5> QED  BY <3>1, <5>1
      <4> QED  BY <1>1, <3>2, <4>1, <4>2
    <3>5. s + 2 \in s .. s + 2  BY <2>1
    <3> QED  BY <1>4, <3>2, <3>3, <3>4, <3>5
  <2> QED  BY <2>5, <2>6, <2>7
\* And where one ends in the row, one of the row did, two windows before.
<1>5. ASSUME NEW e \in 1 .. Nwindows - 3, ~w[e], w[e - 1]
      PROVE  e - 2 \in 1 .. Last /\ ~row[e - 2] /\ row[(e - 2) - 1]
  <2>1. e \in Window /\ e - 1 \in Window /\ e > 0 /\ e \in Int  BY Sizes
  <2>2. /\ ~row[e] /\ ~Rise(row, e + 1) /\ ~Rise(row, e + 2)
        /\ ~Fall(row, e) /\ ~Fall(row, e - 1)
    BY <1>1, <1>5, <2>1
  <2>3. ~row[e - 1]  BY <2>1, <2>2, Sizes DEF Fall
  <2>4. ~Rise(row, (e - 1) + 1) /\ ~Rise(row, (e - 1) + 2)
    <3>1. (e - 1) + 1 = e /\ (e - 1) + 2 = e + 1  BY <2>1
    <3>2. ~Rise(row, e)  BY <2>2 DEF Rise
    <3> QED  BY <2>2, <3>1, <3>2
  <2>5. Fall(row, (e - 1) - 1)  BY <1>1, <1>5, <2>1, <2>2, <2>3, <2>4
  <2>6. (e - 1) - 1 = e - 2  BY <2>1
  <2>7. Fall(row, e - 2)  BY <2>5, <2>6
  <2> QED  BY <2>1, <2>7, Sizes DEF Fall
\* Windows at the end of the row do not begin a run.
<1>6. ASSUME NEW s \in 1 .. Last, w[s], ~w[s - 1] PROVE s <= Nwindows - 3
  <2>1. PICK b \in s .. s + 2 : b \in 1 .. Last /\ row[b] /\ ~row[b - 1]
    BY <1>4, <1>6
  <2>2. b + MINSPEECHLGTH < Last  BY <2>1 DEF RunsAreLong
  <2> QED  BY <2>2, Sizes
<1>7. ASSUME NEW q \in Runs(w), NEW r \in Runs(w)
      PROVE  /\ r.end - r.start > MINSPEECHLGTH
             /\ q.end <= r.start => r.start - q.end > JOINSPEECHLGTH - 4
  <2>1. /\ q.start \in Window /\ q.end \in q.start + 1 .. Nwindows
        /\ ~Speech(w, q.end) /\ \A i \in q.start .. q.end - 1 : w[i]
    BY <1>1, RunIs
  <2>2. /\ r.start \in Window /\ r.end \in r.start + 1 .. Nwindows
        /\ ~Speech(w, r.start - 1) /\ ~Speech(w, r.end)
        /\ \A i \in r.start .. r.end - 1 : w[i]
    BY <1>1, RunIs
  <2>3. r.start \in r.start .. r.end - 1 /\ q.end - 1 \in q.start .. q.end - 1
    BY <2>1, <2>2, Sizes
  <2>4. PICK s \in 1 .. Last : s = r.start /\ w[s] /\ ~w[s - 1]
    <3>1. w[r.start]  BY <2>2, <2>3
    <3>2. r.start # 0  BY <1>2, <3>1 DEF EndsSilent
    <3>3. r.start - 1 \in Window /\ r.start \in 1 .. Last  BY <2>2, <3>2, Sizes
    <3>4. ~w[r.start - 1]  BY <1>1, <2>2, <3>3, SpeechIs
    <3> QED  BY <3>1, <3>3, <3>4
  <2>5. PICK b \in s .. s + 2 :
          /\ b \in 1 .. Last /\ row[b] /\ ~row[b - 1] /\ (b = s + 2 \/ s = 1)
          /\ \A k \in s .. b : w[k]
    BY <1>4, <2>4
  <2>6. \A k \in b .. b + MINSPEECHLGTH : w[k]
    <3>1. \A k \in b .. b + MINSPEECHLGTH : row[k]  BY <2>5 DEF RunsAreLong
    <3>2. b + MINSPEECHLGTH < Last  BY <2>5 DEF RunsAreLong
    <3>3. \A k \in b .. b + MINSPEECHLGTH : k \in Window  BY <3>2, Sizes
    <3> QED  BY <1>1, <3>1, <3>3
  <2>7. r.end - r.start > MINSPEECHLGTH
    <3> SUFFICES ASSUME r.end <= s + MINSPEECHLGTH PROVE FALSE
      BY <2>2, <2>4, Sizes
    <3>1. r.end \in s .. b \/ r.end \in b .. b + MINSPEECHLGTH
      BY <2>2, <2>4, Sizes
    <3>2. w[r.end]  BY <2>5, <2>6, <3>1
    <3>3. r.end \in Window
      <4>1. b + MINSPEECHLGTH < Last  BY <2>5 DEF RunsAreLong
      <4>2. s <= b /\ r.end \in s + 1 .. Nwindows  BY <2>2, <2>4, Sizes
      <4>3. r.end < Last  BY <4>1, <4>2, Sizes
      <4> QED  BY <4>2, <4>3, Sizes
    <3> QED  BY <1>1, <2>2, <3>2, <3>3, SpeechIs
  <2>8. ASSUME q.end <= r.start PROVE r.start - q.end > JOINSPEECHLGTH - 4
    <3>1. PICK e \in 1 .. Nwindows - 3 : e = q.end /\ ~w[e] /\ w[e - 1]
      <4>1. q.end \in Window /\ q.end \in 1 .. Nwindows - 3
        BY <1>6, <2>1, <2>4, <2>8, Sizes
      <4>2. ~w[q.end]  BY <1>1, <2>1, <4>1, SpeechIs
      <4>3. w[q.end - 1]  BY <2>1, <2>3
      <4> QED  BY <4>1, <4>2, <4>3
    <3>2. e - 2 \in 1 .. Last /\ ~row[e - 2] /\ row[(e - 2) - 1]
      BY <1>5, <3>1
    <3>3. s # 1 /\ e <= s  BY <2>4, <2>8, <3>1, <3>2, Sizes
    <3>4. b = s + 2  BY <2>5, <3>3
    <3>5. b \in e - 2 .. Last  BY <2>5, <3>2, <3>3, <3>4, Sizes
    <3>6. ~(b <= (e - 2) + JOINSPEECHLGTH)
      BY <2>5, <3>2, <3>5 DEF RunsAreApart
    <3> QED  BY <2>4, <3>1, <3>4, <3>6, Sizes
  <2> QED  BY <2>7, <2>8
<1>8. Separated(w)  BY <1>2, <1>3, <1>7 DEF Separated
<1> QED  BY <1>8 DEF w

-----------------------------------------------------------------------------
(* Where a sweep is: v is the row it changes, and c the index it is at. *)

Long(row) == LongOnly(row, MINSPEECHLGTH)
Join1(row) == Joined(row, JOINSPEECHLGTH)

\* The run in front of the index began at s.
InRun(v, s, c) ==
  v[c - 1] => s \in 1 .. c - 1 /\ ~v[s - 1] /\ \A i \in s .. c - 1 : v[i]

\* Runs that ended were dropped when they were short.
ShortAt(v, row, s, c) ==
  /\ v \in Row /\ row \in Row /\ EndsSilent(row)
  /\ \A i \in c - 1 .. Last : v[i] = row[i]
  /\ InRun(v, s, c) /\ InRun(row, s, c)
  /\ \A i \in Window : i < (IF v[c - 1] THEN s ELSE c) => v[i] = Long(row)[i]

\* Whole runs of the other row, and nothing else.
WholeRuns(v, row) ==
  \A i \in Window : /\ v[i] => row[i]
                    /\ i > 0 /\ row[i] /\ row[i - 1] => (v[i] <=> v[i - 1])

\* Silences that ended were filled when they were short; f is where the one in
\* front of the index began, 0 if there was no speech before it.
JoinAt(v, row, f, c) ==
  /\ v \in Row /\ f \in 0 .. c - 1
  /\ \A i \in c - 1 .. Last : v[i] = row[i]
  /\ ~row[c - 1] => /\ \A i \in f .. c - 1 : ~row[i] /\ ~v[i]
                    /\ f > 0 => row[f - 1]
  /\ \A i \in Window : i < (IF row[c - 1] THEN c ELSE f) => v[i] = Join1(row)[i]

\* Runs that begin in front of r grew to the front, runs that end in front of
\* f grew to the back.
Grown(v, row, r, f) ==
  \A i \in Window : v[i] <=>
    \/ row[i]
    \/ i > 0 /\ i + 1 < r /\ Rise(row, i + 1)
    \/ i > 0 /\ i + 2 < r /\ Rise(row, i + 2)
    \/ i < f /\ Fall(row, i)
    \/ i - 1 < f /\ Fall(row, i - 1)

\* Both in front of the index, except that a run which begins in the second
\* window is seen only from the third, where the sweep begins.
WidenAt(v, row, c) ==
  /\ v \in Row /\ Grown(v, row, IF c > 3 THEN c ELSE 0, c)
  /\ ~Fall(row, c - 1) /\ ~Fall(row, c - 2) /\ ~Fall(row, c - 3)

\* One iteration of the sweep that drops short runs.
LEMMA ShortStep ==
  ASSUME NEW v \in Row, NEW row \in Row, NEW w \in Row, NEW s \in Window, NEW t,
         NEW c \in 1 .. Last, ShortAt(v, row, s, c),
         t = IF v[c] /\ ~v[c - 1] THEN c ELSE s,
         (~v[c] /\ v[c - 1]) /\ c - s <= MINSPEECHLGTH =>
           \A i \in Window : w[i] <=> ~(s <= i /\ i < c) /\ v[i],
         ~((~v[c] /\ v[c - 1]) /\ c - s <= MINSPEECHLGTH) => w = v
  PROVE  ShortAt(w, row, t, c + 1)
<1> DEFINE l == Long(row)
<1>1. /\ \A i \in Window : ~row[i] => ~l[i]
      /\ \A r \in Runs(row) : \A i \in r.start .. r.end - 1 :
           l[i] = (r.end - r.start > MINSPEECHLGTH)
      /\ l \in Row
  BY LongOnlyIs DEF Long
<1> HIDE DEF l
<1>2. /\ EndsSilent(row) /\ \A i \in c - 1 .. Last : v[i] = row[i]
      /\ \A i \in Window : i < (IF v[c - 1] THEN s ELSE c) => v[i] = l[i]
      /\ v[c - 1] => /\ s \in 1 .. c - 1 /\ ~row[s - 1] /\ ~v[s - 1]
                     /\ \A i \in s .. c - 1 : row[i] /\ v[i]
  <2>1. v[c - 1] = row[c - 1]
    <3>1. c - 1 \in c - 1 .. Last  BY Sizes
    <3> QED  BY <3>1 DEF ShortAt
  <2> QED  BY <2>1 DEF ShortAt, InRun, l
<1>3. c \in Window /\ c - 1 \in Window /\ c + 1 - 1 = c /\ c \in Int  BY Sizes
<1>4. v[c] = row[c] /\ v[c - 1] = row[c - 1]
  <2>1. c \in c - 1 .. Last /\ c - 1 \in c - 1 .. Last  BY Sizes
  <2> QED  BY <1>2, <2>1
<1>10. \A i \in Window :
         w[i] \in BOOLEAN /\ v[i] \in BOOLEAN /\ l[i] \in BOOLEAN
  BY <1>1 DEF Row
<1>5. \A i \in c .. Last : w[i] = row[i]
  <2> SUFFICES ASSUME NEW i \in c .. Last PROVE w[i] = row[i]  OBVIOUS
  <2>1. i \in Window /\ ~(i < c) /\ i \in c - 1 .. Last  BY Sizes
  <2>2. w[i] = v[i]  BY <2>1, <1>10
  <2> QED  BY <1>2, <2>1, <2>2
<1>6. CASE v[c] /\ ~v[c - 1]
  <2>1. w = v /\ t = c  BY <1>6
  <2>2. \A i \in t .. c : i = c  BY <1>3, <2>1
  <2>3. InRun(w, t, c + 1) /\ InRun(row, t, c + 1)
    BY <1>3, <1>4, <1>6, <2>1, <2>2 DEF InRun
  <2>4. \A i \in Window : i < t => w[i] = l[i]  BY <1>2, <1>6, <2>1
  <2> QED
    BY <1>2, <1>3, <1>5, <1>6, <2>1, <2>3, <2>4 DEF ShortAt, l
<1>7. CASE ~v[c] /\ v[c - 1]
  <2>1. t = s /\ s \in 1 .. c - 1  BY <1>2, <1>7
  <2>2. ~w[c] /\ ~row[c]  BY <1>3, <1>4, <1>5, <1>7, Sizes
  <2>3. InRun(w, t, c + 1) /\ InRun(row, t, c + 1)
    BY <1>3, <2>2 DEF InRun
  <2>4. [start |-> s, end |-> c] \in Runs(row)
    <3>1. s \in Window /\ c \in s + 1 .. Nwindows  BY <2>1, Sizes
    <3>2. ~Speech(row, s - 1) /\ ~Speech(row, c)
      BY <1>2, <1>7, <2>2, SpeechIs
    <3>3. \A i \in s .. c - 1 : row[i]  BY <1>2, <1>7
    <3> QED  BY <3>1, <3>2, <3>3, RunAt
  <2>5. \A i \in s .. c - 1 : l[i] = (c - s > MINSPEECHLGTH)
    BY <1>1, <2>4
  <2>6. ASSUME NEW i \in Window, i < c + 1 PROVE w[i] = l[i]
    <3> SUFFICES w[i] <=> l[i]  BY <1>10
    <3>1. CASE i = c
      <4>1. ~l[c]  BY <1>1, <1>3, <2>2
      <4> QED  BY <2>2, <3>1, <4>1
    <3>2. CASE i < s
      <4>1. w[i] <=> v[i]  BY <1>7, <3>2, Sizes
      <4> QED  BY <1>2, <1>7, <3>2, <4>1
    <3>3. CASE ~(i < s) /\ i # c
      <4>1. i \in s .. c - 1  BY <2>1, <2>6, <3>3, Sizes
      <4>2. v[i] /\ s <= i /\ i < c  BY <1>2, <1>7, <2>1, <4>1
      <4>3. CASE c - s <= MINSPEECHLGTH
        <5>1. ~w[i]  BY <1>7, <4>2, <4>3
        <5>2. ~(c - s > MINSPEECHLGTH)  BY <2>1, <4>3, Sizes
        <5>3. ~l[i]  BY <2>5, <4>1, <5>2
        <5> QED  BY <5>1, <5>3
      <4>4. CASE ~(c - s <= MINSPEECHLGTH)
        <5>1. w[i]  BY <4>2, <4>4
        <5>2. c - s > MINSPEECHLGTH  BY <2>1, <4>4, Sizes
        <5>3. l[i]  BY <2>5, <4>1, <5>2
        <5> QED  BY <5>1, <5>3
      <4> QED  BY <4>3, <4>4
    <3> QED  BY <3>1, <3>2, <3>3, <1>3, Sizes
  <2> QED
    BY <1>2, <1>3, <1>5, <2>2, <2>3, <2>6 DEF ShortAt, l
<1>8. CASE v[c] /\ v[c - 1]
  <2>1. w = v /\ t = s /\ s \in 1 .. c - 1  BY <1>2, <1>8
  <2>2. \A i \in s .. c : i \in s .. c - 1 \/ i = c  BY <1>3, <2>1
  <2>3. InRun(w, t, c + 1) /\ InRun(row, t, c + 1)
    <3>1. s \in 1 .. c + 1 - 1  BY <1>3, <2>1
    <3>2. \A i \in s .. c : row[i] /\ v[i]  BY <1>2, <1>4, <1>8, <2>2
    <3> QED  BY <1>2, <1>3, <1>8, <2>1, <3>1, <3>2 DEF InRun
  <2>4. \A i \in Window : i < s => w[i] = l[i]  BY <1>2, <1>8, <2>1
  <2> QED
    BY <1>2, <1>3, <1>5, <1>8, <2>1, <2>3, <2>4 DEF ShortAt, l
<1>9. CASE ~v[c] /\ ~v[c - 1]
  <2>1. w = v /\ t = s  BY <1>9
  <2>2. InRun(w, t, c + 1) /\ InRun(row, t, c + 1)
    BY <1>3, <1>4, <1>9, <2>1 DEF InRun
  <2>3. ASSUME NEW i \in Window, i < c + 1 PROVE w[i] = l[i]
    <3>1. CASE i = c
      <4>1. ~l[c]  BY <1>1, <1>3, <1>4, <1>9
      <4> QED  BY <1>1, <1>3, <1>9, <2>1, <3>1, <4>1 DEF Row
    <3>2. CASE i # c
      <4>1. i < c  BY <1>3, <2>3, <3>2, Sizes
      <4> QED  BY <1>2, <1>9, <2>1, <4>1
    <3> QED  BY <3>1, <3>2
  <2> QED
    BY <1>2, <1>3, <1>5, <1>9, <2>1, <2>2, <2>3 DEF ShortAt, l
<1> QED  BY <1>6, <1>7, <1>8, <1>9

LEMMA ShortEnd ==
  ASSUME NEW v \in Row, NEW row \in Row, NEW s, ShortAt(v, row, s, Nwindows)
  PROVE  v = Long(row)
<1> DEFINE l == Long(row)
<1>1. l \in Row  BY LongOnlyIs DEF Long
<1> HIDE DEF l
<1>2. ~v[Nwindows - 1]
  <2>1. Last \in Nwindows - 1 .. Last /\ Nwindows - 1 = Last  BY Sizes
  <2> QED  BY <2>1 DEF ShortAt, EndsSilent
<1>3. \A i \in Window : v[i] = l[i]
  <2> TAKE i \in Window
  <2>1. i < Nwindows  BY Sizes
  <2> QED  BY <1>2, <2>1 DEF ShortAt, l
<1> QED  BY <1>1, <1>3 DEF Row, l

\* One iteration of the sweep that drops weak runs.
LEMMA WeakStep ==
  ASSUME NEW v \in Row, NEW row \in Row, NEW w \in Row, NEW s \in Window, NEW t,
         NEW c \in 1 .. Last, WholeRuns(v, row), InRun(v, s, c),
         t = IF v[c] /\ ~v[c - 1] THEN c ELSE s,
         \/ w = v
         \/ /\ ~v[c] /\ v[c - 1]
            /\ \A i \in Window : w[i] <=> ~(s <= i /\ i < c) /\ v[i]
  PROVE  WholeRuns(w, row) /\ InRun(w, t, c + 1)
<1>1. c \in Window /\ c - 1 \in Window /\ c + 1 - 1 = c /\ c \in Int  BY Sizes
<1>2. CASE w = v
  <2>1. CASE v[c] /\ ~v[c - 1]
    <3>1. t = c /\ \A i \in t .. c : i = c  BY <1>1, <2>1
    <3> QED  BY <1>1, <1>2, <2>1, <3>1 DEF InRun
  <2>2. CASE v[c] /\ v[c - 1]
    <3>1. t = s /\ s \in 1 .. c - 1 /\ ~v[s - 1] /\ \A i \in s .. c - 1 : v[i]
      BY <2>2 DEF InRun
    <3>2. \A i \in s .. c : i \in s .. c - 1 \/ i = c  BY <1>1, <3>1
    <3>3. s \in 1 .. c  BY <1>1, <3>1
    <3> QED  BY <1>1, <1>2, <2>2, <3>1, <3>2, <3>3 DEF InRun
  <2>3. CASE ~v[c]
    BY <1>1, <1>2, <2>3 DEF InRun
  <2> QED  BY <1>2, <2>1, <2>2, <2>3
<1>3. CASE /\ ~v[c] /\ v[c - 1]
           /\ \A i \in Window : w[i] <=> ~(s <= i /\ i < c) /\ v[i]
  <2>1. s \in 1 .. c - 1 /\ ~v[s - 1] /\ \A i \in s .. c - 1 : v[i]
    BY <1>3 DEF InRun
  <2>2. ~w[c]  BY <1>1, <1>3
  <2>3. InRun(w, t, c + 1)  BY <1>1, <2>2 DEF InRun
  <2>4. ASSUME NEW i \in Window, i > 0, row[i], row[i - 1]
        PROVE  w[i] <=> w[i - 1]
    <3>1. i \in Int /\ i - 1 \in Window  BY <2>4, Sizes
    <3>2. v[i] <=> v[i - 1]  BY <2>4 DEF WholeRuns
    <3>3. i # c  BY <1>3, <3>2
    <3>4. i # s
      <4>1. s \in s .. c - 1  BY <2>1, <1>1
      <4> QED  BY <2>1, <3>2, <4>1
    <3>5. (s <= i /\ i < c) <=> (s <= i - 1 /\ i - 1 < c)
      BY <1>1, <2>1, <3>1, <3>3, <3>4
    <3> QED  BY <1>3, <3>1, <3>2, <3>5
  <2>5. \A i \in Window : w[i] => row[i]  BY <1>3 DEF WholeRuns
  <2> QED  BY <2>3, <2>4, <2>5 DEF WholeRuns
<1> QED  BY <1>2, <1>3

\* One iteration of the sweep that fills short silences.
LEMMA JoinStep ==
  ASSUME NEW v \in Row, NEW row \in Row, NEW w \in Row, NEW f, NEW g,
         NEW c \in 1 .. Last, EndsSilent(row), JoinAt(v, row, f, c),
         g = IF ~v[c] /\ v[c - 1] THEN c ELSE f,
         (v[c] /\ ~v[c - 1]) /\ f > 0 /\ c - f <= JOINSPEECHLGTH =>
           \A i \in Window : w[i] <=> (f <= i /\ i < c) \/ v[i],
         ~((v[c] /\ ~v[c - 1]) /\ f > 0 /\ c - f <= JOINSPEECHLGTH) => w = v
  PROVE  JoinAt(w, row, g, c + 1)
<1> DEFINE j == Join1(row)
<1>1. /\ j \in Row
      /\ \A i \in Window : row[i] => j[i]
      /\ \A i \in Window :
           (\A k \in 0 .. i : ~row[k]) \/ (\A k \in i .. Last : ~row[k]) => ~j[i]
      /\ \A a, b \in 1 .. Last :
           a < b /\ row[a - 1] /\ row[b] /\ (\A k \in a .. b - 1 : ~row[k]) =>
             \A i \in a .. b - 1 : j[i] = (b - a <= JOINSPEECHLGTH)
  BY JoinedIs DEF Join1
<1> HIDE DEF j
<1>2. /\ f \in 0 .. c - 1
      /\ \A i \in c - 1 .. Last : v[i] = row[i]
      /\ ~row[c - 1] => /\ \A i \in f .. c - 1 : ~row[i] /\ ~v[i]
                        /\ f > 0 => row[f - 1]
      /\ \A i \in Window : i < (IF row[c - 1] THEN c ELSE f) => v[i] = j[i]
  BY DEF JoinAt, j
<1>3. c \in Window /\ c - 1 \in Window /\ c + 1 - 1 = c /\ c \in Int /\ f \in Int
  BY <1>2, Sizes
<1>4. v[c] = row[c] /\ v[c - 1] = row[c - 1]
  <2>1. c \in c - 1 .. Last /\ c - 1 \in c - 1 .. Last  BY Sizes
  <2> QED  BY <1>2, <2>1
<1>5. \A i \in Window : w[i] \in BOOLEAN /\ v[i] \in BOOLEAN /\ j[i] \in BOOLEAN
  BY <1>1 DEF Row
<1>6. \A i \in c .. Last : w[i] = row[i]
  <2> TAKE i \in c .. Last
  <2>1. i \in Window /\ ~(i < c) /\ i \in c - 1 .. Last  BY Sizes
  <2>2. w[i] = v[i]  BY <1>5, <2>1
  <2> QED  BY <1>2, <2>1, <2>2
<1>7. g \in 0 .. c  BY <1>2, <1>3
<1>8. CASE ~v[c] /\ v[c - 1]
  <2>1. w = v /\ g = c  BY <1>8
  <2>2. \A i \in g .. c : i = c  BY <1>3, <2>1
  <2>3. \A i \in Window : i < g => w[i] = j[i]  BY <1>2, <1>4, <1>8, <2>1
  <2>4. ~row[c] /\ ~w[c] /\ row[g - 1]  BY <1>4, <1>8, <2>1
  <2>5. \A i \in g .. c : ~row[i] /\ ~w[i]  BY <2>2, <2>4
  <2> QED
    BY <1>3, <1>6, <1>7, <2>3, <2>4, <2>5 DEF JoinAt, j
<1>9. CASE ~v[c] /\ ~v[c - 1]
  <2>1. w = v /\ g = f  BY <1>9
  <2>2. \A i \in g .. c : i \in f .. c - 1 \/ i = c  BY <1>3, <2>1
  <2>3. \A i \in g .. c : ~row[i] /\ ~w[i]
    BY <1>2, <1>4, <1>9, <2>1, <2>2
  <2>4. g > 0 => row[g - 1]  BY <1>2, <1>4, <1>9, <2>1
  <2>5. \A i \in Window : i < g => w[i] = j[i]  BY <1>2, <1>4, <1>9, <2>1
  <2> QED
    BY <1>3, <1>4, <1>6, <1>7, <1>9, <2>3, <2>4, <2>5 DEF JoinAt, j
<1>10. (w[c] /\ j[c]) \/ ~v[c]
  <2>1. c \in c .. Last  BY Sizes
  <2> QED  BY <1>1, <1>3, <1>4, <1>6, <2>1
<1>11. CASE v[c] /\ v[c - 1]
  <2>1. w = v /\ g = f  BY <1>11
  <2>2. ASSUME NEW i \in Window, i < c + 1 PROVE w[i] = j[i]
    <3>1. CASE i = c  BY <1>3, <1>5, <1>10, <1>11, <3>1
    <3>2. CASE i # c
      <4>1. i < c  BY <1>3, <2>2, <3>2, Sizes
      <4> QED  BY <1>2, <1>4, <1>11, <2>1, <4>1
    <3> QED  BY <3>1, <3>2
  <2> QED
    BY <1>3, <1>4, <1>6, <1>7, <1>11, <2>2 DEF JoinAt, j
<1>12. CASE v[c] /\ ~v[c - 1]
  <2>1. g = f  BY <1>12
  <2>2. ASSUME NEW i \in Window, i < c + 1 PROVE w[i] <=> j[i]
    <3>1. CASE i = c  BY <1>10, <1>12, <3>1
    <3>2. CASE i < f
      <4>1. w[i] <=> v[i]  BY <1>3, <3>2, Sizes
      <4> QED  BY <1>2, <1>4, <1>12, <3>2, <4>1
    <3>3. CASE ~(i < f) /\ i # c
      <4>1. i \in f .. c - 1 /\ f <= i /\ i < c  BY <1>3, <2>2, <3>3, Sizes
      <4>2. ~v[i]  BY <1>2, <1>4, <1>12, <4>1
      <4>3. CASE f > 0
        <5>1. f \in 1 .. Last /\ f < c  BY <1>2, <1>3, <4>3, Sizes
        <5>2. j[i] = (c - f <= JOINSPEECHLGTH)
          BY <1>1, <1>2, <1>4, <1>12, <4>1, <4>3, <5>1
        <5> QED  BY <1>12, <4>1, <4>2, <4>3, <5>2
      <4>4. CASE ~(f > 0)
        <5>1. f = 0 /\ \A k \in 0 .. i : k \in f .. c - 1
          BY <1>2, <1>3, <4>1, <4>4, Sizes
        <5>2. ~j[i]  BY <1>1, <1>2, <1>4, <1>12, <5>1
        <5> QED  BY <4>2, <4>4, <5>2
      <4> QED  BY <4>3, <4>4
    <3> QED  BY <3>1, <3>2, <3>3, <1>3, Sizes
  <2>3. \A i \in Window : i < c + 1 => w[i] = j[i]  BY <1>5, <2>2
  <2> QED
    BY <1>3, <1>4, <1>6, <1>7, <1>12, <2>3 DEF JoinAt, j
<1> QED  BY <1>8, <1>9, <1>11, <1>12

LEMMA JoinEnd ==
  ASSUME NEW v, NEW row \in Row, NEW f, EndsSilent(row),
         JoinAt(v, row, f, Nwindows)
  PROVE  v = Join1(row)
<1> DEFINE j == Join1(row)
<1>1. /\ j \in Row
      /\ \A i \in Window : (\A k \in i .. Last : ~row[k]) => ~j[i]
  BY JoinedIs DEF Join1
<1> HIDE DEF j
<1>2. ~row[Nwindows - 1] /\ Nwindows - 1 = Last  BY Sizes DEF EndsSilent
<1>3. /\ v \in Row /\ f \in 0 .. Last
      /\ \A i \in f .. Last : ~row[i] /\ ~v[i]
      /\ \A i \in Window : i < f => v[i] = j[i]
  BY <1>2 DEF JoinAt, j
<1>4. ASSUME NEW i \in Window PROVE v[i] = j[i]
  <2>1. CASE i < f  BY <1>3, <2>1
  <2>2. CASE ~(i < f)
    <3>1. i \in f .. Last /\ \A k \in i .. Last : k \in f .. Last
      BY <1>3, <2>2, Sizes
    <3>2. ~v[i] /\ ~j[i]  BY <1>1, <1>3, <3>1
    <3> QED  BY <1>1, <1>3, <3>2 DEF Row
  <2> QED  BY <2>1, <2>2
<1> QED  BY <1>1, <1>3, <1>4 DEF Row, j

-----------------------------------------------------------------------------
(* What is left of the row between two passes. *)

LEMMA StartsIs ==
  ASSUME NEW row \in Row, ~row[0]
  PROVE  Starts(row) = {} <=> \A i \in Window : ~row[i]
<1>1. ASSUME NEW f \in Window, row[f] PROVE Starts(row) # {}
  <2>1. PICK s \in 1 .. f : ~row[s - 1] /\ \A i \in s .. f : row[i]
    BY <1>1, StartExists
  <2>2. s \in Window /\ row[s]  BY <2>1, Sizes
  <2>3. s \in Starts(row)  BY <2>1, <2>2, SpeechIs DEF Starts, Row
  <2> QED  BY <2>3
<1>2. ASSUME \A i \in Window : ~row[i] PROVE Starts(row) = {}
  BY <1>2 DEF Starts, Row
<1> QED  BY <1>1, <1>2

\* Whole runs of a row of long runs are long runs of that row.
LEMMA KeptFacts ==
  ASSUME NEW row \in Row, NEW k \in Row, EndsSilent(row),
         WholeRuns(k, Long(row))
  PROVE  EndsSilent(k) /\ RunsAreLong(k) /\ Runs(k) \subseteq Runs(Long(row))
<1> DEFINE l == Long(row)
<1>1. l \in Row /\ \A i \in Window : ~row[i] => ~l[i]  BY LongOnlyIs DEF Long
<1>2. RunsAreLong(l)  BY LongOnlyIsLong DEF Long
<1> HIDE DEF l
<1>3. \A i \in Window : /\ k[i] => l[i]
                        /\ i > 0 /\ l[i] /\ l[i - 1] => (k[i] <=> k[i - 1])
  BY DEF WholeRuns, l
<1>4. EndsSilent(k)
  <2>1. 0 \in Window /\ Last \in Window  BY Sizes
  <2> QED  BY <1>1, <1>3, <2>1 DEF EndsSilent
<1>5. ASSUME NEW a \in Window, NEW b \in Window, k[a],
             \A i \in a .. b : l[i]
      PROVE  \A i \in a .. b : k[i]
  <2> DEFINE T == {i \in a .. b : ~k[i]}
  <2> SUFFICES ASSUME T # {} PROVE FALSE  OBVIOUS
  <2>1. T \in SUBSET Nat  BY Sizes
  <2>2. PICK m \in T : \A i \in T : m <= i  BY <2>1, SmallestExists
  <2>3. m \in a .. b /\ ~k[m] /\ m # a  BY <1>5, <2>2
  <2>4. m \in Window /\ m > 0 /\ m - 1 \in a .. b /\ ~(m <= m - 1)
    BY <2>3, Sizes
  <2>5. k[m - 1]  BY <2>2, <2>4
  <2> QED  BY <1>3, <1>5, <2>3, <2>4, <2>5
<1>6. RunsAreLong(k)
  <2> SUFFICES ASSUME NEW i \in 1 .. Last, k[i], ~k[i - 1]
               PROVE  /\ i + MINSPEECHLGTH < Last
                      /\ \A n \in i .. i + MINSPEECHLGTH : k[n]
    BY DEF RunsAreLong
  <2>1. i \in Window /\ i - 1 \in Window /\ i > 0 /\ i \in Int  BY Sizes
  <2>2. l[i] /\ ~l[i - 1]  BY <1>3, <2>1
  <2>3. /\ i + MINSPEECHLGTH < Last
        /\ \A n \in i .. i + MINSPEECHLGTH : l[n]
    BY <1>2, <2>2 DEF RunsAreLong
  <2>4. i + MINSPEECHLGTH \in Window  BY <2>1, <2>3, Sizes
  <2> QED  BY <1>5, <2>1, <2>3, <2>4
<1>7. ASSUME NEW r \in Runs(k) PROVE r \in Runs(l)
  <2>1. /\ r.start \in Window /\ r.end \in r.start + 1 .. Nwindows
        /\ ~Speech(k, r.start - 1) /\ ~Speech(k, r.end)
        /\ \A i \in r.start .. r.end - 1 : k[i]
        /\ r = [start |-> r.start, end |-> r.end]
    BY RunIs
  <2> DEFINE s == r.start
             e == r.end
  <2>2. s \in Window /\ e \in s + 1 .. Nwindows  BY <2>1
  <2>3. \A i \in s .. e - 1 : k[i]  BY <2>1
  <2>4. ~Speech(k, s - 1) /\ ~Speech(k, e) /\ r = [start |-> s, end |-> e]
    BY <2>1
  <2> HIDE DEF s, e
  <2>5. \A i \in s .. e - 1 : i \in Window  BY <2>2, Sizes
  <2>6. \A i \in s .. e - 1 : l[i]  BY <1>3, <2>3, <2>5
  <2>7. s \in s .. e - 1 /\ e - 1 \in s .. e - 1  BY <2>2, Sizes
  <2>8. ~Speech(l, s - 1)
    <3> SUFFICES ASSUME s - 1 \in Window, l[s - 1] PROVE FALSE
      BY <1>1, SpeechIs
    <3>1. s > 0  BY <2>2, Sizes
    <3>2. k[s - 1]  BY <1>3, <2>2, <2>3, <2>6, <2>7, <3>1
    <3> QED  BY <2>4, <3>2, SpeechIs
  <2>9. ~Speech(l, e)
    <3> SUFFICES ASSUME e \in Window, l[e] PROVE FALSE  BY <1>1, SpeechIs
    <3>1. e > 0  BY <2>2, Sizes
    <3>2. k[e]  BY <1>3, <2>3, <2>6, <2>7, <3>1
    <3> QED  BY <2>4, <3>2, SpeechIs
  <2> QED  BY <1>1, <2>2, <2>4, <2>6, <2>8, <2>9, RunAt
<1> QED  BY <1>4, <1>6, <1>7 DEF l

\* The row the last sweep starts from.
Base(k) ==
  IF Starts(k) = {} THEN [i \in Window |-> i \in 1 .. Last - 1] ELSE Join1(k)

LEMMA BaseFacts ==
  ASSUME NEW k \in Row, EndsSilent(k), RunsAreLong(k)
  PROVE  /\ Base(k) \in Row /\ EndsSilent(Base(k))
         /\ RunsAreLong(Base(k)) /\ RunsAreApart(Base(k))
         /\ \E i \in Window : Base(k)[i]
<1>1. CASE Starts(k) = {}
  <2> DEFINE b == Base(k)
  <2>1. b \in Row /\ \A i \in Window : b[i] <=> i \in 1 .. Last - 1
    <3>1. b = [i \in Window |-> i \in 1 .. Last - 1]  BY <1>1 DEF Base
    <3> HIDE DEF b
    <3> DEFINE P(i) == i \in 1 .. Last - 1
    <3>2. b \in [Window -> BOOLEAN]
      <4>1. b = [i \in Window |-> P(i)]  BY <3>1
      <4>2. \A i \in Window : P(i) \in BOOLEAN  OBVIOUS
      <4> HIDE DEF P
      <4> QED  BY <4>1, <4>2
    <3>3. \A i \in Window : b[i] <=> i \in 1 .. Last - 1  BY <3>1, Zenon
    <3> QED  BY <3>2, <3>3 DEF Row
  <2> HIDE DEF b
  <2>2. EndsSilent(b)
    <3>1. 0 \in Window /\ Last \in Window  BY Sizes
    <3> QED  BY <2>1, <3>1, Sizes DEF EndsSilent
  <2>3. RunsAreLong(b)
    <3> SUFFICES ASSUME NEW i \in 1 .. Last, b[i], ~b[i - 1]
                 PROVE  /\ i + MINSPEECHLGTH < Last
                        /\ \A n \in i .. i + MINSPEECHLGTH : b[n]
      BY DEF RunsAreLong
    <3>1. i \in Window /\ i - 1 \in Window  BY Sizes
    <3>2. i = 1  BY <2>1, <3>1, Sizes
    <3>3. 1 + MINSPEECHLGTH < Last  BY Sizes
    <3>4. \A n \in 1 .. 1 + MINSPEECHLGTH : n \in Window /\ n \in 1 .. Last - 1
      BY <3>3, Sizes
    <3> QED  BY <2>1, <3>2, <3>3, <3>4
  <2>4. RunsAreApart(b)
    <3> SUFFICES ASSUME NEW j \in 1 .. Last, ~b[j], b[j - 1], NEW n \in j .. Last
                 PROVE  ~b[n]
      BY DEF RunsAreApart
    <3>1. j \in Window /\ n \in Window  BY Sizes
    <3>2. n = Last  BY <2>1, <3>1, Sizes
    <3> QED  BY <2>1, <3>1, <3>2, Sizes
  <2>5. 1 \in Window /\ b[1]
    <3>1. 1 \in Window /\ 1 \in 1 .. Last - 1  BY Sizes
    <3> QED  BY <2>1, <3>1
  <2> QED  BY <2>1, <2>2, <2>3, <2>4, <2>5 DEF b
<1>2. CASE Starts(k) # {}
  <2> DEFINE j == Join1(k)
  <2>1. j \in Row /\ \A i \in Window : k[i] => j[i]  BY JoinedIs DEF Join1
  <2>2. EndsSilent(j) /\ RunsAreLong(j) /\ RunsAreApart(j)
    BY JoinedIsApart DEF Join1
  <2>3. \E i \in Window : k[i]  BY <1>2, StartsIs DEF EndsSilent
  <2>4. \E i \in Window : j[i]  BY <2>1, <2>3
  <2>5. Base(k) = j  BY <1>2 DEF Base
  <2> HIDE DEF j
  <2> QED  BY <2>1, <2>2, <2>4, <2>5
<1> QED  BY <1>1, <1>2

-----------------------------------------------------------------------------
(* The sweep that widens the runs. *)

LEMMA WidenInit ==
  ASSUME NEW row \in Row, EndsSilent(row), RunsAreLong(row)
  PROVE  WidenAt(row, row, 3)
<1>1. ~Fall(row, 1)  BY DEF Fall, EndsSilent
<1>2. ~Fall(row, 2)
  <2> SUFFICES ASSUME ~row[2], row[1] PROVE FALSE  BY DEF Fall
  <2>1. 1 \in 1 .. Last /\ 2 \in 1 .. 1 + MINSPEECHLGTH  BY Sizes
  <2>2. 1 - 1 = 0 /\ ~row[0]  BY DEF EndsSilent
  <2> QED  BY <2>1, <2>2 DEF RunsAreLong
<1>3. ~Fall(row, 0)  BY DEF Fall
<1>4. Grown(row, row, 0, 3)
  <2> SUFFICES ASSUME NEW i \in Window
               PROVE  /\ ~(i + 1 < 0) /\ ~(i + 2 < 0)
                      /\ ~(i < 3 /\ Fall(row, i))
                      /\ ~(i - 1 < 3 /\ Fall(row, i - 1))
    BY DEF Grown
  <2>1. ~(i + 1 < 0) /\ ~(i + 2 < 0)  BY Sizes
  <2>2. i < 3 => i \in {0, 1, 2}  BY Sizes
  <2>3. i - 1 < 3 => i - 1 \in {-1, 0, 1, 2}  BY Sizes
  <2>4. ~Fall(row, -1)  BY DEF Fall
  <2> QED  BY <1>1, <1>2, <1>3, <2>1, <2>2, <2>3, <2>4
<1>5. 3 - 1 = 2 /\ 3 - 2 = 1 /\ 3 - 3 = 0 /\ (IF 3 > 3 THEN 3 ELSE 0) = 0
  OBVIOUS
<1> QED  BY <1>1, <1>2, <1>3, <1>4, <1>5 DEF WidenAt

\* Behind the index, and just in front of it, the row is untouched.
LEMMA GrownAhead ==
  ASSUME NEW v \in Row, NEW row \in Row, NEW r \in Int, NEW f \in Int,
         NEW i \in Window, Grown(v, row, r, f), f <= i + 1,
         i + 1 < r => ~Rise(row, i + 1), i + 2 < r => ~Rise(row, i + 2),
         i < f => ~Fall(row, i), i - 1 < f => ~Fall(row, i - 1)
  PROVE  v[i] <=> row[i]
BY DEF Grown

\* Where the sweep finds the beginning of a run.
LEMMA RisesWhere ==
  ASSUME NEW v \in Row, NEW row \in Row, NEW c \in 3 .. Nwindows - 3,
         EndsSilent(row), RunsAreLong(row), RunsAreApart(row),
         WidenAt(v, row, c)
  PROVE  /\ v[c] <=> row[c]
         /\ v[c - 2] <=> row[c - 2] \/ (c > 3 /\ Rise(row, c - 1))
         /\ v[c] /\ ~v[c - 2] <=> Rise(row, c) \/ (c = 3 /\ Rise(row, 2))
<1> DEFINE r == IF c > 3 THEN c ELSE 0
<1>1. Grown(v, row, r, c)  BY DEF WidenAt
<1>2. ~Fall(row, c - 1) /\ ~Fall(row, c - 2) /\ ~Fall(row, c - 3)
  BY DEF WidenAt
<1>3. /\ c \in Int /\ r \in Int /\ c \in Window /\ c - 1 \in Window
      /\ c - 2 \in Window /\ c \in 1 .. Last /\ c - 1 \in 1 .. Last
      /\ c > 0 /\ c - 2 > 0 /\ r <= c
  BY Sizes
<1>4. v[c] <=> row[c]
  <2>1. ~(c < c) /\ ~(c + 1 < r) /\ ~(c + 2 < r)  BY <1>3
  <2> HIDE DEF r
  <2> QED  BY <1>1, <1>2, <1>3, <2>1 DEF Grown
<1>5. v[c - 2] <=> row[c - 2] \/ (c > 3 /\ Rise(row, c - 1))
  <2>1. /\ (c - 2) + 1 = c - 1 /\ (c - 2) + 2 = c /\ (c - 2) - 1 = c - 3
        /\ ~(c < r) /\ (c - 1 < r <=> c > 3)
    BY <1>3
  <2> HIDE DEF r
  <2> QED  BY <1>1, <1>2, <1>3, <2>1 DEF Grown
<1>6. ASSUME row[c - 2], ~row[c - 1] PROVE ~row[c]
  <2>1. c \in c - 1 .. Last /\ c <= c - 1 + JOINSPEECHLGTH  BY <1>3, Sizes
  <2>2. c - 1 - 1 = c - 2  BY <1>3
  <2> QED  BY <1>3, <1>6, <2>1, <2>2 DEF RunsAreApart
<1>7. ASSUME c = 3, Rise(row, 2) PROVE row[c]
  <2>1. 2 \in 1 .. Last /\ 3 \in 2 .. 2 + MINSPEECHLGTH  BY Sizes
  <2>2. row[2] /\ ~row[2 - 1]  BY <1>7 DEF Rise
  <2> QED  BY <1>7, <2>1, <2>2 DEF RunsAreLong
<1>8. Rise(row, c) <=> row[c] /\ ~row[c - 1]  BY <1>3, Sizes DEF Rise
<1>9. Rise(row, c - 1) <=> row[c - 1] /\ ~row[c - 2]
  <2>1. c - 1 \in 2 .. Nwindows - 3 /\ (c - 1) - 1 = c - 2  BY <1>3, Sizes
  <2> QED  BY <2>1 DEF Rise
<1>10. c = 3 => (Rise(row, 2) <=> row[c - 1] /\ ~row[c - 2])
  <2>1. c = 3 => c - 1 = 2  OBVIOUS
  <2> QED  BY <1>9, <2>1
<1>11. c > 3 \/ c = 3  BY <1>3
<1>12. ~(c > 3 /\ c = 3)  BY <1>3
<1> HIDE DEF r
<1> QED
  BY <1>4, <1>5, <1>6, <1>7, <1>8, <1>9, <1>10, <1>11, <1>12

\* After the two windows in front of a run.
LEMMA GrownToTheFront ==
  ASSUME NEW v \in Row, NEW row \in Row, NEW b \in Row,
         NEW c \in 3 .. Nwindows - 3, NEW rises \in BOOLEAN,
         EndsSilent(row), RunsAreLong(row), RunsAreApart(row),
         WidenAt(v, row, c), rises <=> v[c] /\ ~v[c - 2],
         \A i \in Window : b[i] <=> (rises /\ i \in {c - 2, c - 1}) \/ v[i]
  PROVE  Grown(b, row, c + 1, c)
<1> SUFFICES ASSUME NEW i \in Window
             PROVE  b[i] <=> \/ row[i]
                             \/ i > 0 /\ i + 1 < c + 1 /\ Rise(row, i + 1)
                             \/ i > 0 /\ i + 2 < c + 1 /\ Rise(row, i + 2)
                             \/ i < c /\ Fall(row, i)
                             \/ i - 1 < c /\ Fall(row, i - 1)
  BY DEF Grown
<1>1. rises <=> Rise(row, c) \/ (c = 3 /\ Rise(row, 2))  BY RisesWhere
<1>2. i \in Int /\ c \in Int /\ i >= 0 /\ c >= 3  BY Sizes
<1>3. v[i] <=> \/ row[i]
               \/ i > 0 /\ c > 3 /\ i + 1 < c /\ Rise(row, i + 1)
               \/ i > 0 /\ c > 3 /\ i + 2 < c /\ Rise(row, i + 2)
               \/ i < c /\ Fall(row, i)
               \/ i - 1 < c /\ Fall(row, i - 1)
  <2> DEFINE r == IF c > 3 THEN c ELSE 0
  <2>1. Grown(v, row, r, c)  BY DEF WidenAt
  <2>2. /\ i + 1 < r <=> c > 3 /\ i + 1 < c
        /\ i + 2 < r <=> c > 3 /\ i + 2 < c
    BY <1>2
  <2> HIDE DEF r
  <2> QED  BY <2>1, <2>2 DEF Grown
<1>4. b[i] <=> (rises /\ i \in {c - 2, c - 1}) \/ v[i]  OBVIOUS
<1>5. /\ i = c - 1 => i + 1 = c /\ i > 0
      /\ i = c - 2 => i + 2 = c /\ i > 0
      /\ i + 1 < c + 1 <=> i + 1 < c \/ i = c - 1
      /\ i + 2 < c + 1 <=> i + 2 < c \/ i = c - 2
  BY <1>2
<1>6. CASE c > 3
  <2>1. c # 3  BY <1>6, <1>2
  <2> QED  BY <1>1, <1>3, <1>4, <1>5, <1>6, <2>1
<1>7. CASE c = 3
  <2>1. Rise(row, 2) => row[2]  BY DEF Rise
  <2>2. ~Rise(row, 1)  BY DEF Rise
  <2>3. /\ i + 1 < c => i = 0 \/ i = 1
        /\ i + 2 < c => i = 0
        /\ c - 1 = 2 /\ c - 2 = 1 /\ 1 + 1 = 2 /\ 2 + 1 = 3 /\ 1 + 2 = 3
        /\ ~(c > 3) /\ i = 1 => i + 1 < c
    BY <1>2, <1>7
  <2>4. Rise(row, 2) => ~Rise(row, 3)
    <3>1. 3 - 1 = 2  OBVIOUS
    <3> QED  BY <3>1 DEF Rise
  <2>5. CASE i = 0
    <3>1. ~(i > 0) /\ i # 1 /\ i # 2  BY <2>5
    <3> QED  BY <1>3, <1>4, <2>3, <3>1
  <2>6. CASE i = 1
    <3>1. i > 0 /\ i + 1 < c + 1 /\ i + 2 < c + 1 /\ i + 1 = 2 /\ i + 2 = 3
      BY <1>2, <1>7, <2>6
    <3> QED  BY <1>1, <1>3, <1>4, <1>7, <2>3, <2>6, <3>1
  <2>7. CASE i = 2
    <3>1. i > 0 /\ i + 1 < c + 1 /\ ~(i + 2 < c + 1) /\ i + 1 = 3 /\ i # 1
      BY <1>2, <1>7, <2>7
    <3> QED  BY <1>1, <1>3, <1>4, <1>7, <2>1, <2>3, <2>7, <3>1
  <2>8. CASE i > 2
    <3>1. ~(i + 1 < c + 1) /\ ~(i + 2 < c + 1) /\ i # 1 /\ i # 2
      BY <1>2, <1>7, <2>8
    <3> QED  BY <1>3, <1>4, <2>3, <3>1
  <2> QED  BY <1>2, <2>5, <2>6, <2>7, <2>8
<1> QED  BY <1>2, <1>6, <1>7

\* One iteration of the sweep: two windows in front of a run that begins, and
\* two behind one that ends, which are stepped over.
LEMMA WidenStep ==
  ASSUME NEW v \in Row, NEW row \in Row, NEW b \in Row, NEW w \in Row,
         NEW c \in 3 .. Nwindows - 3, NEW d, NEW n,
         NEW rises \in BOOLEAN, NEW falls \in BOOLEAN,
         EndsSilent(row), RunsAreLong(row), RunsAreApart(row),
         WidenAt(v, row, c), rises <=> v[c] /\ ~v[c - 2],
         \A i \in Window : b[i] <=> (rises /\ i \in {c - 2, c - 1}) \/ v[i],
         d = IF rises THEN c + 1 ELSE c,
         falls <=> ~b[d] /\ b[d - 1],
         \A i \in Window : w[i] <=> (falls /\ i \in {d, d + 1}) \/ b[i],
         n = IF falls THEN d + 4 ELSE d + 1
  PROVE  WidenAt(w, row, n)
<1>1. /\ v[c] <=> row[c]
      /\ rises <=> Rise(row, c) \/ (c = 3 /\ Rise(row, 2))
  BY RisesWhere
<1>2. ~Fall(row, c - 1) /\ ~Fall(row, c - 2)  BY DEF WidenAt
<1>3. Grown(b, row, c + 1, c)  BY GrownToTheFront
<1>4. /\ c \in Int /\ d \in Int /\ d \in Window /\ d - 1 \in Window
      /\ d \in 3 .. Nwindows - 2 /\ c \in Window /\ c > 0
      /\ d \in 1 .. Last
  BY Sizes
<1>5. /\ rises => d = c + 1 /\ row[c]
      /\ ~rises => d = c
  BY <1>1
<1>6. ~Rise(row, d)
  <2>1. rises => d - 1 = c  BY <1>4, <1>5
  <2> QED  BY <1>1, <1>5, <2>1 DEF Rise
<1>7. ~Fall(row, d - 1) /\ ~Fall(row, d - 2)
  <2>1. rises => d - 1 = c /\ d - 2 = c - 1  BY <1>4, <1>5
  <2> QED  BY <1>2, <1>5, <2>1 DEF Fall
<1>8. Grown(b, row, d + 1, d)
  <2> SUFFICES ASSUME NEW i \in Window
               PROVE  b[i] <=> \/ row[i]
                               \/ i > 0 /\ i + 1 < d + 1 /\ Rise(row, i + 1)
                               \/ i > 0 /\ i + 2 < d + 1 /\ Rise(row, i + 2)
                               \/ i < d /\ Fall(row, i)
                               \/ i - 1 < d /\ Fall(row, i - 1)
    BY DEF Grown
  <2>1. CASE ~rises  BY <1>3, <1>5, <2>1 DEF Grown
  <2>2. CASE rises
    <3>1. i \in Int /\ d = c + 1 /\ d - 1 = c  BY <1>4, <1>5, <2>2, Sizes
    <3>2. ~Fall(row, c)  BY <1>7, <3>1
    <3>3. /\ i + 1 < d + 1 <=> i + 1 < c + 1 \/ i + 1 = d
          /\ i + 2 < d + 1 <=> i + 2 < c + 1 \/ i + 2 = d
          /\ i < d <=> i < c \/ i = c
          /\ i - 1 < d <=> i - 1 < c \/ i - 1 = c
      BY <1>4, <3>1
    <3> QED  BY <1>3, <1>6, <3>2, <3>3 DEF Grown
  <2> QED  BY <2>1, <2>2
<1>9. falls <=> ~row[d] /\ row[d - 1]
  <2>1. b[d] <=> row[d]
    <3>1. ~(d < d) /\ ~(d + 1 < d + 1) /\ ~(d + 2 < d + 1)  BY <1>4
    <3> QED  BY <1>4, <1>7, <1>8, <3>1 DEF Grown
  <2>2. b[d - 1] <=> row[d - 1]
    <3>1. (d - 1) + 1 = d /\ ~((d - 1) + 2 < d + 1) /\ (d - 1) - 1 = d - 2
      BY <1>4
    <3> QED  BY <1>4, <1>6, <1>7, <1>8, <3>1 DEF Grown
  <2> QED  BY <2>1, <2>2
<1>10. falls <=> Fall(row, d)
  <2> SUFFICES ASSUME falls PROVE d \in 1 .. Nwindows - 3
    BY <1>9 DEF Fall
  <2>1. CASE ~rises  BY <1>4, <1>5, <2>1, Sizes
  <2>2. CASE rises /\ c = 3  BY <1>4, <1>5, <2>2, Sizes
  <2>3. CASE rises /\ c # 3
    <3>1. row[c] /\ ~row[c - 1]  BY <1>1, <2>3 DEF Rise
    <3>2. c \in 1 .. Last /\ c + 1 \in c .. c + MINSPEECHLGTH  BY <1>4, Sizes
    <3>3. row[d]  BY <1>5, <2>3, <3>1, <3>2 DEF RunsAreLong
    <3> QED  BY <1>9, <3>3
  <2> QED  BY <2>1, <2>2, <2>3
<1>11. CASE ~falls
  <2>1. n = d + 1 /\ n > 3 /\ n \in Int /\ n - 1 = d /\ n - 2 = d - 1
        /\ n - 3 = d - 2
    BY <1>4, <1>11
  <2>2. Grown(w, row, n, n)
    <3> SUFFICES ASSUME NEW i \in Window
                 PROVE  w[i] <=> \/ row[i]
                                 \/ i > 0 /\ i + 1 < n /\ Rise(row, i + 1)
                                 \/ i > 0 /\ i + 2 < n /\ Rise(row, i + 2)
                                 \/ i < n /\ Fall(row, i)
                                 \/ i - 1 < n /\ Fall(row, i - 1)
      BY DEF Grown
    <3>1. i \in Int  BY Sizes
    <3>2. /\ i < n <=> i < d \/ i = d
          /\ i - 1 < n <=> i - 1 < d \/ i - 1 = d
      BY <1>4, <2>1, <3>1
    <3>3. w[i] <=> b[i]  BY <1>11
    <3> QED  BY <1>8, <1>10, <1>11, <2>1, <3>2, <3>3 DEF Grown
  <2> QED  BY <1>7, <1>10, <1>11, <2>1, <2>2 DEF WidenAt
<1>12. CASE falls
  <2>1. /\ n = d + 4 /\ n > 3 /\ n \in Int
        /\ n - 1 = d + 3 /\ n - 2 = d + 2 /\ n - 3 = d + 1
    BY <1>4, <1>12
  <2>2. \A k \in d .. Last : k <= d + 4 => ~row[k]
    <3>1. \A k \in d .. Last : k <= d + JOINSPEECHLGTH => ~row[k]
      BY <1>4, <1>9, <1>12 DEF RunsAreApart
    <3>2. \A k \in d .. Last : k <= d + 4 => k <= d + JOINSPEECHLGTH
      BY <1>4, Sizes
    <3> QED  BY <3>1, <3>2
  <2>3. \A k \in Int : d <= k /\ k < d + 4 => ~Rise(row, k)
    <3> SUFFICES ASSUME NEW k \in Int, d <= k, k < d + 4,
                        k \in 2 .. Nwindows - 3
                 PROVE  ~row[k]
      BY DEF Rise
    <3>1. k \in d .. Last /\ k <= d + 4  BY <1>4, Sizes
    <3> QED  BY <2>2, <3>1
  <2>4. \A k \in Int : d < k /\ k < d + 4 => ~Fall(row, k)
    <3> SUFFICES ASSUME NEW k \in Int, d < k, k < d + 4,
                        k \in 1 .. Nwindows - 3
                 PROVE  ~row[k - 1]
      BY DEF Fall
    <3>1. k - 1 \in d .. Last /\ k - 1 <= d + 4  BY <1>4, Sizes
    <3> QED  BY <2>2, <3>1
  <2>5. Fall(row, d)  BY <1>10, <1>12
  <2>6. Grown(w, row, n, n)
    <3> SUFFICES ASSUME NEW i \in Window
                 PROVE  w[i] <=> \/ row[i]
                                 \/ i > 0 /\ i + 1 < n /\ Rise(row, i + 1)
                                 \/ i > 0 /\ i + 2 < n /\ Rise(row, i + 2)
                                 \/ i < n /\ Fall(row, i)
                                 \/ i - 1 < n /\ Fall(row, i - 1)
      BY DEF Grown
    <3>1. i \in Int /\ i + 1 \in Int /\ i + 2 \in Int /\ i - 1 \in Int
      BY Sizes
    <3>2. \A k \in Int : k < n /\ Rise(row, k) <=> k < d + 1 /\ Rise(row, k)
      <4> TAKE k \in Int
      <4>1. k < n <=> k < d \/ (d <= k /\ k < d + 4)  BY <1>4, <2>1
      <4>2. k < d + 1 <=> k < d \/ k = d  BY <1>4
      <4> QED  BY <1>6, <2>3, <4>1, <4>2
    <3>3. \A k \in Int :
            k < n /\ Fall(row, k) <=> (k < d /\ Fall(row, k)) \/ k = d
      <4> TAKE k \in Int
      <4>1. k < n <=> k < d \/ k = d \/ (d < k /\ k < d + 4)  BY <1>4, <2>1
      <4> QED  BY <2>4, <2>5, <4>1
    <3>4. w[i] <=> i = d \/ i - 1 = d \/ b[i]
      <4>1. i = d + 1 <=> i - 1 = d  BY <1>4, <3>1
      <4> QED  BY <1>12, <4>1
    <3>5. b[i] <=> \/ row[i]
                   \/ i > 0 /\ i + 1 < d + 1 /\ Rise(row, i + 1)
                   \/ i > 0 /\ i + 2 < d + 1 /\ Rise(row, i + 2)
                   \/ i < d /\ Fall(row, i)
                   \/ i - 1 < d /\ Fall(row, i - 1)
      BY <1>8 DEF Grown
    <3> QED  BY <3>1, <3>2, <3>3, <3>4, <3>5
  <2>7. ~Fall(row, d + 3) /\ ~Fall(row, d + 2) /\ ~Fall(row, d + 1)
    <3>1. /\ d + 3 \in Int /\ d < d + 3 /\ d + 3 < d + 4
          /\ d + 2 \in Int /\ d < d + 2 /\ d + 2 < d + 4
          /\ d + 1 \in Int /\ d < d + 1 /\ d + 1 < d + 4
      BY <1>4
    <3> QED  BY <2>4, <3>1
  <2> QED  BY <2>1, <2>6, <2>7 DEF WidenAt
<1> QED  BY <1>11, <1>12

LEMMA WidenEnd ==
  ASSUME NEW v, NEW row \in Row, NEW c \in Int, c >= Nwindows - 2,
         EndsSilent(row), WidenAt(v, row, c)
  PROVE  v = Widened(row, Nwindows)
<1> DEFINE w == Widened(row, Nwindows)
<1>1. /\ w \in Row
      /\ \A i \in Window : w[i] <=>
           \/ row[i]
           \/ i > 0 /\ (Rise(row, i + 1) \/ Rise(row, i + 2))
           \/ Fall(row, i) \/ Fall(row, i - 1)
  BY WidenedIs
<1> HIDE DEF w
<1>2. c > 3  BY Sizes
<1>3. v \in Row /\ Grown(v, row, c, c)  BY <1>2 DEF WidenAt
<1>4. \A k \in Int : (Rise(row, k) => k < c) /\ (Fall(row, k) => k < c)
  BY Sizes DEF Rise, Fall
<1>5. ASSUME NEW i \in Window PROVE v[i] <=> w[i]
  <2>1. i \in Int /\ i + 1 \in Int /\ i + 2 \in Int /\ i - 1 \in Int
    BY Sizes
  <2> QED  BY <1>1, <1>3, <1>4, <2>1 DEF Grown
<1>6. \A i \in Window : v[i] = w[i]  BY <1>1, <1>3, <1>5 DEF Row
<1> QED  BY <1>1, <1>3, <1>6 DEF Row, w

LEMMA JoinInit ==
  ASSUME NEW row \in Row, EndsSilent(row)
  PROVE  JoinAt(row, row, 0, 1)
<1>1. 1 - 1 = 0 /\ 0 \in 0 .. 0 /\ \A i \in 0 .. 0 : i = 0  OBVIOUS
<1>2. \A i \in Window : ~(i < 0)  BY Sizes
<1> QED  BY <1>1, <1>2 DEF JoinAt, EndsSilent

\* What Set leaves behind.
LEMMA SetIs ==
  ASSUME NEW v \in Row, NEW a, NEW b, NEW u \in BOOLEAN, NEW w,
         w = [i \in Window |-> IF a <= i /\ i < b THEN u ELSE v[i]]
  PROVE  /\ w \in Row
         /\ \A i \in Window : (a <= i /\ i < b) => (w[i] <=> u)
         /\ \A i \in Window : ~(a <= i /\ i < b) => (w[i] <=> v[i])
BY DEF Row

-----------------------------------------------------------------------------
(* The inductive invariant: what each pass has done in front of its index. *)

Handed == raw \in Row /\ EndsSilent(raw)

Shortening == pass = "short" => kept = vad /\ ShortAt(vad, raw, start, count)

Weakening ==
  pass = "weak" =>
    loud /\ kept = vad /\ WholeRuns(kept, Long(raw)) /\ InRun(vad, start, count)

Dropped ==
  pass \notin {"short", "weak"} =>
    WholeRuns(kept, Long(raw)) /\ (~loud => kept = Long(raw))

Joining ==
  pass = "join" => JoinAt(vad, kept, IF count = 1 THEN 0 ELSE finish, count)

Filled == pass = "none" => vad = Join1(kept)

Widening == pass = "widen" => WidenAt(vad, Base(kept), count)

Ended == pass = "done" => vad = Widened(Base(kept), Nwindows)

IInv ==
  /\ TypeOK /\ Handed /\ Shortening /\ Weakening /\ Dropped
  /\ Joining /\ Filled /\ Widening /\ Ended

\* A pass looks at windows of the row only.
LEMMA TypeStep ==
  ASSUME TypeOK, [Next]_vars
  PROVE  TypeOK'
<1>1. /\ vad \in Row /\ start \in Window /\ finish \in Window
      /\ 0 \in Window /\ Last \in Nat /\ 1 \in 1 .. Last
  BY Sizes DEF TypeOK, Row, Passes
<1>2. ASSUME NEW a, NEW b, NEW u \in BOOLEAN, Set(a, b, u) PROVE vad' \in Row
  BY <1>1, <1>2, SetIs DEF Set
<1>3. CASE DropShort
  <2>1. count \in 1 .. Last /\ count \in Window  BY <1>3, Sizes DEF TypeOK, DropShort
  <2>2. vad' \in Row  BY <1>1, <1>2, <1>3 DEF DropShort
  <2>3. start' \in Window /\ finish' \in Window  BY <1>1, <1>3, <2>1 DEF DropShort
  <2>4. /\ pass' \in {"short", "weak", "join"} /\ count' \in 1 .. Last
    BY <1>1, <1>3, <2>1 DEF DropShort, Advance
  <2> QED
    BY <1>3, <2>2, <2>3, <2>4 DEF TypeOK, DropShort, Row, Passes
<1>4. CASE DropWeak
  <2>1. count \in 1 .. Last /\ count \in Window  BY <1>4, Sizes DEF TypeOK, DropWeak
  <2>2. vad' \in Row  BY <1>1, <1>2, <1>4 DEF DropWeak
  <2>3. start' \in Window /\ finish' \in Window  BY <1>1, <1>4, <2>1 DEF DropWeak
  <2>4. /\ pass' \in {"weak", "join"} /\ count' \in 1 .. Last
    BY <1>1, <1>4, <2>1 DEF DropWeak, Advance
  <2> QED
    BY <1>4, <2>2, <2>3, <2>4 DEF TypeOK, DropWeak, Row, Passes
<1>5. CASE Join
  <2>1. count \in 1 .. Last /\ count \in Window  BY <1>5, Sizes DEF TypeOK, Join
  <2>2. vad' \in Row  BY <1>1, <1>2, <1>5 DEF Join
  <2>3. start' \in Window /\ finish' \in Window  BY <1>1, <1>5, <2>1 DEF Join
  <2>4. /\ pass' \in {"join", "none"} /\ count' \in 1 .. Last
    BY <1>1, <1>5, <2>1 DEF Join, Advance
  <2> QED
    BY <1>5, <2>2, <2>3, <2>4 DEF TypeOK, Join, Row, Passes
<1>6. CASE NoSpeech
  <2>1. vad' \in Row  BY <1>1, <1>2, <1>6 DEF NoSpeech
  <2>2. pass' = "widen" /\ count' \in 3 .. Last + 4 /\ start' \in Window
    BY <1>1, <1>6, Sizes DEF NoSpeech
  <2> QED  BY <1>6, <2>1, <2>2 DEF TypeOK, NoSpeech, Row, Passes
<1>7. CASE Widen
  <2>1. count \in 3 .. Last - 2  BY <1>7, Sizes DEF TypeOK, Widen
  <2>2. vad' \in Row
    <3>1. vad \in [Window -> BOOLEAN]  BY <1>1 DEF Row
    <3> QED  BY <1>7, <3>1 DEF Widen, Row
  <2>3. count' \in 3 .. Last + 4
    <3>1. \A d \in {count, count + 1} : d + 4 \in 3 .. Last + 4
                                        /\ d + 1 \in 3 .. Last + 4
      BY <1>1, <2>1
    <3> QED  BY <1>7, <3>1 DEF Widen
  <2> QED  BY <1>7, <2>2, <2>3 DEF TypeOK, Widen, Row, Passes
<1>8. CASE Finish
  BY <1>8 DEF TypeOK, Finish, Passes
<1>9. CASE UNCHANGED vars
  BY <1>9 DEF TypeOK, vars
<1> QED
  BY <1>3, <1>4, <1>5, <1>6, <1>7, <1>8, <1>9 DEF Next, Done

LEMMA InitIInv ==
  ASSUME Init
  PROVE  IInv
<1>1. raw \in Row /\ EndsSilent(raw) /\ vad = raw /\ kept = raw
  BY DEF Init, Row, EndsSilent
<1>2. pass = "short" /\ count = 1 /\ start = 0 /\ finish = 0 /\ loud \in BOOLEAN
  BY DEF Init
<1>3. TypeOK
  <2>1. 0 \in Window /\ 1 \in 1 .. Last  BY Sizes
  <2> QED  BY <1>1, <1>2, <2>1 DEF TypeOK, Row, Passes
<1>4. ShortAt(raw, raw, 0, 1)
  <2>1. 1 - 1 = 0 /\ ~raw[0]  BY <1>1 DEF EndsSilent
  <2>2. InRun(raw, 0, 1)  BY <2>1 DEF InRun
  <2>3. \A i \in Window : i < 1 => ~raw[i] /\ ~Long(raw)[i]
    <3> SUFFICES ASSUME NEW i \in Window, i < 1
                 PROVE  ~raw[i] /\ ~Long(raw)[i]
      OBVIOUS
    <3>1. i = 0  BY Sizes
    <3> QED  BY <1>1, <2>1, <3>1, LongOnlyIs DEF Long
  <2>4. \A i \in Window : raw[i] = Long(raw)[i] \/ ~(i < 1)
    BY <1>1, <2>3, LongOnlyIs DEF Long, Row
  <2> QED  BY <1>1, <2>1, <2>2, <2>4 DEF ShortAt
<1> QED
  BY <1>1, <1>2, <1>3, <1>4
  DEF IInv, Handed, Shortening, Weakening, Dropped, Joining, Filled, Widening,
      Ended

\* What the passes behind a drop rest on.
LEMMA DroppedFacts ==
  ASSUME NEW row \in Row, EndsSilent(row)
  PROVE  /\ Long(row) \in Row /\ ~Long(row)[0]
         /\ WholeRuns(Long(row), Long(row))
<1>1. 0 \in Window  BY Sizes
<1> QED  BY <1>1, LongOnlyIs DEF Long, WholeRuns, EndsSilent

LEMMA DropShortKeeps ==
  ASSUME IInv, TypeOK', DropShort
  PROVE  IInv'
<1>1. /\ vad \in Row /\ raw \in Row /\ EndsSilent(raw) /\ kept = vad
      /\ start \in Window /\ count \in 1 .. Last
      /\ ShortAt(vad, raw, start, count)
  BY DEF IInv, TypeOK, Handed, Shortening, DropShort, Row
<1>2. vad' \in Row /\ raw' = raw /\ loud' = loud /\ kept' = vad'
  BY DEF TypeOK, DropShort, Row
<1>3. ShortAt(vad', raw, start', count + 1)
  <2> PICK v \in Row, w \in Row, s \in Window, c \in 1 .. Last,
          t \in {start'} :
        v = vad /\ w = vad' /\ s = start /\ c = count /\ t = start'
    BY <1>1, <1>2
  <2>1. t = IF v[c] /\ ~v[c - 1] THEN c ELSE s  BY DEF DropShort, Rising
  <2>2. ASSUME (~v[c] /\ v[c - 1]) /\ c - s <= MINSPEECHLGTH
        PROVE  \A i \in Window : w[i] <=> ~(s <= i /\ i < c) /\ v[i]
    <3>1. w = [i \in Window |-> IF s <= i /\ i < c THEN FALSE ELSE v[i]]
      BY <2>2 DEF DropShort, Falling, Set
    <3> QED  BY <3>1, SetIs
  <2>3. ~((~v[c] /\ v[c - 1]) /\ c - s <= MINSPEECHLGTH) => w = v
    BY DEF DropShort, Falling
  <2>4. ShortAt(v, raw, s, c)  BY <1>1
  <2>5. ShortAt(w, raw, t, c + 1)
    BY <1>1, <2>1, <2>2, <2>3, <2>4, ShortStep
  <2> QED  BY <2>5
<1>4. CASE count < Last
  <2>1. pass' = "short" /\ count' = count + 1  BY <1>4 DEF DropShort, Advance
  <2> QED
    BY <1>1, <1>2, <1>3, <2>1
    DEF IInv, Handed, Shortening, Weakening, Dropped, Joining, Filled, Widening,
        Ended
<1>5. CASE ~(count < Last)
  <2>1. count' = 1 /\ pass' = IF loud THEN "weak" ELSE "join"
    BY <1>5 DEF DropShort, Advance
  <2>2. count + 1 = Nwindows  BY <1>1, <1>5, Sizes
  <2>3. vad' = Long(raw)  BY <1>1, <1>2, <1>3, <2>2, ShortEnd
  <2>4. WholeRuns(vad', Long(raw)) /\ ~vad'[0]  BY <1>1, <2>3, DroppedFacts
  <2>5. InRun(vad', start', 1)
    <3>1. 1 - 1 = 0  OBVIOUS
    <3> QED  BY <2>4, <3>1 DEF InRun
  <2>6. JoinAt(vad', vad', 0, 1)
    <3>1. EndsSilent(vad')  BY <1>1, <1>2, <2>4, KeptFacts
    <3> QED  BY <1>2, <3>1, JoinInit
  <2> QED
    BY <1>1, <1>2, <2>1, <2>3, <2>4, <2>5, <2>6
    DEF IInv, Handed, Shortening, Weakening, Dropped, Joining, Filled, Widening,
        Ended
<1> QED  BY <1>4, <1>5

LEMMA DropWeakKeeps ==
  ASSUME IInv, TypeOK', DropWeak
  PROVE  IInv'
<1>1. /\ vad \in Row /\ raw \in Row /\ EndsSilent(raw) /\ kept = vad /\ loud
      /\ start \in Window /\ count \in 1 .. Last
      /\ WholeRuns(vad, Long(raw)) /\ InRun(vad, start, count)
  BY DEF IInv, TypeOK, Handed, Weakening, DropWeak, Row
<1>2. vad' \in Row /\ raw' = raw /\ loud' = loud /\ kept' = vad'
  BY DEF TypeOK, DropWeak, Row
<1>3. WholeRuns(vad', Long(raw)) /\ InRun(vad', start', count + 1)
  <2> PICK v \in Row, w \in Row, l \in Row, s \in Window, c \in 1 .. Last,
          t \in {start'} :
        /\ v = vad /\ w = vad' /\ s = start /\ c = count /\ t = start'
        /\ l = Long(raw)
    BY <1>1, <1>2, DroppedFacts
  <2>1. t = IF v[c] /\ ~v[c - 1] THEN c ELSE s  BY DEF DropWeak, Rising
  <2>2. \/ w = v
        \/ /\ ~v[c] /\ v[c - 1]
           /\ \A i \in Window : w[i] <=> ~(s <= i /\ i < c) /\ v[i]
    <3>1. CASE UNCHANGED vad  BY <3>1
    <3>2. CASE Falling /\ Set(start, count, FALSE)
      <4>1. w = [i \in Window |-> IF s <= i /\ i < c THEN FALSE ELSE v[i]]
        BY <3>2 DEF Set
      <4>2. \A i \in Window : w[i] <=> ~(s <= i /\ i < c) /\ v[i]
        BY <4>1, SetIs
      <4> QED  BY <3>2, <4>2 DEF Falling
    <3> QED  BY <3>1, <3>2 DEF DropWeak
  <2>3. WholeRuns(v, l) /\ InRun(v, s, c)  BY <1>1
  <2>4. WholeRuns(w, l) /\ InRun(w, t, c + 1)
    BY <2>1, <2>2, <2>3, WeakStep
  <2> QED  BY <2>4
<1>4. CASE count < Last
  <2>1. pass' = "weak" /\ count' = count + 1  BY <1>4 DEF DropWeak, Advance
  <2> QED
    BY <1>1, <1>2, <1>3, <2>1
    DEF IInv, Handed, Shortening, Weakening, Dropped, Joining, Filled, Widening,
        Ended
<1>5. CASE ~(count < Last)
  <2>1. count' = 1 /\ pass' = "join"  BY <1>5 DEF DropWeak, Advance
  <2>2. JoinAt(vad', vad', 0, 1)
    <3>1. EndsSilent(vad')  BY <1>1, <1>2, <1>3, KeptFacts
    <3> QED  BY <1>2, <3>1, JoinInit
  <2> QED
    BY <1>1, <1>2, <1>3, <2>1, <2>2
    DEF IInv, Handed, Shortening, Weakening, Dropped, Joining, Filled, Widening,
        Ended
<1> QED  BY <1>4, <1>5

LEMMA JoinKeeps ==
  ASSUME IInv, TypeOK', Join
  PROVE  IInv'
<1> DEFINE from == IF count = 1 THEN 0 ELSE finish
<1>1. /\ vad \in Row /\ raw \in Row /\ EndsSilent(raw) /\ kept \in Row
      /\ count \in 1 .. Last /\ JoinAt(vad, kept, from, count)
      /\ WholeRuns(kept, Long(raw))
  BY DEF IInv, TypeOK, Handed, Dropped, Joining, Join, Row
<1>2. vad' \in Row /\ raw' = raw /\ loud' = loud /\ kept' = kept
  BY DEF TypeOK, Join, Row
<1>3. EndsSilent(kept)  BY <1>1, KeptFacts
<1>4. JoinAt(vad', kept, finish', count + 1)
  <2> PICK v \in Row, w \in Row, k \in Row, c \in 1 .. Last, f \in {from},
          g \in {finish'} :
        /\ v = vad /\ w = vad' /\ k = kept /\ f = from /\ c = count
        /\ g = finish'
    BY <1>1, <1>2
  <2>1. g = IF ~v[c] /\ v[c - 1] THEN c ELSE f  BY DEF Join, Falling
  <2>2. ASSUME (v[c] /\ ~v[c - 1]) /\ f > 0 /\ c - f <= JOINSPEECHLGTH
        PROVE  \A i \in Window : w[i] <=> (f <= i /\ i < c) \/ v[i]
    <3>1. w = [i \in Window |-> IF f <= i /\ i < c THEN TRUE ELSE v[i]]
      BY <2>2 DEF Join, Rising, Set
    <3> QED  BY <3>1, SetIs
  <2>3. ~((v[c] /\ ~v[c - 1]) /\ f > 0 /\ c - f <= JOINSPEECHLGTH) => w = v
    BY DEF Join, Rising
  <2>4. EndsSilent(k) /\ JoinAt(v, k, f, c)  BY <1>1, <1>3
  <2>5. JoinAt(w, k, g, c + 1)
    BY <2>1, <2>2, <2>3, <2>4, JoinStep
  <2> QED  BY <2>5
<1>5. CASE count < Last
  <2>1. pass' = "join" /\ count' = count + 1  BY <1>5 DEF Join, Advance
  <2>2. count' # 1  BY <1>1, <2>1
  <2>3. (IF count' = 1 THEN 0 ELSE finish') = finish'  BY <2>2
  <2>4. Dropped /\ pass = "join"  BY DEF IInv, Join
  <2> QED
    BY <1>1, <1>2, <1>4, <2>1, <2>3, <2>4
    DEF IInv, Handed, Shortening, Weakening, Dropped, Joining, Filled, Widening,
        Ended
<1>6. CASE ~(count < Last)
  <2>1. pass' = "none"  BY <1>6 DEF Join, Advance
  <2>2. count + 1 = Nwindows  BY <1>1, <1>6, Sizes
  <2>3. vad' = Join1(kept)  BY <1>1, <1>3, <1>4, <2>2, JoinEnd
  <2>4. Dropped /\ pass = "join"  BY DEF IInv, Join
  <2> QED
    BY <1>1, <1>2, <2>1, <2>3, <2>4
    DEF IInv, Handed, Shortening, Weakening, Dropped, Joining, Filled, Widening,
        Ended
<1> QED  BY <1>5, <1>6

\* What the last pass starts from, whatever was left of the row.
LEMMA KeptBase ==
  ASSUME IInv, pass \notin {"short", "weak"}
  PROVE  /\ kept \in Row /\ EndsSilent(kept)
         /\ Runs(kept) \subseteq Runs(Long(raw))
         /\ Base(kept) \in Row /\ EndsSilent(Base(kept))
         /\ RunsAreLong(Base(kept)) /\ RunsAreApart(Base(kept))
         /\ \E i \in Window : Base(kept)[i]
<1>1. /\ raw \in Row /\ EndsSilent(raw) /\ kept \in Row
      /\ WholeRuns(kept, Long(raw))
  BY DEF IInv, TypeOK, Handed, Dropped, Row
<1>2. EndsSilent(kept) /\ RunsAreLong(kept) /\ Runs(kept) \subseteq Runs(Long(raw))
  BY <1>1, KeptFacts
<1> QED  BY <1>1, <1>2, BaseFacts

LEMMA NoSpeechKeeps ==
  ASSUME IInv, TypeOK', NoSpeech
  PROVE  IInv'
<1>1. /\ vad \in Row /\ vad = Join1(kept) /\ pass = "none" /\ Dropped /\ Handed
  BY DEF IInv, TypeOK, Filled, NoSpeech, Row
<1>2. /\ kept \in Row /\ EndsSilent(kept) /\ Base(kept) \in Row
      /\ EndsSilent(Base(kept)) /\ RunsAreLong(Base(kept))
  BY <1>1, KeptBase
<1>3. /\ vad' \in Row /\ raw' = raw /\ loud' = loud /\ kept' = kept
      /\ pass' = "widen" /\ count' = 3
  BY DEF TypeOK, NoSpeech, Row
<1>4. Starts(vad) = {} <=> Starts(kept) = {}
  <2>1. \A i \in Window : kept[i] => vad[i]
    <3> PICK k \in Row : k = kept  BY <1>2
    <3>1. \A i \in Window : k[i] => Join1(k)[i]
      BY <1>2, JoinedIs DEF Join1
    <3> QED  BY <1>1, <3>1
  <2>2. (\A i \in Window : ~kept[i]) => \A i \in Window : ~vad[i]
    <3> PICK k \in Row : k = kept  BY <1>2
    <3>1. \A i \in Window : (\A n \in i .. Last : ~k[n]) => ~Join1(k)[i]
      BY <1>2, JoinedIs DEF Join1
    <3>2. \A i \in Window : \A n \in i .. Last : n \in Window  BY Sizes
    <3> QED  BY <1>1, <3>1, <3>2
  <2>3. ~kept[0] /\ ~vad[0]
    <3> PICK k \in Row : k = kept  BY <1>2
    <3>1. 0 \in Window /\ \A n \in 0 .. 0 : n = 0  BY Sizes
    <3>2. ~k[0]  BY <1>2 DEF EndsSilent
    <3>3. (\A n \in 0 .. 0 : ~k[n]) => ~Join1(k)[0]
      BY <1>2, <3>1, JoinedIs DEF Join1
    <3> QED  BY <1>1, <3>1, <3>2, <3>3
  <2> QED  BY <1>1, <1>2, <2>1, <2>2, <2>3, StartsIs
<1>5. vad' = Base(kept)
  <2>1. CASE Starts(kept) = {}
    <3>1. \A i \in Window : (1 <= i /\ i < Last) <=> i \in 1 .. Last - 1
      BY Sizes
    <3>2. ~vad[0] /\ ~vad[Last]
      <4> PICK k \in Row : k = kept  BY <1>2
      <4>1. EndsSilent(k)  BY <1>2
      <4>2. 0 \in Window /\ Last \in Window
            /\ (\A n \in 0 .. 0 : n = 0) /\ (\A m \in Last .. Last : m = Last)
        BY Sizes
      <4>3. (\A n \in 0 .. 0 : ~k[n]) => ~Join1(k)[0]
        BY <4>1, <4>2, JoinedIs DEF Join1
      <4>4. (\A n \in Last .. Last : ~k[n]) => ~Join1(k)[Last]
        BY <4>1, <4>2, JoinedIs DEF Join1
      <4> QED  BY <1>1, <4>1, <4>2, <4>3, <4>4 DEF EndsSilent
    <3>3. Set(1, Last, TRUE)  BY <1>4, <2>1 DEF NoSpeech
    <3>4. PICK w \in Row, v \in Row : w = vad' /\ v = vad  BY <1>1, <1>3
    <3>5. /\ \A i \in Window : (1 <= i /\ i < Last) => w[i]
          /\ \A i \in Window : ~(1 <= i /\ i < Last) => (w[i] <=> v[i])
      <4>1. w = [i \in Window |-> IF 1 <= i /\ i < Last THEN TRUE ELSE v[i]]
        BY <3>3, <3>4 DEF Set
      <4> QED  BY <4>1, SetIs
    <3>6. \A i \in Window : i = 0 \/ i = Last \/ i \in 1 .. Last - 1  BY Sizes
    <3>7. \A i \in Window : w[i] <=> i \in 1 .. Last - 1
      BY <3>1, <3>2, <3>4, <3>5, <3>6
    <3>8. PICK b \in Row : b = Base(kept)  BY <1>2
    <3>9. \A i \in Window : b[i] <=> i \in 1 .. Last - 1
      BY <2>1, <3>8 DEF Base
    <3>10. \A i \in Window : w[i] = b[i]  BY <3>7, <3>9 DEF Row
    <3> QED  BY <3>4, <3>8, <3>10 DEF Row
  <2>2. CASE Starts(kept) # {}
    BY <1>1, <1>4, <2>2 DEF NoSpeech, Base
  <2> QED  BY <2>1, <2>2
<1>6. WidenAt(vad', Base(kept), 3)
  <2> PICK b \in Row : b = Base(kept)  BY <1>2
  <2>1. WidenAt(b, b, 3)  BY <1>2, WidenInit
  <2> QED  BY <1>5, <2>1
<1> QED
  BY <1>1, <1>3, <1>6
  DEF IInv, Handed, Shortening, Weakening, Dropped, Joining, Filled, Widening,
      Ended

LEMMA WidenKeeps ==
  ASSUME IInv, TypeOK', Widen
  PROVE  IInv'
<1>1. /\ vad \in Row /\ pass = "widen" /\ Dropped /\ Handed
      /\ count \in 3 .. Nwindows - 3 /\ WidenAt(vad, Base(kept), count)
  <2>1. count \in 3 .. Last + 4 /\ count < Nwindows - 2
    BY DEF IInv, TypeOK, Widen
  <2> QED  BY <2>1, Sizes DEF IInv, TypeOK, Widening, Widen, Row
<1>2. /\ Base(kept) \in Row /\ EndsSilent(Base(kept))
      /\ RunsAreLong(Base(kept)) /\ RunsAreApart(Base(kept))
  BY <1>1, KeptBase
<1>3. /\ vad' \in Row /\ raw' = raw /\ loud' = loud /\ kept' = kept
      /\ pass' = pass
  BY DEF TypeOK, Widen, Row
<1>4. WidenAt(vad', Base(kept), count')
  <2> PICK v \in Row, w \in Row, row \in Row, c \in 3 .. Nwindows - 3 :
        v = vad /\ w = vad' /\ row = Base(kept) /\ c = count
    BY <1>1, <1>2, <1>3
  <2> DEFINE rises == v[c] /\ ~v[c - 2]
             b == IF rises THEN [v EXCEPT ![c - 2] = TRUE, ![c - 1] = TRUE]
                           ELSE v
             d == IF rises THEN c + 1 ELSE c
             falls == ~b[d] /\ b[d - 1]
             n == IF falls THEN d + 4 ELSE d + 1
  <2>1. /\ c \in Int /\ c - 2 \in Window /\ c - 1 \in Window
        /\ c \in Window /\ c + 1 \in Window /\ c + 2 \in Window
        /\ d \in {c, c + 1}
    BY Sizes
  <2>2. b \in Row /\ \A i \in Window :
                       b[i] <=> (rises /\ i \in {c - 2, c - 1}) \/ v[i]
    BY <2>1 DEF Row
  <2>3. count' = n  BY DEF Widen
  <2>4. w = IF falls THEN [b EXCEPT ![d] = TRUE, ![d + 1] = TRUE] ELSE b
    BY DEF Widen
  <2> HIDE DEF b
  <2>5. \A i \in Window : w[i] <=> (falls /\ i \in {d, d + 1}) \/ b[i]
    <3>1. d \in Window /\ d + 1 \in Window  BY <2>1
    <3> HIDE DEF d
    <3> QED  BY <2>2, <2>4, <3>1 DEF Row
  <2>6. PICK ri \in BOOLEAN, fa \in BOOLEAN : (ri <=> rises) /\ (fa <=> falls)
    <3>1. rises \in BOOLEAN /\ falls \in BOOLEAN  OBVIOUS
    <3> HIDE DEF rises, falls
    <3> QED  BY <3>1
  <2>7. d = (IF ri THEN c + 1 ELSE c) /\ n = (IF fa THEN d + 4 ELSE d + 1)
    BY <2>6
  <2>8. /\ ri <=> v[c] /\ ~v[c - 2]
        /\ \A i \in Window : b[i] <=> (ri /\ i \in {c - 2, c - 1}) \/ v[i]
        /\ fa <=> ~b[d] /\ b[d - 1]
        /\ \A i \in Window : w[i] <=> (fa /\ i \in {d, d + 1}) \/ b[i]
    <3> HIDE DEF d
    <3> QED  BY <2>2, <2>5, <2>6
  <2>9. /\ EndsSilent(row) /\ RunsAreLong(row) /\ RunsAreApart(row)
        /\ WidenAt(v, row, c)
    BY <1>1, <1>2
  <2> HIDE DEF rises, falls, d, n
  <2>10. WidenAt(w, row, n)
    BY <2>2, <2>7, <2>8, <2>9, WidenStep
  <2> QED  BY <2>3, <2>10
<1> QED
  BY <1>1, <1>3, <1>4
  DEF IInv, Handed, Shortening, Weakening, Dropped, Joining, Filled, Widening,
      Ended

LEMMA FinishKeeps ==
  ASSUME IInv, TypeOK', Finish
  PROVE  IInv'
<1>1. /\ pass = "widen" /\ Dropped /\ Handed /\ count \in Int
      /\ count >= Nwindows - 2 /\ WidenAt(vad, Base(kept), count)
  BY Sizes DEF IInv, TypeOK, Widening, Finish
<1>2. Base(kept) \in Row /\ EndsSilent(Base(kept))  BY <1>1, KeptBase
<1>3. vad = Widened(Base(kept), Nwindows)
  <2> PICK row \in Row, c \in Int : row = Base(kept) /\ c = count
    BY <1>1, <1>2
  <2>1. vad = Widened(row, Nwindows)  BY <1>1, <1>2, WidenEnd
  <2> QED  BY <2>1
<1>4. pass' = "done" /\ UNCHANGED <<vad, loud, raw, kept>>  BY DEF Finish
<1> QED
  BY <1>1, <1>3, <1>4
  DEF IInv, Handed, Shortening, Weakening, Dropped, Joining, Filled, Widening,
      Ended

LEMMA Inductive ==
  ASSUME IInv, [Next]_vars
  PROVE  IInv'
<1>1. TypeOK'  BY TypeStep DEF IInv
<1>2. CASE UNCHANGED vars
  BY <1>2
  DEF vars, IInv, TypeOK, Handed, Shortening, Weakening, Dropped, Joining,
      Filled, Widening, Ended
<1> QED
  BY <1>1, <1>2, DropShortKeeps, DropWeakKeeps, JoinKeeps, NoSpeechKeeps,
     WidenKeeps, FinishKeeps
  DEF Next, Done

LEMMA Invariant == Spec => []IInv
BY InitIInv, Inductive, PTL DEF Spec

-----------------------------------------------------------------------------
(* The theorems: for every number of windows and both lengths. *)

\* Every variable keeps its type, and every loop of apply_VAD
\* (pesqdsp.c:333-412) looks inside VAD, from VAD[count - 2] to VAD[count + 1].
THEOREM TypeCorrect == Spec => []TypeOK
<1>1. IInv => TypeOK  BY DEF IInv
<1> QED  BY <1>1, Invariant, PTL

\* The two loops that drop runs (pesqdsp.c:333-346 and 348-365) take whole runs
\* and nothing else, the first every run that is too short.
THEOREM DropsWholeRuns == Spec => []WholeRunsAreDropped
<1>1. IInv => WholeRunsAreDropped
  <2> SUFFICES ASSUME IInv, pass \notin {"short", "weak"}
               PROVE  /\ Runs(kept) \subseteq Runs(Long(raw))
                      /\ ~loud => kept = Long(raw)
    BY DEF WholeRunsAreDropped, Long
  <2> QED  BY KeptBase DEF IInv, Dropped
<1> QED  BY <1>1, Invariant, PTL

\* The loops that join runs (pesqdsp.c:367-380), stand in for a signal without
\* speech (382-394) and widen runs (396-412) change the row they are reading,
\* and still end up at what the definitions say of the row they were given.
THEOREM SweepsCorrect == Spec => []SweepsMeetTheDefinition
<1>1. IInv => SweepsMeetTheDefinition
  BY DEF IInv, Ended, SweepsMeetTheDefinition, Base, Join1
<1> QED  BY <1>1, Invariant, PTL

\* What apply_VAD leaves (pesqdsp.c:333-412) for the search for utterances:
\* speech, none of it at the ends, in runs that are long and apart.
THEOREM SpeechSeparated == Spec => []SpeechIsSeparated
<1>1. IInv => SpeechIsSeparated
  <2> SUFFICES ASSUME IInv, pass = "done" PROVE Separated(vad)
    BY DEF SpeechIsSeparated, Separated, EndsSilent
  <2>1. vad = Widened(Base(kept), Nwindows)  BY DEF IInv, Ended
  <2>2. /\ Base(kept) \in Row /\ EndsSilent(Base(kept))
        /\ RunsAreLong(Base(kept)) /\ RunsAreApart(Base(kept))
        /\ \E i \in Window : Base(kept)[i]
    BY KeptBase
  <2> PICK row \in Row : row = Base(kept)  BY <2>2
  <2>3. Separated(Widened(row, Nwindows))  BY <2>2, WidenedIsSeparated
  <2> QED  BY <2>1, <2>3
<1> QED  BY <1>1, Invariant, PTL
=============================================================================
