------------------------------ MODULE FftProofs -------------------------------
(***************************************************************************)
(* The transforms are exact, over every finite field of the kind Fft is    *)
(* about, for every longest length, set of signals and number of calls.    *)
(*                                                                         *)
(* The argument.  Let W(a) be the root of one at angle a (Turn below).     *)
(*                                                                         *)
(*  - After the rounds that make d blocks of length s out of the array f,  *)
(*    place k of block b holds the transform of every s-th number of f     *)
(*    from k on, at the frequency that b has with its bits reversed        *)
(*    (Stage).  A round splits each sum into its even and its odd places   *)
(*    (SliceOfHalves); the half turn between the two halves of the result  *)
(*    is the minus of the code (StageDoubles).                             *)
(*  - The order the rounds leave the spectrum in is its own inverse        *)
(*    (OrderIs), so that swapping each pair once sorts it (Swapped).       *)
(*  - The powers of a root of one that is not one add up to nothing        *)
(*    (RoundIsZero), which makes the inverse transform of the product of   *)
(*    two spectra the sums of products of the two signals, as many times   *)
(*    as the transform is long (Convolution); the length leaves room for   *)
(*    all shifts, so that nothing wraps around (CorrelationIs).            *)
(*                                                                         *)
(* Finite sums have no induction principle here that the provers can use:  *)
(* Total is unfolded once (TotalIs), shown to be the only function with    *)
(* its two equations (TotalUnique), and every law of sums follows from     *)
(* that.  A claim about all naturals is one about a set (Induction), or    *)
(* has no least counterexample (SmallestExists).                           *)
(***************************************************************************)
EXTENDS Fft, FiniteSetTheorems, WellFoundedInduction, TLAPS

Zero == <<0, 0>>
One  == <<1, 0>>
Back == <<Prime - 1, 0>>

-----------------------------------------------------------------------------
(* Remainders. *)

LEMMA PrimeIs == Prime \in Nat /\ Prime >= 3
<1>1. Prime \in Nat /\ Prime % 4 = 3
  BY FftAssumption
<1> QED  BY <1>1

LEMMA NumberIs ==
  /\ \A a : a \in Number <=> a \in Int /\ 0 <= a /\ a < Prime
  /\ 0 \in Number /\ 1 \in Number /\ Prime - 1 \in Number
  BY PrimeIs DEF Number

LEMMA DivRem ==
  ASSUME NEW m \in Nat, m > 0, NEW a \in Int
  PROVE  /\ a % m \in 0 .. m - 1
         /\ \E q \in Int : a = (a % m) + m * q
  OBVIOUS

LEMMA SmallMultiple ==
  ASSUME NEW m \in Nat, m > 0, NEW d \in Int, -m < m * d, m * d < m
  PROVE  d = 0
<1>1. \A y, z \in Int : y > 0 /\ z >= 1 => y * z >= y
  OBVIOUS
<1>2. CASE d >= 1  BY <1>1, <1>2
<1>3. CASE d <= -1
  <2>1. m * (-d) >= m  BY <1>1, <1>3
  <2>2. m * (-d) = -(m * d)  OBVIOUS
  <2> QED  BY <2>1, <2>2
<1> QED  BY <1>2, <1>3

\* Numbers that differ by a multiple of m have the same remainder.
LEMMA SameRemainder ==
  ASSUME NEW m \in Nat, m > 0, NEW a \in Int, NEW b \in Int, NEW k \in Int,
         a = b + m * k
  PROVE  a % m = b % m
<1> DEFINE r == a % m
           s == b % m
<1>1. r \in 0 .. m - 1 /\ s \in 0 .. m - 1  BY DivRem
<1>2. PICK p \in Int : a = r + m * p  BY Zenon, DivRem
<1>3. PICK q \in Int : b = s + m * q  BY Zenon, DivRem
<1> HIDE DEF r, s
<1>4. PICK d \in Int : d = k + q - p  OBVIOUS
<1>5. m * d = m * k + m * q - m * p  BY <1>4
<1>6. r - s = m * d  BY <1>1, <1>2, <1>3, <1>5
<1>7. -m < m * d /\ m * d < m  BY <1>1, <1>6
<1>8. d = 0  BY Zenon, <1>7, SmallMultiple
<1>9. r = s  BY <1>1, <1>6, <1>8
<1> QED  BY <1>9 DEF r, s

LEMMA SmallRemainder ==
  ASSUME NEW a \in Number
  PROVE  a % Prime = a
<1>1. a \in Nat /\ a < Prime /\ Prime \in Nat  BY NumberIs, PrimeIs
<1> QED  BY <1>1

LEMMA PrimeDivides ==
  ASSUME NEW a \in Int
  PROVE  /\ a % Prime \in Number /\ a % Prime \in Int
         /\ \E q \in Int : a = (a % Prime) + Prime * q
<1>1. Prime \in Nat /\ Prime > 0  BY PrimeIs
<1>2. a % Prime \in 0 .. Prime - 1 /\ \E q \in Int : a = (a % Prime) + Prime * q
  BY Zenon, <1>1, DivRem
<1> QED  BY <1>1, <1>2 DEF Number

\* Remainders may be taken before or after.
LEMMA Remainder ==
  ASSUME NEW a \in Int, NEW b \in Int, NEW q \in Int, NEW d \in Int
  PROVE  ((a % Prime) * q + (b % Prime) * d) % Prime = (a * q + b * d) % Prime
<1>1. PICK i \in Int : a = (a % Prime) + Prime * i  BY Zenon, PrimeDivides
<1>2. PICK j \in Int : b = (b % Prime) + Prime * j  BY Zenon, PrimeDivides
<1> DEFINE p == Prime
<1>0. p \in Nat /\ p > 0  BY PrimeIs
<1> DEFINE r == a % p
           s == b % p
<1>3. r \in Int /\ s \in Int  BY PrimeDivides
<1>4. a = r + p * i /\ b = s + p * j  BY <1>1, <1>2
<1> HIDE DEF r, s, p
<1>5. a * q = r * q + p * (i * q) /\ b * d = s * d + p * (j * d)
  BY <1>0, <1>3, <1>4
<1>6. PICK e \in Int, f \in Int : e = r * q + s * d /\ f = a * q + b * d
  BY <1>3
<1>7. PICK g \in Int : g = -(i * q + j * d)  OBVIOUS
<1>8. p * g = -(p * (i * q)) - p * (j * d)  BY <1>0, <1>7
<1>9. e = f + p * g
  <2> DEFINE rc == r * q
             sd == s * d
             pc1 == p * (i * q)
             pd == p * (j * d)
  <2>1. rc \in Int /\ sd \in Int /\ pc1 \in Int /\ pd \in Int  BY <1>0, <1>3
  <2>2. e = rc + sd /\ f = (rc + pc1) + (sd + pd) /\ p * g = -pc1 - pd
    BY <1>5, <1>6, <1>8
  <2> HIDE DEF rc, sd, pc1, pd
  <2> QED  BY <2>1, <2>2
<1>10. e % p = f % p  BY Zenon, <1>0, <1>9, SameRemainder
<1> QED  BY <1>6, <1>10 DEF p, r, s

LEMMA InNumber ==
  ASSUME NEW a \in Int
  PROVE  a % Prime \in Number
  BY PrimeDivides

LEMMA RemainderOfSum ==
  ASSUME NEW a \in Int, NEW b \in Int
  PROVE  /\ ((a % Prime) + b) % Prime = (a + b) % Prime
         /\ (a + (b % Prime)) % Prime = (a + b) % Prime
         /\ ((a % Prime) + (b % Prime)) % Prime = (a + b) % Prime
<1>1. PICK i \in Int : a = (a % Prime) + Prime * i  BY Zenon, PrimeDivides
<1>2. PICK j \in Int : b = (b % Prime) + Prime * j  BY Zenon, PrimeDivides
<1> DEFINE r == a % Prime
           s == b % Prime
<1>3. r \in Int /\ s \in Int  BY InNumber, NumberIs
<1>4. a = r + Prime * i /\ b = s + Prime * j  BY <1>1, <1>2
<1> HIDE DEF r, s
<1>5. PICK e \in Int, f \in Int, g \in Int, h \in Int :
        e = a + b /\ f = r + b /\ g = a + s /\ h = r + s
  BY <1>3
<1>6. PICK k \in Int, l \in Int, m \in Int : k = -i /\ l = -j /\ m = -(i + j)
  OBVIOUS
<1>7. /\ f = e + Prime * k /\ g = e + Prime * l /\ h = e + Prime * m
      /\ Prime \in Nat /\ Prime > 0
  BY <1>3, <1>4, <1>5, <1>6, PrimeIs
<1>8. f % Prime = e % Prime  BY Zenon, <1>7, SameRemainder
<1>9. g % Prime = e % Prime  BY Zenon, <1>7, SameRemainder
<1>10. h % Prime = e % Prime  BY Zenon, <1>7, SameRemainder
<1> QED  BY <1>5, <1>8, <1>9, <1>10 DEF r, s
-----------------------------------------------------------------------------
(* Complex numbers. *)

LEMMA ComplexIs ==
  /\ \A u \in Complex : u[1] \in Number /\ u[2] \in Number /\ u = <<u[1], u[2]>>
                        /\ u[1] \in Int /\ u[2] \in Int
  /\ \A a, b \in Number : <<a, b>> \in Complex
  BY NumberIs DEF Complex

LEMMA Closed ==
  /\ Zero \in Complex /\ One \in Complex /\ Back \in Complex
  /\ \A u, v \in Complex : /\ Plus(u, v) \in Complex /\ Minus(u, v) \in Complex
                           /\ Times(u, v) \in Complex
  /\ \A u \in Complex : Conj(u) \in Complex
<1>1. Zero \in Complex /\ One \in Complex /\ Back \in Complex
  BY NumberIs DEF Zero, One, Back, Complex
<1>2. ASSUME NEW u \in Complex, NEW v \in Complex
      PROVE  /\ Plus(u, v) \in Complex /\ Minus(u, v) \in Complex
             /\ Times(u, v) \in Complex /\ Conj(u) \in Complex
  <2>1. u[1] \in Int /\ u[2] \in Int /\ v[1] \in Int /\ v[2] \in Int
    BY ComplexIs
  <2>2. PICK a \in Int, b \in Int, q \in Int, d \in Int :
          u[1] = a /\ u[2] = b /\ v[1] = q /\ v[2] = d
    BY <2>1
  <2>3. /\ (a + q) % Prime \in Number /\ (b + d) % Prime \in Number
        /\ (a - q) % Prime \in Number /\ (b - d) % Prime \in Number
        /\ (a * q - b * d) % Prime \in Number
        /\ (a * d + b * q) % Prime \in Number /\ (-b) % Prime \in Number
    BY InNumber
  <2> QED  BY <2>2, <2>3, ComplexIs DEF Plus, Minus, Times, Conj
<1> QED  BY <1>1, <1>2

LEMMA PlusRules ==
  /\ \A u \in Complex : Plus(u, Zero) = u /\ Plus(Zero, u) = u
  /\ \A u, v \in Complex : Plus(u, v) = Plus(v, u)
  /\ \A u, v, w \in Complex : Plus(Plus(u, v), w) = Plus(u, Plus(v, w))
<1>1. ASSUME NEW u \in Complex
      PROVE  Plus(u, Zero) = u /\ Plus(Zero, u) = u
  BY ComplexIs, SmallRemainder DEF Plus, Zero
<1>2. ASSUME NEW u \in Complex, NEW v \in Complex
      PROVE  Plus(u, v) = Plus(v, u)
  BY ComplexIs DEF Plus
<1>3. ASSUME NEW u \in Complex, NEW v \in Complex, NEW w \in Complex
      PROVE  Plus(Plus(u, v), w) = Plus(u, Plus(v, w))
  <2>1. \A a, b, q \in Int :
          (((a + b) % Prime) + q) % Prime = (a + ((b + q) % Prime)) % Prime
    <3> TAKE a, b, q \in Int
    <3>1. PICK d \in Int, e \in Int : d = a + b /\ e = b + q  OBVIOUS
    <3>2. ((d % Prime) + q) % Prime = (d + q) % Prime  BY RemainderOfSum
    <3>3. (a + (e % Prime)) % Prime = (a + e) % Prime  BY RemainderOfSum
    <3>4. d + q = a + e  BY <3>1
    <3> QED  BY <3>1, <3>2, <3>3, <3>4
  <2> QED  BY <2>1, ComplexIs DEF Plus
<1> QED  BY <1>1, <1>2, <1>3

LEMMA FourTerms ==
  ASSUME NEW a \in Complex, NEW b \in Complex, NEW d \in Complex, NEW e \in Complex
  PROVE  Plus(Plus(a, d), Plus(b, e)) = Plus(Plus(a, b), Plus(d, e))
<1>1. Plus(Plus(a, d), Plus(b, e)) = Plus(a, Plus(d, Plus(b, e)))
  BY PlusRules, Closed
<1>2. Plus(d, Plus(b, e)) = Plus(Plus(d, b), e)  BY PlusRules
<1>3. Plus(Plus(d, b), e) = Plus(b, Plus(d, e))  BY PlusRules
<1>4. Plus(a, Plus(b, Plus(d, e))) = Plus(Plus(a, b), Plus(d, e))
  BY PlusRules, Closed
<1> QED  BY <1>1, <1>2, <1>3, <1>4

LEMMA TimesRules ==
  /\ \A u \in Complex : Times(u, One) = u /\ Times(One, u) = u
  /\ \A u \in Complex : Times(u, Zero) = Zero /\ Times(Zero, u) = Zero
  /\ \A u, v \in Complex : Times(u, v) = Times(v, u)
<1>1. ASSUME NEW u \in Complex
      PROVE  /\ Times(u, One) = u /\ Times(One, u) = u
             /\ Times(u, Zero) = Zero /\ Times(Zero, u) = Zero
  <2>1. PICK a \in Number, b \in Number : u = <<a, b>>  BY ComplexIs
  <2>2. a \in Int /\ b \in Int  BY NumberIs
  <2>3. /\ a * 1 - b * 0 = a /\ a * 0 + b * 1 = b
        /\ 1 * a - 0 * b = a /\ 1 * b + 0 * a = b
        /\ a * 0 - b * 0 = 0 /\ a * 0 + b * 0 = 0
        /\ 0 * a - 0 * b = 0 /\ 0 * b + 0 * a = 0
    BY <2>2
  <2>4. a % Prime = a /\ b % Prime = b /\ 0 % Prime = 0
    BY SmallRemainder, NumberIs
  <2> QED  BY <2>1, <2>3, <2>4 DEF Times, One, Zero
<1>2. ASSUME NEW u \in Complex, NEW v \in Complex
      PROVE  Times(u, v) = Times(v, u)
  <2>1. PICK a \in Int, b \in Int, q \in Int, d \in Int :
          u[1] = a /\ u[2] = b /\ v[1] = q /\ v[2] = d
    BY ComplexIs
  <2>2. a * q - b * d = q * a - d * b /\ a * d + b * q = q * b + d * a
    OBVIOUS
  <2> QED  BY <2>1, <2>2 DEF Times
<1> QED  BY <1>1, <1>2
LEMMA NegatedRemainder ==
  ASSUME NEW a \in Int
  PROVE  (-(a % Prime)) % Prime = (-a) % Prime
<1>1. PICK i \in Int : a = (a % Prime) + Prime * i  BY Zenon, PrimeDivides
<1>2. PICK r \in Int : r = a % Prime  BY PrimeDivides
<1>3. PICK e \in Int, f \in Int : e = -r /\ f = -a  OBVIOUS
<1>4. e = f + Prime * i /\ Prime \in Nat /\ Prime > 0
  BY <1>1, <1>2, <1>3, PrimeIs
<1>5. e % Prime = f % Prime  BY Zenon, <1>4, SameRemainder
<1> QED  BY <1>2, <1>3, <1>5

LEMMA RemainderOfProducts ==
  ASSUME NEW a \in Int, NEW b \in Int, NEW q \in Int, NEW d \in Int
  PROVE  /\ ((a % Prime) * q + (b % Prime) * d) % Prime = (a * q + b * d) % Prime
         /\ ((a % Prime) * q - (b % Prime) * d) % Prime = (a * q - b * d) % Prime
         /\ (q * (a % Prime) + d * (b % Prime)) % Prime = (q * a + d * b) % Prime
         /\ (q * (a % Prime) - d * (b % Prime)) % Prime = (q * a - d * b) % Prime
<1>1. PICK r \in Int, s \in Int : r = a % Prime /\ s = b % Prime
  BY PrimeDivides
<1>2. (r * q + s * d) % Prime = (a * q + b * d) % Prime
  <2>1. ((a % Prime) * q + (b % Prime) * d) % Prime = (a * q + b * d) % Prime
    BY Remainder
  <2> QED  BY Zenon, <1>1, <2>1
<1>3. PICK e \in Int : e = -d  OBVIOUS
<1>4. (r * q + s * e) % Prime = (a * q + b * e) % Prime
  <2>1. ((a % Prime) * q + (b % Prime) * e) % Prime = (a * q + b * e) % Prime
    BY Remainder
  <2> QED  BY Zenon, <1>1, <2>1
<1>5. /\ r * q + s * e = r * q - s * d /\ a * q + b * e = a * q - b * d
      /\ r * q + s * d = q * r + d * s /\ a * q + b * d = q * a + d * b
      /\ r * q - s * d = q * r - d * s /\ a * q - b * d = q * a - d * b
  BY <1>3
<1> QED  BY <1>1, <1>2, <1>4, <1>5

LEMMA RemainderOfProduct ==
  ASSUME NEW a \in Int, NEW b \in Int
  PROVE  \A q \in Int :
           (q - (a % Prime) * (b % Prime)) % Prime = (q - a * b) % Prime
<1> TAKE q \in Int
<1>1. PICK r \in Int, s \in Int : r = a % Prime /\ s = b % Prime
  BY PrimeDivides
<1>2. PICK i \in Int : a = (a % Prime) + Prime * i  BY Zenon, PrimeDivides
<1>3. PICK j \in Int : b = (b % Prime) + Prime * j  BY Zenon, PrimeDivides
<1>4. a = r + Prime * i /\ b = s + Prime * j  BY <1>1, <1>2, <1>3
<1>5. PICK k \in Int : k = i * s + r * j + Prime * (i * j)  BY PrimeIs
<1>6. a * b = r * s + Prime * k
  <2>1. a * b = r * s + r * (Prime * j) + (Prime * i) * s + (Prime * i) * (Prime * j)
    BY <1>4, PrimeIs
  <2> QED  BY <2>1, <1>5, PrimeIs
<1>7. PICK e \in Int, f \in Int : e = q - r * s /\ f = q - a * b  OBVIOUS
<1>8. e = f + Prime * k /\ Prime \in Nat /\ Prime > 0
  BY <1>6, <1>7, PrimeIs
<1>9. e % Prime = f % Prime  BY Zenon, <1>8, SameRemainder
<1> QED  BY <1>1, <1>7, <1>9

\* Associativity and distributivity, number by number.
LEMMA TimesAssociates ==
  ASSUME NEW u \in Complex, NEW v \in Complex, NEW w \in Complex
  PROVE  Times(Times(u, v), w) = Times(u, Times(v, w))
<1>1. PICK a \in Int, b \in Int, q \in Int, d \in Int, e \in Int, f \in Int :
        u[1] = a /\ u[2] = b /\ v[1] = q /\ v[2] = d /\ w[1] = e /\ w[2] = f
  BY ComplexIs
<1>2. PICK x3 \in Int, y3 \in Int, x4 \in Int, y4 \in Int :
        /\ x3 = a * q - b * d /\ y3 = a * d + b * q
        /\ x4 = q * e - d * f /\ y4 = q * f + d * e
  OBVIOUS
<1>3. /\ Times(u, v) = <<x3 % Prime, y3 % Prime>>
      /\ Times(v, w) = <<x4 % Prime, y4 % Prime>>
  BY <1>1, <1>2 DEF Times
<1>4. ((x3 % Prime) * e - (y3 % Prime) * f) % Prime = (x3 * e - y3 * f) % Prime
  BY RemainderOfProducts
<1>6. ((x3 % Prime) * f + (y3 % Prime) * e) % Prime = (x3 * f + y3 * e) % Prime
  BY RemainderOfProducts
<1>7. (a * (x4 % Prime) - b * (y4 % Prime)) % Prime = (a * x4 - b * y4) % Prime
  BY RemainderOfProducts
<1>8. (a * (y4 % Prime) + b * (x4 % Prime)) % Prime = (a * y4 + b * x4) % Prime
  BY RemainderOfProducts
<1>5. x3 * e - y3 * f = a * x4 - b * y4 /\ x3 * f + y3 * e = a * y4 + b * x4
  BY <1>2
<1> QED  BY <1>1, <1>3, <1>4, <1>5, <1>6, <1>7, <1>8 DEF Times

LEMMA FourFactors ==
  ASSUME NEW a \in Complex, NEW b \in Complex, NEW d \in Complex, NEW e \in Complex
  PROVE  Times(Times(d, e), Times(a, b)) = Times(Times(d, a), Times(e, b))
<1>1. Times(Times(d, e), Times(a, b)) = Times(d, Times(e, Times(a, b)))
  BY TimesAssociates, Closed
<1>2. Times(e, Times(a, b)) = Times(Times(e, a), b)  BY TimesAssociates
<1>3. Times(Times(e, a), b) = Times(Times(a, e), b)  BY TimesRules
<1>4. Times(Times(a, e), b) = Times(a, Times(e, b))  BY TimesAssociates
<1>5. Times(d, Times(a, Times(e, b))) = Times(Times(d, a), Times(e, b))
  BY TimesAssociates, Closed
<1> QED  BY <1>1, <1>2, <1>3, <1>4, <1>5

LEMMA TimesDistributes ==
  ASSUME NEW u \in Complex, NEW v \in Complex, NEW w \in Complex
  PROVE  /\ Times(u, Plus(v, w)) = Plus(Times(u, v), Times(u, w))
         /\ Times(Plus(v, w), u) = Plus(Times(v, u), Times(w, u))
<1>1. PICK a \in Int, b \in Int, q \in Int, d \in Int, e \in Int, f \in Int :
        u[1] = a /\ u[2] = b /\ v[1] = q /\ v[2] = d /\ w[1] = e /\ w[2] = f
  BY ComplexIs
<1>2. PICK x3 \in Int, y3 \in Int :  x3 = q + e /\ y3 = d + f  OBVIOUS
<1>3. PICK r1 \in Int, r2 \in Int, r3 \in Int, r4 \in Int :
        /\ r1 = a * q - b * d /\ r2 = a * d + b * q
        /\ r3 = a * e - b * f /\ r4 = a * f + b * e
  OBVIOUS
<1>4. /\ Times(u, v) = <<r1 % Prime, r2 % Prime>>
      /\ Times(u, w) = <<r3 % Prime, r4 % Prime>>
      /\ Plus(v, w) = <<x3 % Prime, y3 % Prime>>
  BY <1>1, <1>2, <1>3 DEF Times, Plus
<1>5. (a * (x3 % Prime) - b * (y3 % Prime)) % Prime = (a * x3 - b * y3) % Prime
  BY RemainderOfProducts
<1>9. (a * (y3 % Prime) + b * (x3 % Prime)) % Prime = (a * y3 + b * x3) % Prime
  BY RemainderOfProducts
<1>6. /\ ((r1 % Prime) + (r3 % Prime)) % Prime = (r1 + r3) % Prime
      /\ ((r2 % Prime) + (r4 % Prime)) % Prime = (r2 + r4) % Prime
  BY Zenon, RemainderOfSum
<1>7. r1 + r3 = a * x3 - b * y3 /\ r2 + r4 = a * y3 + b * x3
  BY <1>2, <1>3
<1>8. Times(u, Plus(v, w)) = Plus(Times(u, v), Times(u, w))
  BY <1>1, <1>4, <1>5, <1>6, <1>7, <1>9 DEF Times, Plus
<1> QED  BY <1>8, Closed, TimesRules

LEMMA ConjRules ==
  /\ \A u \in Complex : Conj(Conj(u)) = u
  /\ \A u, v \in Complex : /\ Conj(Plus(u, v)) = Plus(Conj(u), Conj(v))
                           /\ Conj(Times(u, v)) = Times(Conj(u), Conj(v))
  /\ \A a \in Number : Conj(<<a, 0>>) = <<a, 0>>
<1>1. ASSUME NEW u \in Complex
      PROVE  Conj(Conj(u)) = u
  <2>1. PICK a \in Number, b \in Number : u = <<a, b>>  BY ComplexIs
  <2>2. a \in Int /\ b \in Int  BY NumberIs
  <2>3. (-((-b) % Prime)) % Prime = b % Prime
    <3>1. PICK d \in Int : d = -b  BY <2>2
    <3>2. ((d % Prime) * (-1) + (0 % Prime) * 0) % Prime = (d * (-1) + 0 * 0) % Prime
      BY Remainder
    <3>3. d % Prime \in Int /\ 0 % Prime \in Int  BY PrimeDivides
    <3> QED  BY <2>2, <3>1, <3>2, <3>3
  <2> QED  BY <2>1, <2>3, SmallRemainder DEF Conj
<1>2. ASSUME NEW u \in Complex, NEW v \in Complex
      PROVE  Conj(Plus(u, v)) = Plus(Conj(u), Conj(v))
  <2>1. PICK a \in Int, b \in Int, q \in Int, d \in Int :
          u[1] = a /\ u[2] = b /\ v[1] = q /\ v[2] = d
    BY ComplexIs
  <2>2. (-((b + d) % Prime)) % Prime = (-(b + d)) % Prime
    BY NegatedRemainder
  <2>3. (((-b) % Prime) + ((-d) % Prime)) % Prime = ((-b) + (-d)) % Prime
    BY RemainderOfSum
  <2>4. -(b + d) = (-b) + (-d)  OBVIOUS
  <2> QED  BY <2>1, <2>2, <2>3, <2>4 DEF Conj, Plus
<1>5. \A a, q, m, n \in Int :
        (a * (n % Prime) + q * (m % Prime)) % Prime = (a * n + q * m) % Prime
  BY RemainderOfProducts
<1>6. \A f, m, n \in Int :
        (f - (m % Prime) * (n % Prime)) % Prime = (f - m * n) % Prime
  BY RemainderOfProduct
<1>3. ASSUME NEW u \in Complex, NEW v \in Complex
      PROVE  Conj(Times(u, v)) = Times(Conj(u), Conj(v))
  <2>1. PICK a \in Int, b \in Int, q \in Int, d \in Int :
          u[1] = a /\ u[2] = b /\ v[1] = q /\ v[2] = d
    BY ComplexIs
  <2>2. PICK m \in Int, n \in Int, e \in Int :
          m = -b /\ n = -d /\ e = a * d + b * q
    OBVIOUS
  <2>3. (-(e % Prime)) % Prime = (-e) % Prime  BY NegatedRemainder
  <2>4. (a * (n % Prime) + q * (m % Prime)) % Prime = (a * n + q * m) % Prime
    BY <1>5
  <2>6. (a * q - (m % Prime) * (n % Prime)) % Prime = (a * q - m * n) % Prime
    <3>1. PICK f \in Int : f = a * q  OBVIOUS
    <3>2. (f - (m % Prime) * (n % Prime)) % Prime = (f - m * n) % Prime
      BY Zenon, <1>6
    <3> QED  BY Zenon, <3>1, <3>2
  <2>7. m % Prime \in Int /\ n % Prime \in Int  BY PrimeDivides
  <2>8. q * (m % Prime) = (m % Prime) * q  BY <2>7
  <2>5. a * n + q * m = -e /\ a * q - m * n = a * q - b * d  BY <2>2
  <2> QED  BY <2>1, <2>2, <2>3, <2>4, <2>5, <2>6, <2>8 DEF Conj, Times
<1>4. ASSUME NEW a \in Number PROVE Conj(<<a, 0>>) = <<a, 0>>
  BY SmallRemainder, NumberIs DEF Conj
<1> QED  BY <1>1, <1>2, <1>3, <1>4

LEMMA MinusIs ==
  /\ \A u, v \in Complex : Minus(u, v) = Plus(u, Times(Back, v))
  /\ Plus(One, Back) = Zero
<1>1. ASSUME NEW u \in Complex, NEW v \in Complex
      PROVE  Minus(u, v) = Plus(u, Times(Back, v))
  <2>1. PICK a \in Int, b \in Int, q \in Int, d \in Int :
          u[1] = a /\ u[2] = b /\ v[1] = q /\ v[2] = d
    BY ComplexIs
  <2>2. Times(Back, v) = <<((Prime - 1) * q) % Prime, ((Prime - 1) * d) % Prime>>
    <3>1. /\ (Prime - 1) * q - 0 * d = (Prime - 1) * q
          /\ (Prime - 1) * d + 0 * q = (Prime - 1) * d
      BY PrimeIs
    <3> QED  BY <2>1, <3>1 DEF Times, Back
  <2>3. \A y, z \in Int :
          (y + (((Prime - 1) * z) % Prime)) % Prime = (y - z) % Prime
    <3> TAKE y, z \in Int
    <3>1. PICK e \in Int, f \in Int, g \in Int :
            e = (Prime - 1) * z /\ f = y + e /\ g = y - z
      BY PrimeIs
    <3>2. f = g + Prime * z  BY <3>1, PrimeIs
    <3>3. Prime \in Nat /\ Prime > 0  BY PrimeIs
    <3>4. f % Prime = g % Prime  BY Zenon, <3>2, <3>3, SameRemainder
    <3>5. (y + (e % Prime)) % Prime = (y + e) % Prime  BY Zenon, RemainderOfSum
    <3> QED  BY <3>1, <3>4, <3>5
  <2>4. \A y, z \in Int : \A e :
          e = ((Prime - 1) * z) % Prime => (y + e) % Prime = (y - z) % Prime
    BY Zenon, <2>3
  <2>5. PICK e \in Int, f \in Int :
          e = ((Prime - 1) * q) % Prime /\ f = ((Prime - 1) * d) % Prime
    <3>1. (Prime - 1) * q \in Int /\ (Prime - 1) * d \in Int  BY PrimeIs
    <3> QED  BY <3>1, PrimeDivides
  <2>6. (a + e) % Prime = (a - q) % Prime /\ (b + f) % Prime = (b - d) % Prime
    BY Zenon, <2>4, <2>5
  <2> QED  BY <2>1, <2>2, <2>5, <2>6 DEF Minus, Plus
<1>2. Plus(One, Back) = Zero
  <2>1. 1 + (Prime - 1) = Prime /\ Prime % Prime = 0 /\ 0 % Prime = 0
    BY PrimeIs
  <2> QED  BY <2>1 DEF Plus, One, Back, Zero
<1> QED  BY <1>1, <1>2
-----------------------------------------------------------------------------
(* Functions that are defined step by step. *)

LEMMA SmallestExists ==
  ASSUME NEW S \in SUBSET Nat, S # {}
  PROVE  \E m \in S : \A i \in S : m <= i
<1> DEFINE R == {ss \in Nat \X Nat : ss[1] < ss[2]}
<1>1. \E m \in S : \A i \in S : <<i, m>> \notin R
  <2>1. IsWellFoundedOn(R, Nat)
    BY NatLessThanWellFounded DEF OpToRel
  <2> HIDE DEF R
  <2> QED  BY <2>1, WFMin
<1>2. PICK m \in S : \A i \in S : <<i, m>> \notin R  BY <1>1
<1>3. ASSUME NEW i \in S PROVE m <= i
  <2>1. i \in Nat /\ m \in Nat /\ <<i, m>> \notin R  BY <1>2
  <2> QED  BY <2>1
<1> QED  BY <1>3

LEMMA Induction ==
  ASSUME NEW S \in SUBSET Nat, 0 \in S, \A n \in S : n + 1 \in S
  PROVE  \A n \in Nat : n \in S
<1> DEFINE T == Nat \ S
<1> SUFFICES ASSUME T # {} PROVE FALSE  OBVIOUS
<1>1. PICK m \in T : \A i \in T : m <= i
  <2>1. T \in SUBSET Nat  OBVIOUS
  <2> HIDE DEF T
  <2> QED  BY <2>1, SmallestExists
<1>2. m \in Nat /\ m # 0  BY <1>1
<1>3. m - 1 \in Nat /\ m - 1 \notin T  BY <1>1, <1>2
<1>4. m - 1 + 1 \in S  BY <1>3
<1> QED  BY <1>2, <1>4

Iterates(g, z, F) == g[0] = z /\ \A k \in Nat : g[k + 1] = F[k][g[k]]

LEMMA Iteration ==
  ASSUME NEW V, NEW z \in V, NEW F \in [Nat -> [V -> V]]
  PROVE  \E g \in [Nat -> V] : Iterates(g, z, F)
<1> DEFINE Start(n) ==
             {h \in [0 .. n -> V] :
                h[0] = z /\ \A k \in 0 .. n - 1 : h[k + 1] = F[k][h[k]]}
<1>1. \A n \in Nat : Start(n) # {}
  <2> DEFINE S == {n \in Nat : Start(n) # {}}
  <2>1. 0 \in S
    <3>1. [k \in 0 .. 0 |-> z] \in Start(0)  OBVIOUS
    <3> QED  BY <3>1
  <2>2. ASSUME NEW n \in S PROVE n + 1 \in S
    <3> n \in Nat  OBVIOUS
    <3>1. PICK h : h \in Start(n)  OBVIOUS
    <3> DEFINE w == F[n][h[n]]
    <3>2. h \in [0 .. n -> V] /\ h[n] \in V /\ w \in V  BY <3>1
    <3> HIDE DEF w
    <3> DEFINE i == [k \in 0 .. n + 1 |-> IF k <= n THEN h[k] ELSE w]
    <3>3. i \in [0 .. n + 1 -> V] /\ i[0] = z  BY <3>1, <3>2
    <3>4. ASSUME NEW k \in 0 .. n + 1 - 1 PROVE i[k + 1] = F[k][i[k]]
      <4>1. CASE k < n  BY <4>1, <3>1
      <4>2. CASE k = n
        <5>1. i[n + 1] = w /\ i[n] = h[n]  OBVIOUS
        <5> QED  BY <4>2, <5>1 DEF w
      <4> QED  BY <4>1, <4>2
    <3>5. i \in Start(n + 1)
      <4> HIDE DEF i
      <4> QED  BY <3>3, <3>4
    <3> HIDE DEF i, Start
    <3> QED  BY <3>5
  <2> HIDE DEF Start
  <2>3. \A n \in Nat : n \in S
    <3>1. S \in SUBSET Nat  OBVIOUS
    <3> HIDE DEF S
    <3> QED  BY <2>1, <2>2, <3>1, Induction
  <2> QED  BY <2>3
<1>2. ASSUME NEW n \in Nat, NEW m \in Nat, NEW h \in Start(n), NEW i \in Start(m)
      PROVE  \A k \in Nat : k <= n /\ k <= m => h[k] = i[k]
  <2> DEFINE S == {k \in Nat : k <= n /\ k <= m => h[k] = i[k]}
  <2>1. 0 \in S  OBVIOUS
  <2>2. ASSUME NEW k \in S PROVE k + 1 \in S
    <3> k \in Nat  OBVIOUS
    <3> SUFFICES ASSUME k + 1 <= n, k + 1 <= m PROVE h[k + 1] = i[k + 1]
      OBVIOUS
    <3>1. h[k] = i[k] /\ k \in 0 .. n - 1 /\ k \in 0 .. m - 1  OBVIOUS
    <3>2. h[k + 1] = F[k][h[k]] /\ i[k + 1] = F[k][i[k]]  BY <3>1
    <3> QED  BY <3>1, <3>2
  <2>3. \A k \in Nat : k \in S
    <3> HIDE DEF S
    <3>1. S \subseteq Nat  BY DEF S
    <3> QED  BY <2>1, <2>2, <3>1, Induction
  <2> QED  BY <2>3
<1> DEFINE From(n) == CHOOSE h : h \in Start(n)
           g == [k \in Nat |-> From(k)[k]]
<1>3. \A n \in Nat : From(n) \in Start(n)  BY Zenon, <1>1
<1>4. \A n \in Nat : From(n)[n] \in V
  <2> TAKE n \in Nat
  <2>1. From(n) \in [0 .. n -> V]  BY <1>3
  <2> QED  BY <2>1
<1>5. g \in [Nat -> V]  BY <1>4
<1>6. g[0] = z
  <2>1. From(0)[0] = z  BY <1>3
  <2> QED  BY <2>1
<1>7. ASSUME NEW k \in Nat PROVE g[k + 1] = F[k][g[k]]
  <2>1. From(k + 1) \in Start(k + 1) /\ From(k) \in Start(k)
    <3>1. k + 1 \in Nat  OBVIOUS
    <3> QED  BY Zenon, <1>3, <3>1
  <2>2. From(k + 1)[k + 1] = F[k][From(k + 1)[k]]
    <3>1. k \in 0 .. (k + 1) - 1  OBVIOUS
    <3> HIDE DEF From
    <3> QED  BY <2>1, <3>1
  <2>3. From(k + 1)[k] = From(k)[k]
    <3>1. k + 1 \in Nat /\ k <= k + 1 /\ k <= k  OBVIOUS
    <3> HIDE DEF From, Start
    <3> QED  BY <1>2, <2>1, <3>1
  <2> HIDE DEF From
  <2> QED  BY <2>2, <2>3
<1> HIDE DEF g
<1> QED  BY <1>5, <1>6, <1>7 DEF Iterates

-----------------------------------------------------------------------------
(* Sums. *)

Terms(f, n) == \A j \in 0 .. n - 1 : f[j] \in Complex

\* The partial sums, one by one.
LEMMA TotalIs ==
  ASSUME NEW n \in Nat, NEW f, Terms(f, n)
  PROVE  /\ Total(f, 0) = Zero
         /\ \A m \in 0 .. n : Total(f, m) \in Complex
         /\ \A m \in 0 .. n - 1 : Total(f, m + 1) = Plus(Total(f, m), f[m])
<1> DEFINE F == [k \in Nat |-> [v \in Complex |->
                   IF k < n THEN Plus(v, f[k]) ELSE v]]
<1>1. F \in [Nat -> [Complex -> Complex]]
  <2>1. ASSUME NEW k \in Nat, NEW v \in Complex
        PROVE  (IF k < n THEN Plus(v, f[k]) ELSE v) \in Complex
    BY Closed DEF Terms
  <2> QED  BY <2>1
<1>2. PICK g \in [Nat -> Complex] : Iterates(g, Zero, F)
  <2> HIDE DEF F
  <2>1. Zero \in Complex  BY Closed
  <2> QED  BY <1>1, <2>1, Iteration
<1>3. ASSUME NEW k \in 0 .. n - 1 PROVE g[k + 1] = Plus(g[k], f[k])
  <2>1. k \in Nat /\ k < n /\ g[k] \in Complex  OBVIOUS
  <2>2. F[k][g[k]] = Plus(g[k], f[k])  BY <2>1
  <2> HIDE DEF F
  <2> QED  BY <1>2, <2>1, <2>2 DEF Iterates
<1>4. ASSUME NEW m \in 0 .. n PROVE Total(f, m) = g[m]
  <2> DEFINE Sum(s) == s = [i \in 0 .. m |-> IF i = 0 THEN <<0, 0>>
                                            ELSE Plus(s[i - 1], f[i - 1])]
             t == CHOOSE s : Sum(s)
             u == [i \in 0 .. m |-> g[i]]
  <2>1. Sum(u)
    <3>1. ASSUME NEW i \in 0 .. m
          PROVE  u[i] = IF i = 0 THEN <<0, 0>> ELSE Plus(u[i - 1], f[i - 1])
      <4>1. CASE i = 0  BY <4>1, <1>2 DEF Zero, Iterates
      <4>2. CASE i # 0
        <5>1. i - 1 \in 0 .. n - 1 /\ i - 1 \in 0 .. m /\ (i - 1) + 1 = i
          BY <4>2
        <5>2. g[i] = Plus(g[i - 1], f[i - 1])  BY <5>1, <1>3
        <5> QED  BY <4>2, <5>1, <5>2
      <4> QED  BY <4>1, <4>2
    <3>2. u = [i \in 0 .. m |-> u[i]]  OBVIOUS
    <3> HIDE DEF u
    <3> QED  BY <3>1, <3>2
  <2>2. Sum(t)
    <3> HIDE DEF Sum, u
    <3> QED  BY <2>1
  <2>3. Total(f, m) = t[m]  BY Zenon DEF Total
  <2>4. \A i \in Nat : i \in {j \in Nat : j <= m => t[j] = g[j]}
    <3> HIDE DEF t
    <3> DEFINE S == {j \in Nat : j <= m => t[j] = g[j]}
    <3>1. 0 \in S  BY <2>2, <1>2 DEF Zero, Iterates
    <3>2. ASSUME NEW j \in S PROVE j + 1 \in S
      <4> j \in Nat  OBVIOUS
      <4> SUFFICES ASSUME j + 1 <= m PROVE t[j + 1] = g[j + 1]  OBVIOUS
      <4>1. t[j + 1] = Plus(t[j], f[j])
        <5>1. j + 1 \in 0 .. m /\ j + 1 # 0 /\ (j + 1) - 1 = j  OBVIOUS
        <5>2. t = [i \in 0 .. m |-> IF i = 0 THEN <<0, 0>>
                                   ELSE Plus(t[i - 1], f[i - 1])]
          BY <2>2
        <5>3. t[j + 1] = Plus(t[(j + 1) - 1], f[(j + 1) - 1])
          BY <5>1, <5>2
        <5> QED  BY <5>1, <5>3
      <4>2. t[j] = g[j] /\ j \in 0 .. n - 1  OBVIOUS
      <4> QED  BY <4>1, <4>2, <1>3
    <3> HIDE DEF S
    <3>3. S \subseteq Nat  BY DEF S
    <3>4. \A i \in Nat : i \in S  BY <3>1, <3>2, <3>3, Induction
    <3> QED  BY <3>4 DEF S
  <2> QED  BY <2>3, <2>4
<1> QED
  <2>1. \A m \in 0 .. n : g[m] \in Complex  OBVIOUS
  <2>2. 0 \in 0 .. n /\ \A m \in 0 .. n - 1 : m \in 0 .. n /\ m + 1 \in 0 .. n
    OBVIOUS
  <2> HIDE DEF F
  <2> QED  BY <1>2, <1>3, <1>4, <2>1, <2>2 DEF Iterates

\* What grows by the terms of a sum is the sum.
LEMMA TotalUnique ==
  ASSUME NEW n \in Nat, NEW f, Terms(f, n), NEW G, G[0] = Zero,
         \A m \in 0 .. n - 1 : G[m + 1] = Plus(G[m], f[m])
  PROVE  \A m \in 0 .. n : Total(f, m) = G[m]
<1> DEFINE S == {j \in Nat : j <= n => Total(f, j) = G[j]}
<1>1. 0 \in S  BY TotalIs
<1>2. ASSUME NEW j \in S PROVE j + 1 \in S
  <2> j \in Nat  OBVIOUS
  <2> SUFFICES ASSUME j + 1 <= n PROVE Total(f, j + 1) = G[j + 1]  OBVIOUS
  <2>1. j \in 0 .. n - 1 /\ Total(f, j) = G[j]  OBVIOUS
  <2>2. Total(f, j + 1) = Plus(Total(f, j), f[j])  BY <2>1, TotalIs
  <2> QED  BY <2>1, <2>2
<1>3. \A i \in Nat : i \in S
  <2> HIDE DEF S
  <2>1. S \subseteq Nat  BY DEF S
  <2> QED  BY <1>1, <1>2, <2>1, Induction
<1> QED  BY <1>3
LEMMA TotalInComplex ==
  ASSUME NEW n \in Nat, NEW f, Terms(f, n)
  PROVE  Total(f, n) \in Complex
  BY TotalIs

\* Equal terms have equal sums.
LEMMA TotalEqual ==
  ASSUME NEW n \in Nat, NEW f, NEW g, Terms(g, n), \A j \in 0 .. n - 1 : f[j] = g[j]
  PROVE  Total(f, n) = Total(g, n)
<1> DEFINE G == [m \in Nat |-> Total(g, m)]
<1>1. Terms(f, n)  BY DEF Terms
<1>2. G[0] = Zero  BY TotalIs
<1>3. ASSUME NEW m \in 0 .. n - 1 PROVE G[m + 1] = Plus(G[m], f[m])
  BY TotalIs
<1>4. G[n] = Total(g, n)  OBVIOUS
<1> HIDE DEF G
<1>5. \A m \in 0 .. n : Total(f, m) = G[m]  BY <1>1, <1>2, <1>3, TotalUnique
<1> QED  BY <1>4, <1>5

LEMMA TotalOfZeros ==
  ASSUME NEW n \in Nat, NEW f, \A j \in 0 .. n - 1 : f[j] = Zero
  PROVE  Total(f, n) = Zero
<1> DEFINE G == [m \in Nat |-> Zero]
<1>1. Terms(f, n)  BY Closed DEF Terms
<1>2. G[0] = Zero /\ \A m \in 0 .. n - 1 : G[m + 1] = Plus(G[m], f[m])
  <2>1. Plus(Zero, Zero) = Zero  BY PlusRules, Closed
  <2>2. G[0] = Zero /\ \A m \in 0 .. n - 1 : G[m + 1] = Zero /\ G[m] = Zero
    OBVIOUS
  <2> HIDE DEF G
  <2> QED  BY <2>1, <2>2
<1>4. G[n] = Zero  OBVIOUS
<1> HIDE DEF G
<1>5. \A m \in 0 .. n : Total(f, m) = G[m]  BY <1>1, <1>2, TotalUnique
<1> QED  BY <1>4, <1>5

\* Zeros behind the terms add nothing.
LEMMA TotalCut ==
  ASSUME NEW n \in Nat, NEW l \in 0 .. n, NEW f, Terms(f, l),
         \A j \in l .. n - 1 : f[j] = Zero
  PROVE  Total(f, n) = Total(f, l)
<1> DEFINE G == [m \in Nat |-> IF m <= l THEN Total(f, m) ELSE Total(f, l)]
<1>1. Terms(f, n)  BY Closed DEF Terms
<1>2. G[0] = Zero  BY TotalIs
<1>3. ASSUME NEW m \in 0 .. n - 1 PROVE G[m + 1] = Plus(G[m], f[m])
  <2>1. CASE m < l  BY <2>1, TotalIs
  <2>2. CASE m >= l
    <3>1. G[m + 1] = Total(f, l) /\ G[m] = Total(f, l) /\ f[m] = Zero
      BY <2>2
    <3> HIDE DEF G
    <3> QED  BY <3>1, TotalInComplex, PlusRules
  <2> QED  BY <2>1, <2>2
<1>4. G[n] = Total(f, l)  BY DEF G
<1> HIDE DEF G
<1>5. \A m \in 0 .. n : Total(f, m) = G[m]  BY <1>1, <1>2, <1>3, TotalUnique
<1> QED  BY <1>4, <1>5

\* A sum of sums, of multiples, of conjugates.
LEMMA TotalOfSums ==
  ASSUME NEW n \in Nat, NEW f, NEW g, NEW h, Terms(f, n), Terms(g, n),
         \A j \in 0 .. n - 1 : h[j] = Plus(f[j], g[j])
  PROVE  Total(h, n) = Plus(Total(f, n), Total(g, n))
<1> DEFINE G == [m \in Nat |-> Plus(Total(f, m), Total(g, m))]
<1>1. Terms(h, n)  BY Closed DEF Terms
<1>2. G[0] = Zero  BY TotalIs, PlusRules, Closed
<1>3. ASSUME NEW m \in 0 .. n - 1 PROVE G[m + 1] = Plus(G[m], h[m])
  <2>1. PICK a \in Complex, b \in Complex, d \in Complex, e \in Complex :
          a = Total(f, m) /\ b = Total(g, m) /\ d = f[m] /\ e = g[m]
    <3>1. m \in 0 .. n /\ f[m] \in Complex /\ g[m] \in Complex  BY DEF Terms
    <3> QED  BY <3>1, TotalIs
  <2>2. Total(f, m + 1) = Plus(a, d) /\ Total(g, m + 1) = Plus(b, e)
    BY <2>1, TotalIs
  <2>3. Plus(Plus(a, d), Plus(b, e)) = Plus(Plus(a, b), Plus(d, e))
    BY FourTerms
  <2>4. /\ G[m + 1] = Plus(Total(f, m + 1), Total(g, m + 1))
        /\ G[m] = Plus(Total(f, m), Total(g, m))
    OBVIOUS
  <2> HIDE DEF G
  <2> QED  BY <2>1, <2>2, <2>3, <2>4
<1>4. G[n] = Plus(Total(f, n), Total(g, n))  OBVIOUS
<1> HIDE DEF G
<1>5. \A m \in 0 .. n : Total(h, m) = G[m]  BY <1>1, <1>2, <1>3, TotalUnique
<1> QED  BY <1>4, <1>5

LEMMA TotalOfMultiples ==
  ASSUME NEW n \in Nat, NEW f, NEW h, NEW w \in Complex, Terms(f, n),
         \A j \in 0 .. n - 1 : h[j] = Times(w, f[j])
  PROVE  Total(h, n) = Times(w, Total(f, n))
<1> DEFINE G == [m \in Nat |-> Times(w, Total(f, m))]
<1>1. Terms(h, n)  BY Closed DEF Terms
<1>2. G[0] = Zero  BY TotalIs, TimesRules
<1>3. ASSUME NEW m \in 0 .. n - 1 PROVE G[m + 1] = Plus(G[m], h[m])
  <2>1. PICK a \in Complex, d \in Complex : a = Total(f, m) /\ d = f[m]
    <3>1. m \in 0 .. n /\ f[m] \in Complex  BY DEF Terms
    <3> QED  BY <3>1, TotalIs
  <2>2. Total(f, m + 1) = Plus(a, d)  BY <2>1, TotalIs
  <2>3. Times(w, Plus(a, d)) = Plus(Times(w, a), Times(w, d))
    BY TimesDistributes
  <2>4. G[m + 1] = Times(w, Total(f, m + 1)) /\ G[m] = Times(w, Total(f, m))
    OBVIOUS
  <2> HIDE DEF G
  <2> QED  BY <2>1, <2>2, <2>3, <2>4
<1>4. G[n] = Times(w, Total(f, n))  OBVIOUS
<1> HIDE DEF G
<1>5. \A m \in 0 .. n : Total(h, m) = G[m]  BY <1>1, <1>2, <1>3, TotalUnique
<1> QED  BY <1>4, <1>5

LEMMA TotalOfConj ==
  ASSUME NEW n \in Nat, NEW f, NEW h, Terms(f, n),
         \A j \in 0 .. n - 1 : h[j] = Conj(f[j])
  PROVE  Total(h, n) = Conj(Total(f, n))
<1> DEFINE G == [m \in Nat |-> Conj(Total(f, m))]
<1>1. Terms(h, n)  BY Closed DEF Terms
<1>2. G[0] = Zero  BY TotalIs, ConjRules, NumberIs DEF Zero
<1>3. ASSUME NEW m \in 0 .. n - 1 PROVE G[m + 1] = Plus(G[m], h[m])
  <2>1. PICK a \in Complex, d \in Complex : a = Total(f, m) /\ d = f[m]
    <3>1. m \in 0 .. n /\ f[m] \in Complex  BY DEF Terms
    <3> QED  BY <3>1, TotalIs
  <2>2. Total(f, m + 1) = Plus(a, d)  BY <2>1, TotalIs
  <2>3. Conj(Plus(a, d)) = Plus(Conj(a), Conj(d))  BY ConjRules
  <2>4. G[m + 1] = Conj(Total(f, m + 1)) /\ G[m] = Conj(Total(f, m))
    OBVIOUS
  <2> HIDE DEF G
  <2> QED  BY <2>1, <2>2, <2>3, <2>4
<1>4. G[n] = Conj(Total(f, n))  OBVIOUS
<1> HIDE DEF G
<1>5. \A m \in 0 .. n : Total(h, m) = G[m]  BY <1>1, <1>2, <1>3, TotalUnique
<1> QED  BY <1>4, <1>5

\* The terms of a sum taken in pairs.
LEMMA TotalOfPairs ==
  ASSUME NEW n \in Nat, NEW f, NEW h, Terms(f, 2 * n),
         \A j \in 0 .. n - 1 : h[j] = Plus(f[2 * j], f[2 * j + 1])
  PROVE  Total(f, 2 * n) = Total(h, n)
<1> DEFINE G == [m \in Nat |-> Total(f, 2 * m)]
<1>0. ASSUME NEW m \in 0 .. n - 1
      PROVE  2 * m \in 0 .. 2 * n - 1 /\ 2 * m + 1 \in 0 .. 2 * n - 1
  OBVIOUS
<1>1. Terms(h, n)
  <2>1. ASSUME NEW m \in 0 .. n - 1 PROVE h[m] \in Complex
    BY <1>0, Closed DEF Terms
  <2> QED  BY <2>1 DEF Terms
<1>2. G[0] = Zero  BY TotalIs
<1>3. ASSUME NEW m \in 0 .. n - 1 PROVE G[m + 1] = Plus(G[m], h[m])
  <2>1. PICK k \in Nat : k = 2 * m  OBVIOUS
  <2>2. k \in 0 .. 2 * n - 1 /\ k + 1 \in 0 .. 2 * n - 1 /\ k \in 0 .. 2 * n
    BY <1>0, <2>1
  <2>3. Total(f, k + 1) = Plus(Total(f, k), f[k])  BY <2>2, TotalIs
  <2>4. Total(f, (k + 1) + 1) = Plus(Total(f, k + 1), f[k + 1])
    BY <2>2, TotalIs
  <2>5. Total(f, k) \in Complex /\ f[k] \in Complex /\ f[k + 1] \in Complex
    BY <2>2, TotalIs DEF Terms
  <2>6. (k + 1) + 1 = 2 * (m + 1)  BY <2>1
  <2>7. G[m + 1] = Total(f, 2 * (m + 1)) /\ G[m] = Total(f, k)  BY <2>1
  <2>8. h[m] = Plus(f[k], f[k + 1])  BY <2>1
  <2> HIDE DEF G
  <2> QED  BY <2>3, <2>4, <2>5, <2>6, <2>7, <2>8, PlusRules
<1>4. G[n] = Total(f, 2 * n)  OBVIOUS
<1> HIDE DEF G
<1>5. \A m \in 0 .. n : Total(h, m) = G[m]  BY <1>1, <1>2, <1>3, TotalUnique
<1> QED  BY <1>4, <1>5

\* A sum with one term that is not zero.
LEMMA TotalOfOne ==
  ASSUME NEW n \in Nat, NEW f, NEW k \in 0 .. n - 1, f[k] \in Complex,
         \A j \in 0 .. n - 1 : j # k => f[j] = Zero
  PROVE  Total(f, n) = f[k]
<1> DEFINE G == [m \in Nat |-> IF m <= k THEN Zero ELSE f[k]]
<1>1. Terms(f, n)  BY Closed DEF Terms
<1>2. G[0] = Zero  OBVIOUS
<1>3. ASSUME NEW m \in 0 .. n - 1 PROVE G[m + 1] = Plus(G[m], f[m])
  <2>1. CASE m < k
    <3>1. G[m + 1] = Zero /\ G[m] = Zero /\ f[m] = Zero  BY <2>1
    <3> QED  BY <3>1, PlusRules, Closed
  <2>2. CASE m = k
    <3>1. G[m + 1] = f[k] /\ G[m] = Zero  BY <2>2
    <3> QED  BY <3>1, <2>2, PlusRules
  <2>3. CASE m > k
    <3>1. G[m + 1] = f[k] /\ G[m] = f[k] /\ f[m] = Zero  BY <2>3
    <3> QED  BY <3>1, PlusRules
  <2> QED  BY <2>1, <2>2, <2>3
<1>4. G[n] = f[k]  OBVIOUS
<1> HIDE DEF G
<1>5. \A m \in 0 .. n : Total(f, m) = G[m]  BY <1>1, <1>2, <1>3, TotalUnique
<1> QED  BY <1>4, <1>5

\* A double sum, by rows or by columns.
LEMMA TotalSwapped ==
  ASSUME NEW n \in Nat, NEW l \in Nat, NEW f,
         \A i \in 0 .. n - 1 : Terms(f[i], l)
  PROVE  Total([i \in 0 .. n - 1 |-> Total(f[i], l)], n)
           = Total([j \in 0 .. l - 1 |->
                      Total([i \in 0 .. n - 1 |-> f[i][j]], n)], l)
<1> DEFINE rows == [i \in 0 .. n - 1 |-> Total(f[i], l)]
           column(j) == [i \in 0 .. n - 1 |-> f[i][j]]
           upTo(m) == [j \in 0 .. l - 1 |-> Total(column(j), m)]
           G == [m \in Nat |-> Total(upTo(m), l)]
<1>1. Terms(rows, n)  BY TotalInComplex DEF Terms
<1>0. ASSUME NEW j \in 0 .. l - 1 PROVE Terms(column(j), n)
  BY DEF Terms
<1>2. G[0] = Zero
  <2>1. \A j \in 0 .. l - 1 : upTo(0)[j] = Zero
    <3> TAKE j \in 0 .. l - 1
    <3>1. Total(column(j), 0) = Zero  BY <1>0, TotalIs
    <3> QED  BY <3>1
  <2> HIDE DEF upTo
  <2>2. Total(upTo(0), l) = Zero  BY <2>1, TotalOfZeros
  <2> QED  BY <2>2
<1>3. ASSUME NEW m \in 0 .. n - 1 PROVE G[m + 1] = Plus(G[m], rows[m])
  <2>1. ASSUME NEW j \in 0 .. l - 1
        PROVE  /\ Total(column(j), m) \in Complex
               /\ Total(column(j), m + 1) = Plus(Total(column(j), m), f[m][j])
    <3>1. column(j)[m] = f[m][j]  OBVIOUS
    <3>2. m \in 0 .. n  OBVIOUS
    <3> HIDE DEF column
    <3> QED  BY <1>0, <3>1, <3>2, TotalIs
  <2>2. Terms(upTo(m), l)  BY <2>1 DEF Terms
  <2>3. \A j \in 0 .. l - 1 : upTo(m + 1)[j] = Plus(upTo(m)[j], f[m][j])
    BY <2>1
  <2>4. G[m + 1] = Total(upTo(m + 1), l) /\ G[m] = Total(upTo(m), l)
    OBVIOUS
  <2>5. rows[m] = Total(f[m], l) /\ Terms(f[m], l)  OBVIOUS
  <2> HIDE DEF G, upTo, rows
  <2>6. Total(upTo(m + 1), l) = Plus(Total(upTo(m), l), Total(f[m], l))
    BY <2>2, <2>3, <2>5, TotalOfSums
  <2> QED  BY <2>4, <2>5, <2>6
<1>4. G[n] = Total(upTo(n), l)  OBVIOUS
<1>5. \A m \in 0 .. n : Total(rows, m) = G[m]
  <2> HIDE DEF G, rows
  <2> QED  BY <1>1, <1>2, <1>3, TotalUnique
<1> HIDE DEF G
<1> QED  BY <1>4, <1>5
-----------------------------------------------------------------------------
(* Powers of two. *)

LEMMA LengthIs == MaxLength \in Nat /\ MaxLength >= 1
  BY FftAssumption

LEMMA FactorsAre ==
  ASSUME NEW n \in Nat, NEW q \in Nat, n * q = MaxLength
  PROVE  n \in Powers2
<1>1. n >= 1 /\ q >= 1
  <2>1. n # 0 /\ q # 0
    <3>1. \A m \in Nat : 0 * m = 0 /\ m * 0 = 0  OBVIOUS
    <3> QED  BY <3>1, LengthIs
  <2> QED  BY <2>1
<1>2. n <= MaxLength
  <2>1. \A y, z \in Nat : y >= 1 /\ z >= 1 => y <= y * z  OBVIOUS
  <2> QED  BY <1>1, <2>1
<1>3. MaxLength % n = 0
  <2>1. PICK m \in Int, z \in Int, k \in Int : m = MaxLength /\ z = 0 /\ k = q
    BY LengthIs
  <2>2. m = z + n * k /\ n > 0  BY <1>1, <2>1
  <2>3. m % n = z % n  BY Zenon, <2>2, SameRemainder
  <2>4. 0 % n = 0  BY <1>1
  <2> QED  BY <2>1, <2>3, <2>4
<1> QED  BY <1>1, <1>2, <1>3, LengthIs DEF Powers2

LEMMA PowerIsNat ==
  ASSUME NEW n \in Powers2
  PROVE  n \in Nat /\ n >= 1 /\ n <= MaxLength
  BY LengthIs DEF Powers2

\* The other factor of a power of two, and its half.
LEMMA OtherFactor ==
  ASSUME NEW n \in Powers2
  PROVE  \E q \in Powers2 : n * q = MaxLength /\ q = MaxLength \div n
<1>1. n \in Nat /\ n > 0 /\ MaxLength % n = 0  BY LengthIs DEF Powers2
<1>2. PICK q \in Int : MaxLength = (MaxLength % n) + n * q
  <2>1. MaxLength \in Int  BY LengthIs
  <2> QED  BY Zenon, <1>1, <2>1, DivRem
<1>3. n * q = MaxLength  BY <1>1, <1>2
<1>4. q \in Nat
  <2>1. \A y \in Nat : \A z \in Int : y > 0 /\ z < 0 => y * z < 0  OBVIOUS
  <2> QED  BY <1>1, <1>3, <2>1, LengthIs
<1>5. q * n = MaxLength  BY <1>1, <1>3, <1>4
<1>6. q \in Powers2  BY <1>1, <1>4, <1>5, FactorsAre
<1>7. MaxLength \div n = q
  <2>1. \A y \in Nat : \A z \in Nat : y > 0 => (y * z) \div y = z  OBVIOUS
  <2> QED  BY <1>1, <1>3, <1>4, <2>1
<1> QED  BY <1>3, <1>6, <1>7

LEMMA HalfIs ==
  ASSUME NEW n \in Powers2, n # 1
  PROVE  \E h \in Powers2 : n = 2 * h /\ h = n \div 2
<1>1. n \in Nat /\ n >= 1 /\ n % 2 = 0  BY PowerIsNat, FftAssumption
<1>2. PICK h \in Nat : n = 2 * h /\ h = n \div 2  BY <1>1
<1>3. PICK q \in Powers2 : n * q = MaxLength  BY OtherFactor
<1>4. q \in Nat  BY PowerIsNat
<1>5. h * (2 * q) = MaxLength  BY <1>2, <1>3, <1>4
<1>6. h \in Powers2  BY <1>4, <1>5, FactorsAre
<1> QED  BY <1>2, <1>6

LEMMA DoubleIs ==
  ASSUME NEW n \in Powers2, n < MaxLength
  PROVE  2 * n \in Powers2
<1>1. PICK q \in Powers2 : n * q = MaxLength  BY OtherFactor
<1>2. n \in Nat /\ q \in Nat  BY PowerIsNat
<1>3. q # 1  BY <1>1, <1>2
<1>4. PICK h \in Powers2 : q = 2 * h  BY <1>3, HalfIs
<1>5. h \in Nat  BY PowerIsNat
<1>6. (2 * n) * h = MaxLength  BY <1>1, <1>2, <1>4, <1>5
<1> QED  BY <1>2, <1>5, <1>6, FactorsAre

\* Of two powers of two the smaller one divides the other.
LEMMA Chain ==
  ASSUME NEW n \in Powers2, NEW l \in Powers2, n <= l
  PROVE  \E q \in Powers2 : l = n * q
<1> DEFINE Bad(h, k) == h <= k /\ ~\E q \in Powers2 : k = h * q
           S == {h \in Powers2 : \E k \in Powers2 : Bad(h, k)}
<1> SUFFICES ASSUME S # {} PROVE FALSE  OBVIOUS
<1>1. PICK h \in S : \A i \in S : h <= i
  <2>1. S \subseteq Nat  BY PowerIsNat
  <2> HIDE DEF S
  <2> QED  BY <2>1, SmallestExists
<1>2. PICK k \in Powers2 : Bad(h, k)  OBVIOUS
<1>3. h \in Powers2 /\ h \in Nat /\ k \in Nat /\ h >= 1  BY PowerIsNat
<1>4. h # 1
  <2>1. h = 1 => k = h * k  BY <1>3
  <2> QED  BY <1>2, <2>1
<1>5. k # 1  BY <1>2, <1>3, <1>4
<1>6. PICK g \in Powers2, j \in Powers2 : h = 2 * g /\ k = 2 * j
  BY <1>3, <1>4, <1>5, HalfIs
<1>7. g \in Nat /\ j \in Nat /\ g < h /\ g <= j
  BY <1>2, <1>3, <1>6, PowerIsNat
<1>8. g \notin S  BY <1>1, <1>3, <1>7
<1>9. PICK q \in Powers2 : j = g * q  BY <1>7, <1>8
<1>10. k = h * q
  <2>1. q \in Nat  BY PowerIsNat
  <2> QED  BY <1>6, <1>7, <1>9, <2>1
<1> QED  BY <1>2, <1>10

\* A larger power of two is at least the double.
LEMMA NextIsDouble ==
  ASSUME NEW n \in Powers2, NEW l \in Powers2, n < l
  PROVE  2 * n <= l
<1>1. PICK q \in Powers2 : l = n * q
  <2>1. n <= l  BY PowerIsNat
  <2> QED  BY <2>1, Chain
<1>2. n \in Nat /\ q \in Nat /\ n >= 1 /\ q >= 1  BY PowerIsNat
<1>3. q >= 2  BY <1>1, <1>2
<1>4. \A y, z \in Nat : z >= 2 => 2 * y <= y * z  OBVIOUS
<1> QED  BY <1>1, <1>2, <1>3, <1>4

-----------------------------------------------------------------------------
(* The roots of one. *)

Unit == <<Cos, Sin>>

Power[k \in Nat] == IF k = 0 THEN One ELSE Times(Power[k - 1], Unit)

LEMMA UnitIs == Unit \in Complex /\ Times(Conj(Unit), Unit) = One
<1>1. Cos \in Number /\ Sin \in Number  BY FftAssumption
<1>2. PICK a \in Int, b \in Int, m \in Int : a = Cos /\ b = Sin /\ m = -b
  BY <1>1, NumberIs
<1>3. (a * a + b * b) % Prime = 1  BY <1>2, FftAssumption
<1>4. /\ (a * a - (m % Prime) * b) % Prime = 1
      /\ (a * b + (m % Prime) * a) % Prime = 0
  <2>1. \A q, d, e, f \in Int :
          ((q % Prime) * d + (e % Prime) * f) % Prime = (q * d + e * f) % Prime
    BY Remainder
  <2>2. a % Prime = a /\ b % Prime = b  BY <1>1, <1>2, SmallRemainder
  <2>3. ((a % Prime) * b + (m % Prime) * a) % Prime = (a * b + m * a) % Prime
    BY <2>1
  <2>4. \A q, d, e, f \in Int :
          ((q % Prime) * d - (e % Prime) * f) % Prime = (q * d - e * f) % Prime
    BY RemainderOfProducts
  <2>5. ((a % Prime) * a - (m % Prime) * b) % Prime = (a * a - m * b) % Prime
    BY <2>4
  <2>6. a * b + m * a = 0 /\ a * a - m * b = a * a + b * b  BY <1>2
  <2>7. 0 % Prime = 0  BY SmallRemainder, NumberIs
  <2> QED  BY <1>3, <2>2, <2>3, <2>5, <2>6, <2>7
<1>5. Conj(Unit) = <<a, m % Prime>>  BY <1>2 DEF Conj, Unit
<1> QED  BY <1>1, <1>2, <1>4, <1>5, ComplexIs DEF Unit, Times, One

LEMMA PowerIs ==
  /\ Power[0] = One
  /\ \A k \in Nat : Power[k] \in Complex
  /\ \A k \in Nat : Power[k + 1] = Times(Power[k], Unit)
<1> DEFINE F == [k \in Nat |-> [v \in Complex |-> Times(v, Unit)]]
           Made(p) == p = [k \in Nat |-> IF k = 0 THEN One
                                          ELSE Times(p[k - 1], Unit)]
<1>1. F \in [Nat -> [Complex -> Complex]]  BY Closed, UnitIs
<1>2. PICK g \in [Nat -> Complex] : Iterates(g, One, F)
  <2> HIDE DEF F
  <2>1. One \in Complex  BY Closed
  <2> QED  BY <1>1, <2>1, Iteration
<1>3. Made(g)
  <2>1. ASSUME NEW k \in Nat
        PROVE  g[k] = IF k = 0 THEN One ELSE Times(g[k - 1], Unit)
    <3>1. CASE k = 0  BY <3>1, <1>2 DEF Iterates
    <3>2. CASE k # 0
      <4>1. k - 1 \in Nat /\ (k - 1) + 1 = k  BY <3>2
      <4>2. g[k] = F[k - 1][g[k - 1]]  BY <4>1, <1>2 DEF Iterates
      <4>3. g[k - 1] \in Complex  BY <4>1
      <4> QED  BY <3>2, <4>1, <4>2, <4>3
    <3> QED  BY <3>1, <3>2
  <2>2. g = [k \in Nat |-> g[k]]  OBVIOUS
  <2> QED  BY <2>1, <2>2
<1>4. Made(Power)
  <2>1. Power = CHOOSE p : Made(p)  BY Zenon DEF Power
  <2> HIDE DEF Made
  <2> QED  BY <1>3, <2>1
<1>5. Power[0] = One  BY <1>4
<1>6. ASSUME NEW k \in Nat PROVE Power[k + 1] = Times(Power[k], Unit)
  <2>1. k + 1 \in Nat /\ k + 1 # 0 /\ (k + 1) - 1 = k  OBVIOUS
  <2>2. Power[k + 1] = Times(Power[(k + 1) - 1], Unit)  BY <1>4, <2>1
  <2> QED  BY <2>1, <2>2
<1>7. \A k \in Nat : k \in {j \in Nat : Power[j] \in Complex}
  <2> DEFINE S == {j \in Nat : Power[j] \in Complex}
  <2>1. 0 \in S  BY <1>5, Closed
  <2>2. ASSUME NEW j \in S PROVE j + 1 \in S
    BY <1>6, Closed, UnitIs
  <2>3. S \subseteq Nat  OBVIOUS
  <2> HIDE DEF S
  <2>4. \A k \in Nat : k \in S  BY <2>1, <2>2, <2>3, Induction
  <2> QED  BY <2>4 DEF S
<1> QED  BY <1>5, <1>6, <1>7
LEMMA RootIs ==
  ASSUME NEW k \in 0 .. MaxLength - 1
  PROVE  Root[k] = Power[k]
<1> DEFINE Made(r) == r = [i \in 0 .. MaxLength - 1 |->
                             IF i = 0 THEN <<1, 0>>
                             ELSE Times(r[i - 1], <<Cos, Sin>>)]
           u == [i \in 0 .. MaxLength - 1 |-> Power[i]]
<1>0. ASSUME NEW i \in 0 .. MaxLength - 1
      PROVE  /\ i = 0 => Power[i] = <<1, 0>>
             /\ i # 0 => /\ i - 1 \in 0 .. MaxLength - 1
                         /\ Power[i] = Times(Power[i - 1], <<Cos, Sin>>)
  <2>1. CASE i = 0  BY <2>1, PowerIs DEF One
  <2>2. CASE i # 0
    <3>1. i - 1 \in Nat /\ (i - 1) + 1 = i /\ i - 1 \in 0 .. MaxLength - 1
      BY <2>2, LengthIs
    <3>2. Power[(i - 1) + 1] = Times(Power[i - 1], Unit)  BY <3>1, PowerIs
    <3> QED  BY <2>2, <3>1, <3>2 DEF Unit
  <2> QED  BY <2>1, <2>2
<1>1. Made(u)  BY <1>0
<1>2. Root = CHOOSE r : Made(r)  BY Zenon DEF Root
<1>3. Made(Root)
  <2> HIDE DEF Made, u
  <2> QED  BY <1>1, <1>2
<1>4. \A i \in Nat : i \in {j \in Nat : j < MaxLength => Root[j] = Power[j]}
  <2> DEFINE S == {j \in Nat : j < MaxLength => Root[j] = Power[j]}
  <2>0. ASSUME NEW i \in 0 .. MaxLength - 1
        PROVE  Root[i] = IF i = 0 THEN <<1, 0>> ELSE Times(Root[i - 1], <<Cos, Sin>>)
    BY <1>3
  <2>1. 0 \in S
    <3>1. 0 \in 0 .. MaxLength - 1  BY LengthIs
    <3>2. Root[0] = Power[0]  BY <2>0, <3>1, PowerIs DEF One
    <3> QED  BY <3>2
  <2>2. ASSUME NEW j \in S PROVE j + 1 \in S
    <3> j \in Nat  OBVIOUS
    <3> SUFFICES ASSUME j + 1 < MaxLength PROVE Root[j + 1] = Power[j + 1]
      OBVIOUS
    <3>1. /\ Root[j] = Power[j] /\ j + 1 \in 0 .. MaxLength - 1 /\ j + 1 # 0
          /\ (j + 1) - 1 = j
      BY LengthIs
    <3>2. Root[j + 1] = Times(Root[(j + 1) - 1], <<Cos, Sin>>)
      BY <2>0, <3>1
    <3> QED  BY <3>1, <3>2, PowerIs DEF Unit
  <2>3. S \subseteq Nat  OBVIOUS
  <2> HIDE DEF S
  <2>4. \A i \in Nat : i \in S  BY <2>1, <2>2, <2>3, Induction
  <2> QED  BY <2>4 DEF S
<1>5. k \in Nat /\ k < MaxLength  BY LengthIs
<1> QED  BY <1>4, <1>5

LEMMA PowerOfSum ==
  ASSUME NEW a \in Nat, NEW b \in Nat
  PROVE  Power[a + b] = Times(Power[a], Power[b])
<1> DEFINE S == {j \in Nat : Power[a + j] = Times(Power[a], Power[j])}
<1>1. 0 \in S
  <2>1. a + 0 = a  OBVIOUS
  <2> QED  BY <2>1, PowerIs, TimesRules
<1>2. ASSUME NEW j \in S PROVE j + 1 \in S
  <2> j \in Nat /\ Power[a + j] = Times(Power[a], Power[j])  OBVIOUS
  <2>1. a + (j + 1) = (a + j) + 1 /\ a + j \in Nat  OBVIOUS
  <2>2. Power[(a + j) + 1] = Times(Times(Power[a], Power[j]), Unit)
    BY <2>1, PowerIs
  <2>3. Times(Times(Power[a], Power[j]), Unit) = Times(Power[a], Power[j + 1])
    BY PowerIs, UnitIs, TimesAssociates
  <2> QED  BY <2>1, <2>2, <2>3
<1>3. S \subseteq Nat  OBVIOUS
<1> HIDE DEF S
<1>4. \A j \in Nat : j \in S  BY <1>1, <1>2, <1>3, Induction
<1> QED  BY <1>4 DEF S

LEMMA BackTwice == Times(Back, Back) = One
<1>1. Back \in Complex /\ One \in Complex /\ Plus(One, Back) = Zero
  BY Closed, MinusIs
<1>2. Times(Back, Plus(One, Back)) = Plus(Times(Back, One), Times(Back, Back))
  BY <1>1, TimesDistributes
<1>3. Zero = Plus(Back, Times(Back, Back))  BY <1>1, <1>2, TimesRules
<1>4. Times(Back, Back) \in Complex  BY <1>1, Closed
<1>5. Plus(One, Plus(Back, Times(Back, Back)))
        = Plus(Plus(One, Back), Times(Back, Back))
  BY <1>1, <1>4, PlusRules
<1> QED  BY <1>1, <1>3, <1>4, <1>5, PlusRules

\* Half a turn is -1, a whole one is 1.
LEMMA WholeTurn ==
  \E h \in Nat : /\ MaxLength = 2 * h /\ MaxLength \div 2 = h /\ h \in Powers2
                /\ Power[h] = Back /\ Power[MaxLength] = One
<1>0. MaxLength \in Powers2
  <2>1. MaxLength * 1 = MaxLength  BY LengthIs
  <2> QED  BY <2>1, LengthIs, FactorsAre
<1>1. Root[MaxLength \div 2] = Back  BY FftAssumption DEF Back
<1>2. MaxLength # 1
  <2> SUFFICES ASSUME MaxLength = 1 PROVE FALSE  OBVIOUS
  <2>1. MaxLength \div 2 = 0 /\ 0 \in 0 .. MaxLength - 1  OBVIOUS
  <2>2. Root[0] = One  BY <2>1, RootIs, PowerIs
  <2>3. One = Back  BY <1>1, <2>1, <2>2
  <2> QED  BY <2>3, PrimeIs DEF One, Back
<1>3. PICK h \in Powers2 : MaxLength = 2 * h /\ h = MaxLength \div 2
  BY <1>0, <1>2, HalfIs
<1>4. h \in Nat /\ h \in 0 .. MaxLength - 1  BY <1>3, PowerIsNat
<1>5. Power[h] = Back  BY <1>1, <1>3, <1>4, RootIs
<1>6. Power[h + h] = One  BY <1>4, <1>5, PowerOfSum, BackTwice
<1>7. h + h = MaxLength  BY <1>3, <1>4
<1> QED  BY <1>3, <1>4, <1>5, <1>6, <1>7

LEMMA PowerOnCircle ==
  ASSUME NEW k \in Nat
  PROVE  Times(Conj(Power[k]), Power[k]) = One
<1> DEFINE S == {j \in Nat : Times(Conj(Power[j]), Power[j]) = One}
<1>1. 0 \in S
  <2>1. Conj(One) = One  BY ConjRules, NumberIs DEF One
  <2> QED  BY <2>1, PowerIs, TimesRules, Closed
<1>2. ASSUME NEW j \in S PROVE j + 1 \in S
  <2> j \in Nat /\ Times(Conj(Power[j]), Power[j]) = One  OBVIOUS
  <2>1. PICK a \in Complex, b \in Complex : a = Power[j] /\ b = Unit
    BY PowerIs, UnitIs
  <2>2. Power[j + 1] = Times(a, b)  BY <2>1, PowerIs
  <2>3. Conj(Times(a, b)) = Times(Conj(a), Conj(b))  BY ConjRules
  <2>4. PICK d \in Complex, e \in Complex : d = Conj(a) /\ e = Conj(b)
    BY Closed
  <2>5. Times(Times(d, e), Times(a, b)) = Times(Times(d, a), Times(e, b))
    BY FourFactors
  <2>6. Times(d, a) = One /\ Times(e, b) = One  BY <2>1, <2>4, UnitIs
  <2>7. Times(One, One) = One  BY TimesRules, Closed
  <2> QED  BY <2>2, <2>3, <2>4, <2>5, <2>6, <2>7
<1>3. S \subseteq Nat  OBVIOUS
<1> HIDE DEF S
<1>4. \A j \in Nat : j \in S  BY <1>1, <1>2, <1>3, Induction
<1> QED  BY <1>4 DEF S

\* The factor a transform of length n uses for a steps, and its rules.
Turn(n, inverse, a) ==
  IF inverse THEN Power[a * (MaxLength \div n)]
  ELSE Conj(Power[a * (MaxLength \div n)])

LEMMA TurnIs ==
  ASSUME NEW n \in Powers2, NEW i \in BOOLEAN
  PROVE  /\ \A a \in Nat : Turn(n, i, a) \in Complex
         /\ Turn(n, i, 0) = One /\ Turn(n, i, n) = One
         /\ \A a, b \in Nat : Turn(n, i, a + b) = Times(Turn(n, i, a), Turn(n, i, b))
         /\ \A h \in Nat : n = 2 * h => Turn(n, i, h) = Back
<1>1. PICK q \in Powers2 : n * q = MaxLength /\ q = MaxLength \div n
  BY OtherFactor
<1>2. n \in Nat /\ q \in Nat  BY PowerIsNat
<1>3. /\ Conj(One) = One /\ Conj(Back) = Back
  BY ConjRules, NumberIs DEF One, Back
<1>4. ASSUME NEW a \in Nat
      PROVE  a * q \in Nat /\ Turn(n, i, a) = IF i THEN Power[a * q] ELSE Conj(Power[a * q])
  BY <1>1, <1>2 DEF Turn
<1>5. \A a \in Nat : Turn(n, i, a) \in Complex
  <2> TAKE a \in Nat
  <2>1. PICK k \in Nat : k = a * q  BY <1>4
  <2>2. Power[k] \in Complex /\ Conj(Power[k]) \in Complex  BY PowerIs, Closed
  <2> QED  BY <1>4, <2>1, <2>2
<1>6. Turn(n, i, 0) = One
  <2>1. 0 * q = 0  BY <1>2
  <2> QED  BY <1>3, <1>4, <2>1, PowerIs
<1>7. Turn(n, i, n) = One
  BY <1>1, <1>2, <1>3, <1>4, WholeTurn
<1>8. ASSUME NEW a \in Nat, NEW b \in Nat
      PROVE  Turn(n, i, a + b) = Times(Turn(n, i, a), Turn(n, i, b))
  <2>1. PICK k \in Nat, l \in Nat : k = a * q /\ l = b * q  BY <1>4
  <2>2. (a + b) * q = k + l /\ a + b \in Nat  BY <1>2, <2>1
  <2>3. Power[k + l] = Times(Power[k], Power[l])  BY PowerOfSum
  <2>4. Conj(Power[k + l]) = Times(Conj(Power[k]), Conj(Power[l]))
    BY <2>3, PowerIs, ConjRules
  <2> QED  BY <1>4, <2>1, <2>2, <2>3, <2>4
<1>9. ASSUME NEW h \in Nat, n = 2 * h PROVE Turn(n, i, h) = Back
  <2>1. PICK g \in Nat : MaxLength = 2 * g /\ Power[g] = Back  BY WholeTurn
  <2>2. h * q = g
    <3>1. (2 * h) * q = 2 * (h * q) /\ h * q \in Nat  BY <1>2
    <3> QED  BY <1>1, <1>9, <2>1, <3>1
  <2> QED  BY <1>3, <1>4, <2>1, <2>2
<1> QED  BY <1>5, <1>6, <1>7, <1>8, <1>9

LEMMA TurnBack ==
  ASSUME NEW n \in Powers2, NEW a \in Nat
  PROVE  /\ Times(Turn(n, FALSE, a), Turn(n, TRUE, a)) = One
         /\ Conj(Turn(n, TRUE, a)) = Turn(n, FALSE, a)
         /\ Conj(Turn(n, FALSE, a)) = Turn(n, TRUE, a)
<1>1. PICK q \in Powers2 : n * q = MaxLength /\ q = MaxLength \div n
  BY OtherFactor
<1>2. PICK k \in Nat : k = a * q  BY PowerIsNat
<1>3. Turn(n, TRUE, a) = Power[k] /\ Turn(n, FALSE, a) = Conj(Power[k])
  BY <1>1, <1>2 DEF Turn
<1> QED  BY <1>3, PowerOnCircle, PowerIs, ConjRules

\* Whole turns do not matter.
LEMMA TurnAround ==
  ASSUME NEW n \in Powers2, NEW i \in BOOLEAN, NEW a \in Nat, NEW b \in Nat
  PROVE  Turn(n, i, a * n) = One /\ Turn(n, i, b + a * n) = Turn(n, i, b)
<1> DEFINE S == {j \in Nat : Turn(n, i, j * n) = One}
<1>0. n \in Nat  BY PowerIsNat
<1>1. 0 \in S
  <2>1. 0 * n = 0  BY <1>0
  <2> QED  BY <2>1, TurnIs
<1>2. ASSUME NEW j \in S PROVE j + 1 \in S
  <2> j \in Nat /\ Turn(n, i, j * n) = One  OBVIOUS
  <2>1. PICK k \in Nat : k = j * n  BY <1>0
  <2>2. (j + 1) * n = k + n  BY <1>0, <2>1
  <2>3. Turn(n, i, k + n) = Times(One, One)  BY <1>0, <2>1, TurnIs
  <2> QED  BY <2>2, <2>3, TimesRules, Closed
<1>3. S \subseteq Nat  OBVIOUS
<1>5. a \in S
  <2> HIDE DEF S
  <2> QED  BY <1>1, <1>2, <1>3, Induction
<1>6. PICK k \in Nat : k = a * n  BY <1>0
<1>7. Turn(n, i, k) = One  BY <1>5, <1>6
<1>8. Turn(n, i, b + k) = Times(Turn(n, i, b), One)  BY <1>7, TurnIs
<1> QED  BY <1>6, <1>7, <1>8, TurnIs, TimesRules
-----------------------------------------------------------------------------
(* The butterflies. *)

\* The highest bit of k, and that the code's search finds it.
LEMMA HighExists ==
  ASSUME NEW n \in Powers2, NEW k \in 1 .. n - 1
  PROVE  \E g \in Powers2 : /\ g <= k /\ k < 2 * g /\ 2 * g <= n /\ 2 * g \in Powers2
<1> DEFINE S == {g \in Powers2 : k < g}
<1>1. n \in S  BY PowerIsNat
<1>2. PICK j \in S : \A i \in S : j <= i
  <2>1. S \subseteq Nat  BY PowerIsNat
  <2> HIDE DEF S
  <2> QED  BY <1>1, <2>1, SmallestExists
<1>3. j \in Powers2 /\ j \in Nat /\ k < j /\ j <= n /\ k \in Nat /\ k >= 1 /\ n \in Nat
  BY <1>1, <1>2, PowerIsNat
<1>4. PICK g \in Powers2 : j = 2 * g  BY <1>3, HalfIs
<1>5. g \in Nat /\ g >= 1  BY PowerIsNat
<1>6. g <= k
  <2> SUFFICES ASSUME k < g PROVE FALSE  BY <1>3, <1>5
  <2>1. g \in S  OBVIOUS
  <2> QED  BY <1>2, <1>4, <1>5, <2>1
<1> QED  BY <1>3, <1>4, <1>6

High(k) == CHOOSE h \in Powers2 : h <= k /\ k < 2 * h

LEMMA HighIs ==
  ASSUME NEW k \in Nat, NEW g \in Powers2, g <= k, k < 2 * g
  PROVE  High(k) = g
<1> DEFINE h == High(k)
<1>1. h \in Powers2 /\ h <= k /\ k < 2 * h  BY DEF High
<1> HIDE DEF h
<1>2. h \in Nat /\ g \in Nat  BY <1>1, PowerIsNat
<1>3. ~(h < g)  BY <1>1, <1>2, NextIsDouble
<1>4. ~(g < h)  BY <1>1, <1>2, NextIsDouble
<1>5. h = g  BY <1>2, <1>3, <1>4
<1> QED  BY <1>5 DEF h

Reverses(b, l, n) ==
  b = [k \in 0 .. l - 1 |-> IF k = 0 THEN 0
                           ELSE b[k - High(k)] + n \div (4 * High(k))]

LEMMA ReversesExists ==
  ASSUME NEW n \in Powers2, NEW l \in Powers2, l <= n
  PROVE  \E b \in [0 .. l - 1 -> Nat] : Reverses(b, l, n)
<1> DEFINE Good(g) == \E b \in [0 .. g - 1 -> Nat] : Reverses(b, g, n)
           S == {g \in Powers2 : ~Good(g)}
<1> SUFFICES ASSUME S # {} PROVE FALSE  OBVIOUS
<1>1. PICK g \in S : \A i \in S : g <= i
  <2>1. S \subseteq Nat  BY PowerIsNat
  <2> HIDE DEF S
  <2> QED  BY <2>1, SmallestExists
<1>2. g \in Powers2 /\ ~Good(g) /\ g \in Nat /\ g >= 1  BY PowerIsNat
<1>3. g # 1
  <2> SUFFICES ASSUME g = 1 PROVE Good(1)  BY <1>2
  <2> DEFINE z == [k \in 0 .. 0 |-> 0]
  <2>1. z \in [0 .. 1 - 1 -> Nat]  OBVIOUS
  <2>2. z = [k \in 0 .. 1 - 1 |-> IF k = 0 THEN 0
                                 ELSE z[k - High(k)] + n \div (4 * High(k))]
    OBVIOUS
  <2> HIDE DEF z
  <2> QED  BY <2>1, <2>2 DEF Reverses
<1>4. PICK h \in Powers2 : g = 2 * h  BY <1>2, <1>3, HalfIs
<1>5. h \in Nat /\ h >= 1 /\ h < g  BY <1>4, PowerIsNat
<1>6. Good(h)
  <2> HIDE DEF Good
  <2>1. h \notin S  BY <1>1, <1>2, <1>5
  <2> QED  BY <2>1
<1>7. PICK b \in [0 .. h - 1 -> Nat] : Reverses(b, h, n)  BY <1>6
<1> DEFINE m == n \div (4 * h)
           d == [k \in 0 .. g - 1 |-> IF k < h THEN b[k] ELSE b[k - h] + m]
<1>8. m \in Nat  BY <1>5, PowerIsNat
<1>9. d \in [0 .. g - 1 -> Nat]
  <2> HIDE DEF m
  <2>1. ASSUME NEW k \in 0 .. g - 1 PROVE (IF k < h THEN b[k] ELSE b[k - h] + m) \in Nat
    <3>1. CASE k < h
      <4>1. k \in 0 .. h - 1  BY <1>2, <1>5, <3>1
      <4> QED  BY <3>1, <4>1
    <3>2. CASE k >= h
      <4>1. k - h \in 0 .. h - 1  BY <1>4, <1>5, <3>2
      <4> QED  BY <1>5, <1>8, <3>2, <4>1
    <3> QED  BY <1>5, <3>1, <3>2
  <2> QED  BY <2>1
<1>10. ASSUME NEW k \in 0 .. g - 1
       PROVE  d[k] = IF k = 0 THEN 0 ELSE d[k - High(k)] + n \div (4 * High(k))
  <2> k \in Nat /\ k < g  BY <1>2
  <2>1. CASE k = 0
    <3>1. d[0] = b[0] /\ 0 \in 0 .. h - 1  BY <1>2, <1>5
    <3>2. b[0] = 0  BY <3>1, <1>7 DEF Reverses
    <3> QED  BY <2>1, <3>1, <3>2
  <2>2. CASE k # 0 /\ k < h
    <3>1. PICK f \in Powers2 : f <= k /\ k < 2 * f
      <4>1. k \in 1 .. h - 1  BY <1>5, <2>2
      <4> QED  BY <4>1, HighExists
    <3>2. High(k) = f /\ f \in Nat /\ f >= 1  BY <3>1, HighIs, PowerIsNat
    <3>3. k - f \in 0 .. h - 1 /\ k - f \in 0 .. g - 1 /\ k - f < h /\ k \in 0 .. h - 1
      BY <2>2, <3>1, <3>2, <1>5
    <3>4. d[k - f] = b[k - f] /\ d[k] = b[k]  BY <2>2, <3>3
    <3>5. b[k] = b[k - f] + n \div (4 * f)
      BY <1>7, <2>2, <3>2, <3>3 DEF Reverses
    <3> HIDE DEF d
    <3> QED  BY <2>2, <3>2, <3>4, <3>5
  <2>3. CASE k >= h
    <3>1. High(k) = h  BY <1>4, <2>3, HighIs
    <3>2. k - h \in 0 .. g - 1 /\ k - h < h /\ k # 0  BY <1>4, <1>5, <2>3
    <3>3. d[k] = b[k - h] + m /\ d[k - h] = b[k - h]  BY <2>3, <3>2, <1>5
    <3> HIDE DEF d
    <3> QED  BY <3>1, <3>2, <3>3
  <2> QED  BY <1>5, <2>1, <2>2, <2>3
<1>11. Reverses(d, g, n)
  <2>1. d = [k \in 0 .. g - 1 |-> d[k]]  OBVIOUS
  <2> HIDE DEF d
  <2> QED  BY <1>10, <2>1 DEF Reverses
<1> HIDE DEF d
<1> QED  BY <1>2, <1>9, <1>11

\* FFTButter step by step: what the highest bit adds.
LEMMA ButterfliesAre ==
  ASSUME NEW n \in Powers2, NEW h \in Powers2, n = 2 * h
  PROVE  /\ Butterflies(n) \in [0 .. h - 1 -> Nat]
         /\ Butterflies(n)[0] = 0
         /\ \A g, q \in Powers2 : \A k \in Nat :
              g <= k /\ k < 2 * g /\ h = (2 * g) * q
                => Butterflies(n)[k] = Butterflies(n)[k - g] + q
<1> DEFINE B == Butterflies(n)
<1>0. n \in Nat /\ h \in Nat /\ h >= 1 /\ n \div 2 = h  BY PowerIsNat
<1>1. B = CHOOSE b : Reverses(b, h, n)
  <2>1. B = CHOOSE b : Reverses(b, n \div 2, n)
    BY Zenon DEF Butterflies, Reverses, High
  <2> QED  BY <1>0, <2>1
<1>2. Reverses(B, h, n)
  <2>1. \E b : Reverses(b, h, n)
    <3>1. h <= n  BY <1>0
    <3> QED  BY <3>1, ReversesExists
  <2> HIDE DEF B
  <2> QED  BY <1>1, <2>1
<1> HIDE DEF B
<1>3. ASSUME NEW k \in 0 .. h - 1
      PROVE  B[k] = IF k = 0 THEN 0 ELSE B[k - High(k)] + n \div (4 * High(k))
  BY <1>2 DEF Reverses
<1>4. B[0] = 0  BY <1>0, <1>3
<1>5. ASSUME NEW g \in Powers2, NEW q \in Powers2, NEW k \in Nat,
             g <= k, k < 2 * g, h = (2 * g) * q
      PROVE  B[k] = B[k - g] + q
  <2>1. g \in Nat /\ q \in Nat /\ g >= 1 /\ q >= 1  BY PowerIsNat
  <2>2. High(k) = g  BY <1>5, HighIs
  <2>3. 2 * g <= h
    <3>1. \A y, z \in Nat : z >= 1 => y <= y * z  OBVIOUS
    <3>2. 2 * g \in Nat  BY <2>1
    <3> QED  BY <1>5, <2>1, <3>1, <3>2
  <2>4. k \in 0 .. h - 1 /\ k # 0  BY <1>0, <1>5, <2>1, <2>3
  <2>5. n \div (4 * g) = q
    <3>1. n = (4 * g) * q  BY <1>5, <2>1
    <3>2. \A y, z \in Nat : y > 0 => (y * z) \div y = z  OBVIOUS
    <3>3. 4 * g \in Nat /\ 4 * g > 0  BY <2>1
    <3> QED  BY <2>1, <3>1, <3>2, <3>3
  <2> QED  BY <1>3, <2>2, <2>4, <2>5
<1>6. \A k \in 0 .. h - 1 : B[k] \in Nat
  <2> DEFINE S == {k \in 0 .. h - 1 : B[k] \notin Nat}
  <2> SUFFICES ASSUME S # {} PROVE FALSE  OBVIOUS
  <2>1. PICK k \in S : \A i \in S : k <= i
    <3>1. S \subseteq Nat  BY <1>0
    <3> HIDE DEF S
    <3> QED  BY <3>1, SmallestExists
  <2>2. k \in 1 .. h - 1 /\ k \in Nat /\ B[k] \notin Nat  BY <1>0, <1>4
  <2>3. PICK g \in Powers2 : /\ g <= k /\ k < 2 * g /\ 2 * g <= h /\ 2 * g \in Powers2
    BY <2>2, HighExists
  <2>4. PICK q \in Powers2 : h = (2 * g) * q  BY <2>3, Chain
  <2>5. B[k] = B[k - g] + q  BY <1>5, <2>2, <2>3, <2>4
  <2>6. k - g \in 0 .. h - 1 /\ k - g < k /\ q \in Nat /\ k - g \in Nat
    BY <1>0, <2>2, <2>3, PowerIsNat
  <2>7. B[k - g] \in Nat
    <3>1. k - g \notin S  BY <2>1, <2>2, <2>6
    <3> QED  BY <2>6, <3>1
  <2> QED  BY <2>2, <2>5, <2>6, <2>7
<1>7. B = [k \in 0 .. h - 1 |-> B[k]]  BY <1>2 DEF Reverses
<1> QED  BY <1>4, <1>5, <1>6, <1>7 DEF B
LEMMA HalvesAre == \A k \in Nat : \E a \in Nat : k = 2 * a \/ k = 2 * a + 1
<1> TAKE k \in Nat
<1>1. k \div 2 \in Nat /\ (k = 2 * (k \div 2) \/ k = 2 * (k \div 2) + 1)
  OBVIOUS
<1> QED  BY <1>1

\* Twice what is reversed is reversed one place further.
LEMMA ButterfliesDouble ==
  ASSUME NEW n \in Powers2, NEW h \in Powers2, n = 2 * h,
         NEW r \in Powers2, h = 2 * r
  PROVE  /\ \A a \in 0 .. r - 1 : /\ 2 * Butterflies(n)[2 * a] = Butterflies(n)[a]
                                  /\ 2 * Butterflies(n)[2 * a + 1] = Butterflies(n)[a] + h
         /\ \A a \in 0 .. r - 1 : Butterflies(n)[a + r] = Butterflies(n)[a] + 1
<1> DEFINE B == Butterflies(n)
<1>0. r \in Nat /\ r >= 1 /\ h \in Nat /\ 1 \in Powers2
  <2>1. 1 * MaxLength = MaxLength  BY LengthIs
  <2> QED  BY <2>1, PowerIsNat, LengthIs, FactorsAre
<1>1. /\ B[0] = 0 /\ \A k \in 0 .. h - 1 : B[k] \in Nat
      /\ \A g, q \in Powers2 : \A k \in Nat :
           g <= k /\ k < 2 * g /\ h = (2 * g) * q => B[k] = B[k - g] + q
  BY ButterfliesAre
<1> HIDE DEF B
<1> DEFINE Good(a) == 2 * B[2 * a] = B[a] /\ 2 * B[2 * a + 1] = B[a] + h
           S == {a \in 0 .. r - 1 : ~Good(a)}
<1>2. S = {}
  <2> SUFFICES ASSUME S # {} PROVE FALSE  OBVIOUS
  <2>1. PICK a \in S : \A i \in S : a <= i
    <3>1. S \subseteq Nat  BY <1>0
    <3> HIDE DEF S
    <3> QED  BY <3>1, SmallestExists
  <2>2. a \in 0 .. r - 1 /\ a \in Nat /\ ~Good(a)  BY <1>0
  <2>3. CASE a = 0
    <3>1. 2 * 0 = 0 /\ 2 * 0 + 1 = 1 /\ h = (2 * 1) * r /\ 1 - 1 = 0  BY <1>0
    <3>2. B[1] = B[1 - 1] + r  BY <1>0, <1>1, <3>1
    <3>3. 2 * r = h  BY <1>0
    <3> QED  BY <1>0, <1>1, <2>2, <2>3, <3>1, <3>2, <3>3
  <2>4. CASE a # 0
    <3>1. PICK g \in Powers2 : /\ g <= a /\ a < 2 * g /\ 2 * g <= r /\ 2 * g \in Powers2
      <4>1. a \in 1 .. r - 1  BY <1>0, <2>2, <2>4
      <4> QED  BY <4>1, HighExists
    <3>2. PICK q \in Powers2 : r = (2 * g) * q  BY <3>1, Chain
    <3>3. g \in Nat /\ g >= 1 /\ q \in Nat  BY PowerIsNat
    <3>4. PICK j \in Powers2 : j = 2 * g  BY <3>1
    <3>5. h = (2 * j) * q
      <4>1. (2 * j) * q = 2 * (j * q)  BY <3>3, <3>4
      <4> QED  BY <3>2, <3>4, <4>1
    <3>6. 2 * q \in Powers2
      <4>1. q < MaxLength
        <5>1. \A y, z \in Nat : y >= 2 /\ z >= 1 => z < y * z  OBVIOUS
        <5>2. q < r
          BY <3>2, <3>3, <3>4, <5>1, PowerIsNat
        <5>3. r <= MaxLength /\ MaxLength \in Nat  BY PowerIsNat, LengthIs
        <5> QED  BY <5>2, <5>3, <3>3, <1>0
      <4> QED  BY <4>1, DoubleIs
    <3>7. h = (2 * g) * (2 * q)
      <4>1. (2 * g) * (2 * q) = 2 * ((2 * g) * q)  BY <3>3
      <4> QED  BY <3>2, <4>1
    <3>8. PICK d \in Nat : d = a - g  BY <2>2, <3>1, <3>3
    <3>9. B[a] = B[a - g] + 2 * q  BY <1>1, <2>2, <3>1, <3>6, <3>7
    <3>10. B[2 * a] = B[2 * a - j] + q
      <4>1. 2 * a \in Nat /\ j <= 2 * a /\ 2 * a < 2 * j  BY <2>2, <3>1, <3>3, <3>4
      <4> QED  BY <1>1, <3>5, <4>1
    <3>11. B[2 * a + 1] = B[2 * a + 1 - j] + q
      <4>1. 2 * a + 1 \in Nat /\ j <= 2 * a + 1 /\ 2 * a + 1 < 2 * j
        BY <2>2, <3>1, <3>3, <3>4
      <4> QED  BY <1>1, <3>5, <4>1
    <3>12. 2 * a - j = 2 * d /\ 2 * a + 1 - j = 2 * d + 1
      BY <2>2, <3>3, <3>4, <3>8
    <3>13. Good(d)
      <4> HIDE DEF Good
      <4>1. d \in 0 .. r - 1 /\ d < a  BY <1>0, <2>2, <3>3, <3>8
      <4> QED  BY <2>1, <2>2, <4>1
    <3>14. d \in 0 .. h - 1 /\ 2 * d \in 0 .. h - 1 /\ 2 * d + 1 \in 0 .. h - 1
      BY <1>0, <2>2, <3>3, <3>8
    <3>15. B[d] \in Nat /\ B[2 * d] \in Nat /\ B[2 * d + 1] \in Nat
      BY <1>1, <3>14
    <3> QED
      BY <1>0, <2>2, <3>3, <3>8, <3>9, <3>10, <3>11, <3>12, <3>13, <3>15
  <2> QED  BY <2>3, <2>4
<1>3. \A a \in 0 .. r - 1 : Good(a)
  <2> HIDE DEF Good
  <2> QED  BY <1>2
<1>4. ASSUME NEW a \in 0 .. r - 1 PROVE B[a + r] = B[a] + 1
  <2>1. h = (2 * r) * 1 /\ a + r \in Nat /\ r <= a + r /\ a + r < 2 * r
        /\ (a + r) - r = a
    BY <1>0
  <2>2. B[a + r] = B[(a + r) - r] + 1  BY <1>0, <1>1, <2>1
  <2> QED  BY <2>1, <2>2
<1> QED  BY <1>3, <1>4 DEF B

\* Reversing is its own inverse.
LEMMA ButterfliesTwice ==
  ASSUME NEW n \in Powers2, NEW h \in Powers2, n = 2 * h
  PROVE  \A k \in 0 .. h - 1 : /\ Butterflies(n)[k] \in 0 .. h - 1
                              /\ Butterflies(n)[Butterflies(n)[k]] = k
<1> DEFINE B == Butterflies(n)
<1>0. h \in Nat /\ h >= 1  BY PowerIsNat
<1>1. B[0] = 0 /\ \A k \in 0 .. h - 1 : B[k] \in Nat  BY ButterfliesAre
<1>2. CASE h = 1  BY <1>1, <1>2
<1>3. CASE h # 1
  <2>1. PICK r \in Powers2 : h = 2 * r  BY <1>3, HalfIs
  <2>2. r \in Nat /\ r >= 1  BY PowerIsNat
  <2>3. \A a \in 0 .. r - 1 : /\ 2 * B[2 * a] = B[a] /\ 2 * B[2 * a + 1] = B[a] + h
                             /\ B[a + r] = B[a] + 1
    BY <2>1, ButterfliesDouble
  <2> HIDE DEF B
  <2> DEFINE Low(k) == B[k] \in 0 .. h - 1
             Twice(k) == B[B[k]] = k
             S == {k \in 0 .. h - 1 : ~Low(k)}
             T == {k \in 0 .. h - 1 : ~Twice(k)}
  <2>4. ASSUME NEW k \in 1 .. h - 1
        PROVE  \E a \in 0 .. r - 1 : a < k /\ a \in 0 .. h - 1 /\ k \in {2 * a, 2 * a + 1}
    <3>1. PICK a \in Nat : k = 2 * a \/ k = 2 * a + 1
      <4>1. k \in Nat  BY <1>0
      <4> QED  BY <4>1, HalvesAre
    <3>2. a \in 0 .. r - 1 /\ a < k /\ a \in 0 .. h - 1  BY <1>0, <2>1, <2>2, <3>1
    <3> QED  BY <3>1, <3>2
  <2>5. S = {}
    <3> SUFFICES ASSUME S # {} PROVE FALSE  OBVIOUS
    <3>1. PICK k \in S : \A i \in S : k <= i
      <4>1. S \subseteq Nat  BY <1>0
      <4> HIDE DEF S
      <4> QED  BY <4>1, SmallestExists
    <3>2. k \in 1 .. h - 1 /\ B[k] \in Nat /\ k \in Nat /\ ~Low(k)  BY <1>0, <1>1
    <3>3. PICK a \in 0 .. r - 1 : a < k /\ a \in 0 .. h - 1 /\ k \in {2 * a, 2 * a + 1}
      BY <2>4, <3>2
    <3>4. Low(a)
      <4> HIDE DEF Low
      <4>1. a \in Nat  BY <2>2
      <4> QED  BY <3>1, <3>2, <3>3, <4>1
    <3>5. 2 * B[k] = B[a] \/ 2 * B[k] = B[a] + h  BY <2>3, <3>3
    <3>6. Low(k)  BY <1>0, <3>2, <3>4, <3>5
    <3> QED  BY <3>2, <3>6
  <2>6. \A k \in 0 .. h - 1 : Low(k)
    <3> HIDE DEF Low
    <3> QED  BY <2>5
  <2>7. T = {}
    <3> SUFFICES ASSUME T # {} PROVE FALSE  OBVIOUS
    <3>1. PICK k \in T : \A i \in T : k <= i
      <4>1. T \subseteq Nat  BY <1>0
      <4> HIDE DEF T
      <4> QED  BY <4>1, SmallestExists
    <3>2. k \in 1 .. h - 1 /\ k \in Nat /\ ~Twice(k)  BY <1>0, <1>1
    <3>3. PICK a \in 0 .. r - 1 : a < k /\ a \in 0 .. h - 1 /\ k \in {2 * a, 2 * a + 1}
      BY <2>4, <3>2
    <3>4. Twice(a)
      <4> HIDE DEF Twice
      <4>1. a \in Nat  BY <2>2
      <4> QED  BY <3>1, <3>2, <3>3, <4>1
    <3>5. PICK z \in Nat : z = B[2 * a]
      <4>1. 2 * a \in 0 .. h - 1  BY <2>1, <2>2
      <4> QED  BY <1>1, <4>1
    <3>6. 2 * z = B[a] /\ B[a] \in 0 .. h - 1  BY <2>3, <2>6, <3>3, <3>5
    <3>7. z \in 0 .. r - 1 /\ z \in 0 .. h - 1  BY <2>1, <2>2, <3>6
    <3>8. B[z] = 2 * a
      <4>1. 2 * B[2 * z] = B[z]  BY <2>3, <3>7
      <4>2. B[2 * z] = a  BY <3>4, <3>6
      <4> QED  BY <4>1, <4>2
    <3>9. CASE k = 2 * a  BY <3>2, <3>5, <3>8, <3>9
    <3>10. CASE k = 2 * a + 1
      <4>1. 2 * B[k] = B[a] + h /\ B[k] \in Nat  BY <1>1, <2>3, <3>2, <3>10
      <4>2. B[k] = z + r  BY <2>1, <2>2, <3>6, <4>1
      <4>3. B[z + r] = B[z] + 1  BY <2>3, <3>7
      <4> QED  BY <3>2, <3>8, <3>10, <4>2, <4>3
    <3> QED  BY <3>3, <3>9, <3>10
  <2>8. \A k \in 0 .. h - 1 : Twice(k)
    <3> HIDE DEF Twice
    <3> QED  BY <2>7
  <2> QED  BY <2>6, <2>8 DEF B
<1> QED  BY <1>2, <1>3

\* The order in which the loops leave the spectrum.
Order(n) ==
  [k \in 0 .. n - 1 |-> IF k < n \div 2 THEN 2 * Butterflies(n)[k]
                       ELSE 1 + 2 * Butterflies(n)[k - n \div 2]]

LEMMA OrderIs ==
  ASSUME NEW n \in Powers2, NEW h \in Powers2, n = 2 * h
  PROVE  /\ \A k \in 0 .. n - 1 : Order(n)[k] \in 0 .. n - 1 /\ Order(n)[Order(n)[k]] = k
         /\ \A b \in 0 .. h - 1 : /\ Order(n)[2 * b] = Butterflies(n)[b]
                                 /\ Order(n)[2 * b + 1] = Butterflies(n)[b] + h
                                 /\ Order(n)[b] = 2 * Butterflies(n)[b]
<1> DEFINE B == Butterflies(n)
           R == Order(n)
<1>0. h \in Nat /\ h >= 1 /\ n \in Nat /\ n \div 2 = h  BY PowerIsNat
<1>1. /\ B[0] = 0
      /\ \A k \in 0 .. h - 1 : B[k] \in 0 .. h - 1 /\ B[k] \in Nat /\ B[B[k]] = k
  BY ButterfliesAre, ButterfliesTwice
<1> HIDE DEF B
<1>2. ASSUME NEW k \in 0 .. n - 1
      PROVE  R[k] = IF k < h THEN 2 * B[k] ELSE 1 + 2 * B[k - h]
  BY <1>0 DEF Order, B
<1> HIDE DEF R
<1>3. \A b \in 0 .. h - 1 : R[b] = 2 * B[b]  BY <1>0, <1>2
<1>4. ASSUME NEW b \in 0 .. h - 1
      PROVE  R[2 * b] = B[b] /\ R[2 * b + 1] = B[b] + h
  <2> b \in Nat /\ b < h  BY <1>0
  <2>1. CASE h = 1
    <3>1. b = 0 /\ 2 * b = 0 /\ 2 * b + 1 = 1  BY <2>1
    <3>2. 0 \in 0 .. n - 1 /\ 1 \in 0 .. n - 1 /\ 1 - h = 0 /\ ~(1 < h) /\ 0 < h
      BY <2>1
    <3>3. R[0] = 2 * B[0] /\ R[1] = 1 + 2 * B[0]  BY <1>2, <3>2
    <3> QED  BY <1>1, <2>1, <3>1, <3>3
  <2>2. CASE h # 1
    <3>1. PICK r \in Powers2 : h = 2 * r  BY <2>2, HalfIs
    <3>2. r \in Nat /\ r >= 1  BY PowerIsNat
    <3>3. \A a \in 0 .. r - 1 : /\ 2 * B[2 * a] = B[a] /\ 2 * B[2 * a + 1] = B[a] + h
                               /\ B[a + r] = B[a] + 1
      BY <3>1, ButterfliesDouble DEF B
    <3>4. CASE b < r
      <4>1. /\ b \in 0 .. r - 1 /\ 2 * b \in 0 .. n - 1 /\ 2 * b + 1 \in 0 .. n - 1
            /\ 2 * b < h /\ 2 * b + 1 < h
        BY <1>0, <3>1, <3>2, <3>4
      <4>2. R[2 * b] = 2 * B[2 * b] /\ R[2 * b + 1] = 2 * B[2 * b + 1]
        BY <1>2, <4>1
      <4> QED  BY <3>3, <4>1, <4>2
    <3>5. CASE b >= r
      <4>1. PICK a \in Nat : b = a + r  BY <3>2, <3>5
      <4>2. /\ a \in 0 .. r - 1 /\ 2 * b \in 0 .. n - 1 /\ 2 * b + 1 \in 0 .. n - 1
            /\ ~(2 * b < h) /\ ~(2 * b + 1 < h)
            /\ 2 * b - h = 2 * a /\ 2 * b + 1 - h = 2 * a + 1
        BY <1>0, <3>1, <3>2, <3>5, <4>1
      <4>3. R[2 * b] = 1 + 2 * B[2 * a] /\ R[2 * b + 1] = 1 + 2 * B[2 * a + 1]
        BY <1>2, <4>2
      <4>4. /\ 2 * B[2 * a] = B[a] /\ 2 * B[2 * a + 1] = B[a] + h
            /\ B[b] = B[a] + 1
        BY <3>3, <4>1, <4>2
      <4>5. B[a] \in Nat
        <5>1. a \in 0 .. h - 1  BY <3>1, <3>2, <4>2
        <5> QED  BY <1>1, <5>1
      <4> QED  BY <1>0, <4>3, <4>4, <4>5
    <3> QED  BY <3>2, <3>4, <3>5
  <2> QED  BY <2>1, <2>2
<1>5. ASSUME NEW k \in 0 .. n - 1 PROVE R[k] \in 0 .. n - 1 /\ R[R[k]] = k
  <2>1. PICK b \in 0 .. h - 1 : k = 2 * b \/ k = 2 * b + 1
    <3>1. PICK b \in Nat : k = 2 * b \/ k = 2 * b + 1
      <4>1. k \in Nat  BY <1>0
      <4> QED  BY <4>1, HalvesAre
    <3>2. b \in 0 .. h - 1  BY <1>0, <3>1
    <3> QED  BY <3>1, <3>2
  <2>2. PICK d \in 0 .. h - 1 : d = B[b] /\ B[d] = b  BY <1>1
  <2>3. d \in 0 .. n - 1 /\ d + h \in 0 .. n - 1 /\ ~(d + h < h) /\ d + h - h = d /\ d < h
    BY <1>0
  <2>4. R[d] = 2 * b /\ R[d + h] = 1 + 2 * b  BY <1>2, <2>2, <2>3
  <2> QED  BY <1>4, <2>1, <2>2, <2>3, <2>4
<1> QED  BY <1>3, <1>4, <1>5 DEF R, B

-----------------------------------------------------------------------------
(* The rounds of the outer loop. *)

LEMMA PlaceIs ==
  ASSUME NEW q \in Nat, q > 0, NEW b \in Nat, NEW r \in 0 .. q - 1
  PROVE  (b * q + r) \div q = b /\ (b * q + r) % q = r
<1>1. PICK m \in Nat : m = b * q  OBVIOUS
<1>2. r \in Int /\ m + r \in Int /\ b \in Int /\ m + r = r + q * b  BY <1>1
<1>3. (m + r) % q = r % q  BY Zenon, <1>2, SameRemainder
<1>4. r % q = r  OBVIOUS
<1>5. (m + r) \div q = b
  <2>1. m + r = q * ((m + r) \div q) + ((m + r) % q) /\ (m + r) \div q \in Int
    OBVIOUS
  <2>2. PICK d \in Int : d = (m + r) \div q  BY <2>1
  <2>3. m = q * d  BY <1>3, <1>4, <2>1, <2>2
  <2>4. PICK e \in Int : e = b - d  BY <2>2
  <2>5. q * e = q * b - q * d  BY <2>4
  <2>6. -q < q * e /\ q * e < q  BY <1>1, <2>3, <2>5
  <2>7. e = 0  BY Zenon, <2>6, SmallMultiple
  <2> QED  BY <2>2, <2>4, <2>7
<1> QED  BY <1>1, <1>3, <1>4, <1>5

\* The transform of every s-th number of f from k on, at frequency a.
Slice(f, n, i, d, s, a, k) ==
  Total([j \in 0 .. d - 1 |-> Times(Turn(n, i, a * j), f[k + j * s])], d)

LEMMA SliceTerms ==
  ASSUME NEW n \in Powers2, NEW i \in BOOLEAN, NEW f \in [0 .. n - 1 -> Complex],
         NEW d \in Nat, NEW s \in Nat, d * s = n, NEW a \in Nat, NEW k \in 0 .. s - 1
  PROVE  /\ \A j \in 0 .. d - 1 : /\ k + j * s \in 0 .. n - 1
                                  /\ f[k + j * s] \in Complex
                                  /\ Times(Turn(n, i, a * j), f[k + j * s]) \in Complex
         /\ Slice(f, n, i, d, s, a, k) \in Complex
<1>0. n \in Nat /\ n >= 1  BY PowerIsNat
<1>1. ASSUME NEW j \in 0 .. d - 1
      PROVE  /\ k + j * s \in 0 .. n - 1
             /\ f[k + j * s] \in Complex
             /\ Times(Turn(n, i, a * j), f[k + j * s]) \in Complex
  <2>1. k + j * s \in 0 .. n - 1
    <3>1. j \in Nat /\ k \in Nat /\ j + 1 <= d  OBVIOUS
    <3>2. PICK e \in Nat : d = j + 1 + e  BY <3>1
    <3>3. PICK m \in Nat : m = j * s  BY <3>1
    <3>4. PICK l \in Nat : l = e * s  BY <3>1
    <3>5. d * s = m + s + l  BY <3>1, <3>2, <3>3, <3>4
    <3> QED  BY <1>0, <3>1, <3>3, <3>5
  <2>2. f[k + j * s] \in Complex  BY <2>1
  <2>3. a * j \in Nat  OBVIOUS
  <2>4. Turn(n, i, a * j) \in Complex  BY <2>3, TurnIs
  <2> QED  BY <2>1, <2>2, <2>4, Closed
<1>2. Terms([j \in 0 .. d - 1 |-> Times(Turn(n, i, a * j), f[k + j * s])], d)
  BY <1>1 DEF Terms
<1> QED  BY <1>1, <1>2, TotalInComplex DEF Slice

\* Even and odd places of a slice.
Halves(f, n, i, d, t, r, a, k) ==
  Slice(f, n, i, 2 * d, t, r, k)
    = Plus(Slice(f, n, i, d, 2 * t, a, k),
           Times(Turn(n, i, r), Slice(f, n, i, d, 2 * t, a, k + t)))

LEMMA SliceOfHalves ==
  ASSUME NEW n \in Powers2, NEW i \in BOOLEAN, NEW f \in [0 .. n - 1 -> Complex],
         NEW d \in Nat, NEW t \in Nat, d * (2 * t) = n, NEW k \in 0 .. t - 1,
         NEW r \in Nat, NEW a \in Nat, NEW e \in Nat, 2 * r = a + e * n
  PROVE  Halves(f, n, i, d, t, r, a, k)
<1> DEFINE u == [j \in 0 .. (2 * d) - 1 |-> Times(Turn(n, i, r * j), f[k + j * t])]
           v == [j \in 0 .. d - 1 |-> Times(Turn(n, i, a * j), f[k + j * (2 * t)])]
           w == [j \in 0 .. d - 1 |-> Times(Turn(n, i, a * j), f[(k + t) + j * (2 * t)])]
           y == [j \in 0 .. d - 1 |-> Times(Turn(n, i, r), w[j])]
           z == [j \in 0 .. d - 1 |-> Plus(v[j], y[j])]
<1>0. n \in Nat /\ k \in Nat /\ t >= 1 /\ 2 * t \in Nat /\ 2 * d \in Nat
  BY PowerIsNat
<1>1. (2 * d) * t = n  BY <1>0
<1>2. k \in 0 .. (2 * t) - 1 /\ k + t \in 0 .. (2 * t) - 1  BY <1>0
<1>3. Terms(u, 2 * d)
  <2>1. \A j \in 0 .. (2 * d) - 1 : Times(Turn(n, i, r * j), f[k + j * t]) \in Complex
    BY <1>0, <1>1, SliceTerms
  <2> QED  BY <2>1 DEF Terms
<1>4. /\ \A j \in 0 .. d - 1 : Times(Turn(n, i, a * j), f[k + j * (2 * t)]) \in Complex
      /\ \A j \in 0 .. d - 1 : f[k + j * (2 * t)] \in Complex
  BY <1>0, <1>2, SliceTerms
<1>5. /\ \A j \in 0 .. d - 1 :
           Times(Turn(n, i, a * j), f[(k + t) + j * (2 * t)]) \in Complex
      /\ \A j \in 0 .. d - 1 : f[(k + t) + j * (2 * t)] \in Complex
  BY <1>0, <1>2, SliceTerms
<1>6. Turn(n, i, r) \in Complex  BY TurnIs
<1>7. Terms(v, d) /\ Terms(w, d)  BY <1>4, <1>5 DEF Terms
<1>8. Terms(y, d)  BY <1>5, <1>6, Closed DEF Terms
<1>9. ASSUME NEW j \in 0 .. d - 1 PROVE u[2 * j] = v[j] /\ u[2 * j + 1] = y[j]
  <2>0. /\ j \in Nat /\ 2 * j \in 0 .. (2 * d) - 1 /\ 2 * j + 1 \in 0 .. (2 * d) - 1
    BY <1>0
  <2>1. PICK g \in Nat : g = a * j  BY <2>0
  <2>2. PICK l \in Nat : l = e * j  BY <2>0
  <2>3. r * (2 * j) = g + l * n
    <3>1. r * (2 * j) = (2 * r) * j  BY <2>0
    <3>2. (a + e * n) * j = a * j + (e * n) * j
      <4>1. e * n \in Nat  BY <1>0
      <4> QED  BY <2>0, <4>1
    <3>3. (e * n) * j = (e * j) * n  BY <1>0, <2>0
    <3> QED  BY <2>1, <2>2, <3>1, <3>2, <3>3
  <2>4. r * (2 * j + 1) = r + r * (2 * j)  BY <2>0
  <2>5. Turn(n, i, r * (2 * j)) = Turn(n, i, a * j)  BY <2>1, <2>2, <2>3, TurnAround
  <2>6. r * (2 * j) \in Nat /\ a * j \in Nat  BY <2>0
  <2>7. Turn(n, i, r * (2 * j + 1)) = Times(Turn(n, i, r), Turn(n, i, a * j))
    <3>1. PICK p \in Nat : p = r * (2 * j)  BY <2>6
    <3>2. Turn(n, i, r + p) = Times(Turn(n, i, r), Turn(n, i, p))  BY TurnIs
    <3> QED  BY <2>4, <2>5, <3>1, <3>2
  <2>8. k + (2 * j) * t = k + j * (2 * t) /\ k + (2 * j + 1) * t = (k + t) + j * (2 * t)
    BY <1>0, <2>0
  <2>9. u[2 * j] = v[j]  BY <2>0, <2>5, <2>8
  <2>10. u[2 * j + 1]
           = Times(Times(Turn(n, i, r), Turn(n, i, a * j)), f[(k + t) + j * (2 * t)])
    BY <2>0, <2>7, <2>8
  <2>11. Turn(n, i, a * j) \in Complex  BY <2>6, TurnIs
  <2>12. y[j] = Times(Turn(n, i, r), Times(Turn(n, i, a * j), f[(k + t) + j * (2 * t)]))
    OBVIOUS
  <2> HIDE DEF u, v, w, y, z
  <2> QED  BY <1>5, <1>6, <2>9, <2>10, <2>11, <2>12, TimesAssociates
<1>10. Total(u, 2 * d) = Total(z, d)
  <2>1. \A j \in 0 .. d - 1 : z[j] = Plus(u[2 * j], u[2 * j + 1])  BY <1>9
  <2> HIDE DEF u, v, w, y, z
  <2> QED  BY <1>3, <2>1, TotalOfPairs
<1>11. Total(z, d) = Plus(Total(v, d), Total(y, d))
  <2>1. \A j \in 0 .. d - 1 : z[j] = Plus(v[j], y[j])  OBVIOUS
  <2> HIDE DEF u, v, w, y, z
  <2> QED  BY <1>7, <1>8, <2>1, TotalOfSums
<1>12. Total(y, d) = Times(Turn(n, i, r), Total(w, d))
  <2>1. \A j \in 0 .. d - 1 : y[j] = Times(Turn(n, i, r), w[j])  OBVIOUS
  <2> HIDE DEF u, v, w, y, z
  <2> QED  BY <1>6, <1>7, <2>1, TotalOfMultiples
<1> QED  BY <1>10, <1>11, <1>12 DEF Slice, Halves

\* After the round that leaves d blocks of length s.
Stage(z, f, n, i, d, s) ==
  \A b \in 0 .. d - 1 : \A k \in 0 .. s - 1 :
    z[b * s + k] = Slice(f, n, i, d, s, Order(n)[b], k)

LEMMA StageDoubles ==
  ASSUME NEW n \in Powers2, NEW h \in Powers2, n = 2 * h, NEW i \in BOOLEAN,
         NEW f \in [0 .. n - 1 -> Complex], NEW z, NEW y,
         NEW d \in Powers2, NEW t \in Nat, d * (2 * t) = n, Stage(z, f, n, i, d, 2 * t),
         \A m \in 0 .. n - 1 :
           y[m] = LET w == Turn(n, i, Butterflies(n)[m \div (2 * t)])
                  IN IF m % (2 * t) < t THEN Plus(z[m], Times(w, z[m + t]))
                     ELSE Minus(z[m - t], Times(w, z[m]))
  PROVE  Stage(y, f, n, i, 2 * d, t)
<1> SUFFICES ASSUME NEW g \in 0 .. (2 * d) - 1, NEW k \in 0 .. t - 1
             PROVE  y[g * t + k] = Slice(f, n, i, 2 * d, t, Order(n)[g], k)
  BY DEF Stage
<1>0. /\ n \in Nat /\ h \in Nat /\ d \in Nat /\ d >= 1 /\ g \in Nat /\ k \in Nat
      /\ t >= 1 /\ 2 * t \in Nat /\ 2 * t > 0
  BY PowerIsNat
<1>1. PICK b \in 0 .. d - 1 : g = 2 * b \/ g = 2 * b + 1
  <2>1. PICK b \in Nat : g = 2 * b \/ g = 2 * b + 1  BY <1>0, HalvesAre
  <2>2. b \in 0 .. d - 1  BY <1>0, <2>1
  <2> QED  BY <2>1, <2>2
<1>2. d * t = h
  <2>1. d * (2 * t) = 2 * (d * t)  BY <1>0
  <2> QED  BY <1>0, <2>1
<1>3. b \in Nat /\ b \in 0 .. h - 1
  <2>1. d <= d * t  BY <1>0
  <2>2. d <= h  BY <1>2, <2>1
  <2> QED  BY <1>0, <1>1, <2>2
<1> DEFINE B == Butterflies(n)[b]
<1>4. /\ B \in Nat
      /\ Order(n)[b] = 2 * B /\ Order(n)[2 * b] = B /\ Order(n)[2 * b + 1] = B + h
  BY <1>3, ButterfliesAre, OrderIs
<1> HIDE DEF B
<1>5. PICK l \in Nat : l = b * (2 * t)  BY <1>0, <1>3
<1>6. /\ k \in 0 .. (2 * t) - 1 /\ k + t \in 0 .. (2 * t) - 1 /\ (k + t) - t = k
      /\ l + k + t = l + (k + t) /\ (l + (k + t)) - t = l + k
      /\ ~(k + t < t) /\ k < t
  BY <1>0, <1>5
<1>7. /\ (l + k) \div (2 * t) = b /\ (l + k) % (2 * t) = k
      /\ (l + (k + t)) \div (2 * t) = b /\ (l + (k + t)) % (2 * t) = k + t
  <2>1. PICK p \in Nat : p = 2 * t  BY <1>0
  <2>2. p > 0 /\ k \in 0 .. p - 1 /\ k + t \in 0 .. p - 1  BY <1>0, <1>6, <2>1
  <2>3. PICK j \in 0 .. p - 1 : j = k + t  BY <2>2
  <2>4. (b * p + k) \div p = b /\ (b * p + k) % p = k  BY <1>3, <2>2, PlaceIs
  <2>5. (b * p + j) \div p = b /\ (b * p + j) % p = j  BY <1>3, <2>2, PlaceIs
  <2> QED  BY <1>5, <2>1, <2>3, <2>4, <2>5
<1>8. l + k \in 0 .. n - 1 /\ l + (k + t) \in 0 .. n - 1
  <2>1. PICK e \in Nat : d = b + 1 + e  BY <1>0, <1>1, <1>3
  <2>2. PICK m \in Nat : m = e * (2 * t)  BY <1>0
  <2>3. d * (2 * t) = l + 2 * t + m  BY <1>0, <1>3, <1>5, <2>1, <2>2
  <2>4. n = l + 2 * t + m  BY <2>3
  <2>5. l + k >= 0 /\ l + (k + t) >= 0 /\ l + k < n /\ l + (k + t) < n
    BY <1>0, <1>6, <2>4
  <2>6. l + k \in Int /\ l + (k + t) \in Int  BY <1>0
  <2> QED  BY <1>0, <2>5, <2>6
<1> DEFINE U == Slice(f, n, i, d, 2 * t, 2 * B, k)
           V == Slice(f, n, i, d, 2 * t, 2 * B, k + t)
           W == Turn(n, i, B)
<1>9. z[l + k] = U /\ z[l + (k + t)] = V
  BY <1>1, <1>4, <1>5, <1>6 DEF Stage
<1>10. U \in Complex /\ V \in Complex
  <2>1. 2 * B \in Nat  BY <1>4
  <2> QED  BY <1>0, <1>6, <2>1, SliceTerms
<1>11. W \in Complex  BY <1>4, TurnIs
<1>12. Slice(f, n, i, 2 * d, t, B, k) = Plus(U, Times(W, V))
  <2>1. PICK a \in Nat : a = 2 * B  BY <1>4
  <2>2. PICK e \in Nat : e = 0  OBVIOUS
  <2>3. 2 * B = a + e * n  BY <1>0, <2>1, <2>2
  <2>4. PICK r \in Nat : r = B  BY <1>4
  <2>5. 2 * r = a + e * n  BY <2>3, <2>4
  <2>6. d \in Nat  BY <1>0
  <2>7. Halves(f, n, i, d, t, r, a, k)  BY <2>5, <2>6, SliceOfHalves
  <2> QED  BY <2>1, <2>4, <2>7 DEF Halves
<1>13. Slice(f, n, i, 2 * d, t, B + h, k) = Plus(U, Times(Turn(n, i, B + h), V))
  <2>1. PICK a \in Nat : a = 2 * B  BY <1>4
  <2>2. PICK e \in Nat : e = 1  OBVIOUS
  <2>3. PICK r \in Nat : r = B + h  BY <1>0, <1>4
  <2>4. 2 * r = a + e * n  BY <1>0, <1>4, <2>1, <2>2, <2>3
  <2>5. d \in Nat  BY <1>0
  <2>6. Halves(f, n, i, d, t, r, a, k)  BY <2>4, <2>5, SliceOfHalves
  <2> QED  BY <2>1, <2>3, <2>6 DEF Halves
<1>14. Times(Turn(n, i, B + h), V) = Times(Back, Times(W, V))
  <2>1. Turn(n, i, B + h) = Times(W, Back)  BY <1>0, <1>4, TurnIs
  <2>2. Back \in Complex  BY Closed
  <2> HIDE DEF U, V, W
  <2>3. Times(W, Back) = Times(Back, W)  BY <1>11, <2>2, TimesRules
  <2> QED  BY <1>10, <1>11, <2>1, <2>2, <2>3, TimesAssociates
<1>15. Slice(f, n, i, 2 * d, t, B + h, k) = Minus(U, Times(W, V))
  <2> HIDE DEF U, V, W
  <2>1. Times(W, V) \in Complex  BY <1>10, <1>11, Closed
  <2> QED  BY <1>10, <1>13, <1>14, <2>1, MinusIs
<1>16. y[l + k] = Plus(U, Times(W, V))
  <2> HIDE DEF U, V
  <2> QED  BY <1>6, <1>7, <1>8, <1>9 DEF B
<1>17. y[l + (k + t)] = Minus(U, Times(W, V))
  <2> HIDE DEF U, V
  <2> QED  BY <1>6, <1>7, <1>8, <1>9 DEF B
<1>18. CASE g = 2 * b
  <2>1. g * t + k = l + k  BY <1>0, <1>3, <1>5, <1>18
  <2> HIDE DEF U, V, W
  <2> QED  BY <1>4, <1>12, <1>16, <1>18, <2>1
<1>19. CASE g = 2 * b + 1
  <2>1. g * t + k = l + (k + t)  BY <1>0, <1>3, <1>5, <1>19
  <2> HIDE DEF U, V, W
  <2> QED  BY <1>4, <1>15, <1>17, <1>19, <2>1
<1> QED  BY <1>1, <1>18, <1>19

\* The transform of f at frequency k.
Dft(f, n, i, k) == Total([j \in 0 .. n - 1 |-> Times(Turn(n, i, k * j), f[j])], n)

LEMMA DftTerms ==
  ASSUME NEW n \in Powers2, NEW i \in BOOLEAN, NEW f \in [0 .. n - 1 -> Complex],
         NEW k \in Nat
  PROVE  /\ Terms([j \in 0 .. n - 1 |-> Times(Turn(n, i, k * j), f[j])], n)
         /\ Dft(f, n, i, k) \in Complex
<1>0. n \in Nat  BY PowerIsNat
<1>1. ASSUME NEW j \in 0 .. n - 1 PROVE Times(Turn(n, i, k * j), f[j]) \in Complex
  <2>1. k * j \in Nat  BY <1>0
  <2> QED  BY <2>1, TurnIs, Closed
<1>2. Terms([j \in 0 .. n - 1 |-> Times(Turn(n, i, k * j), f[j])], n)
  BY <1>1 DEF Terms
<1> QED  BY <1>0, <1>2, TotalInComplex DEF Dft

LEMMA FirstStage ==
  ASSUME NEW n \in Powers2, NEW h \in Powers2, n = 2 * h, NEW i \in BOOLEAN,
         NEW f \in [0 .. n - 1 -> Complex]
  PROVE  Stage(f, f, n, i, 1, n)
<1> SUFFICES ASSUME NEW b \in 0 .. 1 - 1, NEW k \in 0 .. n - 1
             PROVE  f[b * n + k] = Slice(f, n, i, 1, n, Order(n)[b], k)
  BY DEF Stage
<1>0. n \in Nat /\ n >= 1 /\ b = 0 /\ b * n + k = k /\ k + 0 * n = k /\ 0 \in 0 .. n - 1
  BY PowerIsNat
<1>1. PICK a \in Nat : a = Order(n)[b]  BY <1>0, OrderIs
<1> DEFINE u == [j \in 0 .. 1 - 1 |-> Times(Turn(n, i, a * j), f[k + j * n])]
<1>2. a * 0 = 0  OBVIOUS
<1>3. u[0] = Times(Turn(n, i, 0), f[k])  BY <1>0, <1>2
<1>4. u[0] = f[k]  BY <1>0, <1>3, TurnIs, TimesRules
<1>5. Total(u, 1) = u[0]
  <2>1. 0 \in 0 .. 1 - 1 /\ \A j \in 0 .. 1 - 1 : j # 0 => u[j] = Zero  OBVIOUS
  <2>2. u[0] \in Complex  BY <1>0, <1>4
  <2> HIDE DEF u
  <2> QED  BY <2>1, <2>2, TotalOfOne
<1> QED  BY <1>0, <1>1, <1>4, <1>5 DEF Slice

LEMMA LastStage ==
  ASSUME NEW n \in Powers2, NEW h \in Powers2, n = 2 * h, NEW i \in BOOLEAN,
         NEW f \in [0 .. n - 1 -> Complex], NEW z, Stage(z, f, n, i, n, 1)
  PROVE  \A b \in 0 .. n - 1 : z[b] = Dft(f, n, i, Order(n)[b])
<1> SUFFICES ASSUME NEW b \in 0 .. n - 1 PROVE z[b] = Dft(f, n, i, Order(n)[b])
  OBVIOUS
<1>0. n \in Nat /\ b * 1 + 0 = b /\ 0 \in 0 .. 1 - 1  BY PowerIsNat
<1>1. z[b * 1 + 0] = Slice(f, n, i, n, 1, Order(n)[b], 0)  BY <1>0 DEF Stage
<1>2. \A j \in 0 .. n - 1 : 0 + j * 1 = j  BY <1>0
<1> QED  BY <1>0, <1>1, <1>2 DEF Slice, Dft

-----------------------------------------------------------------------------
(* The last loop. *)

\* Up to place e the numbers are in order; the rest of the permutation is left.
Swapped(z, p, R, D, n, e) ==
  \A k \in 0 .. n - 1 :
    /\ z[k] = IF k < e \/ R[k] < e THEN D[k] ELSE D[R[k]]
    /\ k >= e => p[k] = IF R[k] < e THEN k ELSE R[k]

OwnInverse(R, n) == \A k \in 0 .. n - 1 : R[k] \in 0 .. n - 1 /\ R[R[k]] = k

LEMMA SwapsGoOn ==
  ASSUME NEW n \in Nat, NEW R, OwnInverse(R, n), NEW D,
         NEW z \in [0 .. n - 1 -> Complex], NEW p \in [0 .. n - 1 -> 0 .. n - 1],
         NEW e \in 0 .. n - 1, Swapped(z, p, R, D, n, e)
  PROVE  /\ p[e] \in 0 .. n - 1
         /\ p[e] = e => Swapped(z, p, R, D, n, e + 1)
         /\ p[e] # e =>
              Swapped([z EXCEPT ![e] = z[p[e]], ![p[e]] = z[e]],
                      [p EXCEPT ![p[e]] = p[e]], R, D, n, e + 1)
<1>0. e \in Int /\ \A k \in 0 .. n - 1 : k \in Int /\ R[k] \in Int  BY DEF OwnInverse
<1>a. \A a, b \in Int : /\ (a < b + 1) <=> (a < b \/ a = b)
                         /\ a >= b + 1 => a >= b /\ a # b /\ ~(a < b)
  OBVIOUS
<1>1. p[e] = IF R[e] < e THEN e ELSE R[e]  BY <1>0 DEF Swapped
<1>2. ASSUME p[e] = e PROVE Swapped(z, p, R, D, n, e + 1)
  <2>1. R[e] <= e  BY <1>0, <1>1, <1>2
  <2>2. ASSUME NEW k \in 0 .. n - 1, k # e PROVE R[k] < e + 1 => k < e \/ R[k] < e
    <3>1. PICK r \in Int : r = R[k]  BY <1>0
    <3>2. r < e + 1 <=> (r < e \/ r = e)  BY <1>0, <1>a
    <3>3. ASSUME r = e PROVE k < e
      <4>1. R[e] = k  BY <3>1, <3>3 DEF OwnInverse
      <4> QED  BY <1>0, <2>1, <2>2, <4>1
    <3> QED  BY <3>1, <3>2, <3>3
  <2>3. R[e] < e \/ R[e] = e  BY <1>0, <2>1
  <2>4. ASSUME NEW k \in 0 .. n - 1
        PROVE  z[k] = IF k < e + 1 \/ R[k] < e + 1 THEN D[k] ELSE D[R[k]]
    <3>1. z[k] = IF k < e \/ R[k] < e THEN D[k] ELSE D[R[k]]  BY DEF Swapped
    <3>2. CASE k = e  BY <1>0, <2>3, <3>1, <3>2
    <3>3. CASE k # e
      <4>1. k < e + 1 \/ R[k] < e + 1 <=> k < e \/ R[k] < e
        <5>1. PICK r \in Int : r = R[k]  BY <1>0
        <5>2. r < e + 1 => k < e \/ r < e  BY <2>2, <3>3, <5>1
        <5>3. (r < e => r < e + 1) /\ (k < e + 1 <=> k < e)  BY <1>0, <3>3
        <5> QED  BY <5>1, <5>2, <5>3
      <4> QED  BY <3>1, <4>1
    <3> QED  BY <3>2, <3>3
  <2>5. ASSUME NEW k \in 0 .. n - 1, k >= e + 1
        PROVE  p[k] = IF R[k] < e + 1 THEN k ELSE R[k]
    <3>1. k >= e /\ k # e /\ ~(k < e)  BY <1>0, <1>a, <2>5
    <3>2. p[k] = IF R[k] < e THEN k ELSE R[k]  BY <3>1 DEF Swapped
    <3>3. R[k] < e + 1 <=> R[k] < e
      <4>1. R[k] < e + 1 => k < e \/ R[k] < e  BY <2>2, <3>1
      <4>2. PICK r \in Int : r = R[k]  BY <1>0
      <4>3. r < e => r < e + 1  BY <1>0
      <4> QED  BY <3>1, <4>1, <4>2, <4>3
    <3> QED  BY <3>2, <3>3
  <2> QED  BY <2>4, <2>5 DEF Swapped
<1>3. ASSUME p[e] # e
      PROVE  Swapped([z EXCEPT ![e] = z[p[e]], ![p[e]] = z[e]],
                     [p EXCEPT ![p[e]] = p[e]], R, D, n, e + 1)
  <2> DEFINE s == R[e]
  <2>1. p[e] = s /\ s > e /\ s \in 0 .. n - 1 /\ R[s] = e
    BY <1>0, <1>1, <1>3 DEF OwnInverse
  <2> DEFINE zz == [z EXCEPT ![e] = z[s], ![s] = z[e]]
             pp == [p EXCEPT ![s] = s]
  <2>2. z[s] = D[e] /\ z[e] = D[s]  BY <1>0, <2>1 DEF Swapped
  <2>3. zz[e] = D[e] /\ zz[s] = D[s] /\ pp[s] = s  BY <1>0, <2>1, <2>2
  <2>4. ASSUME NEW k \in 0 .. n - 1, k # e, k # s
        PROVE  zz[k] = z[k] /\ pp[k] = p[k] /\ R[k] # e
    <3>1. R[k] # e  BY <2>4 DEF OwnInverse
    <3> QED  BY <2>4, <3>1
  <2>5. ASSUME NEW k \in 0 .. n - 1
        PROVE  /\ zz[k] = IF k < e + 1 \/ R[k] < e + 1 THEN D[k] ELSE D[R[k]]
               /\ k >= e + 1 => pp[k] = IF R[k] < e + 1 THEN k ELSE R[k]
    <3>1. CASE k = e
      <4>1. k < e + 1 /\ ~(k >= e + 1)  BY <1>0, <3>1
      <4> HIDE DEF zz, pp, s
      <4> QED  BY <2>3, <3>1, <4>1
    <3>2. CASE k = s
      <4>1. R[k] < e + 1  BY <1>0, <2>1, <3>2
      <4> HIDE DEF zz, pp, s
      <4> QED  BY <2>3, <3>2, <4>1
    <3>3. CASE k # e /\ k # s
      <4>1. zz[k] = z[k] /\ pp[k] = p[k] /\ R[k] # e  BY <2>4, <3>3
      <4>2. k \in Int /\ R[k] \in Int  BY <1>0
      <4>3. (k < e + 1 <=> k < e) /\ (R[k] < e + 1 <=> R[k] < e) /\ (k >= e + 1 => k >= e)
        <5>1. PICK r \in Int : r = R[k]  BY <1>0
        <5>2. (k < e + 1 <=> k < e) /\ (k >= e + 1 => k >= e)  BY <1>0, <1>a, <3>3
        <5>3. r # e => (r < e + 1 <=> r < e)  BY <1>0, <1>a
        <5> QED  BY <4>1, <5>1, <5>2, <5>3
      <4> HIDE DEF zz, pp, s
      <4> QED  BY <4>1, <4>3 DEF Swapped
    <3> QED  BY <3>1, <3>2, <3>3
  <2> HIDE DEF zz, pp
  <2>6. Swapped(zz, pp, R, D, n, e + 1)  BY <2>5 DEF Swapped
  <2> QED  BY <2>1, <2>6 DEF zz, pp
<1> QED  BY <1>2, <1>3

-----------------------------------------------------------------------------
(* A sum from its other end. *)

LEMMA TotalFromFirst ==
  ASSUME NEW n \in Nat, NEW u, NEW v, Terms(u, n + 1),
         \A j \in 0 .. n - 1 : v[j] = u[j + 1]
  PROVE  Total(u, n + 1) = Plus(u[0], Total(v, n))
<1> DEFINE G == [m \in 0 .. n + 1 |-> IF m = 0 THEN Zero ELSE Plus(u[0], Total(v, m - 1))]
<1>1. \A j \in 0 .. n : u[j] \in Complex  BY DEF Terms
<1>2. Terms(v, n)
  <2>1. \A j \in 0 .. n - 1 : j + 1 \in 0 .. n  OBVIOUS
  <2> QED  BY <1>1, <2>1 DEF Terms
<1>3. /\ Total(v, 0) = Zero /\ \A m \in 0 .. n : Total(v, m) \in Complex
      /\ \A m \in 0 .. n - 1 : Total(v, m + 1) = Plus(Total(v, m), v[m])
  BY <1>2, TotalIs
<1>4. u[0] \in Complex  BY <1>1
<1>5. ASSUME NEW m \in 0 .. n PROVE G[m + 1] = Plus(G[m], u[m])
  <2>1. G[m + 1] = Plus(u[0], Total(v, m))
    <3>1. m + 1 \in 0 .. n + 1 /\ m + 1 # 0 /\ (m + 1) - 1 = m  OBVIOUS
    <3> QED  BY <3>1
  <2>2. CASE m = 0
    <3>1. G[m] = Zero  BY <2>2
    <3> HIDE DEF G
    <3> QED  BY <1>3, <1>4, <2>1, <2>2, <3>1, PlusRules
  <2>3. CASE m # 0
    <3>1. PICK e \in 0 .. n - 1 : m = e + 1  BY <2>3
    <3>2. G[m] = Plus(u[0], Total(v, e))
      <4>1. m \in 0 .. n + 1 /\ m - 1 = e  BY <3>1
      <4> QED  BY <2>3, <4>1
    <3>3. Total(v, m) = Plus(Total(v, e), u[m])  BY <1>3, <3>1
    <3>4. Total(v, e) \in Complex /\ u[m] \in Complex
      <4>1. e \in 0 .. n  BY <3>1
      <4> QED  BY <1>1, <1>3, <4>1
    <3> HIDE DEF G
    <3> QED  BY <1>4, <2>1, <3>2, <3>3, <3>4, PlusRules
  <2> QED  BY <2>2, <2>3
<1>6. G[0] = Zero  OBVIOUS
<1>7. G[n + 1] = Plus(u[0], Total(v, n))
  <2>1. n + 1 \in 0 .. n + 1 /\ n + 1 # 0 /\ (n + 1) - 1 = n  OBVIOUS
  <2> QED  BY <2>1
<1> HIDE DEF G
<1>8. PICK l \in Nat : l = n + 1  OBVIOUS
<1>9. \A m \in 0 .. l - 1 : G[m + 1] = Plus(G[m], u[m])  BY <1>5, <1>8
<1>10. \A m \in 0 .. l : Total(u, m) = G[m]  BY <1>6, <1>8, <1>9, TotalUnique
<1> QED  BY <1>7, <1>8, <1>10

LEMMA TotalReversed ==
  ASSUME NEW n \in Nat, NEW f, NEW h, Terms(f, n),
         \A j \in 0 .. n - 1 : h[j] = f[n - 1 - j]
  PROVE  Total(h, n) = Total(f, n)
<1> DEFINE Last(m) == [j \in 0 .. m - 1 |-> f[n - m + j]]
           G == [m \in 0 .. n |-> Total(Last(m), m)]
<1>1. Terms(h, n)
  <2>1. \A j \in 0 .. n - 1 : n - 1 - j \in 0 .. n - 1  OBVIOUS
  <2> QED  BY <2>1 DEF Terms
<1>2. ASSUME NEW m \in 0 .. n PROVE Terms(Last(m), m)
  <2>1. \A j \in 0 .. m - 1 : n - m + j \in 0 .. n - 1  OBVIOUS
  <2> QED  BY <2>1 DEF Terms
<1>3. G[0] = Zero
  <2>1. Terms(Last(0), 0)
    <3>1. 0 \in 0 .. n  OBVIOUS
    <3> HIDE DEF Last
    <3> QED  BY <1>2, <3>1
  <2>2. Total(Last(0), 0) = Zero
    <3> HIDE DEF Last
    <3> QED  BY <2>1, TotalIs
  <2> QED  BY <2>2
<1>4. ASSUME NEW m \in 0 .. n - 1 PROVE G[m + 1] = Plus(G[m], h[m])
  <2>0. m \in Nat /\ m \in 0 .. n /\ m + 1 \in 0 .. n  OBVIOUS
  <2>1. Terms(Last(m + 1), m + 1)  BY <1>2, <2>0
  <2>2. ASSUME NEW j \in 0 .. m - 1 PROVE Last(m)[j] = Last(m + 1)[j + 1]
    <3>1. j + 1 \in 0 .. (m + 1) - 1 /\ n - (m + 1) + (j + 1) = n - m + j  OBVIOUS
    <3> QED  BY <3>1
  <2>3. Last(m + 1)[0] = h[m]
    <3>1. 0 \in 0 .. (m + 1) - 1 /\ n - (m + 1) + 0 = n - 1 - m  OBVIOUS
    <3> QED  BY <3>1
  <2>4. PICK u : u = Last(m + 1)  OBVIOUS
  <2>5. PICK v : v = Last(m)  OBVIOUS
  <2>6. Total(u, m + 1) = Plus(u[0], Total(v, m))
    <3>1. Terms(u, m + 1) /\ \A j \in 0 .. m - 1 : v[j] = u[j + 1]
      BY <2>1, <2>2, <2>4, <2>5
    <3> HIDE DEF Last
    <3> QED  BY <2>0, <3>1, TotalFromFirst
  <2>7. G[m + 1] = Total(u, m + 1) /\ G[m] = Total(v, m)  BY <2>0, <2>4, <2>5
  <2>8. h[m] \in Complex  BY <1>1 DEF Terms
  <2>9. Total(v, m) \in Complex
    <3>1. Terms(v, m)  BY <1>2, <2>0, <2>5
    <3> QED  BY <2>0, <3>1, TotalInComplex
  <2> HIDE DEF Last, G
  <2> QED  BY <2>3, <2>4, <2>6, <2>7, <2>8, <2>9, PlusRules
<1>5. Total(Last(n), n) = Total(f, n)
  <2>1. \A j \in 0 .. n - 1 : Last(n)[j] = f[j]  OBVIOUS
  <2> HIDE DEF Last
  <2> QED  BY <2>1, TotalEqual
<1>6. G[n] = Total(f, n)  BY <1>5
<1> HIDE DEF G
<1>7. \A m \in 0 .. n : Total(h, m) = G[m]  BY <1>1, <1>3, <1>4, TotalUnique
<1> QED  BY <1>6, <1>7

-----------------------------------------------------------------------------
(* The inverse transform. *)

\* Angles that add up to whole turns.
WholeTurns(n, a, b) == \E e \in Nat : a + b = e * n

LEMMA Opposite ==
  ASSUME NEW n \in Powers2, NEW a \in Nat, NEW b \in Nat, WholeTurns(n, a, b)
  PROVE  /\ Turn(n, FALSE, a) = Turn(n, TRUE, b)
         /\ Turn(n, FALSE, a) = Conj(Turn(n, FALSE, b))
<1>1. Times(Turn(n, FALSE, a), Turn(n, FALSE, b)) = One
  <2>0. PICK e \in Nat : a + b = e * n  BY DEF WholeTurns
  <2>1. Turn(n, FALSE, a + b) = One  BY <2>0, TurnAround
  <2> QED  BY <2>1, TurnIs
<1>2. Times(Turn(n, FALSE, b), Turn(n, TRUE, b)) = One /\ Turn(n, TRUE, b) = Conj(Turn(n, FALSE, b))
  BY TurnBack
<1>3. /\ Turn(n, FALSE, a) \in Complex /\ Turn(n, FALSE, b) \in Complex
      /\ Turn(n, TRUE, b) \in Complex
  BY TurnIs
<1>4. Times(Times(Turn(n, FALSE, a), Turn(n, FALSE, b)), Turn(n, TRUE, b))
        = Times(Turn(n, FALSE, a), Times(Turn(n, FALSE, b), Turn(n, TRUE, b)))
  BY <1>3, TimesAssociates
<1> QED  BY <1>1, <1>2, <1>3, <1>4, TimesRules

\* The sum of the powers of a root of one.
Round(n, d, h) == Total([m \in 0 .. h - 1 |-> Turn(n, TRUE, d * m)], h)

LEMMA RoundHalves ==
  ASSUME NEW n \in Powers2, NEW d \in Nat, NEW g \in Nat
  PROVE  Round(n, d, 2 * g) = Times(Plus(One, Turn(n, TRUE, d)), Round(n, 2 * d, g))
<1> DEFINE f == [m \in 0 .. (2 * g) - 1 |-> Turn(n, TRUE, d * m)]
           v == [m \in 0 .. g - 1 |-> Turn(n, TRUE, (2 * d) * m)]
           w == Plus(One, Turn(n, TRUE, d))
           h == [m \in 0 .. g - 1 |-> Times(w, v[m])]
<1>1. /\ \A m \in 0 .. (2 * g) - 1 : d * m \in Nat
      /\ \A m \in 0 .. g - 1 : (2 * d) * m \in Nat
  <2>1. \A m \in 0 .. (2 * g) - 1 : m \in Nat  OBVIOUS
  <2>2. \A m \in 0 .. g - 1 : m \in Nat  OBVIOUS
  <2> QED  BY <2>1, <2>2
<1>2. Terms(f, 2 * g) /\ Terms(v, g)  BY <1>1, TurnIs DEF Terms
<1>3. w \in Complex /\ Turn(n, TRUE, d) \in Complex  BY TurnIs, Closed
<1>4. ASSUME NEW m \in 0 .. g - 1 PROVE h[m] = Plus(f[2 * m], f[2 * m + 1])
  <2>0. m \in Nat /\ 2 * m \in 0 .. (2 * g) - 1 /\ 2 * m + 1 \in 0 .. (2 * g) - 1  OBVIOUS
  <2>1. PICK a \in Nat : a = (2 * d) * m  BY <1>1
  <2>2. d * (2 * m) = a /\ d * (2 * m + 1) = d + a  BY <2>0, <2>1
  <2>3. f[2 * m] = Turn(n, TRUE, a) /\ f[2 * m + 1] = Turn(n, TRUE, d + a)
    BY <2>0, <2>2
  <2>4. Turn(n, TRUE, d + a) = Times(Turn(n, TRUE, d), Turn(n, TRUE, a)) /\ Turn(n, TRUE, a) \in Complex
    BY TurnIs
  <2>5. h[m] = Times(w, Turn(n, TRUE, a))  BY <2>1
  <2>6. Times(w, Turn(n, TRUE, a))
          = Plus(Times(One, Turn(n, TRUE, a)), Times(Turn(n, TRUE, d), Turn(n, TRUE, a)))
    <3>1. PICK t \in Complex : t = Turn(n, TRUE, a)  BY <2>4
    <3>2. PICK e \in Complex : e = Turn(n, TRUE, d)  BY <1>3
    <3>3. PICK o \in Complex : o = One  BY Closed
    <3>4. Times(Plus(o, e), t) = Plus(Times(o, t), Times(e, t))  BY TimesDistributes
    <3> QED  BY <3>1, <3>2, <3>3, <3>4
  <2> HIDE DEF h, f, v, w
  <2> QED  BY <2>3, <2>4, <2>5, <2>6, TimesRules
<1>5. \A m \in 0 .. g - 1 : h[m] = Times(w, v[m])  OBVIOUS
<1> HIDE DEF h, f, v, w
<1>6. Total(f, 2 * g) = Total(h, g)  BY <1>2, <1>4, TotalOfPairs
<1>7. Total(h, g) = Times(w, Total(v, g))  BY <1>2, <1>3, <1>5, TotalOfMultiples
<1> QED  BY <1>6, <1>7 DEF Round, f, v, w

LEMMA RoundIsZero ==
  ASSUME NEW n \in Powers2, NEW d \in Nat, d % n # 0
  PROVE  Round(n, d, n) = Zero
<1>0. n \in Nat /\ n >= 1  BY PowerIsNat
<1> DEFINE Bad(h, a) == a % n # 0 /\ Round(n, a, h) # Zero
           S == {h \in Powers2 : \E a, q \in Nat : a * h = n * q /\ Bad(h, a)}
<1>1. S = {}
  <2> SUFFICES ASSUME S # {} PROVE FALSE  OBVIOUS
  <2>1. PICK h \in S : \A i \in S : h <= i
    <3>1. S \subseteq Nat  BY PowerIsNat
    <3> HIDE DEF S
    <3> QED  BY <3>1, SmallestExists
  <2>2. h \in Powers2 /\ \E a, q \in Nat : a * h = n * q /\ Bad(h, a)  OBVIOUS
  <2>3. PICK a \in Nat, q \in Nat : a * h = n * q /\ Bad(h, a)  BY <2>2
  <2>4. h # 1
    <3> SUFFICES ASSUME h = 1 PROVE FALSE  OBVIOUS
    <3>1. a = 0 + n * q /\ 0 \in Int /\ a \in Int /\ q \in Int  BY <1>0, <2>3
    <3>2. a % n = 0 % n  BY <1>0, <3>1, SameRemainder
    <3> QED  BY <1>0, <2>3, <3>2
  <2>5. PICK g \in Powers2 : h = 2 * g  BY <2>2, <2>4, HalfIs
  <2>6. g \in Nat /\ g >= 1 /\ g < h /\ h \in Nat  BY <2>2, <2>5, PowerIsNat
  <2>7. Round(n, a, h) = Times(Plus(One, Turn(n, TRUE, a)), Round(n, 2 * a, g))
    <3>1. g \in Nat  BY <2>6
    <3>2. Round(n, a, 2 * g) = Times(Plus(One, Turn(n, TRUE, a)), Round(n, 2 * a, g))
      BY <3>1, RoundHalves
    <3> QED  BY <2>5, <3>2
  <2>8. PICK p \in Nat : p = 2 * a  OBVIOUS
  <2>9. p * g = n * q  BY <2>3, <2>5, <2>6, <2>8
  <2>10. Plus(One, Turn(n, TRUE, a)) \in Complex /\ Round(n, p, g) \in Complex
    <3>1. \A m \in 0 .. g - 1 : p * m \in Nat
      <4>1. \A m \in 0 .. g - 1 : m \in Nat  BY <2>6
      <4> QED  BY <4>1
    <3>2. Terms([m \in 0 .. g - 1 |-> Turn(n, TRUE, p * m)], g)
      BY <3>1, TurnIs DEF Terms
    <3> QED  BY <2>6, <3>2, TurnIs, Closed, TotalInComplex DEF Round
  <2>11. CASE p % n # 0
    <3>1. g \notin S
      <4> HIDE DEF S
      <4> QED  BY <2>1, <2>6
    <3>2. Round(n, p, g) = Zero  BY <2>9, <2>11, <3>1
    <3>3. Round(n, a, h) = Zero  BY <2>7, <2>8, <2>10, <3>2, TimesRules
    <3> QED  BY <2>3, <3>3
  <2>12. CASE p % n = 0
    <3>1. n # 1
      <4>1. a % 1 = 0  OBVIOUS
      <4> QED  BY <2>3, <4>1
    <3>2. PICK l \in Powers2 : n = 2 * l  BY <3>1, HalfIs
    <3>0. n > 0 /\ a \in Int /\ p \in Int  BY <1>0
    <3>3. PICK r \in Int : a = (a % n) + n * r  BY Zenon, <1>0, <3>0, DivRem
    <3>4. a % n = l
      <4>1. PICK b \in 0 .. n - 1 : b = a % n  BY <1>0, <3>0, DivRem
      <4>2. PICK s \in Int : p = 0 + n * s
        <5>1. PICK s \in Int : p = (p % n) + n * s  BY Zenon, <1>0, <3>0, DivRem
        <5> QED  BY <2>12, <5>1
      <4>3. PICK e \in Int : e = s - 2 * r  BY <3>3
      <4>4. n * e = n * s - 2 * (n * r)  BY <1>0, <3>3, <4>2, <4>3
      <4>5. PICK y \in Int : y = n * r  BY <1>0, <3>3
      <4>6. 2 * b = n * e
        <5>1. a = b + y  BY <3>3, <4>1, <4>5
        <5>2. PICK v \in Int : v = n * s  BY <1>0, <4>2
        <5>3. p = v /\ n * e = v - 2 * y  BY <4>2, <4>4, <4>5, <5>2
        <5> QED  BY <2>8, <4>5, <5>1, <5>2, <5>3
      <4>7. b # 0  BY <2>3, <4>1
      <4>8. e = 1
        <5>1. PICK t \in Int : t = e - 1  BY <4>3
        <5>2. n * t = n * e - n  BY <1>0, <4>3, <5>1
        <5>3. -n < n * t /\ n * t < n  BY <1>0, <4>1, <4>6, <4>7, <5>2
        <5>4. t = 0  BY <1>0, <5>3, SmallMultiple
        <5> QED  BY <4>3, <5>1, <5>4
      <4> QED  BY <1>0, <3>2, <4>1, <4>6, <4>8, PowerIsNat
    <3>5. r \in Nat
      <4>1. l \in Nat /\ l < n  BY <1>0, <3>2, PowerIsNat
      <4>2. n * r > -n  BY <1>0, <3>3, <3>4, <4>1
      <4> SUFFICES ASSUME r <= -1 PROVE FALSE  BY <3>3
      <4>3. PICK u \in Nat : u = -1 - r  BY <3>3
      <4>4. n * r = -n - n * u /\ n * u \in Nat  BY <1>0, <3>3, <4>3
      <4> QED  BY <1>0, <4>2, <4>4
    <3>6. Turn(n, TRUE, a) = Turn(n, TRUE, l)
      <4>1. l \in Nat /\ a = l + r * n  BY <1>0, <3>2, <3>3, <3>4, <3>5, PowerIsNat
      <4>2. PICK i \in BOOLEAN : i = TRUE  OBVIOUS
      <4>3. PICK b \in Nat : b = l  BY <4>1
      <4>4. Turn(n, i, b + r * n) = Turn(n, i, b)  BY <3>5, TurnAround
      <4> QED  BY <4>1, <4>2, <4>3, <4>4
    <3>7. Turn(n, TRUE, l) = Back  BY <3>2, PowerIsNat, TurnIs
    <3>8. Round(n, a, h) = Times(Zero, Round(n, p, g))
      BY <2>7, <2>8, <3>6, <3>7, MinusIs
    <3> QED  BY <2>3, <2>10, <3>8, TimesRules
  <2> QED  BY <2>11, <2>12
<1>2. n \notin S  BY <1>1
<1>3. d * n = n * d  BY <1>0
<1> QED  BY <1>2, <1>3

Copies(n) == <<n % Prime, 0>>

LEMMA CopiesAre ==
  /\ \A n \in Nat : Copies(n) \in Complex
  /\ Copies(0) = Zero
  /\ \A n \in Nat : Copies(n + 1) = Plus(Copies(n), One)
<1>1. ASSUME NEW n \in Nat PROVE Copies(n) \in Complex
  <2>1. n % Prime \in Number  BY InNumber
  <2> QED  BY <2>1, NumberIs, ComplexIs DEF Copies
<1>2. Copies(0) = Zero
  <2>1. 0 % Prime = 0  BY NumberIs, SmallRemainder
  <2> QED  BY <2>1 DEF Copies, Zero
<1>3. ASSUME NEW n \in Nat PROVE Copies(n + 1) = Plus(Copies(n), One)
  <2>1. ((n % Prime) + 1) % Prime = (n + 1) % Prime  BY RemainderOfSum
  <2>2. (0 + 0) % Prime = 0
    <3>1. 0 + 0 = 0  OBVIOUS
    <3> QED  BY <3>1, NumberIs, SmallRemainder
  <2> QED  BY <2>1, <2>2 DEF Copies, Plus, One
<1> QED  BY <1>1, <1>2, <1>3

LEMMA RoundIsWhole ==
  ASSUME NEW n \in Powers2, NEW d \in Nat, d % n = 0
  PROVE  Round(n, d, n) = Copies(n)
<1>0. n \in Nat /\ n >= 1 /\ n > 0 /\ d \in Int  BY PowerIsNat
<1>1. PICK q \in Int : d = n * q
  <2>1. PICK q \in Int : d = (d % n) + n * q  BY Zenon, <1>0, DivRem
  <2>2. n * q \in Int  BY <1>0
  <2> QED  BY <2>1, <2>2
<1>2. q \in Nat
  <2> SUFFICES ASSUME q <= -1 PROVE FALSE  BY <1>1
  <2>1. PICK u \in Nat : u = -1 - q  BY <1>1
  <2>2. n * q = -n - n * u /\ n * u \in Nat  BY <1>0, <1>1, <2>1
  <2> QED  BY <1>0, <1>1, <2>2
<1> DEFINE f == [m \in 0 .. n - 1 |-> Turn(n, TRUE, d * m)]
           G == [m \in Nat |-> Copies(m)]
<1>3. ASSUME NEW m \in 0 .. n - 1 PROVE f[m] = One
  <2>1. PICK p \in Nat : p = q * m  BY <1>2
  <2>2. d * m = p * n
    <3>1. (n * q) * m = (q * m) * n  BY <1>0, <1>2
    <3> QED  BY <1>1, <2>1, <3>1
  <2>3. PICK i \in BOOLEAN : i = TRUE  OBVIOUS
  <2>4. Turn(n, i, p * n) = One  BY TurnAround
  <2> QED  BY <2>2, <2>3, <2>4
<1>4. Terms(f, n)  BY <1>3, Closed DEF Terms
<1>5. /\ G[0] = Zero /\ G[n] = Copies(n)
      /\ \A m \in 0 .. n - 1 : G[m + 1] = Plus(G[m], f[m])
  <2>1. \A m \in 0 .. n - 1 : m \in Nat /\ m + 1 \in Nat  BY <1>0
  <2> HIDE DEF f
  <2> QED  BY <1>0, <1>3, <2>1, CopiesAre
<1> HIDE DEF f, G
<1>6. \A m \in 0 .. n : Total(f, m) = G[m]  BY <1>0, <1>4, <1>5, TotalUnique
<1>7. n \in 0 .. n  BY <1>0
<1> QED  BY <1>5, <1>6, <1>7 DEF Round, f

\* Forward by j places and back by l is a turn by their difference.
LEMMA TurnsTogether ==
  ASSUME NEW n \in Powers2, NEW l \in Nat, NEW m \in Nat, NEW j \in 0 .. n
  PROVE  /\ Turn(n, TRUE, l * m) \in Complex /\ Turn(n, FALSE, m * j) \in Complex
         /\ Turn(n, TRUE, (l + (n - j)) * m) \in Complex
         /\ Times(Turn(n, TRUE, l * m), Turn(n, FALSE, m * j))
              = Turn(n, TRUE, (l + (n - j)) * m)
<1>0. n \in Nat /\ j \in Nat  BY PowerIsNat
<1>1. PICK e \in Nat : e = n - j  BY <1>0
<1>2. PICK a \in Nat : a = m * j  BY <1>0
<1>3. PICK b \in Nat : b = m * e  OBVIOUS
<1>4. PICK g \in Nat : g = l * m  OBVIOUS
<1>5. a + b = m * n
  <2>1. n = j + e  BY <1>0, <1>1
  <2>2. m * (j + e) = m * j + m * e  BY <1>0
  <2> QED  BY <1>2, <1>3, <2>1, <2>2
<1>6. (l + (n - j)) * m = g + b
  <2>1. (l + e) * m = l * m + m * e  OBVIOUS
  <2> QED  BY <1>1, <1>3, <1>4, <2>1
<1>7. /\ Turn(n, FALSE, a) = Turn(n, TRUE, b)
      /\ Turn(n, FALSE, a) = Conj(Turn(n, FALSE, b))
  <2>1. WholeTurns(n, a, b)  BY <1>5 DEF WholeTurns
  <2> QED  BY <2>1, Opposite
<1>8. PICK i \in BOOLEAN : i = TRUE  OBVIOUS
<1>9. /\ Turn(n, i, g + b) = Times(Turn(n, i, g), Turn(n, i, b))
      /\ Turn(n, i, g) \in Complex /\ Turn(n, i, b) \in Complex
  BY TurnIs
<1>10. Times(Turn(n, i, g), Turn(n, i, b)) \in Complex  BY <1>9, Closed
<1> QED  BY <1>2, <1>4, <1>6, <1>7, <1>8, <1>9, <1>10

\* Which angles are whole turns.
LEMMA SamePlace ==
  ASSUME NEW n \in Powers2, NEW l \in Nat, NEW j \in 0 .. n - 1
  PROVE  (l + (n - j)) % n = 0 <=> j = l % n
<1>0. n \in Nat /\ n > 0 /\ j \in Nat /\ l \in Int  BY PowerIsNat
<1>1. PICK r \in 0 .. n - 1 : r = l % n  BY <1>0, DivRem
<1>2. PICK q \in Int : l = r + n * q
  <2>1. PICK q \in Int : l = (l % n) + n * q  BY Zenon, <1>0, DivRem
  <2> QED  BY <1>1, <2>1
<1>3. PICK p \in Int : p = q + 1  BY <1>2
<1>4. PICK d \in Int : d = r - j  BY <1>0
<1>5. PICK s \in Int : s = l + (n - j)  BY <1>0
<1>6. s = d + n * p
  <2>1. n * p = n * q + n  BY <1>0, <1>2, <1>3
  <2>2. PICK y \in Int : y = n * q  BY <1>0, <1>2
  <2> QED  BY <1>0, <1>2, <1>4, <1>5, <2>1, <2>2
<1>7. s % n = d % n  BY Zenon, <1>0, <1>6, SameRemainder
<1>8. d % n = 0 <=> d = 0
  <2>1. d = 0 => d % n = 0  BY <1>0
  <2>2. ASSUME d % n = 0 PROVE d = 0
    <3>1. PICK e \in Int : d = (d % n) + n * e  BY Zenon, <1>0, DivRem
    <3>2. PICK y \in Int : y = n * e  BY <1>0, <3>1
    <3>3. d = n * e  BY <2>2, <3>1, <3>2
    <3>4. -n < n * e /\ n * e < n  BY <1>0, <1>1, <1>4, <3>3
    <3>5. e = 0  BY Zenon, <1>0, <3>4, SmallMultiple
    <3> QED  BY <1>0, <3>3, <3>5
  <2> QED  BY <2>1, <2>2
<1>9. d = 0 <=> j = r  BY <1>0, <1>1, <1>4
<1> QED  BY <1>1, <1>5, <1>7, <1>8, <1>9

LEMMA Inversion ==
  ASSUME NEW n \in Powers2, NEW g \in [0 .. n - 1 -> Complex], NEW l \in Nat, NEW G,
         \A m \in 0 .. n - 1 : G[m] = Dft(g, n, FALSE, m)
  PROVE  Dft(G, n, TRUE, l) = Times(Copies(n), g[l % n])
<1>0. n \in Nat /\ n > 0 /\ \A j \in 0 .. n - 1 : j \in Nat /\ j \in 0 .. n
  BY PowerIsNat
<1> DEFINE T(a) == Turn(n, TRUE, a)
           row == [m \in 0 .. n - 1 |-> [j \in 0 .. n - 1 |->
                     Times(T(l * m), Times(Turn(n, FALSE, m * j), g[j]))]]
           column(j) == [m \in 0 .. n - 1 |-> row[m][j]]
           sums == [j \in 0 .. n - 1 |-> Total(column(j), n)]
           lines == [m \in 0 .. n - 1 |-> Total(row[m], n)]
<1>1. ASSUME NEW m \in 0 .. n - 1
      PROVE  Terms(row[m], n) /\ lines[m] = Times(T(l * m), G[m])
  <2> DEFINE u == [j \in 0 .. n - 1 |-> Times(Turn(n, FALSE, m * j), g[j])]
             v == row[m]
  <2>1. T(l * m) \in Complex
    <3>1. 0 \in 0 .. n  BY <1>0
    <3> QED  BY <1>0, <3>1, TurnsTogether
  <2>2. Terms(u, n) /\ Total(u, n) = G[m]  BY <1>0, DftTerms DEF Dft
  <2>3. \A j \in 0 .. n - 1 : v[j] = Times(T(l * m), u[j])  OBVIOUS
  <2>4. lines[m] = Total(v, n)  OBVIOUS
  <2> HIDE DEF u, v, T, row, lines
  <2>5. Terms(v, n)  BY <2>1, <2>2, <2>3, Closed DEF Terms
  <2>6. Total(v, n) = Times(T(l * m), Total(u, n))  BY <1>0, <2>1, <2>2, <2>3, TotalOfMultiples
  <2> QED  BY <2>2, <2>4, <2>5, <2>6 DEF v
<1>2. ASSUME NEW j \in 0 .. n - 1
      PROVE  sums[j] = Times(g[j], Round(n, l + (n - j), n))
  <2>1. PICK d \in Nat : d = l + (n - j)  BY <1>0
  <2> DEFINE u == [m \in 0 .. n - 1 |-> T(d * m)]
             v == column(j)
  <2>2. ASSUME NEW m \in 0 .. n - 1 PROVE u[m] \in Complex /\ v[m] = Times(g[j], u[m])
    <3>0. m \in Nat /\ j \in 0 .. n /\ g[j] \in Complex  BY <1>0
    <3>1. PICK a \in Complex : a = T(l * m)  BY <3>0, TurnsTogether
    <3>2. PICK b \in Complex : b = Turn(n, FALSE, m * j)  BY <3>0, TurnsTogether
    <3>3. PICK e \in Complex : e = T(d * m)  BY <2>1, <3>0, TurnsTogether
    <3>4. Times(a, b) = e  BY <2>1, <3>0, <3>1, <3>2, <3>3, TurnsTogether
    <3>5. v[m] = Times(a, Times(b, g[j])) /\ u[m] = e  BY <3>1, <3>2, <3>3
    <3>6. Times(a, Times(b, g[j])) = Times(e, g[j])  BY <3>0, <3>4, TimesAssociates
    <3>7. Times(e, g[j]) = Times(g[j], e)  BY <3>0, TimesRules
    <3> HIDE DEF u, v
    <3> QED  BY <3>5, <3>6, <3>7
  <2>3. sums[j] = Total(v, n) /\ Round(n, d, n) = Total(u, n)  BY DEF Round
  <2>4. g[j] \in Complex  OBVIOUS
  <2> HIDE DEF u, v, sums
  <2>5. Terms(u, n)  BY <2>2 DEF Terms
  <2>6. Total(v, n) = Times(g[j], Total(u, n))
    BY <1>0, <2>2, <2>4, <2>5, TotalOfMultiples
  <2> QED  BY <2>1, <2>3, <2>6
<1>3. Total(lines, n) = Total(sums, n)
  <2>1. \A m \in 0 .. n - 1 : Terms(row[m], n)  BY <1>1
  <2> HIDE DEF row
  <2> QED  BY <1>0, <2>1, TotalSwapped
<1>4. PICK k \in 0 .. n - 1 : k = l % n  BY <1>0, DivRem
<1>5. sums[k] = Times(g[k], Copies(n))
  <2>1. PICK d \in Nat : d = l + (n - k)  BY <1>0
  <2>2. d % n = 0  BY <1>4, <2>1, SamePlace
  <2>3. Round(n, d, n) = Copies(n)  BY <2>2, RoundIsWhole
  <2> QED  BY <1>2, <2>1, <2>3
<1>6. ASSUME NEW j \in 0 .. n - 1, j # k PROVE sums[j] = Zero
  <2>1. PICK d \in Nat : d = l + (n - j)  BY <1>0
  <2>2. d % n # 0  BY <1>4, <1>6, <2>1, SamePlace
  <2>3. Round(n, d, n) = Zero  BY <2>2, RoundIsZero
  <2>4. g[j] \in Complex  OBVIOUS
  <2>5. sums[j] = Times(g[j], Zero)  BY <1>2, <2>1, <2>3
  <2> QED  BY <2>4, <2>5, TimesRules
<1>7. Dft(G, n, TRUE, l) = Total(lines, n)
  <2>1. lines = [m \in 0 .. n - 1 |-> Times(T(l * m), G[m])]
    <3>1. \A m \in 0 .. n - 1 : Total(row[m], n) = Times(T(l * m), G[m])  BY <1>1
    <3> QED  BY <3>1
  <2> HIDE DEF lines
  <2> QED  BY <2>1 DEF Dft
<1>8. g[k] \in Complex /\ Copies(n) \in Complex  BY <1>0, CopiesAre
<1>9. Times(g[k], Copies(n)) = Times(Copies(n), g[k])  BY <1>8, TimesRules
<1>10. sums[k] \in Complex  BY <1>5, <1>8, Closed
<1> HIDE DEF sums, lines
<1>11. Total(sums, n) = sums[k]  BY <1>0, <1>6, <1>10, TotalOfOne
<1> QED  BY <1>3, <1>4, <1>5, <1>7, <1>9, <1>11

LEMMA Convolution ==
  ASSUME NEW n \in Powers2, NEW f \in [0 .. n - 1 -> Complex],
         NEW g \in [0 .. n - 1 -> Complex], NEW k \in Nat, NEW P,
         \A m \in 0 .. n - 1 : P[m] = Times(Dft(f, n, FALSE, m), Dft(g, n, FALSE, m))
  PROVE  Dft(P, n, TRUE, k)
           = Total([a \in 0 .. n - 1 |->
                      Times(f[a], Times(Copies(n), g[(k + (n - a)) % n]))], n)
<1>0. n \in Nat /\ n > 0 /\ \A j \in 0 .. n - 1 : j \in Nat /\ j \in 0 .. n
  BY PowerIsNat
<1> DEFINE T(a) == Turn(n, TRUE, a)
           F == [m \in 0 .. n - 1 |-> Dft(f, n, FALSE, m)]
           G == [m \in 0 .. n - 1 |-> Dft(g, n, FALSE, m)]
           row == [m \in 0 .. n - 1 |-> [j \in 0 .. n - 1 |->
                     Times(Times(T(k * m), G[m]), Times(Turn(n, FALSE, m * j), f[j]))]]
           column(j) == [m \in 0 .. n - 1 |-> row[m][j]]
           sums == [j \in 0 .. n - 1 |-> Total(column(j), n)]
           lines == [m \in 0 .. n - 1 |-> Total(row[m], n)]
<1>1. ASSUME NEW m \in 0 .. n - 1
      PROVE  /\ F[m] \in Complex /\ G[m] \in Complex
             /\ P[m] = Times(F[m], G[m])
  <2>1. F[m] \in Complex  BY <1>0, DftTerms
  <2>2. G[m] \in Complex  BY <1>0, DftTerms
  <2> QED  BY <2>1, <2>2
<1>2. ASSUME NEW m \in 0 .. n - 1 PROVE T(k * m) \in Complex
  <2>1. 0 \in 0 .. n  BY <1>0
  <2> QED  BY <1>0, <2>1, TurnsTogether
<1>3. ASSUME NEW m \in 0 .. n - 1
      PROVE  Terms(row[m], n) /\ lines[m] = Times(T(k * m), P[m])
  <2> DEFINE u == [j \in 0 .. n - 1 |-> Times(Turn(n, FALSE, m * j), f[j])]
             v == row[m]
             w == Times(T(k * m), G[m])
  <2>1. w \in Complex  BY <1>1, <1>2, Closed
  <2>2. Terms(u, n) /\ Total(u, n) = F[m]  BY <1>0, DftTerms DEF Dft
  <2>3. \A j \in 0 .. n - 1 : v[j] = Times(w, u[j])  OBVIOUS
  <2>4. lines[m] = Total(v, n)  OBVIOUS
  <2>5. Times(w, F[m]) = Times(T(k * m), P[m])
    <3>1. PICK a \in Complex : a = F[m]  BY <1>1
    <3>2. PICK b \in Complex : b = G[m]  BY <1>1
    <3>3. PICK e \in Complex : e = T(k * m)  BY <1>2
    <3>4. Times(Times(e, b), a) = Times(e, Times(b, a)) /\ Times(b, a) = Times(a, b)
      BY TimesAssociates, TimesRules
    <3> QED  BY <1>1, <3>1, <3>2, <3>3, <3>4
  <2> HIDE DEF u, v, w, T, row, lines, F, G
  <2>6. Terms(v, n)  BY <2>1, <2>2, <2>3, Closed DEF Terms
  <2>7. Total(v, n) = Times(w, Total(u, n))  BY <1>0, <2>1, <2>2, <2>3, TotalOfMultiples
  <2> QED  BY <2>2, <2>4, <2>5, <2>6, <2>7 DEF v
<1>4. ASSUME NEW j \in 0 .. n - 1
      PROVE  sums[j] = Times(f[j], Times(Copies(n), g[(k + (n - j)) % n]))
  <2>1. PICK d \in Nat : d = k + (n - j)  BY <1>0
  <2> DEFINE u == [m \in 0 .. n - 1 |-> Times(T(d * m), G[m])]
             v == column(j)
  <2>2. ASSUME NEW m \in 0 .. n - 1 PROVE u[m] \in Complex /\ v[m] = Times(f[j], u[m])
    <3>0. m \in Nat /\ j \in 0 .. n /\ f[j] \in Complex  BY <1>0
    <3>1. PICK a \in Complex : a = T(k * m)  BY <3>0, TurnsTogether
    <3>2. PICK b \in Complex : b = Turn(n, FALSE, m * j)  BY <3>0, TurnsTogether
    <3>3. PICK e \in Complex : e = T(d * m)  BY <2>1, <3>0, TurnsTogether
    <3>4. Times(a, b) = e  BY <2>1, <3>0, <3>1, <3>2, <3>3, TurnsTogether
    <3>5. PICK q \in Complex : q = G[m]  BY <1>1
    <3>6. PICK y \in Complex : y = f[j]  BY <3>0
    <3>7. v[m] = Times(Times(a, q), Times(b, y)) /\ u[m] = Times(e, q)
      BY <3>1, <3>2, <3>3, <3>5, <3>6
    <3> HIDE DEF u, v
    <3>8. Times(Times(a, q), Times(b, y)) = Times(Times(a, b), Times(q, y))
      BY FourFactors
    <3>9. Times(e, Times(q, y)) = Times(Times(e, q), y)  BY TimesAssociates
    <3>10. Times(e, q) \in Complex  BY Closed
    <3>11. Times(Times(e, q), y) = Times(y, Times(e, q))  BY <3>10, TimesRules
    <3> QED  BY <3>4, <3>6, <3>7, <3>8, <3>9, <3>10, <3>11
  <2>3. sums[j] = Total(v, n) /\ Dft(G, n, TRUE, d) = Total(u, n)  BY DEF Dft
  <2>4. f[j] \in Complex  OBVIOUS
  <2>5. Dft(G, n, TRUE, d) = Times(Copies(n), g[d % n])
    <3>1. \A m \in 0 .. n - 1 : G[m] = Dft(g, n, FALSE, m)  OBVIOUS
    <3> HIDE DEF G
    <3> QED  BY <3>1, Inversion
  <2> HIDE DEF u, v, sums
  <2>6. Terms(u, n)  BY <2>2 DEF Terms
  <2>7. Total(v, n) = Times(f[j], Total(u, n))
    BY <1>0, <2>2, <2>4, <2>6, TotalOfMultiples
  <2> QED  BY <2>1, <2>3, <2>5, <2>7
<1>5. Total(lines, n) = Total(sums, n)
  <2>1. \A m \in 0 .. n - 1 : Terms(row[m], n)  BY <1>3
  <2> HIDE DEF row
  <2> QED  BY <1>0, <2>1, TotalSwapped
<1>6. Dft(P, n, TRUE, k) = Total(lines, n)
  <2>1. lines = [m \in 0 .. n - 1 |-> Times(T(k * m), P[m])]
    <3>1. \A m \in 0 .. n - 1 : Total(row[m], n) = Times(T(k * m), P[m])  BY <1>3
    <3> QED  BY <3>1
  <2> HIDE DEF lines
  <2> QED  BY <2>1 DEF Dft
<1>7. sums = [a \in 0 .. n - 1 |-> Times(f[a], Times(Copies(n), g[(k + (n - a)) % n]))]
  <2>1. \A j \in 0 .. n - 1 :
          Total(column(j), n) = Times(f[j], Times(Copies(n), g[(k + (n - j)) % n]))
    BY <1>4
  <2> HIDE DEF column
  <2> QED  BY <2>1
<1> HIDE DEF sums, lines
<1> QED  BY <1>5, <1>6, <1>7

\* The spectrum of real numbers is its own mirror image.
LEMMA MirrorImage ==
  ASSUME NEW n \in Powers2, NEW f \in [0 .. n - 1 -> Complex],
         \A j \in 0 .. n - 1 : Conj(f[j]) = f[j], NEW k \in 0 .. n
  PROVE  Dft(f, n, FALSE, k) = Conj(Dft(f, n, FALSE, n - k))
<1>0. n \in Nat /\ k \in Nat /\ \A j \in 0 .. n - 1 : j \in Nat  BY PowerIsNat
<1>1. PICK l \in Nat : l = n - k  BY <1>0
<1> DEFINE u == [j \in 0 .. n - 1 |-> Times(Turn(n, FALSE, l * j), f[j])]
           v == [j \in 0 .. n - 1 |-> Times(Turn(n, FALSE, k * j), f[j])]
<1>2. Terms(u, n)  BY DftTerms
<1>3. ASSUME NEW j \in 0 .. n - 1 PROVE v[j] = Conj(u[j])
  <2>1. PICK a \in Nat : a = k * j  BY <1>0
  <2>2. PICK b \in Nat : b = l * j  BY <1>0
  <2>3. a + b = j * n
    <3>1. n = k + l  BY <1>0, <1>1
    <3>2. (k + l) * j = k * j + l * j  BY <1>0
    <3> QED  BY <1>0, <2>1, <2>2, <3>1, <3>2
  <2>4. WholeTurns(n, a, b)  BY <1>0, <2>3 DEF WholeTurns
  <2>5. Turn(n, FALSE, a) = Conj(Turn(n, FALSE, b))  BY <2>4, Opposite
  <2>6. Turn(n, FALSE, b) \in Complex /\ f[j] \in Complex  BY TurnIs
  <2>7. Conj(Times(Turn(n, FALSE, b), f[j])) = Times(Conj(Turn(n, FALSE, b)), Conj(f[j]))
    BY <2>6, ConjRules
  <2>8. v[j] = Times(Turn(n, FALSE, a), f[j]) /\ u[j] = Times(Turn(n, FALSE, b), f[j])
    BY <2>1, <2>2
  <2> HIDE DEF u, v
  <2> QED  BY <2>5, <2>7, <2>8
<1> HIDE DEF u, v
<1>4. Total(v, n) = Conj(Total(u, n))  BY <1>0, <1>2, <1>3, TotalOfConj
<1> QED  BY <1>1, <1>4 DEF Dft, u, v

IsReal(f, n) == \A j \in 0 .. n - 1 : Conj(f[j]) = f[j]

\* The product of two spectra up to place l.
IsProduct(p, f, g, l, n) ==
  \A m \in 0 .. l : p[m] = Times(Dft(f, n, FALSE, m), Dft(g, n, FALSE, m))

LEMMA WholeIs ==
  ASSUME NEW n \in Powers2, NEW h \in Powers2, n = 2 * h,
         NEW f \in [0 .. n - 1 -> Complex], IsReal(f, n),
         NEW g \in [0 .. n - 1 -> Complex], IsReal(g, n),
         NEW half, IsProduct(half, f, g, h, n)
  PROVE  /\ Whole(half, n) \in [0 .. n - 1 -> Complex]
         /\ IsProduct(Whole(half, n), f, g, n - 1, n)
<1>a. /\ \A j \in 0 .. n - 1 : Conj(f[j]) = f[j]
      /\ \A j \in 0 .. n - 1 : Conj(g[j]) = g[j]
  BY DEF IsReal
<1>b. \A m \in 0 .. h : half[m] = Times(Dft(f, n, FALSE, m), Dft(g, n, FALSE, m))
  BY DEF IsProduct
<1>0. n \in Nat /\ h \in Nat /\ n \div 2 = h  BY PowerIsNat
<1>1. ASSUME NEW m \in 0 .. n
      PROVE  Dft(f, n, FALSE, m) \in Complex /\ Dft(g, n, FALSE, m) \in Complex
  <2>1. m \in Nat  BY <1>0
  <2> QED  BY <2>1, DftTerms
<1>2. ASSUME NEW m \in 0 .. n - 1
      PROVE  Whole(half, n)[m] = Times(Dft(f, n, FALSE, m), Dft(g, n, FALSE, m))
  <2>0. m \in Nat /\ m < n  BY <1>0
  <2>1. CASE m <= h
    <3>1. m \in 0 .. h  BY <1>0, <2>0, <2>1
    <3> QED  BY <1>0, <1>b, <2>1, <3>1 DEF Whole
  <2>2. CASE ~(m <= h)
    <3>0. n - m \in 0 .. h  BY <1>0, <2>0, <2>2
    <3>1. PICK l \in 0 .. h : l = n - m  BY <3>0
    <3>2. ~(m <= h) /\ m \in 0 .. n /\ l \in 0 .. n  BY <1>0, <2>0, <2>2, <3>1
    <3>3. Whole(half, n)[m] = Conj(half[l])  BY <1>0, <3>1, <3>2 DEF Whole
    <3>4. Dft(f, n, FALSE, m) = Conj(Dft(f, n, FALSE, n - m))
      BY <1>a, <3>2, MirrorImage
    <3>5. Dft(g, n, FALSE, m) = Conj(Dft(g, n, FALSE, n - m))
      BY <1>a, <3>2, MirrorImage
    <3>6. Dft(f, n, FALSE, l) \in Complex /\ Dft(g, n, FALSE, l) \in Complex
      BY <1>1, <3>2
    <3>7. half[l] = Times(Dft(f, n, FALSE, l), Dft(g, n, FALSE, l))
      BY <1>b
    <3>8. Conj(Times(Dft(f, n, FALSE, l), Dft(g, n, FALSE, l)))
            = Times(Conj(Dft(f, n, FALSE, l)), Conj(Dft(g, n, FALSE, l)))
      BY <3>6, ConjRules
    <3> QED  BY <3>1, <3>3, <3>4, <3>5, <3>7, <3>8
  <2> QED  BY <2>1, <2>2
<1>3. \A m \in 0 .. n - 1 : Whole(half, n)[m] \in Complex
  <2>1. \A m \in 0 .. n - 1 : m \in 0 .. n  BY <1>0
  <2> TAKE m \in 0 .. n - 1
  <2>2. Dft(f, n, FALSE, m) \in Complex /\ Dft(g, n, FALSE, m) \in Complex
    BY <1>1, <2>1
  <2> QED  BY <1>2, <2>2, Closed
<1>4. Whole(half, n) = [m \in 0 .. n - 1 |-> Whole(half, n)[m]]  BY DEF Whole
<1> QED  BY <1>2, <1>3, <1>4 DEF IsProduct

-----------------------------------------------------------------------------
(* Division by the length. *)

LEMMA OneFactor ==
  ASSUME NEW a \in Int, NEW q \in Int
  PROVE  ((a % Prime) * q) % Prime = (a * q) % Prime
<1>1. ((a % Prime) * q + (0 % Prime) * 0) % Prime = (a * q + 0 * 0) % Prime
  BY Remainder
<1>2. (a % Prime) \in Int /\ (0 % Prime) \in Int  BY PrimeDivides
<1>3. PICK r \in Int : r = a % Prime  BY <1>2
<1>4. (a % Prime) * q + (0 % Prime) * 0 = (a % Prime) * q /\ a * q + 0 * 0 = a * q
  <2>1. PICK y \in Int : y = r * q  OBVIOUS
  <2>2. PICK z \in Int : z = a * q  OBVIOUS
  <2>3. PICK s \in Int : s = 0 % Prime  BY <1>2
  <2>4. s * 0 = 0 /\ 0 * 0 = 0  BY <2>3
  <2> QED  BY <1>3, <2>1, <2>2, <2>3, <2>4
<1> QED  BY <1>1, <1>4

LEMMA InverseExists ==
  ASSUME NEW n \in Powers2
  PROVE  \E m \in Number : (m * n) % Prime = 1
<1> DEFINE Good(a) == \E m \in Number : (m * a) % Prime = 1
           S == {a \in Powers2 : ~Good(a)}
<1>1. S = {}
  <2> SUFFICES ASSUME S # {} PROVE FALSE  OBVIOUS
  <2>1. PICK a \in S : \A i \in S : a <= i
    <3>1. S \subseteq Nat  BY PowerIsNat
    <3> HIDE DEF S
    <3> QED  BY <3>1, SmallestExists
  <2>2. a \in Powers2 /\ ~Good(a)  OBVIOUS
  <2>3. a # 1
    <3>1. 1 * 1 = 1 /\ 1 % Prime = 1 /\ 1 \in Number  BY NumberIs, SmallRemainder
    <3>2. Good(1)  BY <3>1
    <3> HIDE DEF Good
    <3> QED  BY <2>2, <3>2
  <2>4. PICK h \in Powers2 : a = 2 * h  BY <2>2, <2>3, HalfIs
  <2>5. h \in Nat /\ h >= 1 /\ h < a  BY <2>4, PowerIsNat
  <2>6. Good(h)
    <3> HIDE DEF Good
    <3>1. h \notin S
      <4>1. a \in Nat  BY <2>2, PowerIsNat
      <4> HIDE DEF S
      <4> QED  BY <2>1, <2>5, <4>1
    <3> QED  BY <3>1
  <2>7. PICK m \in Number : (m * h) % Prime = 1  BY <2>6
  <2>8. m \in Int /\ Prime \in Nat /\ Prime > 0  BY NumberIs, PrimeIs
  <2>9. PICK e \in Nat : 2 * e = Prime + 1
    <3>1. Prime % 4 = 3  BY FftAssumption
    <3>2. Prime = 4 * (Prime \div 4) + 3 /\ Prime \div 4 \in Nat  BY <2>8, <3>1
    <3>3. 2 * (2 * (Prime \div 4) + 2) = Prime + 1 /\ 2 * (Prime \div 4) + 2 \in Nat
      BY <3>2
    <3> QED  BY <3>3
  <2>10. PICK y \in Int : y = m * h  BY <2>5, <2>8
  <2>11. (m * e) * a = y + Prime * y
    <3>1. (m * e) * (2 * h) = (m * h) * (2 * e)  BY <2>5, <2>8
    <3>2. y * (Prime + 1) = y + Prime * y  BY <2>8, <2>10
    <3> QED  BY <2>4, <2>9, <2>10, <3>1, <3>2
  <2>12. ((m * e) * a) % Prime = y % Prime
    <3>1. PICK z \in Int : z = (m * e) * a  BY <2>4, <2>5, <2>8
    <3>2. z = y + Prime * y  BY <2>11, <3>1
    <3>3. z % Prime = y % Prime  BY Zenon, <2>8, <3>2, SameRemainder
    <3> QED  BY <3>1, <3>3
  <2>13. PICK d \in Int : d = m * e  BY <2>8
  <2>14. ((d % Prime) * a) % Prime = (d * a) % Prime
    <3>1. a \in Int  BY <2>4, <2>5
    <3> QED  BY <3>1, OneFactor
  <2>15. d % Prime \in Number  BY InNumber
  <2> QED  BY <2>2, <2>7, <2>10, <2>12, <2>13, <2>14, <2>15
<1> HIDE DEF Good
<1>2. Good(n)  BY <1>1
<1> QED  BY <1>2 DEF Good

LEMMA Divided ==
  ASSUME NEW n \in Powers2, NEW w \in Complex
  PROVE  (Times(Copies(n), w)[1] * Inverse1(n % Prime)) % Prime = w[1]
<1>0. n \in Nat /\ n \in Int /\ Prime \in Nat /\ Prime > 0  BY PowerIsNat, PrimeIs
<1>1. PICK l \in Number : l = n % Prime  BY <1>0, InNumber
<1>2. PICK v \in Number : v = Inverse1(n % Prime) /\ (v * l) % Prime = 1
  <2>1. PICK m \in Number : (m * n) % Prime = 1  BY InverseExists
  <2>2. m \in Int  BY NumberIs
  <2>3. ((n % Prime) * m) % Prime = (n * m) % Prime  BY <1>0, <2>2, OneFactor
  <2>4. n * m = m * n /\ l * m = m * l
    <3>1. l \in Int  BY NumberIs
    <3> QED  BY <1>0, <2>2, <3>1
  <2>5. (m * l) % Prime = 1  BY <1>1, <2>1, <2>3, <2>4
  <2> QED  BY <1>1, <2>5 DEF Inverse1
<1>3. PICK r \in Number : r = w[1]  BY ComplexIs
<1>4. PICK s \in Number : s = w[2]  BY ComplexIs
<1>5. l \in Int /\ v \in Int /\ r \in Int /\ s \in Int  BY NumberIs
<1>6. Times(Copies(n), w)[1] = (l * r) % Prime
  <2>1. 0 * s = 0 /\ l * r - 0 = l * r  BY <1>5
  <2> QED  BY <1>1, <1>3, <1>4, <2>1 DEF Times, Copies
<1>7. PICK a \in Int : a = l * r  BY <1>5
<1>8. ((a % Prime) * v) % Prime = (a * v) % Prime  BY <1>5, OneFactor
<1>9. PICK b \in Int : b = v * l  BY <1>5
<1>10. PICK e \in Int : b = 1 + Prime * e
  <2>1. PICK e \in Int : b = (b % Prime) + Prime * e  BY Zenon, <1>0, DivRem
  <2> QED  BY <1>2, <1>9, <2>1
<1>11. a * v = b * r  BY <1>5, <1>7, <1>9
<1>12. PICK d \in Int : d = e * r  BY <1>5, <1>10
<1>13. b * r = r + Prime * d
  <2>1. (1 + Prime * e) * r = r + (Prime * e) * r  BY <1>0, <1>5, <1>10
  <2>2. (Prime * e) * r = Prime * (e * r)  BY <1>0, <1>5, <1>10
  <2> QED  BY <1>10, <1>12, <2>1, <2>2
<1>14. PICK z \in Int : z = a * v  BY <1>5
<1>15. z = r + Prime * d  BY <1>11, <1>13, <1>14
<1>16. z % Prime = r % Prime  BY Zenon, <1>0, <1>5, <1>15, SameRemainder
<1>17. r % Prime = r  BY SmallRemainder
<1> QED  BY <1>2, <1>3, <1>6, <1>7, <1>8, <1>14, <1>16, <1>17

-----------------------------------------------------------------------------
(* The transforms of signals. *)

IsSignal(s) == Len(s) \in Nat /\ Len(s) >= 1 /\ \A j \in 1 .. Len(s) : s[j] \in Number

LEMMA SignalIs ==
  ASSUME NEW s \in Signals
  PROVE  /\ IsSignal(s) /\ IsSignal(Mirrored(s)) /\ Len(Mirrored(s)) = Len(s)
         /\ \A j \in 1 .. Len(s) : Mirrored(s)[j] = s[Len(s) + 1 - j]
         /\ Len(s) \in 1 .. MaxLength \div 2 /\ s \in Seq(Number)
<1>1. Len(s) \in 1 .. MaxLength \div 2 /\ s \in Seq(Number)  BY FftAssumption
<1>2. Len(s) \in Nat /\ Len(s) >= 1  BY <1>1, LengthIs
<1>3. \A j \in 1 .. Len(s) : s[j] \in Number  BY <1>1
<1>4. \A j \in 1 .. Len(s) : Len(s) + 1 - j \in 1 .. Len(s)  BY <1>2
<1>5. Mirrored(s) \in Seq(Number) /\ Len(Mirrored(s)) = Len(s)
  BY <1>2, <1>3, <1>4 DEF Mirrored
<1>6. \A j \in 1 .. Len(s) : Mirrored(s)[j] = s[Len(s) + 1 - j]  BY DEF Mirrored
<1> QED  BY <1>1, <1>2, <1>3, <1>4, <1>5, <1>6 DEF IsSignal

LEMMA PaddedIs ==
  ASSUME NEW s, IsSignal(s), NEW n \in Nat
  PROVE  /\ Padded(s, n) \in [0 .. n - 1 -> Complex]
         /\ \A k \in 0 .. n - 1 :
              /\ Padded(s, n)[k] = IF k < Len(s) THEN <<s[k + 1], 0>> ELSE Zero
              /\ Conj(Padded(s, n)[k]) = Padded(s, n)[k]
<1>1. ASSUME NEW k \in 0 .. n - 1
      PROVE  /\ Padded(s, n)[k] = IF k < Len(s) THEN <<s[k + 1], 0>> ELSE Zero
             /\ Padded(s, n)[k] \in Complex
             /\ Conj(Padded(s, n)[k]) = Padded(s, n)[k]
  <2>1. CASE k < Len(s)
    <3>1. k + 1 \in 1 .. Len(s)  BY <2>1 DEF IsSignal
    <3>2. Padded(s, n)[k] = <<s[k + 1], 0>> /\ s[k + 1] \in Number
      BY <2>1, <3>1 DEF IsSignal, Padded
    <3> QED  BY <2>1, <3>2, NumberIs, ComplexIs, ConjRules
  <2>2. CASE ~(k < Len(s))
    <3>1. Padded(s, n)[k] = <<0, 0>>  BY <2>2 DEF Padded
    <3> QED  BY <2>2, <3>1, NumberIs, ComplexIs, ConjRules DEF Zero
  <2> QED  BY <2>1, <2>2
<1>2. Padded(s, n) = [k \in 0 .. n - 1 |-> Padded(s, n)[k]]  BY DEF Padded
<1> QED  BY <1>1, <1>2

LEMMA SpectrumIs ==
  ASSUME NEW n \in Powers2, NEW s, IsSignal(s), Len(s) = n, NEW k \in Nat
  PROVE  Dft(Padded(s, n), n, FALSE, k) = Spectrum(s, k)
<1>0. n \in Nat /\ n > 0 /\ \A j \in 0 .. n - 1 : j \in Nat  BY PowerIsNat
<1>1. PICK q \in Powers2 : n * q = MaxLength /\ q = MaxLength \div n  BY OtherFactor
<1>2. q \in Nat /\ q >= 1  BY PowerIsNat
<1> DEFINE u == [j \in 0 .. n - 1 |->
                   Times(<<s[j + 1], 0>>, Conj(Root[((j * k) % n) * (MaxLength \div n)]))]
           v == [j \in 0 .. n - 1 |-> Times(Turn(n, FALSE, k * j), Padded(s, n)[j])]
<1>3. ASSUME NEW j \in 0 .. n - 1 PROVE v[j] = u[j]
  <2>1. PICK a \in Nat : a = k * j /\ a = j * k
    <3>1. k * j \in Nat /\ k * j = j * k  BY <1>0
    <3> QED  BY <3>1
  <2>2. PICK r \in 0 .. n - 1 : r = a % n  BY <1>0, DivRem
  <2>3. r \in Nat  BY <1>0
  <2>4. Turn(n, FALSE, a) = Turn(n, FALSE, r)
    <3>1. PICK d \in Int : a = r + n * d
      <4>1. a \in Int  OBVIOUS
      <4>2. PICK d \in Int : a = (a % n) + n * d  BY Zenon, <1>0, <4>1, DivRem
      <4> QED  BY <2>2, <4>2
    <3>2. d \in Nat
      <4> SUFFICES ASSUME d <= -1 PROVE FALSE  BY <3>1
      <4>1. PICK e \in Nat : e = -1 - d  BY <3>1
      <4>2. n * d = -n - n * e /\ n * e \in Nat  BY <1>0, <3>1, <4>1
      <4> QED  BY <1>0, <2>2, <3>1, <4>2
    <3>3. a = r + d * n  BY <1>0, <2>3, <3>1, <3>2
    <3>4. PICK i \in BOOLEAN : i = FALSE  OBVIOUS
    <3>5. Turn(n, i, r + d * n) = Turn(n, i, r)  BY <2>3, <3>2, TurnAround
    <3> QED  BY <3>3, <3>4, <3>5
  <2>5. PICK b \in Nat : b = r * q  BY <1>2, <2>3
  <2>6. b \in 0 .. MaxLength - 1
    <3>1. PICK e \in Nat : n = r + 1 + e  BY <1>0, <2>3
    <3>2. PICK y \in Nat : y = e * q  BY <1>2
    <3>3. n * q = b + q + y  BY <1>2, <2>3, <2>5, <3>1, <3>2
    <3> QED  BY <1>1, <1>2, <2>5, <3>2, <3>3, LengthIs
  <2>7. Turn(n, FALSE, r) = Conj(Root[b])  BY <1>1, <2>5, <2>6, RootIs DEF Turn
  <2>8. Padded(s, n)[j] = <<s[j + 1], 0>>
    <3>1. j < Len(s)  BY <1>0
    <3> QED  BY <1>0, <3>1, PaddedIs
  <2>9. Turn(n, FALSE, r) \in Complex /\ Padded(s, n)[j] \in Complex
    BY <1>0, <2>3, TurnIs, PaddedIs
  <2>10. v[j] = Times(Turn(n, FALSE, a), Padded(s, n)[j])  BY <2>1
  <2>11. u[j] = Times(<<s[j + 1], 0>>, Conj(Root[b]))  BY <1>1, <2>1, <2>2, <2>5
  <2> HIDE DEF u, v
  <2> QED  BY <2>4, <2>7, <2>8, <2>9, <2>10, <2>11, TimesRules
<1>4. Terms(v, n)
  <2>1. Padded(s, n) \in [0 .. n - 1 -> Complex]  BY <1>0, PaddedIs
  <2> QED  BY <2>1, DftTerms
<1>5. v = u
  <2>1. \A j \in 0 .. n - 1 :
          Times(Turn(n, FALSE, k * j), Padded(s, n)[j])
            = Times(<<s[j + 1], 0>>, Conj(Root[((j * k) % n) * (MaxLength \div n)]))
    BY <1>3
  <2> QED  BY <2>1
<1>6. Spectrum(s, k) = Total(u, n)  BY DEF Spectrum
<1> HIDE DEF u
<1> QED  BY <1>5, <1>6 DEF Dft

\* The products of a correlation.
Match(s, t, k) ==
  [j \in 0 .. Len(s) - 1 |->
     IF j + 1 + (k - (Len(s) - 1)) \in 1 .. Len(t)
       THEN <<(s[j + 1] * t[j + 1 + (k - (Len(s) - 1))]) % Prime, 0>>
       ELSE <<0, 0>>]

LEMMA MatchTerms ==
  ASSUME NEW s, IsSignal(s), NEW t, IsSignal(t), NEW k \in Int
  PROVE  /\ Terms(Match(s, t, k), Len(s))
         /\ Total(Match(s, t, k), Len(s)) \in Complex
         /\ Correlation(s, t, k) = Total(Match(s, t, k), Len(s))[1]
<1>1. ASSUME NEW j \in 0 .. Len(s) - 1 PROVE Match(s, t, k)[j] \in Complex
  <2> DEFINE l == j + 1 + (k - (Len(s) - 1))
  <2>1. CASE l \in 1 .. Len(t)
    <3>1. j + 1 \in 1 .. Len(s)  BY DEF IsSignal
    <3>2. s[j + 1] \in Number /\ t[l] \in Number  BY <2>1, <3>1 DEF IsSignal
    <3>3. s[j + 1] * t[l] \in Int
      <4>1. s[j + 1] \in Int /\ t[l] \in Int  BY <3>2, NumberIs
      <4> QED  BY <4>1
    <3>4. Match(s, t, k)[j] = <<(s[j + 1] * t[l]) % Prime, 0>>  BY <2>1 DEF Match
    <3> HIDE DEF l
    <3> QED  BY <3>3, <3>4, InNumber, NumberIs, ComplexIs
  <2>2. CASE l \notin 1 .. Len(t)
    <3>1. Match(s, t, k)[j] = <<0, 0>>  BY <2>2 DEF Match
    <3> QED  BY <3>1, NumberIs, ComplexIs
  <2> QED  BY <2>1, <2>2
<1>2. Terms(Match(s, t, k), Len(s))  BY <1>1 DEF Terms
<1>3. Correlation(s, t, k) = Total(Match(s, t, k), Len(s))[1]
  BY DEF Correlation, Match
<1> QED  BY <1>2, <1>3, TotalInComplex DEF IsSignal

LEMMA RealProduct ==
  ASSUME NEW a \in Number, NEW b \in Number
  PROVE  Times(<<a, 0>>, <<b, 0>>) = <<(a * b) % Prime, 0>>
<1>1. a \in Int /\ b \in Int  BY NumberIs
<1>2. a * b - 0 * 0 = a * b /\ a * 0 + 0 * b = 0
  <2>1. a * 0 = 0 /\ 0 * b = 0 /\ 0 * 0 = 0  BY <1>1
  <2>2. PICK y \in Int : y = a * b  BY <1>1
  <2> QED  BY <2>1, <2>2
<1>3. 0 % Prime = 0  BY NumberIs, SmallRemainder
<1> QED  BY <1>2, <1>3 DEF Times

\* The length leaves room for all the shifts.
LEMMA NothingWraps ==
  ASSUME NEW n \in Nat, n > 0, NEW k \in 0 .. n - 1, NEW a \in 0 .. n - 1
  PROVE  (k + (n - a)) % n = IF a <= k THEN k - a ELSE k + (n - a)
<1>0. k \in Int /\ a \in Int  OBVIOUS
<1>1. CASE a <= k
  <2>1. PICK d \in Int : d = k - a  BY <1>0
  <2>2. PICK e \in Int : e = k + (n - a)  BY <1>0
  <2>3. PICK u \in Int : u = 1  OBVIOUS
  <2>4. e = d + n * u  BY <1>0, <2>1, <2>2, <2>3
  <2>5. e % n = d % n  BY Zenon, <2>4, SameRemainder
  <2>6. d \in 0 .. n - 1  BY <1>0, <1>1, <2>1
  <2>7. d % n = d  BY <2>6
  <2> QED  BY <1>1, <2>1, <2>2, <2>5, <2>7
<1>2. CASE ~(a <= k)
  <2>1. PICK e \in Int : e = k + (n - a)  BY <1>0
  <2>2. e \in 0 .. n - 1  BY <1>0, <1>2, <2>1
  <2>3. e % n = e  BY <2>2
  <2> QED  BY <1>2, <2>1, <2>3
<1> QED  BY <1>1, <1>2

HasRoom(n, s, t, k) ==
  2 * Len(s) <= n /\ 2 * Len(t) <= n /\ k \in 0 .. Len(s) + Len(t) - 2

\* What the inverse transform of p, divided by its length, is at place k.
Correlates(p, n, s, t, k) ==
  (Dft(p, n, TRUE, k)[1] * Inverse1(n % Prime)) % Prime = Correlation(s, t, k)

LEMMA CorrelationIs ==
  ASSUME NEW n \in Powers2, NEW s \in Signals, NEW t \in Signals, NEW k,
         HasRoom(n, s, t, k), NEW P,
         IsProduct(P, Padded(Mirrored(s), n), Padded(t, n), n - 1, n)
  PROVE  Correlates(P, n, s, t, k)
<1> DEFINE f == Padded(Mirrored(s), n)
           g == Padded(t, n)
           NN == Copies(n)
           all == [a \in 0 .. n - 1 |-> Times(f[a], Times(NN, g[(k + (n - a)) % n]))]
           M == Match(s, t, k)
           back == [a \in 0 .. Len(s) - 1 |-> M[Len(s) - 1 - a]]
           S == Len(s)
           L == Len(t)
<1>0. /\ n \in Nat /\ n > 0 /\ S \in Nat /\ S >= 1 /\ L \in Nat /\ L >= 1
      /\ 2 * S <= n /\ 2 * L <= n /\ k \in Nat /\ k <= S + L - 2 /\ k \in 0 .. n - 1
      /\ IsSignal(s) /\ IsSignal(t) /\ IsSignal(Mirrored(s)) /\ Len(Mirrored(s)) = S
  BY PowerIsNat, SignalIs DEF IsSignal, HasRoom
<1>1. f \in [0 .. n - 1 -> Complex] /\ g \in [0 .. n - 1 -> Complex] /\ NN \in Complex
  BY <1>0, PaddedIs, CopiesAre
<1>2. Dft(P, n, TRUE, k) = Total(all, n)
  <2>1. \A m \in 0 .. n - 1 : P[m] = Times(Dft(f, n, FALSE, m), Dft(g, n, FALSE, m))
    BY DEF IsProduct
  <2> HIDE DEF f, g
  <2> QED  BY <1>0, <1>1, <2>1, Convolution
<1>3. /\ \A a \in 0 .. n - 1 : f[a] = IF a < S THEN <<Mirrored(s)[a + 1], 0>> ELSE Zero
      /\ \A a \in 0 .. n - 1 : g[a] = IF a < L THEN <<t[a + 1], 0>> ELSE Zero
  BY <1>0, PaddedIs
<1> HIDE DEF f, g
<1>4. ASSUME NEW a \in S .. n - 1 PROVE all[a] = Zero
  <2>1. a \in 0 .. n - 1 /\ ~(a < S)  BY <1>0
  <2>2. PICK b \in 0 .. n - 1 : b = (k + (n - a)) % n
    <3>1. k + (n - a) \in Int  BY <1>0
    <3> QED  BY <1>0, <3>1, DivRem
  <2>3. all[a] = Times(f[a], Times(NN, g[b]))  BY <2>1, <2>2
  <2>4. f[a] = Zero  BY <1>3, <2>1
  <2>5. g[b] \in Complex  BY <1>1
  <2>6. Times(NN, g[b]) \in Complex  BY <1>1, <2>5, Closed
  <2> HIDE DEF all
  <2> QED  BY <2>3, <2>4, <2>6, TimesRules
<1>5. ASSUME NEW a \in 0 .. S - 1 PROVE all[a] = Times(NN, back[a])
  <2>0. a \in Nat /\ a < S /\ a \in 0 .. n - 1  BY <1>0
  <2>1. PICK j \in 0 .. S - 1 : j = S - 1 - a
    <3>1. S - 1 - a \in 0 .. S - 1
      <4> HIDE DEF S
      <4> QED  BY <1>0, <2>0
    <3> QED  BY <3>1
  <2>2. /\ j + 1 \in 1 .. S /\ S + 1 - (a + 1) = j + 1 /\ a + 1 \in 1 .. S
        /\ j + 1 + (k - (S - 1)) = k - a + 1
    BY <1>0, <2>0, <2>1
  <2>3. PICK p \in Number : p = s[j + 1]  BY <1>0, <2>2 DEF IsSignal
  <2>4. f[a] = <<p, 0>>
    <3>1. Mirrored(s)[a + 1] = s[j + 1]  BY <2>2, SignalIs
    <3> QED  BY <1>3, <2>0, <2>3, <3>1
  <2>5. PICK b \in 0 .. n - 1 : b = (k + (n - a)) % n
    <3>1. k + (n - a) \in Int  BY <1>0, <2>0
    <3> QED  BY <1>0, <3>1, DivRem
  <2>6. b = IF a <= k THEN k - a ELSE k + (n - a)  BY <1>0, <2>0, <2>5, NothingWraps
  <2>7. all[a] = Times(f[a], Times(NN, g[b]))  BY <2>0, <2>5
  <2>8. back[a] = M[j]  BY <2>1
  <2>9. g[b] \in Complex /\ f[a] \in Complex  BY <1>1, <2>0
  <2>10. Times(f[a], g[b]) = M[j]
    <3>1. CASE k - a + 1 \in 1 .. L
      <4>1. a <= k /\ b = k - a /\ b < L  BY <1>0, <2>0, <2>6, <3>1
      <4>2. PICK q \in Number : q = t[k - a + 1]  BY <1>0, <3>1 DEF IsSignal
      <4>3. g[b] = <<q, 0>>  BY <1>3, <4>1, <4>2
      <4>4. M[j] = <<(p * q) % Prime, 0>>  BY <2>2, <2>3, <3>1, <4>2 DEF Match
      <4> QED  BY <2>4, <4>3, <4>4, RealProduct
    <3>2. CASE ~(k - a + 1 \in 1 .. L)
      <4>1. ~(b < L)  BY <1>0, <2>0, <2>6, <3>2
      <4>2. g[b] = Zero  BY <1>3, <4>1
      <4>3. M[j] = Zero  BY <2>2, <3>2 DEF Match, Zero
      <4> QED  BY <2>9, <4>2, <4>3, TimesRules
    <3> QED  BY <3>1, <3>2
  <2>11. Times(f[a], Times(NN, g[b])) = Times(NN, Times(f[a], g[b]))
    <3>1. PICK u \in Complex : u = f[a]  BY <2>9
    <3>2. PICK v \in Complex : v = g[b]  BY <2>9
    <3>3. PICK w \in Complex : w = NN  BY <1>1
    <3>4. Times(Times(u, w), v) = Times(u, Times(w, v))  BY TimesAssociates
    <3>5. Times(Times(w, u), v) = Times(w, Times(u, v))  BY TimesAssociates
    <3>6. Times(u, w) = Times(w, u)  BY TimesRules
    <3> QED  BY <3>1, <3>2, <3>3, <3>4, <3>5, <3>6
  <2> HIDE DEF all, back, M, NN
  <2> QED  BY <2>7, <2>8, <2>10, <2>11
<1>6. Terms(M, S) /\ Total(M, S) \in Complex /\ Correlation(s, t, k) = Total(M, S)[1]
  <2>1. k \in Int  BY <1>0
  <2> QED  BY <1>0, <2>1, MatchTerms
<1>7. Total(back, S) = Total(M, S)
  <2>1. \A a \in 0 .. S - 1 : back[a] = M[S - 1 - a]  OBVIOUS
  <2> HIDE DEF back, M, S
  <2> QED  BY <1>0, <1>6, <2>1, TotalReversed
<1>8. Terms(back, S)
  <2>1. \A a \in 0 .. S - 1 : S - 1 - a \in 0 .. S - 1  BY <1>0
  <2>2. \A a \in 0 .. S - 1 : back[a] = M[S - 1 - a]  OBVIOUS
  <2> HIDE DEF back, M, S
  <2> QED  BY <1>6, <2>1, <2>2 DEF Terms
<1> HIDE DEF all, back, M, NN, S, L
<1>9. Total(all, S) = Times(NN, Total(back, S))
  BY <1>0, <1>1, <1>5, <1>8, TotalOfMultiples
<1>10. Terms(all, S)  BY <1>1, <1>5, <1>8, Closed DEF Terms
<1>11. Total(all, n) = Total(all, S)
  <2>1. S \in 0 .. n  BY <1>0
  <2> QED  BY <1>0, <1>4, <1>10, <2>1, TotalCut
<1>12. Dft(P, n, TRUE, k) = Times(NN, Total(M, S))  BY <1>2, <1>7, <1>9, <1>11
<1> QED  BY <1>6, <1>12, Divided DEF NN, Correlates

-----------------------------------------------------------------------------
(* The inductive invariant. *)

Forward(s, n, k) == Dft(Padded(s, n), n, FALSE, k)

\* What the transform that runs was given, and what it is to make of it.
Source ==
  IF job = "spectrum" THEN Padded(x1, N)
  ELSE IF job = "first" THEN Padded(Mirrored(x1), N)
  ELSE IF job = "second" THEN Padded(x2, N)
  ELSE [k \in 0 .. N - 1 |-> Times(Forward(Mirrored(x1), N, k), Forward(x2, N, k))]

Target == [k \in 0 .. N - 1 |-> Dft(Source, N, job = "inverse", k)]

TablesAreKept ==
  /\ swap \in {0} \cup (Powers2 \ {1}) /\ sets = IF swap = 0 THEN 0 ELSE 1
  /\ DOMAIN bitSwap = 0 .. swap - 1 /\ DOMAIN butter = 0 .. (swap \div 2) - 1
  /\ swap # 0 => butter = Butterflies(swap)

ArgumentsAreFit ==
  /\ N \in Powers2 \ {1} /\ x \in [0 .. N - 1 -> Complex]
  /\ job \in Jobs \ {"none"} /\ x1 \in Signals
  /\ job = "spectrum" => Len(x1) = N
  /\ job # "spectrum" => x2 \in Signals /\ 2 * Len(x1) <= N /\ 2 * Len(x2) <= N
  /\ job \in {"second", "inverse"} =>
       tmp1 = [k \in 0 .. N \div 2 |-> Forward(Mirrored(x1), N, k)]

Initialised == pc = "init" => x = Source

Cycled ==
  pc = "cycle" =>
    /\ swap = N /\ cycle \in Powers2
    /\ \E s \in Powers2 :
         cycle * s = N /\ Stage(x, Source, N, job = "inverse", cycle, s)

Sorted ==
  pc = "swap" =>
    /\ swap = N /\ c \in 0 .. N /\ bitSwap \in [0 .. N - 1 -> 0 .. N - 1]
    /\ Swapped(x, bitSwap, Order(N), Target, N, c)

IInv ==
  /\ pc \in Steps /\ job \in Jobs /\ calls \in 0 .. MaxCalls
  /\ \A k \in DOMAIN x : x[k] \in Complex
  /\ TablesAreKept
  /\ pc # "idle" => ArgumentsAreFit
  /\ Initialised /\ Cycled /\ Sorted
  /\ ResultsAreExact

LEMMA CountIs ==
  ASSUME NEW n \in Nat
  PROVE  Cardinality(0 .. n - 1) = n
<1>1. 0 \in Int /\ n - 1 \in Int  OBVIOUS
<1>2. Cardinality(0 .. n - 1) = IF 0 > n - 1 THEN 0 ELSE (n - 1) - 0 + 1
  BY <1>1, FS_Interval
<1> QED  BY <1>2

LEMMA InitHolds == Init => IInv
<1> SUFFICES ASSUME Init PROVE IInv  OBVIOUS
<1>1. 0 \in 0 .. MaxCalls  BY FftAssumption
<1>2. pc \in Steps /\ job \in Jobs /\ calls \in 0 .. MaxCalls /\ pc = "idle"
  BY <1>1 DEF Init, Steps, Jobs
<1>3. DOMAIN x = {} /\ DOMAIN bitSwap = {} /\ DOMAIN butter = {}
  BY DEF Init
<1>4. 0 .. 0 - 1 = {} /\ 0 .. (0 \div 2) - 1 = {}  OBVIOUS
<1>5. TablesAreKept  BY <1>3, <1>4 DEF Init, TablesAreKept
<1>6. ResultsAreExact  BY DEF Init, ResultsAreExact
<1> QED  BY <1>2, <1>3, <1>5, <1>6 DEF IInv, Initialised, Cycled, Sorted

LEMMA ProperPower ==
  ASSUME NEW n \in Powers2 \ {1}
  PROVE  \E h \in Powers2 : n = 2 * h /\ n \div 2 = h /\ h \in Nat /\ h >= 1 /\ n \in Nat
<1>1. PICK h \in Powers2 : n = 2 * h /\ h = n \div 2  BY HalfIs
<1> QED  BY <1>1, PowerIsNat

LEMMA NextPow2Is ==
  ASSUME NEW l \in 1 .. MaxLength \div 2
  PROVE  /\ 2 * NextPow2(l) \in Powers2 \ {1}
         /\ l <= NextPow2(l) /\ NextPow2(l) \in Nat
<1>1. PICK m \in Powers2 : MaxLength = 2 * m /\ MaxLength \div 2 = m
  BY WholeTurn
<1>2. m \in Nat /\ m >= 1 /\ l \in Nat /\ l <= m  BY <1>1, PowerIsNat
<1> DEFINE S == {q \in Powers2 : l <= q}
           Fits(p) == l <= p /\ \A q \in Powers2 : l <= q => p <= q
<1>3. PICK p \in S : \A q \in S : p <= q
  <2>1. m \in S  BY <1>2
  <2>2. S \subseteq Nat  BY PowerIsNat
  <2> HIDE DEF S
  <2> QED  BY <2>1, <2>2, SmallestExists
<1>4. p \in Powers2 /\ Fits(p)  BY <1>3
<1>5. NextPow2(l) = CHOOSE r \in Powers2 : Fits(r)  BY DEF NextPow2
<1> HIDE DEF Fits
<1>6. NextPow2(l) \in Powers2 /\ Fits(NextPow2(l))  BY <1>4, <1>5
<1> DEFINE r == NextPow2(l)
<1>7. r \in Powers2 /\ l <= r /\ r <= m  BY <1>2, <1>6 DEF Fits
<1> HIDE DEF r
<1>8. r \in Nat /\ r >= 1 /\ r < MaxLength  BY <1>1, <1>2, <1>7, PowerIsNat
<1>9. 2 * r \in Powers2 /\ 2 * r # 1  BY <1>7, <1>8, DoubleIs
<1> QED  BY <1>7, <1>8, <1>9 DEF r

-----------------------------------------------------------------------------
(* The calls keep the invariant. *)

LEMMA PaddedHas ==
  ASSUME NEW s, IsSignal(s), NEW n \in Nat
  PROVE  /\ Padded(s, n) \in [0 .. n - 1 -> Complex]
         /\ DOMAIN Padded(s, n) = 0 .. n - 1
         /\ Cardinality(DOMAIN Padded(s, n)) = n
<1>1. Padded(s, n) \in [0 .. n - 1 -> Complex]  BY PaddedIs
<1>2. DOMAIN Padded(s, n) = 0 .. n - 1  BY <1>1
<1> QED  BY <1>1, <1>2, CountIs

LEMMA RealFFTKeeps == IInv /\ RealFFT => IInv'
<1> SUFFICES ASSUME IInv, RealFFT PROVE IInv'  OBVIOUS
<1>1. PICK s \in Signals : /\ Len(s) \in Powers2 \ {1} /\ x1' = s
                           /\ Begin(Padded(s, Len(s)), "spectrum")
  BY DEF RealFFT
<1>2. /\ pc' = "init" /\ job' = "spectrum" /\ x' = Padded(s, Len(s))
      /\ calls < MaxCalls /\ calls' = calls + 1 /\ UNCHANGED tables
  BY <1>1 DEF Begin
<1>3. IsSignal(s) /\ Len(s) \in Nat  BY SignalIs DEF IsSignal
<1>4. /\ x' \in [0 .. Len(s) - 1 -> Complex] /\ DOMAIN x' = 0 .. Len(s) - 1 /\ N' = Len(s)
  BY <1>2, <1>3, PaddedHas DEF N
<1>5. calls' \in 0 .. MaxCalls
  <2>1. calls \in 0 .. MaxCalls  BY DEF IInv
  <2> QED  BY <1>2, <2>1, FftAssumption
<1>6. TablesAreKept'  BY <1>2 DEF IInv, TablesAreKept, tables
<1>7. ArgumentsAreFit'
  BY <1>1, <1>2, <1>4 DEF ArgumentsAreFit, Jobs
<1>8. Initialised'  BY <1>1, <1>2, <1>4 DEF Initialised, Source
<1>9. Cycled' /\ Sorted' /\ ResultsAreExact'
  BY <1>2 DEF Cycled, Sorted, ResultsAreExact
<1>10. \A k \in DOMAIN x' : x'[k] \in Complex  BY <1>4
<1> QED  BY <1>2, <1>5, <1>6, <1>7, <1>8, <1>9, <1>10 DEF IInv, Steps, Jobs

LEMMA FFTNXCorrKeeps == IInv /\ FFTNXCorr => IInv'
<1> SUFFICES ASSUME IInv, FFTNXCorr PROVE IInv'  OBVIOUS
<1>1. PICK s \in Signals, t \in Signals :
        x1' = s /\ x2' = t /\ Begin(Padded(Mirrored(s), XCorrLength'), "first")
  BY DEF FFTNXCorr
<1> DEFINE most == IF Len(s) < Len(t) THEN Len(t) ELSE Len(s)
           n == 2 * NextPow2(most)
<1>2. /\ pc' = "init" /\ job' = "first" /\ x' = Padded(Mirrored(s), n)
      /\ calls < MaxCalls /\ calls' = calls + 1 /\ UNCHANGED tables
  BY <1>1 DEF Begin, XCorrLength
<1>3. /\ IsSignal(Mirrored(s)) /\ Len(s) \in 1 .. MaxLength \div 2
      /\ Len(t) \in 1 .. MaxLength \div 2
  BY SignalIs
<1>4. most \in 1 .. MaxLength \div 2 /\ Len(s) <= most /\ Len(t) <= most
  <2>1. MaxLength \div 2 \in Nat  BY LengthIs
  <2> QED  BY <1>3, <2>1
<1> HIDE DEF most
<1>5. NextPow2(most) \in Nat /\ most <= NextPow2(most) /\ n \in Powers2 \ {1}
  BY <1>4, NextPow2Is
<1>6. n \in Nat /\ 2 * Len(s) <= n /\ 2 * Len(t) <= n
  <2>1. Len(s) \in Nat /\ Len(t) \in Nat /\ most \in Nat
    <3>1. MaxLength \div 2 \in Nat  BY LengthIs
    <3> QED  BY <1>3, <1>4, <3>1
  <2> QED  BY <1>4, <1>5, <2>1
<1> HIDE DEF n
<1>7. /\ x' \in [0 .. n - 1 -> Complex] /\ DOMAIN x' = 0 .. n - 1 /\ N' = n
  BY <1>2, <1>3, <1>6, PaddedHas DEF N
<1>8. calls' \in 0 .. MaxCalls
  <2>1. calls \in 0 .. MaxCalls  BY DEF IInv
  <2> QED  BY <1>2, <2>1, FftAssumption
<1>9. TablesAreKept'  BY <1>2 DEF IInv, TablesAreKept, tables
<1>10. ArgumentsAreFit'
  BY <1>1, <1>2, <1>5, <1>6, <1>7 DEF ArgumentsAreFit, Jobs
<1>11. Initialised'  BY <1>1, <1>2, <1>7 DEF Initialised, Source
<1>12. Cycled' /\ Sorted' /\ ResultsAreExact'
  BY <1>2 DEF Cycled, Sorted, ResultsAreExact
<1>13. \A k \in DOMAIN x' : x'[k] \in Complex  BY <1>7
<1> QED
  BY <1>2, <1>8, <1>9, <1>10, <1>11, <1>12, <1>13 DEF IInv, Steps, Jobs

LEMMA FFTFreeKeeps == IInv /\ FFTFree => IInv'
<1> SUFFICES ASSUME IInv, FFTFree PROVE IInv'  OBVIOUS
<1>1. /\ pc = "idle" /\ swap # 0 /\ swap' = 0 /\ butter' = <<>> /\ bitSwap' = <<>>
      /\ sets' = sets - 1
      /\ UNCHANGED <<x, pc, job, cycle, c, arguments, tmp1, result>>
  BY DEF FFTFree
<1>2. TablesAreKept'
  <2>1. sets = 1  BY <1>1 DEF IInv, TablesAreKept
  <2>2. DOMAIN bitSwap' = {} /\ DOMAIN butter' = {}  BY <1>1
  <2>3. 0 .. 0 - 1 = {} /\ 0 .. (0 \div 2) - 1 = {}  OBVIOUS
  <2> QED  BY <1>1, <2>1, <2>2, <2>3 DEF TablesAreKept
<1>3. ResultsAreExact'  BY <1>1 DEF IInv, ResultsAreExact, arguments
<1> QED
  BY <1>1, <1>2, <1>3 DEF IInv, Initialised, Cycled, Sorted, arguments

LEMMA DoneKeeps == IInv /\ UNCHANGED vars => IInv'
<1> SUFFICES ASSUME IInv, UNCHANGED vars PROVE IInv'  OBVIOUS
<1>1. N' = N  BY DEF N, vars
<1>2. Source' = Source /\ Target' = Target
  BY <1>1 DEF Source, Target, vars, arguments
<1>3. TablesAreKept'  BY DEF IInv, TablesAreKept, vars, tables
<1>4. (pc # "idle" => ArgumentsAreFit)'
  BY <1>1 DEF IInv, ArgumentsAreFit, vars, arguments
<1>5. Initialised' /\ Cycled' /\ Sorted'
  BY <1>1, <1>2 DEF IInv, Initialised, Cycled, Sorted, vars, tables
<1>6. ResultsAreExact'  BY DEF IInv, ResultsAreExact, vars, arguments
<1> QED  BY <1>3, <1>4, <1>5, <1>6 DEF IInv, vars, arguments

-----------------------------------------------------------------------------
(* The steps of a transform keep the invariant. *)

LEMMA SourceIs ==
  ASSUME ArgumentsAreFit
  PROVE  /\ N \in Nat /\ Source \in [0 .. N - 1 -> Complex]
         /\ job # "spectrum" =>
              /\ Padded(Mirrored(x1), N) \in [0 .. N - 1 -> Complex]
              /\ Padded(x2, N) \in [0 .. N - 1 -> Complex]
              /\ \A j \in 0 .. N - 1 :
                   /\ Conj(Padded(Mirrored(x1), N)[j]) = Padded(Mirrored(x1), N)[j]
                   /\ Conj(Padded(x2, N)[j]) = Padded(x2, N)[j]
<1>1. N \in Powers2 /\ x1 \in Signals /\ (job # "spectrum" => x2 \in Signals)
  BY DEF ArgumentsAreFit
<1>2. PICK n \in Nat : n = N  BY <1>1, PowerIsNat
<1>3. n \in Powers2  BY <1>1, <1>2
<1>4. /\ Padded(x1, n) \in [0 .. n - 1 -> Complex]
      /\ Padded(Mirrored(x1), n) \in [0 .. n - 1 -> Complex]
      /\ \A j \in 0 .. n - 1 :
           Conj(Padded(Mirrored(x1), n)[j]) = Padded(Mirrored(x1), n)[j]
  <2>1. IsSignal(x1) /\ IsSignal(Mirrored(x1))  BY <1>1, SignalIs
  <2> QED  BY <2>1, PaddedIs
<1>5. ASSUME job # "spectrum"
      PROVE  /\ Padded(x2, n) \in [0 .. n - 1 -> Complex]
             /\ \A j \in 0 .. n - 1 : Conj(Padded(x2, n)[j]) = Padded(x2, n)[j]
  <2>1. IsSignal(x2)  BY <1>1, <1>5, SignalIs
  <2> QED  BY <2>1, PaddedIs
<1>6. ASSUME job # "spectrum", NEW k \in 0 .. n - 1
      PROVE  Times(Forward(Mirrored(x1), n, k), Forward(x2, n, k)) \in Complex
  <2>1. k \in Nat  OBVIOUS
  <2>2. Forward(Mirrored(x1), n, k) \in Complex  BY <1>3, <1>4, <2>1, DftTerms DEF Forward
  <2>3. Forward(x2, n, k) \in Complex  BY <1>3, <1>5, <1>6, <2>1, DftTerms DEF Forward
  <2> QED  BY <2>2, <2>3, Closed
<1>7. Source \in [0 .. n - 1 -> Complex]
  <2>1. CASE job = "spectrum"  BY <1>2, <1>4, <2>1 DEF Source
  <2>2. CASE job = "first"  BY <1>2, <1>4, <2>2 DEF Source
  <2>3. CASE job = "second"  BY <1>2, <1>5, <2>3 DEF Source
  <2>4. CASE job \notin {"spectrum", "first", "second"}
    <3>1. Source = [k \in 0 .. n - 1 |->
                      Times(Forward(Mirrored(x1), n, k), Forward(x2, n, k))]
      BY <1>2, <2>4 DEF Source
    <3> QED  BY <1>6, <2>4, <3>1
  <2> QED  BY <2>1, <2>2, <2>3, <2>4
<1> QED  BY <1>2, <1>4, <1>5, <1>7

LEMMA FFTInitKeeps == IInv /\ FFTInit => IInv'
<1> SUFFICES ASSUME IInv, FFTInit PROVE IInv'  OBVIOUS
<1>1. /\ pc = "init" /\ pc' = "cycle" /\ cycle' = 1
      /\ UNCHANGED <<x, job, c, arguments, tmp1, result>>
  BY DEF FFTInit
<1>2. ArgumentsAreFit /\ x = Source  BY <1>1 DEF IInv, Initialised
<1>3. N' = N  BY <1>1 DEF N
<1>4. Source' = Source  BY <1>1, <1>3 DEF Source, arguments
<1>5. PICK n \in Powers2 \ {1} : n = N  BY <1>2 DEF ArgumentsAreFit
<1>6. PICK h \in Powers2 : n = 2 * h /\ n \div 2 = h /\ h \in Nat /\ h >= 1 /\ n \in Nat
  BY ProperPower
<1>7. TablesAreKept' /\ swap' = n
  <2>1. CASE swap = N
    <3>1. UNCHANGED tables  BY <2>1 DEF FFTInit
    <3> QED  BY <1>5, <2>1, <3>1 DEF IInv, TablesAreKept, tables
  <2>2. CASE swap # N
    <3>1. /\ swap' = n /\ butter' = Butterflies(n) /\ bitSwap' = [k \in 0 .. n - 1 |-> 0]
          /\ sets' = (IF swap = 0 THEN sets ELSE sets - 1) + 1
      BY <1>5, <2>2 DEF FFTInit
    <3>2. sets' = 1  BY <3>1 DEF IInv, TablesAreKept
    <3>3. DOMAIN butter' = 0 .. h - 1  BY <1>6, <3>1, ButterfliesAre
    <3>4. n # 0  BY <1>6
    <3> QED  BY <1>6, <3>1, <3>2, <3>3, <3>4 DEF TablesAreKept
  <2> QED  BY <2>1, <2>2
<1>8. ArgumentsAreFit'  BY <1>1, <1>2, <1>3 DEF ArgumentsAreFit, arguments
<1>9. Cycled'
  <2>1. /\ 1 \in Powers2 /\ 1 * n = n
    <3>1. 1 * MaxLength = MaxLength  BY LengthIs
    <3> QED  BY <1>6, <3>1, LengthIs, FactorsAre
  <2>2. Source \in [0 .. n - 1 -> Complex]  BY <1>2, <1>5, SourceIs
  <2>3. PICK i \in BOOLEAN : i = (job = "inverse")  OBVIOUS
  <2>4. Stage(Source, Source, n, i, 1, n)  BY <1>6, <2>2, FirstStage
  <2>5. \E s \in Powers2 : 1 * s = n /\ Stage(x, Source, n, job = "inverse", 1, s)
    BY <1>2, <2>1, <2>3, <2>4
  <2> QED  BY <1>1, <1>3, <1>4, <1>5, <1>7, <2>1, <2>5 DEF Cycled
<1>10. Initialised' /\ Sorted' /\ ResultsAreExact'
  BY <1>1 DEF Initialised, Sorted, ResultsAreExact
<1> QED
  BY <1>1, <1>7, <1>8, <1>9, <1>10 DEF IInv, Steps, arguments

LEMMA CycleKeeps == IInv /\ Cycle => IInv'
<1> SUFFICES ASSUME IInv, Cycle PROVE IInv'  OBVIOUS
<1>1. /\ pc = "cycle" /\ cycle < N /\ cycle' = 2 * cycle
      /\ UNCHANGED <<tables, pc, job, c, arguments, tmp1, result>>
  BY DEF Cycle
<1>2. ArgumentsAreFit /\ TablesAreKept /\ swap = N /\ cycle \in Powers2
  BY <1>1 DEF IInv, Cycled
<1>3. PICK n \in Powers2 \ {1} : n = N  BY <1>2 DEF ArgumentsAreFit
<1>4. PICK h \in Powers2 : n = 2 * h /\ n \div 2 = h /\ h \in Nat /\ h >= 1 /\ n \in Nat
  BY ProperPower
<1>5. PICK i \in BOOLEAN : i = (job = "inverse")  OBVIOUS
<1>6. PICK s \in Powers2 : cycle * s = n /\ Stage(x, Source, n, i, cycle, s)
  BY <1>1, <1>3, <1>5 DEF IInv, Cycled
<1>7. PICK d \in Powers2 : d = cycle  BY <1>2
<1>8. d \in Nat /\ d >= 1 /\ d < n /\ 2 * d <= n /\ d <= h /\ 2 * d \in Powers2
  <2>1. d \in Nat /\ d >= 1 /\ d < n  BY <1>1, <1>3, <1>7, PowerIsNat
  <2>2. 2 * d <= n  BY <2>1, NextIsDouble
  <2>3. d < MaxLength
    <3>1. n <= MaxLength /\ MaxLength \in Nat  BY PowerIsNat, LengthIs
    <3> QED  BY <1>4, <2>1, <3>1
  <2>4. 2 * d \in Powers2  BY <2>3, DoubleIs
  <2> QED  BY <1>4, <2>1, <2>2, <2>4
<1>9. s # 1
  <2> SUFFICES ASSUME s = 1 PROVE FALSE  OBVIOUS
  <2>1. d * 1 = d  BY <1>8
  <2> QED  BY <1>4, <1>6, <1>7, <1>8, <2>1
<1>10. PICK t \in Powers2 : s = 2 * t  BY <1>9, HalfIs
<1>11. t \in Nat /\ t >= 1 /\ 2 * t \in Nat /\ 2 * t > 0  BY PowerIsNat
<1>12. d * (2 * t) = n  BY <1>6, <1>7, <1>10
<1>13. (2 * d) * t = n  BY <1>8, <1>11, <1>12
<1>14. n \div (2 * d) = t
  <2>1. \A y, z \in Nat : y > 0 => (y * z) \div y = z  OBVIOUS
  <2>2. 2 * d \in Nat /\ 2 * d > 0  BY <1>8
  <2> QED  BY <1>11, <1>13, <2>1, <2>2
<1>15. x \in [0 .. n - 1 -> Complex] /\ Source \in [0 .. n - 1 -> Complex]
  BY <1>2, <1>3, SourceIs DEF ArgumentsAreFit
<1>16. x' = [k \in 0 .. n - 1 |->
               LET w == Phi(butter[k \div (2 * t)])
               IN IF k % (2 * t) < t THEN Plus(x[k], Times(w, x[k + t]))
                  ELSE Minus(x[k - t], Times(w, x[k]))]
  BY <1>3, <1>7, <1>14, <1>15 DEF Cycle
<1>17. ASSUME NEW m \in 0 .. n - 1
       PROVE  /\ m \div (2 * t) \in 0 .. h - 1
              /\ m % (2 * t) < t => m + t \in 0 .. n - 1
              /\ ~(m % (2 * t) < t) => m - t \in 0 .. n - 1
  <2>1. PICK p \in Nat : p = 2 * t /\ p > 0  BY <1>11
  <2>2. m \in Nat /\ m < n  BY <1>4
  <2>3. /\ m \div p \in Nat /\ m % p \in Nat /\ m % p < p
        /\ m = p * (m \div p) + (m % p)
    BY <2>1, <2>2
  <2>4. PICK b \in Nat : b = m \div p  BY <2>3
  <2>5. PICK r \in Nat : r = m % p  BY <2>3
  <2>6. m = b * p + r /\ r < p  BY <2>3, <2>4, <2>5
  <2>7. b < d
    <3> SUFFICES ASSUME ~(b < d) PROVE FALSE  OBVIOUS
    <3>1. PICK e \in Nat : b = d + e  BY <1>8
    <3>2. b * p = d * p + e * p  BY <1>8, <3>1
    <3>3. e * p \in Nat  BY <3>1
    <3>4. d * p = n  BY <1>12, <2>1
    <3> QED  BY <1>4, <2>2, <2>6, <3>2, <3>3, <3>4
  <2>8. b * p + p <= n
    <3>1. PICK e \in Nat : d = b + 1 + e  BY <1>8, <2>7
    <3>2. d * p = b * p + p + e * p  BY <3>1
    <3>3. e * p \in Nat  BY <3>1
    <3>4. PICK y \in Nat : y = b * p  OBVIOUS
    <3>5. d * p = n  BY <1>12, <2>1
    <3> QED  BY <1>4, <3>2, <3>3, <3>4, <3>5
  <2>9. PICK y \in Nat : y = b * p  OBVIOUS
  <2>10. b \in 0 .. h - 1  BY <1>4, <1>8, <2>7
  <2>11. r < t => m + t \in 0 .. n - 1  BY <1>4, <1>11, <2>1, <2>6, <2>8, <2>9
  <2>12. ~(r < t) => m - t \in 0 .. n - 1  BY <1>4, <1>11, <2>2, <2>6, <2>9
  <2> QED  BY <2>1, <2>4, <2>5, <2>10, <2>11, <2>12
<1>18. ASSUME NEW b \in 0 .. h - 1
       PROVE  Phi(butter[b]) = Turn(n, i, Butterflies(n)[b])
  <2>1. butter = Butterflies(n) /\ swap = n
    BY <1>2, <1>3, <1>4 DEF TablesAreKept
  <2>2. PICK k \in 0 .. h - 1 : k = Butterflies(n)[b]  BY <1>4, ButterfliesTwice
  <2>3. PICK q \in Powers2 : n * q = MaxLength /\ q = MaxLength \div n  BY OtherFactor
  <2>4. q \in Nat /\ q >= 1 /\ k \in Nat  BY <1>4, PowerIsNat
  <2>5. k * q \in 0 .. MaxLength - 1
    <3>0. k < h /\ k + 1 <= n  BY <1>4, <2>4
    <3>1. PICK e \in Nat : n = k + 1 + e
      <4>1. n - (k + 1) \in Nat /\ n = k + 1 + (n - (k + 1))  BY <1>4, <2>4, <3>0
      <4> QED  BY <4>1
    <3>2. n * q = k * q + q + e * q  BY <2>4, <3>1
    <3>3. e * q \in Nat /\ k * q \in Nat  BY <2>4, <3>1
    <3> QED  BY <2>3, <2>4, <3>2, <3>3, LengthIs
  <2>6. Root[k * q] = Power[k * q]  BY <2>5, RootIs
  <2> QED  BY <1>5, <2>1, <2>2, <2>3, <2>6 DEF Phi, Turn
<1>19. ASSUME NEW m \in 0 .. n - 1
       PROVE  /\ x'[m] = LET w == Turn(n, i, Butterflies(n)[m \div (2 * t)])
                         IN IF m % (2 * t) < t THEN Plus(x[m], Times(w, x[m + t]))
                            ELSE Minus(x[m - t], Times(w, x[m]))
              /\ x'[m] \in Complex
  <2>1. PICK w \in Complex : /\ w = Turn(n, i, Butterflies(n)[m \div (2 * t)])
                             /\ w = Phi(butter[m \div (2 * t)])
    <3>1. PICK b \in 0 .. h - 1 : b = m \div (2 * t)  BY <1>17
    <3>2. Butterflies(n)[b] \in Nat  BY <1>4, ButterfliesAre
    <3>3. Turn(n, i, Butterflies(n)[b]) \in Complex  BY <3>2, TurnIs
    <3> QED  BY <1>18, <3>1, <3>3
  <2>2. x'[m] = IF m % (2 * t) < t THEN Plus(x[m], Times(w, x[m + t]))
                ELSE Minus(x[m - t], Times(w, x[m]))
    BY <1>16, <2>1
  <2>3. CASE m % (2 * t) < t
    <3>1. x[m] \in Complex /\ x[m + t] \in Complex  BY <1>15, <1>17, <2>3
    <3>2. x'[m] \in Complex  BY <2>2, <2>3, <3>1, Closed
    <3> QED  BY <2>1, <2>2, <2>3, <3>2
  <2>4. CASE ~(m % (2 * t) < t)
    <3>1. x[m] \in Complex /\ x[m - t] \in Complex  BY <1>15, <1>17, <2>4
    <3>2. x'[m] \in Complex  BY <2>2, <2>4, <3>1, Closed
    <3> QED  BY <2>1, <2>2, <2>4, <3>2
  <2> QED  BY <2>3, <2>4
<1>20. x' \in [0 .. n - 1 -> Complex]
  <2>1. x' = [k \in 0 .. n - 1 |-> x'[k]]  BY <1>16
  <2> QED  BY <1>19, <2>1
<1>21. N' = n  BY <1>4, <1>20, CountIs DEF N
<1>22. Source' = Source  BY <1>1, <1>3, <1>21 DEF Source, arguments
<1>23. Stage(x', Source, n, i, 2 * d, t)
  <2>1. Stage(x, Source, n, i, d, 2 * t)  BY <1>6, <1>7, <1>10
  <2>2. \A m \in 0 .. n - 1 :
          x'[m] = LET w == Turn(n, i, Butterflies(n)[m \div (2 * t)])
                  IN IF m % (2 * t) < t THEN Plus(x[m], Times(w, x[m + t]))
                     ELSE Minus(x[m - t], Times(w, x[m]))
    BY <1>19
  <2> QED  BY <1>4, <1>11, <1>12, <1>15, <2>1, <2>2, StageDoubles
<1>24. Cycled'
  <2>1. swap' = n /\ cycle' = 2 * d /\ job' = job  BY <1>1, <1>2, <1>3, <1>7 DEF tables
  <2>2. \E e \in Powers2 : (2 * d) * e = n /\ Stage(x', Source, n, i, 2 * d, e)
    BY <1>13, <1>23
  <2> QED  BY <1>5, <1>8, <1>21, <1>22, <2>1, <2>2 DEF Cycled
<1>25. ArgumentsAreFit'
  BY <1>1, <1>2, <1>3, <1>20, <1>21 DEF ArgumentsAreFit, arguments
<1>26. TablesAreKept'  BY <1>1, <1>2 DEF TablesAreKept, tables
<1>27. Initialised' /\ Sorted' /\ ResultsAreExact'
  BY <1>1 DEF Initialised, Sorted, ResultsAreExact
<1>28. \A k \in DOMAIN x' : x'[k] \in Complex  BY <1>20
<1> QED
  BY <1>1, <1>24, <1>25, <1>26, <1>27, <1>28 DEF IInv, arguments

LEMMA BuildSwapKeeps == IInv /\ BuildSwap => IInv'
<1> SUFFICES ASSUME IInv, BuildSwap PROVE IInv'  OBVIOUS
<1>1. /\ pc = "cycle" /\ cycle >= N /\ bitSwap' = Permutation
      /\ pc' = "swap" /\ c' = 0
      /\ UNCHANGED <<swap, butter, sets, x, job, cycle, arguments, tmp1, result>>
  BY DEF BuildSwap
<1>2. ArgumentsAreFit /\ TablesAreKept /\ swap = N /\ cycle \in Powers2
  BY <1>1 DEF IInv, Cycled
<1>3. PICK n \in Powers2 \ {1} : n = N  BY <1>2 DEF ArgumentsAreFit
<1>4. PICK h \in Powers2 : n = 2 * h /\ n \div 2 = h /\ h \in Nat /\ h >= 1 /\ n \in Nat
  BY ProperPower
<1>5. PICK i \in BOOLEAN : i = (job = "inverse")  OBVIOUS
<1>6. PICK s \in Powers2 : cycle * s = n /\ Stage(x, Source, n, i, cycle, s)
  BY <1>1, <1>3, <1>5 DEF IInv, Cycled
<1>7. cycle = n /\ s = 1
  <2>1. PICK d \in Nat : d = cycle /\ d >= n  BY <1>1, <1>2, <1>3, PowerIsNat
  <2>2. s \in Nat /\ s >= 1  BY PowerIsNat
  <2>3. PICK e \in Nat : s = 1 + e  BY <2>2
  <2>4. PICK y \in Nat : y = d * e  BY <2>3
  <2>5. n = d + y
    <3>1. d * (1 + e) = d + d * e  BY <2>3
    <3> QED  BY <1>6, <2>1, <2>3, <2>4, <3>1
  <2>6. y = 0 /\ d = n  BY <1>4, <2>1, <2>5
  <2>7. e = 0
    <3> SUFFICES ASSUME e >= 1 PROVE FALSE  BY <2>3
    <3>1. d * e >= d  BY <2>1, <2>3
    <3> QED  BY <1>4, <2>4, <2>6, <3>1
  <2> QED  BY <2>1, <2>3, <2>6, <2>7
<1>8. x \in [0 .. n - 1 -> Complex] /\ Source \in [0 .. n - 1 -> Complex]
  BY <1>2, <1>3, SourceIs DEF ArgumentsAreFit
<1>9. \A b \in 0 .. n - 1 : x[b] = Dft(Source, n, i, Order(n)[b])
  BY <1>4, <1>6, <1>7, <1>8, LastStage
<1>10. bitSwap' = Order(n)
  <2>1. butter = Butterflies(n)  BY <1>2, <1>3, <1>4 DEF TablesAreKept
  <2> QED  BY <1>1, <1>3, <2>1 DEF Permutation, Order
<1>11. \A k \in 0 .. n - 1 : Order(n)[k] \in 0 .. n - 1 /\ Order(n)[k] \in Nat
  BY <1>4, OrderIs
<1>12. bitSwap' \in [0 .. n - 1 -> 0 .. n - 1]
  <2>1. Order(n) = [k \in 0 .. n - 1 |-> Order(n)[k]]  BY DEF Order
  <2> QED  BY <1>10, <1>11, <2>1
<1>13. Target = [k \in 0 .. n - 1 |-> Dft(Source, n, i, k)]  BY <1>3, <1>5 DEF Target
<1>14. Swapped(x, Order(n), Order(n), Target, n, 0)
  <2> SUFFICES ASSUME NEW k \in 0 .. n - 1
               PROVE  /\ x[k] = IF k < 0 \/ Order(n)[k] < 0 THEN Target[k]
                                ELSE Target[Order(n)[k]]
                      /\ k >= 0 => Order(n)[k] = IF Order(n)[k] < 0 THEN k ELSE Order(n)[k]
    BY DEF Swapped
  <2>1. PICK r \in 0 .. n - 1 : r = Order(n)[k]  BY <1>11
  <2>2. ~(k < 0) /\ ~(r < 0)  BY <1>4
  <2>3. x[k] = Target[r]  BY <1>9, <1>13, <2>1
  <2> QED  BY <2>1, <2>2, <2>3
<1>15. N' = N  BY <1>1 DEF N
<1>16. Source' = Source  BY <1>1, <1>15 DEF Source, arguments
<1>17. Target' = Target  BY <1>1, <1>15, <1>16 DEF Target
<1>18. Sorted'
  <2>1. 0 \in 0 .. n  BY <1>4
  <2> QED
    BY <1>1, <1>2, <1>3, <1>10, <1>12, <1>14, <1>15, <1>17, <2>1 DEF Sorted
<1>19. ArgumentsAreFit'  BY <1>1, <1>2, <1>15 DEF ArgumentsAreFit, arguments
<1>20. TablesAreKept'
  <2>1. DOMAIN bitSwap' = 0 .. n - 1  BY <1>12
  <2> QED  BY <1>1, <1>2, <1>3, <2>1 DEF TablesAreKept
<1>21. Initialised' /\ Cycled' /\ ResultsAreExact'
  BY <1>1 DEF Initialised, Cycled, ResultsAreExact
<1> QED
  BY <1>1, <1>18, <1>19, <1>20, <1>21 DEF IInv, Steps, arguments

LEMMA SwapKeeps == IInv /\ Swap => IInv'
<1> SUFFICES ASSUME IInv, Swap PROVE IInv'  OBVIOUS
<1>1. /\ pc = "swap" /\ c < N /\ c' = c + 1
      /\ UNCHANGED <<swap, butter, sets, pc, job, cycle, arguments, tmp1, result>>
  BY DEF Swap
<1>2. /\ ArgumentsAreFit /\ TablesAreKept /\ swap = N /\ c \in 0 .. N
      /\ bitSwap \in [0 .. N - 1 -> 0 .. N - 1]
      /\ Swapped(x, bitSwap, Order(N), Target, N, c)
  BY <1>1 DEF IInv, Sorted
<1>3. PICK n \in Powers2 \ {1} : n = N  BY <1>2 DEF ArgumentsAreFit
<1>4. PICK h \in Powers2 : n = 2 * h /\ n \div 2 = h /\ h \in Nat /\ h >= 1 /\ n \in Nat
  BY ProperPower
<1>5. PICK e \in 0 .. n - 1 : e = c  BY <1>1, <1>2, <1>3, <1>4
<1>6. x \in [0 .. n - 1 -> Complex] /\ bitSwap \in [0 .. n - 1 -> 0 .. n - 1]
  BY <1>2, <1>3 DEF ArgumentsAreFit
<1>7. OwnInverse(Order(n), n)  BY <1>4, OrderIs DEF OwnInverse
<1>8. Swapped(x, bitSwap, Order(n), Target, n, e)  BY <1>2, <1>3, <1>5
<1> DEFINE D == Target
           R == Order(n)
<1>9. /\ bitSwap[e] \in 0 .. n - 1
      /\ bitSwap[e] = e => Swapped(x, bitSwap, R, D, n, e + 1)
      /\ bitSwap[e] # e =>
           Swapped([x EXCEPT ![e] = x[bitSwap[e]], ![bitSwap[e]] = x[e]],
                   [bitSwap EXCEPT ![bitSwap[e]] = bitSwap[e]], R, D, n, e + 1)
  <2> HIDE DEF D, R
  <2>1. PICK z \in [0 .. n - 1 -> Complex] : z = x  BY <1>6
  <2>2. PICK p \in [0 .. n - 1 -> 0 .. n - 1] : p = bitSwap  BY <1>6
  <2>3. OwnInverse(R, n) /\ Swapped(z, p, R, D, n, e)
    BY <1>7, <1>8, <2>1, <2>2 DEF R, D
  <2>4. /\ p[e] \in 0 .. n - 1
        /\ p[e] = e => Swapped(z, p, R, D, n, e + 1)
        /\ p[e] # e =>
             Swapped([z EXCEPT ![e] = z[p[e]], ![p[e]] = z[e]],
                     [p EXCEPT ![p[e]] = p[e]], R, D, n, e + 1)
    BY <1>4, <2>3, SwapsGoOn
  <2> QED  BY <2>1, <2>2, <2>4
<1> HIDE DEF D, R
<1>10. /\ x' \in [0 .. n - 1 -> Complex] /\ bitSwap' \in [0 .. n - 1 -> 0 .. n - 1]
       /\ Swapped(x', bitSwap', R, D, n, e + 1)
  <2>1. CASE bitSwap[e] = e
    <3>1. UNCHANGED <<x, bitSwap>>  BY <1>5, <2>1 DEF Swap
    <3> QED  BY <1>6, <1>9, <2>1, <3>1
  <2>2. CASE bitSwap[e] # e
    <3>1. /\ bitSwap' = [bitSwap EXCEPT ![bitSwap[e]] = bitSwap[e]]
          /\ x' = [x EXCEPT ![e] = x[bitSwap[e]], ![bitSwap[e]] = x[e]]
      BY <1>5, <2>2 DEF Swap
    <3>2. x[e] \in Complex /\ x[bitSwap[e]] \in Complex  BY <1>6, <1>9
    <3>3. x' \in [0 .. n - 1 -> Complex]  BY <1>6, <1>9, <3>1, <3>2
    <3>4. bitSwap' \in [0 .. n - 1 -> 0 .. n - 1]  BY <1>6, <1>9, <3>1
    <3> QED  BY <1>9, <2>2, <3>1, <3>3, <3>4
  <2> QED  BY <2>1, <2>2
<1>11. N' = n  BY <1>4, <1>10, CountIs DEF N
<1>12. Source' = Source  BY <1>1, <1>3, <1>11 DEF Source, arguments
<1>13. Target' = Target  BY <1>1, <1>3, <1>11, <1>12 DEF Target
<1>14. Sorted'
  <2>1. c' = e + 1 /\ e + 1 \in 0 .. n  BY <1>1, <1>4, <1>5
  <2> QED  BY <1>1, <1>2, <1>3, <1>10, <1>11, <1>13, <2>1 DEF Sorted, D, R
<1>15. ArgumentsAreFit'
  BY <1>1, <1>2, <1>3, <1>10, <1>11 DEF ArgumentsAreFit, arguments
<1>16. TablesAreKept'
  <2>1. DOMAIN bitSwap' = 0 .. n - 1  BY <1>10
  <2> QED  BY <1>1, <1>2, <1>3, <2>1 DEF TablesAreKept
<1>17. Initialised' /\ Cycled' /\ ResultsAreExact'
  BY <1>1 DEF Initialised, Cycled, ResultsAreExact
<1>18. \A k \in DOMAIN x' : x'[k] \in Complex  BY <1>10
<1> QED
  BY <1>1, <1>14, <1>15, <1>16, <1>17, <1>18 DEF IInv, arguments

-----------------------------------------------------------------------------
(* The ends of the transforms keep the invariant. *)

LEMMA FinishedIs ==
  ASSUME IInv, Finished
  PROVE  /\ ArgumentsAreFit /\ TablesAreKept /\ swap = N
         /\ \A k \in 0 .. N - 1 : x[k] = Dft(Source, N, job = "inverse", k)
<1>1. pc = "swap" /\ c >= N  BY DEF Finished
<1>2. /\ ArgumentsAreFit /\ TablesAreKept /\ swap = N /\ c \in 0 .. N
      /\ Swapped(x, bitSwap, Order(N), Target, N, c)
  BY <1>1 DEF IInv, Sorted
<1>3. N \in Nat  BY <1>2, SourceIs
<1>4. c = N  BY <1>1, <1>2, <1>3
<1>5. ASSUME NEW k \in 0 .. N - 1 PROVE x[k] = Target[k]
  <2>1. k < c  BY <1>3, <1>4
  <2> QED  BY <1>2, <2>1 DEF Swapped
<1> QED  BY <1>2, <1>5 DEF Target

LEMMA SpectrumDoneKeeps == IInv /\ SpectrumDone => IInv'
<1> SUFFICES ASSUME IInv, SpectrumDone PROVE IInv'  OBVIOUS
<1>1. /\ Finished /\ job = "spectrum" /\ result' = Half /\ pc' = "idle"
      /\ UNCHANGED <<tables, x, job, cycle, c, arguments, tmp1>>
  BY DEF SpectrumDone
<1>2. /\ ArgumentsAreFit /\ TablesAreKept
      /\ \A k \in 0 .. N - 1 : x[k] = Dft(Source, N, job = "inverse", k)
  BY <1>1, FinishedIs
<1>3. PICK n \in Powers2 \ {1} : n = N  BY <1>2 DEF ArgumentsAreFit
<1>4. PICK h \in Powers2 : n = 2 * h /\ n \div 2 = h /\ h \in Nat /\ h >= 1 /\ n \in Nat
  BY ProperPower
<1>5. IsSignal(x1) /\ Len(x1) = n /\ Source = Padded(x1, n)
  BY <1>1, <1>2, <1>3, SignalIs DEF ArgumentsAreFit, Source
<1>6. ASSUME NEW k \in 0 .. h PROVE x[k] = Spectrum(x1, k)
  <2>1. k \in 0 .. n - 1 /\ k \in Nat  BY <1>4
  <2>2. x[k] = Dft(Padded(x1, n), n, FALSE, k)
    <3>1. (job = "inverse") = FALSE  BY <1>1
    <3> QED  BY <1>2, <1>3, <1>5, <2>1, <3>1
  <2> QED  BY <1>5, <2>1, <2>2, SpectrumIs
<1>7. result' = [k \in 0 .. h |-> Spectrum(x1, k)]
  BY <1>1, <1>3, <1>4, <1>6 DEF Half
<1>8. ResultsAreExact'
  BY <1>1, <1>4, <1>5, <1>7 DEF ResultsAreExact, arguments
<1>9. TablesAreKept'  BY <1>1, <1>2 DEF TablesAreKept, tables
<1> QED
  BY <1>1, <1>8, <1>9 DEF IInv, Initialised, Cycled, Sorted, Steps, arguments

LEMMA FirstDoneKeeps == IInv /\ FirstDone => IInv'
<1> SUFFICES ASSUME IInv, FirstDone PROVE IInv'  OBVIOUS
<1>1. /\ Finished /\ job = "first" /\ tmp1' = Half /\ x' = Padded(x2, N)
      /\ job' = "second" /\ pc' = "init"
      /\ UNCHANGED <<tables, cycle, c, arguments, result>>
  BY DEF FirstDone
<1>2. /\ ArgumentsAreFit /\ TablesAreKept
      /\ \A k \in 0 .. N - 1 : x[k] = Dft(Source, N, job = "inverse", k)
  BY <1>1, FinishedIs
<1>3. PICK n \in Powers2 \ {1} : n = N  BY <1>2 DEF ArgumentsAreFit
<1>4. PICK h \in Powers2 : n = 2 * h /\ n \div 2 = h /\ h \in Nat /\ h >= 1 /\ n \in Nat
  BY ProperPower
<1>5. /\ x2 \in Signals /\ 2 * Len(x1) <= n /\ 2 * Len(x2) <= n /\ x1 \in Signals
      /\ Source = Padded(Mirrored(x1), n)
  BY <1>1, <1>2, <1>3 DEF ArgumentsAreFit, Source
<1>6. ASSUME NEW k \in 0 .. h PROVE x[k] = Forward(Mirrored(x1), n, k)
  <2>1. k \in 0 .. n - 1  BY <1>4
  <2>2. (job = "inverse") = FALSE  BY <1>1
  <2> QED  BY <1>2, <1>3, <1>5, <2>1, <2>2 DEF Forward
<1>7. tmp1' = [k \in 0 .. h |-> Forward(Mirrored(x1), n, k)]
  BY <1>1, <1>3, <1>4, <1>6 DEF Half
<1>8. x' \in [0 .. n - 1 -> Complex] /\ N' = n
  <2>1. IsSignal(x2)  BY <1>5, SignalIs
  <2> QED  BY <1>1, <1>3, <1>4, <2>1, PaddedHas DEF N
<1>9. ArgumentsAreFit'
  BY <1>1, <1>4, <1>5, <1>7, <1>8 DEF ArgumentsAreFit, arguments, Jobs
<1>10. Initialised'
  BY <1>1, <1>3, <1>8 DEF Initialised, Source, arguments
<1>11. TablesAreKept'  BY <1>1, <1>2 DEF TablesAreKept, tables
<1>12. \A k \in DOMAIN x' : x'[k] \in Complex  BY <1>8
<1> QED
  BY <1>1, <1>9, <1>10, <1>11, <1>12
  DEF IInv, Cycled, Sorted, ResultsAreExact, Steps, Jobs, arguments

LEMMA SecondDoneKeeps == IInv /\ SecondDone => IInv'
<1> SUFFICES ASSUME IInv, SecondDone PROVE IInv'  OBVIOUS
<1> DEFINE half == [k \in 0 .. N \div 2 |-> Times(tmp1[k], x[k])]
<1>1. /\ Finished /\ job = "second" /\ x' = Whole(half, N)
      /\ job' = "inverse" /\ pc' = "init"
      /\ UNCHANGED <<tables, cycle, c, arguments, tmp1, result>>
  BY DEF SecondDone
<1>2. /\ ArgumentsAreFit /\ TablesAreKept
      /\ \A k \in 0 .. N - 1 : x[k] = Dft(Source, N, job = "inverse", k)
  BY <1>1, FinishedIs
<1>3. PICK n \in Powers2 \ {1} : n = N  BY <1>2 DEF ArgumentsAreFit
<1>4. PICK h \in Powers2 : n = 2 * h /\ n \div 2 = h /\ h \in Nat /\ h >= 1 /\ n \in Nat
  BY ProperPower
<1>5. /\ x2 \in Signals /\ 2 * Len(x1) <= n /\ 2 * Len(x2) <= n /\ x1 \in Signals
      /\ Source = Padded(x2, n)
      /\ tmp1 = [k \in 0 .. h |-> Forward(Mirrored(x1), n, k)]
  BY <1>1, <1>2, <1>3, <1>4 DEF ArgumentsAreFit, Source
<1> DEFINE f == Padded(Mirrored(x1), n)
           g == Padded(x2, n)
<1>6. ASSUME NEW k \in 0 .. h
      PROVE  half[k] = Times(Dft(f, n, FALSE, k), Dft(g, n, FALSE, k))
  <2>1. k \in 0 .. n - 1  BY <1>4
  <2>2. (job = "inverse") = FALSE  BY <1>1
  <2>3. x[k] = Dft(g, n, FALSE, k)  BY <1>2, <1>3, <1>5, <2>1, <2>2
  <2>4. tmp1[k] = Dft(f, n, FALSE, k)  BY <1>5 DEF Forward
  <2>5. half[k] = Times(tmp1[k], x[k])  BY <1>3, <1>4
  <2> HIDE DEF half, f, g
  <2> QED  BY <2>3, <2>4, <2>5
<1>7. /\ f \in [0 .. n - 1 -> Complex] /\ g \in [0 .. n - 1 -> Complex]
      /\ IsReal(f, n) /\ IsReal(g, n)
  BY <1>1, <1>2, <1>3, SourceIs DEF IsReal
<1>8. /\ Whole(half, n) \in [0 .. n - 1 -> Complex]
      /\ \A m \in 0 .. n - 1 :
           Whole(half, n)[m] = Times(Dft(f, n, FALSE, m), Dft(g, n, FALSE, m))
  <2>1. IsProduct(half, f, g, h, n)  BY <1>6 DEF IsProduct
  <2>2. n \in Powers2  OBVIOUS
  <2> HIDE DEF half, f, g
  <2>3. /\ Whole(half, n) \in [0 .. n - 1 -> Complex]
        /\ IsProduct(Whole(half, n), f, g, n - 1, n)
    BY <1>4, <1>7, <2>1, <2>2, WholeIs
  <2> QED  BY <2>3 DEF IsProduct
<1>9. x' = Whole(half, n)  BY <1>1, <1>3
<1> HIDE DEF half
<1>10. x' \in [0 .. n - 1 -> Complex]  BY <1>8, <1>9
<1>11. N' = n  BY <1>4, <1>10, CountIs DEF N
<1>12. x' = [m \in 0 .. n - 1 |->
               Times(Forward(Mirrored(x1), n, m), Forward(x2, n, m))]
  BY <1>8, <1>9, <1>10 DEF Forward
<1>13. ArgumentsAreFit'
  BY <1>1, <1>4, <1>5, <1>10, <1>11 DEF ArgumentsAreFit, arguments, Jobs
<1>14. Initialised'
  BY <1>1, <1>11, <1>12 DEF Initialised, Source, arguments
<1>15. TablesAreKept'  BY <1>1, <1>2 DEF TablesAreKept, tables
<1>16. \A k \in DOMAIN x' : x'[k] \in Complex  BY <1>10
<1> QED
  BY <1>1, <1>13, <1>14, <1>15, <1>16
  DEF IInv, Cycled, Sorted, ResultsAreExact, Steps, Jobs, arguments

LEMMA InverseDoneKeeps == IInv /\ InverseDone => IInv'
<1> SUFFICES ASSUME IInv, InverseDone PROVE IInv'  OBVIOUS
<1>1. /\ Finished /\ job = "inverse" /\ pc' = "idle"
      /\ result' = [k \in 0 .. Len(x1) + Len(x2) - 2 |->
                      (x[k][1] * Inverse1(N % Prime)) % Prime]
      /\ UNCHANGED <<tables, x, job, cycle, c, arguments, tmp1>>
  BY DEF InverseDone
<1>2. /\ ArgumentsAreFit /\ TablesAreKept
      /\ \A k \in 0 .. N - 1 : x[k] = Dft(Source, N, job = "inverse", k)
  BY <1>1, FinishedIs
<1>3. PICK n \in Powers2 \ {1} : n = N  BY <1>2 DEF ArgumentsAreFit
<1>4. PICK h \in Powers2 : n = 2 * h /\ n \div 2 = h /\ h \in Nat /\ h >= 1 /\ n \in Nat
  BY ProperPower
<1>5. /\ x2 \in Signals /\ 2 * Len(x1) <= n /\ 2 * Len(x2) <= n /\ x1 \in Signals
      /\ Source = [m \in 0 .. n - 1 |->
                     Times(Forward(Mirrored(x1), n, m), Forward(x2, n, m))]
  BY <1>1, <1>2, <1>3 DEF ArgumentsAreFit, Source
<1>6. PICK P : P = Source  OBVIOUS
<1>7. \A m \in 0 .. n - 1 :
        P[m] = Times(Dft(Padded(Mirrored(x1), n), n, FALSE, m),
                     Dft(Padded(x2, n), n, FALSE, m))
  BY <1>5, <1>6 DEF Forward
<1>8. ASSUME NEW k \in 0 .. Len(x1) + Len(x2) - 2
      PROVE  (x[k][1] * Inverse1(n % Prime)) % Prime = Correlation(x1, x2, k)
  <2>1. k \in 0 .. n - 1
    <3>1. Len(x1) \in Nat /\ Len(x2) \in Nat  BY <1>5, SignalIs DEF IsSignal
    <3> QED  BY <1>4, <1>5, <3>1
  <2>2. (job = "inverse") = TRUE  BY <1>1
  <2>3. x[k] = Dft(P, n, TRUE, k)  BY <1>2, <1>3, <1>6, <2>1, <2>2
  <2>4. (Dft(P, n, TRUE, k)[1] * Inverse1(n % Prime)) % Prime = Correlation(x1, x2, k)
    <3>1. PICK s \in Signals : s = x1  BY <1>5
    <3>2. PICK t \in Signals : t = x2  BY <1>5
    <3>3. HasRoom(n, s, t, k)  BY <1>5, <3>1, <3>2 DEF HasRoom
    <3>4. IsProduct(P, Padded(Mirrored(s), n), Padded(t, n), n - 1, n)
      BY <1>7, <3>1, <3>2 DEF IsProduct
    <3>5. Correlates(P, n, s, t, k)  BY <3>3, <3>4, CorrelationIs
    <3> QED  BY <3>1, <3>2, <3>5 DEF Correlates
  <2> QED  BY <2>3, <2>4
<1>9. result' = [k \in 0 .. Len(x1) + Len(x2) - 2 |-> Correlation(x1, x2, k)]
  BY <1>1, <1>3, <1>8
<1>10. ResultsAreExact'  BY <1>1, <1>9 DEF ResultsAreExact, arguments
<1>11. TablesAreKept'  BY <1>1, <1>2 DEF TablesAreKept, tables
<1> QED
  BY <1>1, <1>10, <1>11 DEF IInv, Initialised, Cycled, Sorted, Steps, arguments

-----------------------------------------------------------------------------
LEMMA NextKeeps == IInv /\ [Next]_vars => IInv'
<1> SUFFICES ASSUME IInv, [Next]_vars PROVE IInv'  OBVIOUS
<1>1. CASE RealFFT       BY <1>1, RealFFTKeeps
<1>2. CASE FFTNXCorr     BY <1>2, FFTNXCorrKeeps
<1>3. CASE FFTFree       BY <1>3, FFTFreeKeeps
<1>4. CASE FFTInit       BY <1>4, FFTInitKeeps
<1>5. CASE Cycle         BY <1>5, CycleKeeps
<1>6. CASE BuildSwap     BY <1>6, BuildSwapKeeps
<1>7. CASE Swap          BY <1>7, SwapKeeps
<1>8. CASE SpectrumDone  BY <1>8, SpectrumDoneKeeps
<1>9. CASE FirstDone     BY <1>9, FirstDoneKeeps
<1>10. CASE SecondDone   BY <1>10, SecondDoneKeeps
<1>11. CASE InverseDone  BY <1>11, InverseDoneKeeps
<1>12. CASE Done         BY <1>12, DoneKeeps DEF Done
<1>13. CASE UNCHANGED vars  BY <1>13, DoneKeeps
<1> QED
  BY <1>1, <1>2, <1>3, <1>4, <1>5, <1>6, <1>7, <1>8, <1>9, <1>10, <1>11,
     <1>12, <1>13 DEF Next

LEMMA TypesFollow == IInv => TypeOK
<1> SUFFICES ASSUME IInv PROVE TypeOK  OBVIOUS
<1>1. TablesAreKept  BY DEF IInv
<1>2. swap \in Nat /\ swap \div 2 \in Nat /\ swap \in {0} \cup Powers2
  <2>1. swap \in {0} \cup Powers2  BY <1>1 DEF TablesAreKept
  <2>2. swap \in Nat  BY <2>1, PowerIsNat
  <2> QED  BY <2>1, <2>2
<1>3. Cardinality(DOMAIN bitSwap) = swap /\ Cardinality(DOMAIN butter) = swap \div 2
  <2>1. DOMAIN bitSwap = 0 .. swap - 1 /\ DOMAIN butter = 0 .. (swap \div 2) - 1
    BY <1>1 DEF TablesAreKept
  <2>2. PICK h \in Nat : h = swap \div 2  BY <1>2
  <2> QED  BY <1>2, <2>1, <2>2, CountIs
<1>4. pc \in {"cycle", "swap"} => swap = N  BY DEF IInv, Cycled, Sorted
<1> QED  BY <1>1, <1>2, <1>3, <1>4 DEF IInv, TypeOK, TablesAreKept

\* The variables keep their types, and the tables that are allocated are one set
\* or none, of the length they are marked with (FFTInit and FFTFree, dsp.c), for
\* signals and transforms of every length and any number of calls.
THEOREM TablesCorrect == Spec => []TypeOK
<1>1. Spec => []IInv  BY InitHolds, NextKeeps, PTL DEF Spec
<1> QED  BY <1>1, TypesFollow, PTL

\* Every call hands back the spectrum or the correlation of its arguments by their
\* definitions, whichever calls went before it (RealFFT, FFTNXCorr in dsp.c).
THEOREM ResultsCorrect == Spec => []ResultsAreExact
<1>1. Spec => []IInv  BY InitHolds, NextKeeps, PTL DEF Spec
<1>2. IInv => ResultsAreExact  BY DEF IInv
<1> QED  BY <1>1, <1>2, PTL
=============================================================================
