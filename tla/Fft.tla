-------------------------------- MODULE Fft ----------------------------------
(***************************************************************************)
(* PESQ-MOS/dsp.c: the Fourier transform of a power of two in place, the   *)
(* tables it keeps from one call to the next, and the correlation of two   *)
(* signals made from three transforms.                                     *)
(*                                                                         *)
(* What the code does with floats holds in every field with a square root  *)
(* of -1 adjoined and a point (Cos, Sin) of the unit circle in the place   *)
(* of cos and sin of 2 pi / MaxLength.  Here it is a finite field, so that *)
(* a result is either exact or wrong.  A complex number <<re, im>> stands  *)
(* for two floats next to each other.                                      *)
(***************************************************************************)
EXTENDS Integers, Sequences, FiniteSets

CONSTANTS
  Prime,      \* numbers are taken modulo Prime, which leaves 3 divided by 4
  Cos, Sin,   \* the point whose powers are the MaxLength-th roots of 1
  MaxLength,  \* bound: the longest transform, a power of two
  Signals,    \* bound: the signals, sequences of numbers
  MaxCalls    \* bound: calls of one process

Number  == 0 .. Prime - 1
Complex == Number \X Number

Plus(u, v)  == <<(u[1] + v[1]) % Prime, (u[2] + v[2]) % Prime>>
Minus(u, v) == <<(u[1] - v[1]) % Prime, (u[2] - v[2]) % Prime>>
Times(u, v) == <<(u[1] * v[1] - u[2] * v[2]) % Prime,
                 (u[1] * v[2] + u[2] * v[1]) % Prime>>
Conj(u)     == <<u[1], (-u[2]) % Prime>>

\* Root[k] is cos and sin of k times 2 pi / MaxLength.
Root[k \in 0 .. MaxLength - 1] ==
  IF k = 0 THEN <<1, 0>> ELSE Times(Root[k - 1], <<Cos, Sin>>)

Powers2 == {n \in 1 .. MaxLength : MaxLength % n = 0}

ASSUME FftAssumption ==
  /\ Prime \in Nat /\ Prime % 4 = 3 /\ MaxCalls \in Nat
  /\ {Cos, Sin} \subseteq Number /\ (Cos * Cos + Sin * Sin) % Prime = 1
  /\ MaxLength \in Nat \ {0} /\ \A n \in Powers2 : n = 1 \/ n % 2 = 0
  /\ Root[MaxLength \div 2] = <<Prime - 1, 0>>
  /\ \A s \in Signals : Len(s) \in 1 .. MaxLength \div 2 /\ s \in Seq(Number)

VARIABLES
  swap,      \* FFTSwapInitialised
  butter,    \* FFTButter, and with it FFTPhi of the same length
  bitSwap,   \* FFTBitSwap
  sets,      \* history: sets of tables that are allocated
  x,         \* the array a transform works on
  pc, job,   \* the step of the transform, and which one of the call it is
  cycle, c,  \* Cycle, and C of the last loop
  x1, x2,    \* the arguments of the call
  tmp1,      \* the spectrum of the first one
  result,    \* what the call left
  calls      \* bound: calls so far

tables    == <<swap, butter, bitSwap, sets>>
arguments == <<x1, x2, calls>>
vars      == <<tables, x, pc, job, cycle, c, arguments, tmp1, result>>

N == Cardinality(DOMAIN x)

Init ==
  /\ swap = 0 /\ butter = <<>> /\ bitSwap = <<>> /\ sets = 0
  /\ x = <<>> /\ pc = "idle" /\ job = "none" /\ cycle = 1 /\ c = 0
  /\ x1 = <<>> /\ x2 = <<>> /\ tmp1 = <<>> /\ result = <<>>
  /\ calls = 0

-----------------------------------------------------------------------------
(* The calls. *)

NextPow2(n) == CHOOSE p \in Powers2 : n <= p /\ \A q \in Powers2 : n <= q => p <= q

\* A signal, or its mirror image, and zeros behind it.
Padded(s, length) ==
  [k \in 0 .. length - 1 |-> <<IF k < Len(s) THEN s[k + 1] ELSE 0, 0>>]
Mirrored(s) == [k \in 1 .. Len(s) |-> s[Len(s) + 1 - k]]

\* FFTNXCorr: n1 and n2 are not the length of the transforms.
XCorrLength ==
  2 * NextPow2(IF Len(x1) < Len(x2) THEN Len(x2) ELSE Len(x1))

Begin(work, name) ==
  /\ pc = "idle" /\ calls < MaxCalls
  /\ calls' = calls + 1
  /\ x' = work /\ job' = name
  /\ pc' = "init" /\ result' = <<>> /\ tmp1' = <<>>
  /\ UNCHANGED <<tables, cycle, c>>

\* RealFFT of a frame, for one of the callers that look at its spectrum.
RealFFT ==
  \E s \in {t \in Signals : Len(t) \in Powers2 \ {1}} :
    x1' = s /\ x2' = <<>> /\ Begin(Padded(s, Len(s)), "spectrum")

FFTNXCorr ==
  \E s, t \in Signals :
    /\ x1' = s /\ x2' = t
    /\ Begin(Padded(Mirrored(s), XCorrLength'), "first")

\* The callers free the tables at the end, not after every transform.
FFTFree ==
  /\ pc = "idle" /\ swap /= 0
  /\ swap' = 0 /\ butter' = <<>> /\ bitSwap' = <<>> /\ sets' = sets - 1
  /\ UNCHANGED <<x, pc, job, cycle, c, arguments, tmp1, result>>

-----------------------------------------------------------------------------
(* A transform. *)

\* FFTButter[C] for C < N / 2: C with its bits in reversed order.
Butterflies(length) ==
  LET B[k \in 0 .. length \div 2 - 1] ==
        IF k = 0 THEN 0
        ELSE LET high == CHOOSE h \in Powers2 : h <= k /\ k < 2 * h
             IN B[k - high] + length \div (4 * high)
  IN B

\* A slip, for a mutant: tables of another length are forgotten, not freed.
FFTInitLeaks ==
  /\ pc = "init"
  /\ IF swap = N THEN UNCHANGED tables
     ELSE /\ swap' = N
          /\ butter' = Butterflies(N)
          /\ bitSwap' = [k \in 0 .. N - 1 |-> 0]
          /\ sets' = sets + 1
  /\ pc' = "cycle" /\ cycle' = 1
  /\ UNCHANGED <<x, job, c, arguments, tmp1, result>>

\* Tables of this length are used again, tables of another one given back.
FFTInit ==
  /\ pc = "init"
  /\ IF swap = N THEN UNCHANGED tables
     ELSE /\ swap' = N
          /\ butter' = Butterflies(N)
          /\ bitSwap' = [k \in 0 .. N - 1 |-> 0]  \* of any content
          /\ sets' = (IF swap = 0 THEN sets ELSE sets - 1) + 1
  /\ pc' = "cycle" /\ cycle' = 1
  /\ UNCHANGED <<x, job, c, arguments, tmp1, result>>

\* cos + i sin for the forward transform is taken the other way round.
Phi(k) ==
  LET w == Root[k * (MaxLength \div swap)]
  IN IF job = "inverse" THEN w ELSE Conj(w)

\* One round of the outer loop: pairs that are Step apart, in Cycle blocks.
Cycle ==
  /\ pc = "cycle" /\ cycle < N
  /\ LET step == N \div (2 * cycle)
     IN x' = [k \in DOMAIN x |->
                LET w == Phi(butter[k \div (2 * step)])
                IN IF k % (2 * step) < step
                     THEN Plus(x[k], Times(w, x[k + step]))
                     ELSE Minus(x[k - step], Times(w, x[k]))]
  /\ cycle' = 2 * cycle
  /\ UNCHANGED <<tables, pc, job, c, arguments, tmp1, result>>

\* The permutation that puts the spectrum in order is made for every call: the
\* loop that follows uses it up.
Permutation ==
  [k \in 0 .. N - 1 |-> IF k < N \div 2 THEN 2 * butter[k]
                        ELSE 1 + 2 * butter[k - N \div 2]]

BuildSwap ==
  /\ pc = "cycle" /\ cycle >= N
  /\ bitSwap' = Permutation
  /\ pc' = "swap" /\ c' = 0
  /\ UNCHANGED <<swap, butter, sets, x, job, cycle, arguments, tmp1, result>>

\* A slip, for a mutant: the other half of a pair is not marked as done.
SwapTwice ==
  /\ pc = "swap" /\ c < N
  /\ x' = [x EXCEPT ![c] = x[bitSwap[c]], ![bitSwap[c]] = x[c]]
  /\ c' = c + 1
  /\ UNCHANGED <<swap, butter, sets, bitSwap, pc, job, cycle, arguments, tmp1,
                 result>>

\* A pair is swapped once, when the lower index comes by.
Swap ==
  /\ pc = "swap" /\ c < N
  /\ LET s == bitSwap[c]
     IN IF s = c THEN UNCHANGED <<x, bitSwap>>
        ELSE /\ bitSwap' = [bitSwap EXCEPT ![s] = s]
             /\ x' = [x EXCEPT ![c] = x[s], ![s] = x[c]]
  /\ c' = c + 1
  /\ UNCHANGED <<swap, butter, sets, pc, job, cycle, arguments, tmp1, result>>

\* What RealFFT hands back: the first half of the spectrum and one more.
Half == [k \in 0 .. N \div 2 |-> x[k]]

\* What RealIFFT makes of one: the second half is the mirror image.
Whole(half, length) ==
  [k \in 0 .. length - 1 |->
     IF k <= length \div 2 THEN half[k] ELSE Conj(half[length - k])]

Finished == pc = "swap" /\ c >= N

SpectrumDone ==
  /\ Finished /\ job = "spectrum"
  /\ result' = Half /\ pc' = "idle"
  /\ UNCHANGED <<tables, x, job, cycle, c, arguments, tmp1>>

FirstDone ==
  /\ Finished /\ job = "first"
  /\ tmp1' = Half /\ x' = Padded(x2, N)
  /\ job' = "second" /\ pc' = "init"
  /\ UNCHANGED <<tables, cycle, c, arguments, result>>

SecondDone ==
  /\ Finished /\ job = "second"
  /\ x' = Whole([k \in 0 .. N \div 2 |-> Times(tmp1[k], x[k])], N)
  /\ job' = "inverse" /\ pc' = "init"
  /\ UNCHANGED <<tables, cycle, c, arguments, tmp1, result>>

\* The inverse divides by its length.
Inverse1(n) == CHOOSE m \in Number : (m * n) % Prime = 1

InverseDone ==
  /\ Finished /\ job = "inverse"
  /\ result' = [k \in 0 .. Len(x1) + Len(x2) - 2 |->
                  (x[k][1] * Inverse1(N % Prime)) % Prime]
  /\ pc' = "idle"
  /\ UNCHANGED <<tables, x, job, cycle, c, arguments, tmp1>>

Done == pc = "idle" /\ UNCHANGED vars

Next ==
  \/ RealFFT \/ FFTNXCorr \/ FFTFree
  \/ FFTInit \/ Cycle \/ BuildSwap \/ Swap
  \/ SpectrumDone \/ FirstDone \/ SecondDone \/ InverseDone
  \/ Done

Spec == Init /\ [][Next]_vars

-----------------------------------------------------------------------------
Steps == {"idle", "init", "cycle", "swap"}
Jobs  == {"none", "spectrum", "first", "second", "inverse"}

\* Every variable has its type; there is one set of tables or none, of the
\* length it is marked with, and while a transform runs it is of its length.
TypeOK ==
  /\ pc \in Steps /\ job \in Jobs /\ calls \in 0 .. MaxCalls
  /\ \A k \in DOMAIN x : x[k] \in Complex
  /\ swap \in {0} \cup Powers2 /\ sets = IF swap = 0 THEN 0 ELSE 1
  /\ Cardinality(DOMAIN bitSwap) = swap
  /\ Cardinality(DOMAIN butter) = swap \div 2
  /\ pc \in {"cycle", "swap"} => swap = N

\* The sum of f[0], ... f[n - 1].
Total(f, n) ==
  LET sum[m \in 0 .. n] ==
        IF m = 0 THEN <<0, 0>> ELSE Plus(sum[m - 1], f[m - 1])
  IN sum[n]

\* The definitions: the transform of a signal of this length, and the sums of
\* products of two signals, the second one shifted.
Spectrum(s, k) ==
  LET n == Len(s)
      term == [j \in 0 .. n - 1 |->
                 Times(<<s[j + 1], 0>>,
                       Conj(Root[((j * k) % n) * (MaxLength \div n)]))]
  IN Total(term, n)

Correlation(s, t, k) ==
  LET shift == k - (Len(s) - 1)
      term == [j \in 0 .. Len(s) - 1 |->
                 IF j + 1 + shift \in 1 .. Len(t)
                   THEN <<(s[j + 1] * t[j + 1 + shift]) % Prime, 0>>
                   ELSE <<0, 0>>]
  IN Total(term, Len(s))[1]

\* Every call hands back what it should by definition, whichever calls were made
\* before it, of whatever length, and whether or not the tables were freed in
\* between.
ResultsAreExact ==
  /\ pc = "idle" /\ job = "spectrum" =>
       result = [k \in 0 .. Len(x1) \div 2 |-> Spectrum(x1, k)]
  /\ pc = "idle" /\ job = "inverse" =>
       result = [k \in 0 .. Len(x1) + Len(x2) - 2 |-> Correlation(x1, x2, k)]
=============================================================================
