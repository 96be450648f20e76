-------------------------------- MODULE MomentsProofs ------------------------------
(***************************************************************************)
(* Proofs about the moments of a stream of latencies, from the words the   *)
(* BPF program keeps to the verdict on the windows they fill.              *)
(*                                                                         *)
(* Module PebayBpf, for any width of the words, any scale of the mean, any *)
(* latencies below Limit and any number of samples: the inductive          *)
(* invariant is that the summary is what the samples since the last reset  *)
(* make of the empty one.  What that is, is shown by induction along the   *)
(* stream: the mean stays between the least and the greatest sample, the   *)
(* products of the deviations before and after it moves have one sign, and *)
(* what the quotients lose adds up.                                        *)
(*                                                                         *)
(* Module U128, for limbs of 1 to 32 bits: a pattern of two words stands   *)
(* for the integers that differ from it by multiples of its width, and     *)
(* every operation, with its carries, stands for that of the integers.     *)
(* The six tests of u64_clz keep the divisor times a power of two.  The    *)
(* digits of a division are those of Knuth's Algorithm D: an estimate is   *)
(* too big exactly when its product by the divisor exceeds the dividend,   *)
(* and by two at most.  The lemmas on powers of two come first, counted as *)
(* subsets, as the prover knows none of their laws.                        *)
(*                                                                         *)
(* Module Verdict, for any rings of windows, any thresholds and any bound  *)
(* of the sweep: the inductive invariant says that what the evaluators     *)
(* read is what Level 2 and the sweep compute from the ring, and that the  *)
(* report holds the signals of the evaluators that have run.  It needs the *)
(* loops over windows to return windows, and fractions of positive         *)
(* denominator throughout; for the period it is shown that the blocks of   *)
(* its size are equal, so that their means do not vary.                    *)
(***************************************************************************)
EXTENDS PebayBpf, Verdict, SequenceTheorems, FiniteSetTheorems, FunctionTheorems,
        WellFoundedInduction, TLAPS

(* A set of numbers has a least one, as < is well-founded on Nat. *)
LEMMA LeastNat ==
  ASSUME NEW S \in SUBSET Nat, NEW n \in S
  PROVE  \E x \in S : \A y \in S : x <= y
<1>1. IsWellFoundedOn(OpToRel(<, Nat), Nat)
  BY NatLessThanWellFounded
<1>2. PICK x \in S : \A y \in S : <<y, x>> \notin OpToRel(<, Nat)
  BY <1>1, WFMin
<1>3. ASSUME NEW y \in S PROVE x <= y
  <2>1. x \in Nat /\ y \in Nat
    OBVIOUS
  <2>2. ~(y < x)
    BY <1>2, <2>1 DEF OpToRel
  <2>3. QED
    BY <2>1, <2>2
<1>4. QED
  BY <1>3

(* Induction, over a set rather than a predicate. *)
LEMMA SetInduction ==
  ASSUME NEW S, 0 \in S, \A n \in Nat : n \in S => n + 1 \in S
  PROVE  Nat \subseteq S
<1> SUFFICES ASSUME Nat \ S # {}
             PROVE  FALSE
  OBVIOUS
<1> DEFINE T == Nat \ S
<1>1. PICK x \in T : \A y \in T : x <= y
  BY LeastNat
<1>2. x - 1 \in Nat /\ x - 1 \notin T
  BY <1>1
<1> QED
  BY <1>1, <1>2

(* Up to the end of a loop. *)
LEMMA LoopInduction ==
  ASSUME NEW n \in Nat, NEW S, 0 \in S, \A i \in 1 .. n : i - 1 \in S => i \in S
  PROVE  0 .. n \subseteq S
<1> DEFINE T == {i \in Nat : i <= n => i \in S}
<1>1. 0 \in T
  OBVIOUS
<1>2. ASSUME NEW i \in Nat, i \in T PROVE i + 1 \in T
  BY <1>2
<1> HIDE DEF T
<1>3. Nat \subseteq T
  BY <1>1, <1>2, SetInduction
<1>4. QED
  BY <1>3 DEF T

(* A loop of n turns that stays within T has a function of its turns.      *)
IsLoop(f, n, T, base, step) ==
  f \in [0 .. n -> T] /\ f[0] = base /\ \A i \in 1 .. n : f[i] = step[i][f[i - 1]]

LEMMA LoopExists ==
  ASSUME NEW n \in Nat, NEW T, NEW base \in T, NEW step \in [1 .. n -> [T -> T]]
  PROVE  \E f : IsLoop(f, n, T, base, step)
<1> DEFINE Upto(f, m) == /\ f \in [0 .. m -> T]
                         /\ f[0] = base /\ \A i \in 1 .. m : f[i] = step[i][f[i - 1]]
           S == {m \in Nat : m <= n => \E f : Upto(f, m)}
<1>1. 0 \in S
  <2>1. Upto([i \in 0 .. 0 |-> base], 0)
    OBVIOUS
  <2>2. QED
    BY <2>1
<1> HIDE DEF Upto
<1>2. ASSUME NEW m \in Nat, m \in S PROVE m + 1 \in S
  <2>1. SUFFICES ASSUME m + 1 <= n PROVE \E f : Upto(f, m + 1)
    OBVIOUS
  <2>2. PICK old : Upto(old, m)
    BY <1>2, <2>1
  <2> USE DEF Upto
  <2> DEFINE f == [i \in 0 .. m + 1 |-> IF i <= m THEN old[i] ELSE step[m + 1][old[m]]]
  <2>3. m + 1 \in 1 .. n /\ old[m] \in T
    BY <2>1, <2>2
  <2>4. step[m + 1][old[m]] \in T
    BY <2>3
  <2>5. f \in [0 .. m + 1 -> T] /\ f[0] = base
    BY <2>2, <2>4
  <2>6. \A i \in 0 .. m : f[i] = old[i]
    OBVIOUS
  <2>7. f[m + 1] = step[m + 1][old[m]]
    OBVIOUS
  <2> HIDE DEF f
  <2>8. ASSUME NEW i \in 1 .. m + 1 PROVE f[i] = step[i][f[i - 1]]
    <3>1. CASE i = m + 1
      BY <3>1, <2>6, <2>7
    <3>2. CASE i # m + 1
      BY <3>2, <2>2, <2>6
    <3>3. QED
      BY <3>1, <3>2
  <2>9. Upto(f, m + 1)
    BY <2>5, <2>8
  <2> HIDE DEF Upto
  <2>10. QED
    BY <2>9
<1>3. n \in S
  <2> HIDE DEF S
  <2>1. QED
    BY <1>1, <1>2, SetInduction
<1>4. QED
  BY <1>3 DEF Upto, IsLoop

-------------------------------------------------------------------------------
(* Division, rounded down and towards zero, for any divisor.               *)
LEMMA DivIs ==
  ASSUME NEW v \in Int, NEW m \in Nat \ {0}
  PROVE  /\ v \div m \in Int
         /\ m * (v \div m) <= v /\ v < m * (v \div m) + m
BY SMT

LEMMA SignedDivIs ==
  ASSUME NEW v \in Int, NEW m \in Nat \ {0}
  PROVE  /\ SignedDiv(v, m) \in Int
         /\ v >= 0 => /\ 0 <= SignedDiv(v, m) /\ SignedDiv(v, m) <= v
                      /\ m * SignedDiv(v, m) <= v /\ v < m * SignedDiv(v, m) + m
         /\ v < 0 => /\ SignedDiv(v, m) <= 0 /\ v <= SignedDiv(v, m)
                     /\ v <= m * SignedDiv(v, m) /\ m * SignedDiv(v, m) - m < v
<1>1. ASSUME NEW u \in Nat
      PROVE  /\ u \div m \in Nat /\ u \div m <= u
             /\ m * (u \div m) <= u /\ u < m * (u \div m) + m
  <2> DEFINE q == u \div m
  <2>1. q \in Int /\ m * q <= u /\ u < m * q + m
    BY DivIs
  <2> HIDE DEF q
  <2>2. q >= 0
    <3>1. ASSUME q < 0 PROVE FALSE
      <4>1. q + 1 <= 0 /\ m >= 0
        BY <2>1, <3>1
      <4>2. m * (q + 1) <= 0
        BY <2>1, <4>1
      <4>3. m * (q + 1) = m * q + m
        BY <2>1
      <4>4. QED
        BY <2>1, <4>2, <4>3
    <3>2. QED
      BY <2>1, <3>1
  <2>3. q <= u
    <3>1. m >= 1 /\ q <= m * q
      BY <2>1, <2>2
    <3>2. QED
      BY <2>1, <3>1
  <2>4. QED
    BY <2>1, <2>2, <2>3 DEF q
<1>2. CASE v >= 0
  BY <1>1, <1>2 DEF SignedDiv
<1>3. CASE v < 0
  <2> DEFINE q == (-v) \div m
  <2>1. -v \in Nat
    BY <1>3
  <2>2. q \in Nat /\ q <= -v /\ m * q <= -v /\ -v < m * q + m
    BY <1>1, <2>1
  <2>3. SignedDiv(v, m) = -q
    BY <1>3 DEF SignedDiv
  <2> HIDE DEF q
  <2>4. m * (-q) = -(m * q)
    BY <2>2
  <2>5. QED
    BY <1>3, <2>2, <2>3, <2>4
<1>4. QED
  BY <1>2, <1>3

(* What wraps is a word, and a word does not wrap. *)
LEMMA WrapIs ==
  ASSUME NEW v \in Int
  PROVE  Wrap(v) \in Word /\ (v \in Word => Wrap(v) = v)
<1> DEFINE m == 2 * Half
<1>1. Half \in Nat \ {0} /\ m \in Nat \ {0}
  BY PebayAssumption
<1>2. (v + Half) % m \in 0 .. (m - 1)
  <2> HIDE DEF m
  <2>1. QED
    BY <1>1
<1>3. ASSUME v \in Word PROVE (v + Half) % m = v + Half
  <2>1. v + Half \in 0 .. (m - 1)
    BY <1>1, <1>3 DEF Word
  <2> HIDE DEF m
  <2>2. QED
    BY <1>1, <2>1
<1>4. QED
  BY <1>1, <1>2, <1>3 DEF Wrap, Word

LEMMA WideWrapIs ==
  ASSUME NEW v \in Int
  PROVE  WideWrap(v) \in DoubleWord
<1> DEFINE m == 2 * WideHalf
<1>1. WideHalf \in Nat \ {0} /\ m \in Nat \ {0}
  BY PebayAssumption
<1>2. (v + WideHalf) % m \in 0 .. (m - 1)
  <2> HIDE DEF m
  <2>1. QED
    BY <1>1
<1>3. QED
  BY <1>1, <1>2 DEF WideWrap, DoubleWord

(* A number between two whole ones is, rounded down, between them.  *)
LEMMA WholeIs ==
  ASSUME NEW fp \in Int
  PROVE  /\ Whole(fp) \in Int
         /\ \A l \in Int : l * Unit <= fp => l <= Whole(fp)
         /\ \A h \in Int : fp <= h * Unit => Whole(fp) <= h
<1> DEFINE q == Whole(fp)
<1>1. Unit \in Nat \ {0} /\ q \in Int /\ Unit * q <= fp /\ fp < Unit * q + Unit
  BY PebayAssumption, DivIs DEF Whole
<1> HIDE DEF q
<1>2. ASSUME NEW l \in Int, l * Unit <= fp PROVE l <= q
  <2>1. ASSUME l >= q + 1 PROVE FALSE
    <3>1. (q + 1) * Unit <= l * Unit
      BY <1>1, <2>1
    <3>2. (q + 1) * Unit = Unit * q + Unit
      BY <1>1
    <3>3. (q + 1) * Unit \in Int /\ l * Unit \in Int /\ Unit * q \in Int
      BY <1>1
    <3>4. QED
      BY <1>1, <1>2, <3>1, <3>2, <3>3
  <2>2. QED
    BY <1>1, <2>1
<1>3. ASSUME NEW h \in Int, fp <= h * Unit PROVE q <= h
  <2>1. ASSUME q >= h + 1 PROVE FALSE
    <3>1. (h + 1) * Unit <= q * Unit
      BY <1>1, <2>1
    <3>2. (h + 1) * Unit = h * Unit + Unit /\ q * Unit = Unit * q
      BY <1>1
    <3>3. h * Unit \in Int /\ Unit * q \in Int
      BY <1>1
    <3>4. QED
      BY <1>1, <1>3, <3>1, <3>2, <3>3
  <2>2. QED
    BY <1>1, <2>1
<1>4. QED
  BY <1>1, <1>2, <1>3 DEF q

-------------------------------------------------------------------------------
Latency    == 0 .. (Limit - 1)
BpfSummary == [n : Nat, m1_fp : Word, m2 : Word, m3 : DoubleWord, m4 : DoubleWord]

LEMMA WordsAreInts ==
  /\ Unit \in Nat \ {0} /\ Half \in Nat \ {0} /\ WideHalf \in Nat \ {0} /\ Limit \in Nat \ {0}
  /\ Word \subseteq Int /\ DoubleWord \subseteq Int /\ 0 \in Word /\ 0 \in DoubleWord
BY PebayAssumption DEF Word, DoubleWord

LEMMA ZeroIs ==
  /\ SummaryBpfZero \in BpfSummary
  /\ SummaryBpfZero.n = 0 /\ SummaryBpfZero.m1_fp = 0 /\ SummaryBpfZero.m2 = 0
BY WordsAreInts DEF SummaryBpfZero, BpfSummary

LEMMA SummaryIs ==
  ASSUME NEW s \in BpfSummary
  PROVE  /\ s.n \in Nat /\ s.n + 1 \in Nat \ {0}
         /\ s.m1_fp \in Int /\ s.m2 \in Int /\ s.m3 \in Int /\ s.m4 \in Int
         /\ s.m1_fp \in Word /\ s.m2 \in Word /\ s.m3 \in DoubleWord /\ s.m4 \in DoubleWord
<1>1. /\ s.n \in Nat /\ s.m1_fp \in Word /\ s.m2 \in Word
      /\ s.m3 \in DoubleWord /\ s.m4 \in DoubleWord
  BY DEF BpfSummary
<1>2. s.n + 1 \in Nat \ {0}
  BY <1>1
<1>3. QED
  BY <1>1, <1>2, WordsAreInts

LEMMA WideMulIs ==
  ASSUME NEW v \in Int, NEW m \in Int
  PROVE  WideMul(v, m) \in Int
<1>1. v * m \in Int
  OBVIOUS
<1>2. QED
  BY <1>1, WideWrapIs, WordsAreInts DEF WideMul

LEMMA WrapCountIs ==
  ASSUME NEW c \in Int
  PROVE  WrapCount(c) \in Int
<1> DEFINE m == 2 * Half
<1>1. m \in Nat \ {0}
  BY WordsAreInts
<1> HIDE DEF m
<1>2. c % m \in Int
  BY <1>1
<1>3. QED
  BY <1>2 DEF WrapCount, m

(* What is added to m4 and m3 are numbers. *)
LEMMA IncrementsAre ==
  ASSUME NEW d \in Int, NEW s \in BpfSummary
  PROVE  M4Inc(d, s) \in Int /\ M3Inc(d, s) \in Int
<1> DEFINE n == s.n
           c == s.n + 1
<1>1. /\ n \in Nat /\ c \in Nat \ {0} /\ c \in Int /\ n - 1 \in Int
      /\ s.m2 \in Int /\ s.m3 \in Int
  BY SummaryIs
<1>2. /\ d * d * d * d \in Int /\ d * d * s.m2 \in Int /\ d * s.m2 \in Int
      /\ d * d * d \in Int /\ c * c - 3 * c + 3 \in Int
  BY <1>1
<1> HIDE DEF n, c
<1>3. SignedDiv(d * d * d * d, c) \in Int
  BY <1>1, <1>2, SignedDivIs
<1>4. WideMul(SignedDiv(d * d * d * d, c), n) \in Int
  BY <1>1, <1>3, WideMulIs
<1>5. M4Quotient(d, n) \in Int
  BY <1>1, <1>4, SignedDivIs DEF M4Quotient, c, n
<1>6. Polynomial(c) \in Int
  BY <1>2, WrapCountIs DEF Polynomial
<1>7. SignedDiv(WideMul(M4Quotient(d, n), Polynomial(c)), c) \in Int
  BY <1>1, <1>5, <1>6, WideMulIs, SignedDivIs
<1>8. M4Term1(d, n) \in Int
  BY <1>7 DEF M4Term1, c, n
<1>9. M4Term2(d, n, s.m2) \in Int
  <2>1. SignedDiv(SignedDiv(d * d * s.m2, c), c) \in Int
    BY <1>1, <1>2, SignedDivIs
  <2>2. QED
    BY <2>1, WideMulIs DEF M4Term2, c, n
<1>10. M4Term3(d, n, s.m3) \in Int
  <2>1. SignedDiv(WideMul(s.m3, d), c) \in Int
    BY <1>1, WideMulIs, SignedDivIs
  <2>2. QED
    BY <2>1, WideMulIs DEF M4Term3, c, n
<1>11. M4Inc(d, s) \in Int
  BY <1>8, <1>9, <1>10 DEF M4Inc, n
<1>12. M3Term1(d, n) \in Int
  <2>1. SignedDiv(WideMul(d * d * d, n), c) \in Int
    BY <1>1, <1>2, WideMulIs, SignedDivIs
  <2>2. SignedDiv(WideMul(SignedDiv(WideMul(d * d * d, n), c), n - 1), c) \in Int
    BY <1>1, <2>1, WideMulIs, SignedDivIs
  <2>3. QED
    BY <2>2 DEF M3Term1, c, n
<1>13. WideMul(SignedDiv(d * s.m2, c), 3) \in Int
  <2>1. SignedDiv(d * s.m2, c) \in Int
    BY <1>1, <1>2, SignedDivIs
  <2>2. QED
    BY <2>1, WideMulIs
<1>14. M3Inc(d, s) \in Int
  BY <1>12, <1>13 DEF M3Inc, c, n
<1>15. QED
  BY <1>11, <1>14

(* An update of a summary gives one, whatever overflows. *)
LEMMA UpdatedIs ==
  ASSUME NEW s \in BpfSummary, NEW x \in Int
  PROVE  Updated(s, x) \in BpfSummary /\ Updated(s, x).n = s.n + 1
<1> DEFINE x_fp == x * Unit
           delta_fp == x_fp - s.m1_fp
           mean == s.m1_fp + MeanInc(delta_fp, s.n + 1)
           delta == Whole(delta_fp)
           post  == Whole(x_fp - Wrap(mean))
<1>1. /\ s.n \in Nat /\ s.n + 1 \in Nat \ {0} /\ s.m1_fp \in Int /\ s.m2 \in Int /\ s.m3 \in Int
      /\ s.m4 \in DoubleWord /\ s.m4 \in Int
  BY SummaryIs
<1>2. x_fp \in Int
  BY WordsAreInts
<1> HIDE DEF x_fp
<1>3. delta_fp \in Int
  BY <1>1, <1>2
<1> HIDE DEF delta_fp
<1>4. mean \in Int
  <2>1. MeanInc(delta_fp, s.n + 1) \in Int
    BY <1>1, <1>3, SignedDivIs DEF MeanInc
  <2>2. QED
    BY <1>1, <2>1
<1> HIDE DEF mean
<1>5. Wrap(mean) \in Word /\ Wrap(mean) \in Int
  BY <1>4, WrapIs, WordsAreInts
<1>6. delta \in Int /\ post \in Int
  <2>1. x_fp - Wrap(mean) \in Int
    BY <1>2, <1>5
  <2>2. QED
    BY <1>3, <2>1, WholeIs
<1> HIDE DEF delta, post
<1>7. Wrap(s.m2 + M2Inc(delta, post)) \in Word
  <2>1. s.m2 + M2Inc(delta, post) \in Int
    BY <1>1, <1>6 DEF M2Inc
  <2>2. QED
    BY <2>1, WrapIs
<1>8. WideWrap(s.m3 + M3Inc(delta, s)) \in DoubleWord /\ WideWrap(s.m4 + M4Inc(delta, s)) \in DoubleWord
  <2>1. s.m3 + M3Inc(delta, s) \in Int /\ s.m4 + M4Inc(delta, s) \in Int
    BY <1>1, <1>6, IncrementsAre
  <2>2. QED
    BY <2>1, WideWrapIs
<1>9. Updated(s, x) =
        [n |-> s.n + 1, m1_fp |-> Wrap(mean), m2 |-> Wrap(s.m2 + M2Inc(delta, post)),
         m3 |-> WideWrap(s.m3 + M3Inc(delta, s)),
         m4 |-> IF WithM4 THEN WideWrap(s.m4 + M4Inc(delta, s)) ELSE s.m4]
  BY DEF Updated, mean, delta, post, delta_fp, x_fp
<1>10. QED
  BY <1>1, <1>7, <1>8, <1>9, <1>5 DEF BpfSummary

(* A mean between two samples, and a sample between them: the mean stays   *)
(* there, what its quotient loses is less than the count, and m2 grows by  *)
(* no more than the square of their distance, if it fits.                  *)
LEMMA UpdatedWithin ==
  ASSUME NEW s \in BpfSummary, NEW lo \in Latency, NEW hi \in Latency, NEW x \in lo .. hi,
         s.n = 0 => s.m1_fp = 0,
         s.n # 0 => lo * Unit <= s.m1_fp /\ s.m1_fp <= hi * Unit
  PROVE  LET u == Updated(s, x)
             R == hi - lo
         IN  /\ lo * Unit <= u.m1_fp /\ u.m1_fp <= hi * Unit
             /\ \E r \in Int : /\ -s.n <= r /\ r <= s.n
                               /\ (s.n + 1) * u.m1_fp = s.n * s.m1_fp + Unit * x - r
             /\ \E p \in Int : /\ 0 <= p /\ p <= R * R /\ (s.n = 0 => p = 0)
                               /\ u.m2 = Wrap(s.m2 + p)
<1> DEFINE u == Updated(s, x)
           R == hi - lo
           c == s.n + 1
           x_fp == x * Unit
           delta_fp == x_fp - s.m1_fp
           q == SignedDiv(delta_fp, c)
           mean == s.m1_fp + q
           delta == Whole(delta_fp)
           post_fp == x_fp - mean
           post  == Whole(post_fp)
           L == lo * Unit
           H == hi * Unit
<1>1. /\ s.n \in Nat /\ c \in Nat \ {0} /\ s.m1_fp \in Int /\ s.m2 \in Int
      /\ lo \in Nat /\ hi \in Nat /\ x \in Nat /\ lo <= x /\ x <= hi /\ R \in Nat /\ Unit \in Nat \ {0}
      /\ c = s.n + 1
  BY SummaryIs, WordsAreInts DEF Latency
<1>2. /\ x_fp \in Nat /\ L \in Nat /\ H \in Nat /\ L <= x_fp /\ x_fp <= H
      /\ H < Half /\ R * Unit = H - L /\ (-R) * Unit = L - H
  <2>1. \A i, j \in Nat : i <= j => i * Unit <= j * Unit /\ i * Unit \in Nat
    BY <1>1
  <2>2. H <= (Limit - 1) * Unit
    BY <1>1, <2>1, WordsAreInts DEF Latency
  <2> DEFINE K == Limit * Unit
             K1 == (Limit - 1) * Unit
  <2>3. (Limit - 1) * Unit = Limit * Unit - Unit /\ Limit * Unit <= Half /\ Limit * Unit \in Nat
    BY PebayAssumption
  <2>4. R * Unit = H - L /\ (-R) * Unit = L - H
    BY <1>1
  <2>5. x_fp \in Nat /\ L \in Nat /\ H \in Nat /\ L <= x_fp /\ x_fp <= H
    BY <1>1, <2>1
  <2> HIDE DEF x_fp, L, H, K, K1
  <2>6. H < Half
    <3>1. Unit >= 1 /\ Half \in Nat
      BY <1>1, WordsAreInts
    <3>2. H <= K1 /\ K1 = K - Unit /\ K <= Half /\ K \in Nat
      BY <2>2, <2>3 DEF K, K1
    <3>3. QED
      BY <1>1, <2>5, <3>1, <3>2
  <2>7. QED
    BY <2>4, <2>5, <2>6
<1> HIDE DEF x_fp, L, H, R, c
<1>3. /\ delta_fp \in Int /\ q \in Int /\ c * q \in Int
      /\ delta_fp >= 0 => 0 <= q /\ q <= delta_fp /\ c * q <= delta_fp /\ delta_fp < c * q + c
      /\ delta_fp < 0 => q <= 0 /\ delta_fp <= q /\ delta_fp <= c * q /\ c * q - c < delta_fp
  <2>1. delta_fp \in Int
    BY <1>1, <1>2
  <2> HIDE DEF delta_fp
  <2>2. /\ q \in Int
        /\ delta_fp >= 0 => 0 <= q /\ q <= delta_fp /\ c * q <= delta_fp /\ delta_fp < c * q + c
        /\ delta_fp < 0 => q <= 0 /\ delta_fp <= q /\ delta_fp <= c * q /\ c * q - c < delta_fp
    BY <1>1, <2>1, SignedDivIs
  <2>3. c * q \in Int
    <3> HIDE DEF q
    <3>1. QED
      BY <1>1, <2>2
  <2>4. QED
    BY <2>1, <2>2, <2>3
<1>4. s.n = 0 => q = x_fp
  <2>1. SUFFICES ASSUME s.n = 0 PROVE q = x_fp
    OBVIOUS
  <2>2. c = 1 /\ delta_fp = x_fp /\ delta_fp >= 0
    BY <1>1, <1>2, <2>1
  <2>3. q <= x_fp /\ x_fp < q + 1
    BY <1>1, <1>2, <1>3, <2>2
  <2>4. QED
    BY <1>2, <1>3, <2>3
<1> HIDE DEF q
<1>5. mean \in Int /\ L <= mean /\ mean <= H /\ Wrap(mean) = mean
  <2>1. mean \in Int /\ L <= mean /\ mean <= H
    BY <1>1, <1>2, <1>3, <1>4 DEF L, H
  <2>2. mean \in Word
    BY <1>2, <2>1, WordsAreInts DEF Word
  <2> HIDE DEF mean
  <2>3. QED
    BY <2>1, <2>2, WrapIs
<1>6. /\ u.m1_fp = mean
      /\ u.m2 = Wrap(s.m2 + delta * post)
  BY <1>5 DEF Updated, MeanInc, M2Inc, mean, q, delta, post, post_fp, delta_fp, x_fp, c
<1>7. \E r \in Int : /\ -s.n <= r /\ r <= s.n
                     /\ c * mean = s.n * s.m1_fp + Unit * x - r
  <2> DEFINE r == delta_fp - c * q
  <2>1. r \in Int /\ -s.n <= r /\ r <= s.n
    BY <1>1, <1>3
  <2>2. c * mean = c * s.m1_fp + c * q
    BY <1>1, <1>3
  <2>3. c * s.m1_fp = s.n * s.m1_fp + s.m1_fp
    BY <1>1
  <2>4. s.n * s.m1_fp \in Int /\ c * s.m1_fp \in Int /\ Unit * x = x_fp
    BY <1>1 DEF x_fp
  <2> DEFINE A == c * s.m1_fp
             N == s.n * s.m1_fp
             Q == c * q
  <2> HIDE DEF mean
  <2>5. c * mean = s.n * s.m1_fp + Unit * x - r
    <3>1. c * mean = A + Q /\ A = N + s.m1_fp /\ N \in Int /\ Q \in Int
      BY <1>3, <2>2, <2>3, <2>4
    <3>2. r = x_fp - s.m1_fp - Q
      BY <1>1, <1>2, <1>3
    <3> HIDE DEF A, N, Q, r
    <3>3. A + Q = N + x_fp - r
      BY <1>1, <1>2, <3>1, <3>2
    <3>4. QED
      BY <2>4, <3>1, <3>3 DEF N
  <2>6. QED
    BY <2>1, <2>5
<1>8. /\ post_fp \in Int /\ (delta_fp >= 0 => post_fp >= 0) /\ (delta_fp < 0 => post_fp <= 0)
      /\ L - H <= post_fp /\ post_fp <= H - L
      /\ s.n = 0 => post_fp = 0
      /\ s.n # 0 => L - H <= delta_fp /\ delta_fp <= H - L
  BY <1>1, <1>2, <1>3, <1>4, <1>5 DEF L, H
<1> HIDE DEF mean, post_fp, delta_fp
<1>9. /\ delta \in Int /\ post \in Int /\ -R <= post /\ post <= R
      /\ delta_fp >= 0 => delta >= 0 /\ post >= 0
      /\ delta_fp < 0 => delta <= 0 /\ post <= 0
      /\ s.n = 0 => post = 0
      /\ s.n # 0 => -R <= delta /\ delta <= R
  <2>1. 0 * Unit = 0 /\ 0 \in Int /\ R \in Int /\ -R \in Int
    BY <1>1
  <2>2. \A f \in Int : /\ Whole(f) \in Int
                       /\ f >= 0 => Whole(f) >= 0
                       /\ f <= 0 => Whole(f) <= 0
                       /\ L - H <= f => -R <= Whole(f)
                       /\ f <= H - L => Whole(f) <= R
    BY <1>2, <2>1, WholeIs
  <2>3. QED
    BY <1>3, <1>8, <2>2
<1> HIDE DEF delta, post
<1>10. /\ delta * post \in Int /\ 0 <= delta * post /\ delta * post <= R * R
       /\ s.n = 0 => delta * post = 0
  <2>1. CASE s.n = 0
    <3>1. delta * post = 0 /\ R * R >= 0
      BY <1>1, <1>9, <2>1
    <3>2. QED
      BY <3>1
  <2>2. CASE s.n # 0
    <3>1. \A i, j \in Int : 0 <= i /\ i <= R /\ 0 <= j /\ j <= R => 0 <= i * j /\ i * j <= R * R
      BY <1>1
    <3>2. delta * post = (-delta) * (-post) /\ delta * post \in Int
      BY <1>9
    <3>3. CASE delta_fp >= 0
      BY <1>9, <2>2, <3>1, <3>2, <3>3
    <3>4. CASE delta_fp < 0
      <4>1. 0 <= -delta /\ -delta <= R /\ 0 <= -post /\ -post <= R /\ -delta \in Int /\ -post \in Int
        BY <1>1, <1>9, <2>2, <3>4
      <4>2. 0 <= (-delta) * (-post) /\ (-delta) * (-post) <= R * R
        BY <3>1, <4>1
      <4>3. QED
        BY <2>2, <3>2, <4>2
    <3>5. QED
      BY <1>3, <3>3, <3>4
  <2>3. QED
    BY <2>1, <2>2
<1>11. QED
  BY <1>5, <1>6, <1>7, <1>10 DEF u, R, L, H, c

-------------------------------------------------------------------------------
IsStreamed(f, s) ==
  f = [i \in 0 .. Len(s) |-> IF i = 0 THEN SummaryBpfZero ELSE Updated(f[i - 1], s[i])]

IsSummed(f, s) ==
  f = [i \in 0 .. Len(s) |-> IF i = 0 THEN 0 ELSE f[i - 1] + s[i]]

LEMMA AfterEachIs ==
  ASSUME NEW s \in Seq(Int)
  PROVE  IsStreamed(AfterEach(s), s)
<1> DEFINE n == Len(s)
           step == [i \in 1 .. n |-> [t \in BpfSummary |-> Updated(t, s[i])]]
<1>1. n \in Nat /\ \A i \in 1 .. n : s[i] \in Int
  OBVIOUS
<1>2. step \in [1 .. n -> [BpfSummary -> BpfSummary]]
  <2>1. ASSUME NEW i \in 1 .. n, NEW t \in BpfSummary PROVE Updated(t, s[i]) \in BpfSummary
    BY <1>1, UpdatedIs
  <2> HIDE DEF n
  <2>2. QED
    BY <2>1
<1>3. \A i \in 1 .. n, t \in BpfSummary : step[i][t] = Updated(t, s[i])
  OBVIOUS
<1> HIDE DEF step
<1>4. PICK f : IsLoop(f, n, BpfSummary, SummaryBpfZero, step)
  <2>1. n \in Nat /\ SummaryBpfZero \in BpfSummary
    BY <1>1, ZeroIs
  <2> HIDE DEF n
  <2>2. QED
    BY <2>1, <1>2, LoopExists
<1>5. \A i \in 0 .. n : f[i] = IF i = 0 THEN SummaryBpfZero ELSE Updated(f[i - 1], s[i])
  <2>1. ASSUME NEW i \in 1 .. n PROVE f[i] = Updated(f[i - 1], s[i])
    <3>1. i - 1 \in 0 .. n
      BY <1>1
    <3>2. f[i - 1] \in BpfSummary /\ f[i] = step[i][f[i - 1]]
      BY <1>4, <3>1 DEF IsLoop
    <3>3. QED
      BY <1>3, <3>2
  <2>2. f[0] = SummaryBpfZero
    BY <1>4 DEF IsLoop
  <2>3. \A i \in 0 .. n : i # 0 => i \in 1 .. n
    BY <1>1
  <2>4. QED
    BY <2>1, <2>2, <2>3
<1>6. IsStreamed(f, s)
  BY <1>4, <1>5 DEF IsStreamed, IsLoop
<1>7. IsStreamed(CHOOSE g : IsStreamed(g, s), s)
  BY <1>6
<1>8. AfterEach(s) = CHOOSE g : IsStreamed(g, s)
  BY DEF AfterEach, IsStreamed
<1>9. QED
  BY <1>7, <1>8

LEMMA SumOfEachIs ==
  ASSUME NEW s \in Seq(Int)
  PROVE  IsSummed(SumOfEach(s), s)
<1> DEFINE n == Len(s)
           step == [i \in 1 .. n |-> [t \in Int |-> t + s[i]]]
<1>1. n \in Nat /\ \A i \in 1 .. n : s[i] \in Int
  OBVIOUS
<1>2. step \in [1 .. n -> [Int -> Int]]
  BY <1>1
<1>3. \A i \in 1 .. n, t \in Int : step[i][t] = t + s[i]
  OBVIOUS
<1> HIDE DEF step
<1>4. PICK f : IsLoop(f, n, Int, 0, step)
  <2>1. n \in Nat /\ 0 \in Int
    BY <1>1
  <2> HIDE DEF n
  <2>2. QED
    BY <2>1, <1>2, LoopExists
<1>5. \A i \in 0 .. n : f[i] = IF i = 0 THEN 0 ELSE f[i - 1] + s[i]
  <2>1. ASSUME NEW i \in 1 .. n PROVE f[i] = f[i - 1] + s[i]
    <3>1. i - 1 \in 0 .. n
      BY <1>1
    <3>2. f[i - 1] \in Int /\ f[i] = step[i][f[i - 1]]
      BY <1>4, <3>1 DEF IsLoop
    <3>3. QED
      BY <1>3, <3>2
  <2>2. f[0] = 0
    BY <1>4 DEF IsLoop
  <2>3. \A i \in 0 .. n : i # 0 => i \in 1 .. n
    BY <1>1
  <2>4. QED
    BY <2>1, <2>2, <2>3
<1>6. IsSummed(f, s)
  BY <1>4, <1>5 DEF IsSummed, IsLoop
<1>7. IsSummed(CHOOSE g : IsSummed(g, s), s)
  BY <1>6
<1>8. SumOfEach(s) = CHOOSE g : IsSummed(g, s)
  BY DEF SumOfEach, IsSummed
<1>9. QED
  BY <1>7, <1>8

(* A stream goes on from the summary of what came before. *)
LEMMA StreamedAppend ==
  ASSUME NEW s \in Seq(Int), NEW x \in Int
  PROVE  StreamedBpf(Append(s, x)) = Updated(StreamedBpf(s), x)
<1> DEFINE t == Append(s, x)
           n == Len(s)
           f == AfterEach(s)
           g == AfterEach(t)
           S == {i \in Nat : i <= n => g[i] = f[i]}
<1>1. /\ t \in Seq(Int) /\ n \in Nat /\ Len(t) = n + 1 /\ t[n + 1] = x
      /\ \A i \in 1 .. n : t[i] = s[i]
  OBVIOUS
<1> HIDE DEF t
<1>2. /\ \A i \in 0 .. n : f[i] = IF i = 0 THEN SummaryBpfZero ELSE Updated(f[i - 1], s[i])
      /\ \A i \in 0 .. n + 1 : g[i] = IF i = 0 THEN SummaryBpfZero ELSE Updated(g[i - 1], t[i])
  BY <1>1, AfterEachIs DEF IsStreamed
<1> HIDE DEF f, g, n
<1>3. 0 \in S
  BY <1>1, <1>2
<1>4. ASSUME NEW i \in 1 .. n, i - 1 \in S PROVE i \in S
  <2>1. i \in Nat /\ i # 0 /\ i \in 0 .. n /\ i \in 0 .. n + 1 /\ i - 1 <= n
    BY <1>1
  <2>2. g[i - 1] = f[i - 1] /\ t[i] = s[i]
    BY <1>1, <1>4, <2>1
  <2>3. g[i] = Updated(g[i - 1], t[i]) /\ f[i] = Updated(f[i - 1], s[i])
    BY <1>2, <2>1
  <2>4. QED
    BY <2>1, <2>2, <2>3
<1>5. n \in S
  <2> HIDE DEF S
  <2>1. 0 .. n \subseteq S
    BY <1>1, <1>3, <1>4, LoopInduction
  <2>2. QED
    BY <1>1, <2>1
<1>6. g[n + 1] = Updated(g[n], t[n + 1]) /\ g[n] = f[n]
  <2>1. n + 1 \in 0 .. n + 1 /\ n + 1 # 0 /\ (n + 1) - 1 = n
    BY <1>1
  <2>2. QED
    BY <1>1, <1>2, <1>5, <2>1
<1>7. QED
  BY <1>1, <1>6 DEF StreamedBpf, f, g, n, t

(* What two deviations of a stream may have come to, from the stream's     *)
(* least and greatest samples.                                             *)
Weight(i, R) == i * (R * R)

(* The summary of a stream, between its least and greatest samples.        *)
LEMMA StreamedIs ==
  ASSUME NEW s \in Seq(Int), s # << >>, NEW lo \in Latency, NEW hi \in Latency,
         \A j \in 1 .. Len(s) : s[j] \in lo .. hi
  PROVE  LET u == StreamedBpf(s)
             n == Len(s)
             error == n * u.m1_fp - Unit * Total(s)
         IN  /\ u \in BpfSummary /\ u.n = n
             /\ lo * Unit <= u.m1_fp /\ u.m1_fp <= hi * Unit
             /\ -(n * (n - 1)) <= 2 * error /\ 2 * error <= n * (n - 1)
             /\ Weight(n - 1, hi - lo) < Half => 0 <= u.m2 /\ u.m2 <= Weight(n - 1, hi - lo)
<1> DEFINE n == Len(s)
           f == AfterEach(s)
           g == SumOfEach(s)
           R == hi - lo
           L == lo * Unit
           H == hi * Unit
           Err(i) == i * f[i].m1_fp - Unit * g[i]
           Typed(i)  == f[i] \in BpfSummary /\ f[i].n = i /\ g[i] \in Int
           Mean(i)   == IF i = 0 THEN f[i].m1_fp = 0 ELSE L <= f[i].m1_fp /\ f[i].m1_fp <= H
           Error(i)  == -(i * (i - 1)) <= 2 * Err(i) /\ 2 * Err(i) <= i * (i - 1)
           Spread(i) == IF i = 0 THEN f[i].m2 = 0
                        ELSE Weight(i - 1, R) < Half => 0 <= f[i].m2 /\ f[i].m2 <= Weight(i - 1, R)
           S == {i \in Nat : i <= n => Typed(i) /\ Mean(i) /\ Error(i) /\ Spread(i)}
<1>1. /\ n \in Nat /\ n # 0
      /\ \A i \in 0 .. n : f[i] = IF i = 0 THEN SummaryBpfZero ELSE Updated(f[i - 1], s[i])
      /\ \A i \in 0 .. n : g[i] = IF i = 0 THEN 0 ELSE g[i - 1] + s[i]
      /\ \A i \in 1 .. n : s[i] \in Int /\ s[i] \in lo .. hi
  <2>1. n \in Nat /\ n # 0 /\ \A i \in 1 .. n : s[i] \in Int
    BY EmptySeq
  <2>2. QED
    BY <2>1, AfterEachIs, SumOfEachIs DEF IsStreamed, IsSummed
<1> HIDE DEF f, g, n, L, H, R
<1>2. 0 \in S
  <2>1. f[0] = SummaryBpfZero /\ g[0] = 0
    BY <1>1
  <2>2. Typed(0) /\ Mean(0) /\ Spread(0)
    BY <2>1, ZeroIs
  <2>3. Err(0) = 0
    BY <2>1, ZeroIs, WordsAreInts
  <2>4. Error(0)
    <3> HIDE DEF Err
    <3>1. QED
      BY <2>3
  <2>5. QED
    BY <2>2, <2>4
<1>3. ASSUME NEW i \in 1 .. n, i - 1 \in S PROVE i \in S
  <2> DEFINE t == f[i - 1]
             u == f[i]
             x == s[i]
  <2>1. /\ i - 1 \in 0 .. n /\ i - 1 <= n /\ i - 1 \in Nat /\ i \in Nat /\ (i - 1) + 1 = i
        /\ u = Updated(t, x) /\ g[i] = g[i - 1] + x /\ x \in lo .. hi /\ x \in Int
    <3>1. /\ i - 1 \in 0 .. n /\ i - 1 <= n /\ i - 1 \in Nat /\ i \in Nat /\ (i - 1) + 1 = i
          /\ i \in 0 .. n /\ i # 0
      BY <1>1
    <3>2. QED
      BY <1>1, <3>1
  <2>2. Typed(i - 1) /\ Mean(i - 1) /\ Error(i - 1) /\ Spread(i - 1)
    BY <1>3, <2>1
  <2>3. t \in BpfSummary /\ t.n = i - 1 /\ t.m1_fp \in Int /\ t.m2 \in Int
    BY <2>2, SummaryIs
  <2>4. u \in BpfSummary /\ u.n = i /\ g[i] \in Int /\ g[i - 1] \in Int
    <3>1. g[i - 1] \in Int
      BY <2>2
    <3> HIDE DEF t, x, u, Typed, Mean, Error, Spread
    <3>2. Updated(t, x) \in BpfSummary /\ Updated(t, x).n = t.n + 1
      BY <2>1, <2>3, UpdatedIs
    <3>3. QED
      BY <2>1, <2>3, <3>1, <3>2
  <2>5. /\ L <= u.m1_fp /\ u.m1_fp <= H
        /\ \E r \in Int : /\ -t.n <= r /\ r <= t.n
                          /\ (t.n + 1) * u.m1_fp = t.n * t.m1_fp + Unit * x - r
        /\ \E p \in Int : /\ 0 <= p /\ p <= R * R /\ (t.n = 0 => p = 0)
                          /\ u.m2 = Wrap(t.m2 + p)
    <3>1. /\ t.n = 0 => t.m1_fp = 0
          /\ t.n # 0 => lo * Unit <= t.m1_fp /\ t.m1_fp <= hi * Unit
      BY <2>2, <2>3 DEF L, H
    <3> HIDE DEF t, x
    <3>2. QED
      BY <2>1, <2>3, <3>1, UpdatedWithin DEF L, H, R
  <2> HIDE DEF t, x, u
  <2>6. Mean(i)
    BY <2>5 DEF u
  <2>7. Error(i)
    <3>1. PICK r \in Int : /\ -(i - 1) <= r /\ r <= i - 1
                           /\ i * u.m1_fp = (i - 1) * t.m1_fp + Unit * x - r
      BY <2>1, <2>3, <2>5
    <3>2. Unit * g[i] = Unit * g[i - 1] + Unit * x
      <4>1. \A a, b \in Int : Unit * (a + b) = Unit * a + Unit * b
        BY WordsAreInts
      <4> DEFINE y == g[i - 1]
      <4>2. g[i] = y + x /\ y \in Int /\ x \in Int
        BY <2>1, <2>4
      <4> HIDE DEF y
      <4>3. Unit * (y + x) = Unit * y + Unit * x
        BY <4>1, <4>2
      <4>4. QED
        BY <4>2, <4>3 DEF y
    <3> DEFINE e == Err(i - 1)
               N == (i - 1) * t.m1_fp
               G == Unit * g[i - 1]
               X == Unit * x
               a == (i - 1) * ((i - 1) - 1)
    <3>3. e = N - G /\ N \in Int /\ G \in Int /\ X \in Int /\ e \in Int
      <4>1. e = N - G
        BY DEF t
      <4>2. \A j, l \in Int : j * l \in Int
        OBVIOUS
      <4>3. N \in Int /\ G \in Int /\ X \in Int
        <5>1. i - 1 \in Int /\ t.m1_fp \in Int /\ Unit \in Int /\ x \in Int /\ g[i - 1] \in Int
          BY <2>1, <2>3, <2>4, WordsAreInts
        <5>2. N \in Int
          BY <4>2, <5>1
        <5>3. G \in Int /\ X \in Int
          BY <4>2, <5>1
        <5>4. QED
          BY <5>2, <5>3
      <4> HIDE DEF e, N, G, X
      <4>4. QED
        BY <4>1, <4>3
    <3>4. Err(i) = (N + X - r) - (G + X)
      BY <3>1, <3>2 DEF u
    <3>5. Err(i) = e - r /\ Err(i) \in Int
      <4> HIDE DEF e, N, G, X
      <4>1. QED
        BY <3>1, <3>3, <3>4
    <3>6. -a <= 2 * e /\ 2 * e <= a /\ a \in Int
      <4> HIDE DEF Err
      <4>1. QED
        BY <2>1, <2>2
    <3>7. i * (i - 1) = a + 2 * (i - 1)
      BY <2>1
    <3> DEFINE E == Err(i)
               b == i * (i - 1)
    <3>8. E = e - r /\ E \in Int /\ b = a + 2 * (i - 1)
      BY <3>5, <3>7
    <3>9. -(i - 1) <= r /\ r <= i - 1 /\ i \in Int
      BY <2>1, <3>1
    <3> HIDE DEF e, E, a, b, N, G, X
    <3>10. -b <= 2 * E /\ 2 * E <= b
      BY <3>3, <3>6, <3>8, <3>9
    <3>11. QED
      BY <3>10 DEF E, b
  <2>8. Spread(i)
    <3>1. PICK p \in Int : /\ 0 <= p /\ p <= R * R /\ (i - 1 = 0 => p = 0)
                           /\ u.m2 = Wrap(t.m2 + p)
      BY <2>3, <2>5
    <3>2. R \in Int /\ R * R \in Nat /\ R * R >= 0
      <4>1. R \in Int
        BY DEF R, Latency
      <4>2. QED
        BY <4>1
    <3>3. SUFFICES ASSUME Weight(i - 1, R) < Half
                   PROVE  0 <= u.m2 /\ u.m2 <= Weight(i - 1, R)
      BY <2>1 DEF u
    <3>4. Weight(i - 1, R) \in Nat
      BY <2>1, <3>2 DEF Weight
    <3>5. 0 <= t.m2 + p /\ t.m2 + p <= Weight(i - 1, R)
      <4>1. CASE i - 1 = 0
        BY <2>2, <3>1, <3>4, <4>1 DEF t
      <4>2. CASE i - 1 # 0
        <5>1. Weight(i - 1, R) = Weight(i - 1 - 1, R) + R * R
          BY <2>1, <3>2 DEF Weight
        <5>2. Weight(i - 1 - 1, R) \in Nat
          BY <2>1, <3>2, <4>2 DEF Weight
        <5>3. Weight(i - 1 - 1, R) < Half
          BY <3>2, <3>3, <3>4, <5>1, <5>2, WordsAreInts
        <5>4. 0 <= t.m2 /\ t.m2 <= Weight(i - 1 - 1, R)
          BY <2>2, <4>2, <5>3 DEF t
        <5>5. QED
          BY <2>3, <3>1, <3>2, <5>1, <5>2, <5>4
      <4>3. QED
        BY <4>1, <4>2
    <3>6. t.m2 + p \in Word
      <4>1. t.m2 + p \in Int
        BY <2>3, <3>1
      <4>2. QED
        BY <3>3, <3>4, <3>5, <4>1, WordsAreInts DEF Word
    <3>7. t.m2 + p \in Int
      BY <2>3, <3>1
    <3>8. QED
      BY <3>1, <3>5, <3>6, <3>7, WrapIs
  <2>9. QED
    BY <2>4, <2>6, <2>7, <2>8, <2>1 DEF u
<1>4. n \in S
  <2> HIDE DEF S
  <2>1. 0 .. n \subseteq S
    BY <1>1, <1>2, <1>3, LoopInduction
  <2>2. QED
    BY <1>1, <2>1
<1>5. Typed(n) /\ Mean(n) /\ Error(n) /\ Spread(n)
  BY <1>1, <1>4
<1>6. QED
  BY <1>1, <1>5 DEF StreamedBpf, Total, f, g, n, L, H, R

-------------------------------------------------------------------------------
(* A number between two multiples is, divided, between their factors.      *)
LEMMA DivBetween ==
  ASSUME NEW v \in Int, NEW m \in Nat \ {0}, NEW l \in Int, NEW h \in Int,
         l * m <= v, v <= h * m
  PROVE  v \div m \in Int /\ l <= v \div m /\ v \div m <= h
<1> DEFINE q == v \div m
<1>1. q \in Int /\ m * q <= v /\ v < m * q + m
  BY DivIs
<1> HIDE DEF q
<1>2. ASSUME NEW i \in Int, NEW j \in Int, i <= j PROVE i * m <= j * m /\ i * m \in Int /\ j * m \in Int
  BY <1>2
<1>3. l <= q
  <2>1. ASSUME q + 1 <= l PROVE FALSE
    <3>1. (q + 1) * m <= l * m /\ l * m \in Int
      BY <1>1, <1>2, <2>1
    <3>2. (q + 1) * m = m * q + m /\ m * q \in Int
      BY <1>1
    <3>3. QED
      BY <1>1, <3>1, <3>2
  <2>2. QED
    BY <1>1, <2>1
<1>4. q <= h
  <2>1. ASSUME h + 1 <= q PROVE FALSE
    <3>1. (h + 1) * m <= q * m /\ q * m = m * q /\ m * q \in Int
      BY <1>1, <1>2, <2>1
    <3>2. (h + 1) * m = h * m + m /\ h * m \in Int
      OBVIOUS
    <3>3. QED
      BY <1>1, <3>1, <3>2
  <2>2. QED
    BY <1>1, <2>1
<1>5. QED
  BY <1>1, <1>3, <1>4 DEF q

(* A summary whose mean and second moment are within a spread.  *)
Within(s, lo, hi) ==
  /\ s \in BpfSummary
  /\ s.n # 0 => /\ lo * Unit <= s.m1_fp /\ s.m1_fp <= hi * Unit
                /\ Weight(s.n - 1, hi - lo) < Half =>
                     0 <= s.m2 /\ s.m2 <= Weight(s.n - 1, hi - lo)

LEMMA WeightIs ==
  ASSUME NEW R \in Nat
  PROVE  /\ \A i \in Nat : Weight(i, R) \in Nat
         /\ \A i, j \in Nat : i <= j => Weight(i, R) <= Weight(j, R)
         /\ \A i, j \in Nat \ {0} : Weight(i - 1, R) + Weight(j - 1, R) + 2 * (R * R) = Weight(i + j, R)
         /\ R * R \in Nat
<1> DEFINE Q == R * R
<1>1. Q \in Nat
  OBVIOUS
<1> HIDE DEF Q
<1>2. /\ \A i \in Nat : i * Q \in Nat
      /\ \A i, j \in Nat : i <= j => i * Q <= j * Q
  BY <1>1
<1>3. \A i, j \in Nat \ {0} : (i - 1) * Q + (j - 1) * Q + 2 * Q = (i + j) * Q
  BY <1>1
<1>4. QED
  BY <1>1, <1>2, <1>3 DEF Weight, Q

(* The mean of a merge is one of its means' in whole ns. *)
LEMMA MergeMeanIs ==
  ASSUME NEW a, NEW b, NEW lo \in Latency, NEW hi \in Latency, lo <= hi,
         Within(a, lo, hi), Within(b, lo, hi), a.n # 0, b.n # 0,
         (a.n + b.n) * Limit <= Half
  PROVE  /\ MergeMean(a, b) \in Int
         /\ lo * Unit <= MergeMean(a, b) /\ MergeMean(a, b) <= hi * Unit
<1> DEFINE n == a.n + b.n
           va == Whole(a.m1_fp)
           vb == Whole(b.m1_fp)
           num == va * a.n + vb * b.n
<1>1. /\ a.n \in Nat \ {0} /\ b.n \in Nat \ {0} /\ n \in Nat \ {0}
      /\ a.m1_fp \in Int /\ b.m1_fp \in Int
      /\ lo \in Nat /\ hi \in Nat /\ hi + 1 <= Limit /\ Limit \in Nat /\ Half \in Nat
  <2>1. a \in BpfSummary /\ b \in BpfSummary
    BY DEF Within
  <2>2. a.n \in Nat \ {0} /\ b.n \in Nat \ {0} /\ a.m1_fp \in Int /\ b.m1_fp \in Int
    BY <2>1, SummaryIs
  <2>3. QED
    BY <2>2, WordsAreInts DEF Latency
<1>2. /\ va \in Int /\ lo <= va /\ va <= hi
      /\ vb \in Int /\ lo <= vb /\ vb <= hi
  BY <1>1, WholeIs DEF Within
<1> HIDE DEF va, vb
<1>3. num \in Int /\ lo * n <= num /\ num <= hi * n
  <2>1. ASSUME NEW v \in Int, lo <= v, v <= hi, NEW m \in Nat
        PROVE  v * m \in Int /\ lo * m <= v * m /\ v * m <= hi * m
    BY <1>1, <2>1
  <2>2. /\ va * a.n \in Int /\ lo * a.n <= va * a.n /\ va * a.n <= hi * a.n
        /\ vb * b.n \in Int /\ lo * b.n <= vb * b.n /\ vb * b.n <= hi * b.n
    BY <1>1, <1>2, <2>1
  <2>3. lo * n = lo * a.n + lo * b.n /\ hi * n = hi * a.n + hi * b.n
    BY <1>1
  <2>4. lo * a.n \in Int /\ lo * b.n \in Int /\ hi * a.n \in Int /\ hi * b.n \in Int
    BY <1>1
  <2>5. QED
    BY <2>2, <2>3, <2>4
<1>4. 0 <= num /\ num < Half
  <2>1. 0 <= lo * n
    BY <1>1
  <2>2. (hi + 1) * n <= Limit * n
    BY <1>1
  <2>3. (hi + 1) * n = hi * n + n /\ Limit * n = n * Limit /\ hi * n \in Int /\ n * Limit \in Int
    BY <1>1
  <2>4. lo * n \in Int
    BY <1>1
  <2>5. n * Limit <= Half
    OBVIOUS
  <2> HIDE DEF num, n
  <2>6. QED
    BY <1>1, <1>3, <2>1, <2>2, <2>3, <2>4, <2>5
<1> HIDE DEF num
<1>5. Wrap(num) = num
  <2>1. num \in Word
    BY <1>1, <1>3, <1>4 DEF Word
  <2>2. QED
    BY <1>3, <2>1, WrapIs
<1> DEFINE q == SignedDiv(num, n)
<1>6. q \in Int /\ lo <= q /\ q <= hi
  <2>1. q = num \div n
    BY <1>4 DEF SignedDiv
  <2>2. QED
    BY <1>1, <1>3, <2>1, DivBetween
<1>7. MergeMean(a, b) = Unit * q
  BY <1>5 DEF MergeMean, num, va, vb
<1> HIDE DEF q
<1>8. QED
  BY <1>1, <1>6, <1>7, WordsAreInts

LEMMA MergeM2Is ==
  ASSUME NEW a, NEW b, NEW d \in Int, NEW R \in Nat, -R <= d, d <= R,
         a.n \in Nat \ {0}, b.n \in Nat \ {0}, (a.n + b.n) * (a.n + b.n) <= Half
  PROVE  /\ MergeM2(a, b, d) \in Nat
         /\ 4 * MergeM2(a, b, d) <= Weight(a.n + b.n, R)
<1> DEFINE n == a.n + b.n
           P == a.n * b.n
           D == d * d
           Q == R * R
           c == (D * P) \div n
<1>1. n \in Nat \ {0} /\ P \in Nat /\ D \in Nat /\ Q \in Nat /\ Half \in Nat
  <2>1. d * d >= 0
    <3>1. d >= 0 => d * d >= 0
      OBVIOUS
    <3>2. d <= 0 => d * d = (-d) * (-d) /\ (-d) * (-d) >= 0
      OBVIOUS
    <3>3. QED
      BY <3>1, <3>2
  <2>2. QED
    BY <2>1, WordsAreInts
<1>2. D <= Q
  <2>1. \A i, j \in Nat : i <= j => i * i <= j * j
    OBVIOUS
  <2>2. CASE d >= 0
    BY <2>1, <2>2
  <2>3. CASE d < 0
    <3>1. -d \in Nat /\ -d <= R /\ d * d = (-d) * (-d)
      BY <2>3
    <3>2. QED
      BY <2>1, <3>1
  <2>4. QED
    BY <2>2, <2>3
<1>3. 4 * P <= n * n
  <2>1. n * n = 4 * P + (a.n - b.n) * (a.n - b.n)
    OBVIOUS
  <2>2. \A i \in Int : i * i >= 0
    <3>1. \A i \in Int : i >= 0 => i * i >= 0
      OBVIOUS
    <3>2. \A i \in Int : i < 0 => i * i >= 0
      OBVIOUS
    <3>3. QED
      BY <3>1, <3>2
  <2>3. a.n - b.n \in Int
    OBVIOUS
  <2>4. (a.n - b.n) * (a.n - b.n) >= 0 /\ (a.n - b.n) * (a.n - b.n) \in Int
    BY <2>2, <2>3
  <2>5. QED
    BY <1>1, <2>1, <2>4
<1>4. Wrap(P) = P
  <2>1. 4 * P <= Half
    BY <1>1, <1>3
  <2>2. P \in Word
    BY <1>1, <2>1, WordsAreInts DEF Word
  <2>3. P \in Int
    BY <1>1
  <2> HIDE DEF P
  <2>4. QED
    BY <2>2, <2>3, WrapIs
<1> HIDE DEF P, D, Q, n
<1>5. D * P \in Nat
  BY <1>1
<1>6. MergeM2(a, b, d) = c
  <2>1. D * P >= 0
    BY <1>5
  <2>2. MergeM2(a, b, d) = SignedDiv(D * P, n)
    BY <1>4 DEF MergeM2, D, P, n
  <2>3. QED
    BY <2>1, <2>2 DEF SignedDiv
<1>7. c \in Int /\ n * c <= D * P /\ 0 <= c
  <2>1. c \in Int /\ n * c <= D * P
    BY <1>1, <1>5, DivIs
  <2>2. 0 <= c
    <3>1. D * P >= 0 /\ D * P \in Int
      BY <1>5
    <3>2. SignedDiv(D * P, n) = c
      BY <3>1 DEF SignedDiv
    <3>3. 0 <= SignedDiv(D * P, n)
      BY <1>1, <3>1, SignedDivIs
    <3>4. QED
      BY <3>2, <3>3
  <2>3. QED
    BY <2>1, <2>2
<1> HIDE DEF c
<1>8. 4 * c <= n * Q
  <2> DEFINE w == n * Q
             x == 4 * c
  <2>1. 4 * (D * P) <= n * w
    <3>1. 4 * (D * P) = D * (4 * P)
      BY <1>1
    <3>2. D * (4 * P) <= D * (n * n)
      BY <1>1, <1>3
    <3>3. D * (n * n) <= Q * (n * n)
      <4>1. n * n \in Nat
        BY <1>1
      <4>2. \A m \in Nat : D * m <= Q * m
        BY <1>1, <1>2
      <4>3. QED
        BY <4>1, <4>2
    <3>4. Q * (n * n) = n * w
      BY <1>1
    <3>5. D * (4 * P) \in Int /\ D * (n * n) \in Int /\ Q * (n * n) \in Int
      BY <1>1
    <3>6. QED
      BY <3>1, <3>2, <3>3, <3>4, <3>5
  <2>2. n * x = 4 * (n * c) /\ n * c \in Int /\ D * P \in Int
    BY <1>1, <1>7
  <2>3. n * x <= n * w /\ w \in Int /\ x \in Int
    <3>1. w \in Int /\ x \in Int /\ n * w \in Int
      BY <1>1, <1>7
    <3> HIDE DEF w, x
    <3>2. QED
      BY <1>7, <2>1, <2>2, <3>1
  <2> HIDE DEF w, x
  <2>4. x <= w
    <3>1. ASSUME w + 1 <= x PROVE FALSE
      <4>1. n * (w + 1) <= n * x
        BY <1>1, <2>3, <3>1
      <4>2. n * (w + 1) = n * w + n /\ n * w \in Int /\ n * x \in Int
        BY <1>1, <2>3
      <4>3. QED
        BY <1>1, <2>3, <4>1, <4>2
    <3>2. QED
      BY <2>3, <3>1
  <2>5. QED
    BY <2>4 DEF w, x
<1>9. QED
  BY <1>6, <1>7, <1>8 DEF Weight, n, Q

(* What a merge makes of two summaries within one spread. *)
LEMMA MergedIs ==
  ASSUME NEW a, NEW b, NEW lo \in Latency, NEW hi \in Latency, lo <= hi,
         Within(a, lo, hi), Within(b, lo, hi), a.n # 0,
         (a.n + b.n) * (a.n + b.n) <= Half, (a.n + b.n) * Limit <= Half
  PROVE  LET u == Merged(a, b)
             weight == Weight(a.n + b.n, hi - lo)
         IN  /\ lo * Unit <= u.m1_fp /\ u.m1_fp <= hi * Unit
             /\ u.m2 \in Int
             /\ 5 * weight < 4 * Half => 0 <= u.m2 /\ 4 * u.m2 <= 5 * weight
<1> DEFINE u == Merged(a, b)
           n == a.n + b.n
           R == hi - lo
           weight == Weight(n, R)
           d == Whole(b.m1_fp - a.m1_fp)
           c == MergeM2(a, b, d)
           Q == R * R
<1>1. a \in BpfSummary /\ b \in BpfSummary
  BY DEF Within
<1>2. /\ a.n \in Nat \ {0} /\ b.n \in Nat /\ n \in Nat /\ a.n <= n
      /\ a.m1_fp \in Int /\ b.m1_fp \in Int /\ a.m2 \in Int /\ b.m2 \in Int
      /\ lo \in Nat /\ hi \in Nat /\ R \in Nat /\ Half \in Nat /\ Unit \in Nat \ {0}
  BY <1>1, SummaryIs, WordsAreInts DEF Latency
<1>3. /\ weight \in Nat /\ Q \in Nat
      /\ \A i, j \in Nat : i <= j => Weight(i, R) <= Weight(j, R)
      /\ Weight(a.n - 1, R) \in Nat
      /\ b.n # 0 => /\ Weight(b.n - 1, R) \in Nat
                    /\ Weight(a.n - 1, R) + Weight(b.n - 1, R) + 2 * Q = weight
  <2>1. a.n - 1 \in Nat /\ (b.n # 0 => b.n - 1 \in Nat)
    BY <1>2
  <2> HIDE DEF R
  <2>2. QED
    BY <1>2, <2>1, WeightIs DEF n
<1>4. CASE b.n = 0
  <2>1. u = a
    BY <1>4 DEF Merged
  <2>2. n = a.n /\ a.n - 1 \in Nat /\ a.n - 1 <= a.n
    BY <1>2, <1>4
  <2>3. Weight(a.n - 1, R) <= weight
    BY <1>2, <1>3, <2>2
  <2>4. /\ lo * Unit <= a.m1_fp /\ a.m1_fp <= hi * Unit
        /\ Weight(a.n - 1, R) < Half => 0 <= a.m2 /\ a.m2 <= Weight(a.n - 1, R)
    BY <1>2 DEF Within
  <2> HIDE DEF weight, R, n
  <2>5. ASSUME 5 * weight < 4 * Half PROVE 0 <= a.m2 /\ 4 * a.m2 <= 5 * weight
    <3>1. Weight(a.n - 1, R) < Half
      BY <1>2, <1>3, <2>3, <2>5
    <3>2. QED
      BY <1>2, <1>3, <2>3, <2>4, <3>1
  <2>6. QED
    BY <1>2, <2>1, <2>4, <2>5 DEF weight, R, n
<1>5. CASE b.n # 0
  <2>1. u.m1_fp = MergeMean(a, b) /\ u.m2 = Wrap(a.m2 + b.m2 + c)
    BY <1>2, <1>5 DEF Merged
  <2>2. lo * Unit <= u.m1_fp /\ u.m1_fp <= hi * Unit
    BY <1>2, <1>5, <2>1, MergeMeanIs
  <2>3. d \in Int /\ -R <= d /\ d <= R
    <3> DEFINE L == lo * Unit
               H == hi * Unit
               f == b.m1_fp - a.m1_fp
    <3>1. /\ L <= a.m1_fp /\ a.m1_fp <= H /\ L <= b.m1_fp /\ b.m1_fp <= H
          /\ L \in Int /\ H \in Int
      BY <1>2, <1>5 DEF Within
    <3>2. R * Unit = H - L /\ (-R) * Unit = L - H /\ R \in Int /\ -R \in Int
      BY <1>2
    <3> HIDE DEF L, H, R
    <3>3. f \in Int /\ (-R) * Unit <= f /\ f <= R * Unit
      BY <1>2, <3>1, <3>2
    <3> HIDE DEF f
    <3>4. QED
      BY <3>2, <3>3, WholeIs DEF f
  <2>4. c \in Nat /\ 4 * c <= weight
    <3> HIDE DEF d, R
    <3>1. QED
      BY <1>2, <1>5, <2>3, MergeM2Is DEF n
  <2>5. /\ Weight(a.n - 1, R) < Half => 0 <= a.m2 /\ a.m2 <= Weight(a.n - 1, R)
        /\ Weight(b.n - 1, R) < Half => 0 <= b.m2 /\ b.m2 <= Weight(b.n - 1, R)
    BY <1>2, <1>5 DEF Within
  <2> DEFINE left == Weight(a.n - 1, R)
             right == Weight(b.n - 1, R)
  <2>6. left + right + 2 * Q = weight /\ left \in Nat /\ right \in Nat
    BY <1>3, <1>5
  <2> HIDE DEF weight, Q, left, right, c
  <2>7. ASSUME 5 * weight < 4 * Half PROVE 0 <= u.m2 /\ 4 * u.m2 <= 5 * weight
    <3>1. left < Half /\ right < Half
      BY <1>2, <1>3, <2>6, <2>7
    <3>2. 0 <= a.m2 /\ a.m2 <= left /\ 0 <= b.m2 /\ b.m2 <= right
      BY <2>5, <3>1 DEF left, right
    <3> DEFINE m == a.m2 + b.m2 + c
    <3>3. m \in Int /\ 0 <= m /\ 4 * m <= 5 * weight
      BY <1>2, <1>3, <2>4, <2>6, <3>2
    <3> HIDE DEF m
    <3>4. m \in Word
      BY <1>2, <1>3, <2>7, <3>3 DEF Word
    <3>5. u.m2 = m
      BY <2>1, <3>3, <3>4, WrapIs DEF m
    <3>6. QED
      BY <3>3, <3>5
  <2>8. u.m2 \in Int
    <3> DEFINE m == a.m2 + b.m2 + c
    <3>1. m \in Int /\ u.m2 = Wrap(m)
      BY <1>2, <2>1, <2>4
    <3> HIDE DEF m
    <3>2. QED
      BY <3>1, WrapIs, WordsAreInts
  <2>9. QED
    BY <2>2, <2>7, <2>8 DEF weight, R, n
<1>6. QED
  BY <1>4, <1>5

-------------------------------------------------------------------------------
(* The summary is that of the samples since the last reset.                *)
BpfInv ==
  /\ seen \in Seq(Values) /\ Len(seen) <= MaxSamples
  /\ summary = StreamedBpf(seen)

LEMMA ValuesAre == Values \subseteq Latency /\ Latency \subseteq Nat /\ Values \subseteq Int
BY PebayAssumption DEF Latency

LEMMA StreamsAre ==
  ASSUME NEW s \in Seq(Values)
  PROVE  /\ s \in Seq(Int) /\ Len(s) \in Nat
         /\ \A i \in 1 .. Len(s) : s[i] \in Latency /\ s[i] \in Nat
<1>1. Len(s) \in Nat /\ \A i \in 1 .. Len(s) : s[i] \in Values
  OBVIOUS
<1>2. s = [i \in 1 .. Len(s) |-> s[i]]
  OBVIOUS
<1>3. s \in Seq(Int)
  BY <1>1, <1>2, ValuesAre
<1>4. QED
  BY <1>1, <1>3, ValuesAre

LEMMA EmptyIsStreamed ==
  << >> \in Seq(Values) /\ Len(<< >>) = 0 /\ StreamedBpf(<< >>) = SummaryBpfZero
<1>1. << >> \in Seq(Values) /\ << >> \in Seq(Int) /\ Len(<< >>) = 0
  OBVIOUS
<1>2. AfterEach(<< >>)[0] = SummaryBpfZero
  <2> DEFINE s == << >>
             f == AfterEach(s)
  <2>1. IsStreamed(f, s)
    BY <1>1, AfterEachIs
  <2>2. Len(s) = 0 /\ 0 \in 0 .. Len(s)
    BY <1>1
  <2> HIDE DEF s, f
  <2>3. f[0] = SummaryBpfZero
    BY <2>1, <2>2 DEF IsStreamed
  <2>4. QED
    BY <2>3 DEF f, s
<1>3. QED
  BY <1>1, <1>2 DEF StreamedBpf

LEMMA StreamedTyped ==
  ASSUME NEW s \in Seq(Values)
  PROVE  StreamedBpf(s) \in BpfSummary /\ StreamedBpf(s).n = Len(s)
<1>1. CASE s = << >>
  BY <1>1, EmptyIsStreamed, ZeroIs
<1>2. CASE s # << >>
  <2>1. 0 \in Latency /\ Limit - 1 \in Latency
    BY WordsAreInts DEF Latency
  <2>2. \A i \in 1 .. Len(s) : s[i] \in 0 .. (Limit - 1)
    BY StreamsAre DEF Latency
  <2>3. QED
    BY <1>2, <2>1, <2>2, StreamsAre, StreamedIs
<1>3. QED
  BY <1>1, <1>2

(* It is initially, and every sample and every reset keeps it so. *)
THEOREM BpfInvariant == BpfSpec => []BpfInv
<1>1. BpfInit => BpfInv
  <2>1. SUFFICES ASSUME BpfInit PROVE BpfInv
    OBVIOUS
  <2>2. seen = << >> /\ summary = SummaryBpfZero
    BY <2>1 DEF BpfInit
  <2>3. QED
    BY <2>2, EmptyIsStreamed, PebayAssumption DEF BpfInv
<1>2. BpfInv /\ [BpfNext]_bpfVars => BpfInv'
  <2> SUFFICES ASSUME BpfInv, [BpfNext]_bpfVars PROVE BpfInv'
    OBVIOUS
  <2>1. CASE \E x \in Values : Update(x)
    <3>1. PICK x \in Values : Update(x)
      BY <2>1
    <3>2. /\ summary.n < MaxSamples /\ summary' = Updated(summary, x)
          /\ seen' = Append(seen, x)
      BY <3>1 DEF Update
    <3>3. seen \in Seq(Values) /\ summary.n = Len(seen) /\ x \in Int /\ seen \in Seq(Int)
      BY StreamedTyped, StreamsAre, ValuesAre DEF BpfInv
    <3>4. StreamedBpf(seen') = summary'
      BY <3>2, <3>3, StreamedAppend DEF BpfInv
    <3>5. seen' \in Seq(Values) /\ Len(seen') = Len(seen) + 1 /\ Len(seen) \in Nat
      BY <3>2, <3>3
    <3>6. Len(seen') <= MaxSamples
      BY <3>2, <3>3, <3>5, PebayAssumption
    <3>7. QED
      BY <3>4, <3>5, <3>6 DEF BpfInv
  <2>2. CASE Reset
    <3>1. seen' = << >> /\ summary' = SummaryBpfZero
      BY <2>2 DEF Reset
    <3>2. QED
      BY <3>1, EmptyIsStreamed, PebayAssumption DEF BpfInv
  <2>3. CASE UNCHANGED bpfVars
    BY <2>3 DEF bpfVars, BpfInv
  <2>4. QED
    BY <2>1, <2>2, <2>3 DEF BpfNext
<1>3. QED
  BY <1>1, <1>2, PTL DEF BpfSpec

(* The fields keep their widths, whatever is added to them: m2 a word, m3  *)
(* and m4 double words, and the mean a word although it is the sum of a    *)
(* word and a quotient.                                                    *)
THEOREM SummaryKeepsWidths == BpfSpec => []SummaryTyped
<1>1. BpfInv => SummaryTyped
  <2> SUFFICES ASSUME BpfInv PROVE SummaryTyped
    OBVIOUS
  <2>1. seen \in Seq(Values) /\ summary \in BpfSummary /\ summary.n = Len(seen)
    BY StreamedTyped DEF BpfInv
  <2>2. summary.n \in 0 .. MaxSamples
    BY <2>1, StreamsAre, PebayAssumption DEF BpfInv
  <2>3. QED
    BY <2>1, <2>2 DEF SummaryTyped, BpfSummary
<1>2. QED
  BY <1>1, BpfInvariant, PTL

(* The least and the greatest sample of a stream. *)
LEMMA SpreadExists ==
  ASSUME seen \in Seq(Values), seen # << >>
  PROVE  \E lo, hi \in Samples :
           /\ lo \in Latency /\ hi \in Latency /\ lo <= hi
           /\ \A x \in Samples : x \in lo .. hi
<1>1. Samples \subseteq Latency /\ Samples # {}
  BY StreamsAre, EmptySeq DEF Samples
<1>2. Samples \in SUBSET Nat
  BY <1>1, ValuesAre
<1> DEFINE T == {Limit - x : x \in Samples}
<1>3. T \in SUBSET Nat /\ T # {}
  <2>1. ASSUME NEW x \in Samples PROVE Limit - x \in Nat
    <3>1. x \in Latency
      BY <1>1
    <3>2. QED
      BY <3>1, WordsAreInts DEF Latency
  <2>2. QED
    BY <1>1, <2>1
<1>4. PICK lo \in Samples : \A x \in Samples : lo <= x
  BY <1>1, <1>2, LeastNat
<1>5. PICK t \in T : \A y \in T : t <= y
  <2> HIDE DEF T
  <2>1. QED
    BY <1>3, LeastNat
<1>6. PICK hi \in Samples : t = Limit - hi
  BY <1>5
<1>7. \A x \in Samples : x <= hi
  <2>1. SUFFICES ASSUME NEW x \in Samples PROVE x <= hi
    OBVIOUS
  <2>2. Limit - hi <= Limit - x
    BY <1>5, <1>6
  <2>3. x \in Nat /\ hi \in Nat /\ Limit \in Nat
    BY <1>2, WordsAreInts
  <2>4. QED
    BY <2>2, <2>3
<1>8. lo \in Nat /\ hi \in Nat /\ \A x \in Samples : x \in Nat
  BY <1>2
<1>9. QED
  BY <1>1, <1>4, <1>7, <1>8

(* The two parts of a merge, of which the second may be empty. *)
LEMMA PartsAre ==
  ASSUME seen \in Seq(Values), NEW i \in DOMAIN seen, NEW lo \in Latency, NEW hi \in Latency,
         \A x \in Samples : x \in lo .. hi
  PROVE  LET a == StreamedBpf(SubSeq(seen, 1, i))
             b == StreamedBpf(SubSeq(seen, i + 1, Len(seen)))
         IN  Within(a, lo, hi) /\ Within(b, lo, hi) /\ a.n = i /\ b.n = Len(seen) - i
<1>1. /\ Len(seen) \in Nat /\ i \in 1 .. Len(seen) /\ i \in Int
      /\ \A j \in 1 .. Len(seen) : seen[j] \in Values /\ seen[j] \in lo .. hi
  BY DEF Samples
<1>2. ASSUME NEW s \in Seq(Values), \A j \in 1 .. Len(s) : s[j] \in lo .. hi
      PROVE  Within(StreamedBpf(s), lo, hi) /\ StreamedBpf(s).n = Len(s)
  <2>1. CASE s = << >>
    BY <2>1, StreamedTyped, EmptyIsStreamed, ZeroIs DEF Within
  <2>2. CASE s # << >>
    BY <1>2, <2>2, StreamsAre, StreamedIs DEF Within
  <2>3. QED
    BY <2>1, <2>2
<1> DEFINE s == SubSeq(seen, 1, i)
           t == SubSeq(seen, i + 1, Len(seen))
<1>3. s \in Seq(Values) /\ Len(s) = i /\ \A j \in 1 .. Len(s) : s[j] \in lo .. hi
  <2>1. /\ s \in Seq(Values) /\ Len(s) = (IF 1 <= i THEN i - 1 + 1 ELSE 0)
        /\ \A j \in 1 .. (i - 1 + 1) : s[j] = seen[1 + j - 1]
    BY <1>1, SubSeqProperties
  <2> HIDE DEF s
  <2>2. Len(s) = i /\ i - 1 + 1 = i
    BY <1>1, <2>1
  <2>3. ASSUME NEW j \in 1 .. i PROVE s[j] \in lo .. hi
    <3>1. 1 + j - 1 = j /\ j \in 1 .. Len(seen)
      BY <1>1
    <3>2. QED
      BY <1>1, <2>1, <2>2, <3>1
  <2>4. QED
    BY <2>1, <2>2, <2>3
<1>4. t \in Seq(Values) /\ Len(t) = Len(seen) - i /\ \A j \in 1 .. Len(t) : t[j] \in lo .. hi
  <2> DEFINE n == Len(seen)
  <2>1. /\ i + 1 \in Int /\ n \in Int
        /\ \A j \in i + 1 .. n : seen[j] \in Values
    BY <1>1
  <2>2. /\ t \in Seq(Values) /\ Len(t) = (IF i + 1 <= n THEN n - (i + 1) + 1 ELSE 0)
        /\ \A j \in 1 .. (n - (i + 1) + 1) : t[j] = seen[i + 1 + j - 1]
    BY <2>1, SubSeqProperties
  <2> HIDE DEF t, n
  <2>3. Len(t) = n - i /\ n - (i + 1) + 1 = n - i
    BY <1>1, <2>1, <2>2 DEF n
  <2>4. ASSUME NEW j \in 1 .. n - i PROVE t[j] \in lo .. hi
    <3>1. i + 1 + j - 1 \in 1 .. n /\ j \in 1 .. (n - (i + 1) + 1)
      BY <1>1, <2>1 DEF n
    <3>2. QED
      BY <1>1, <2>2, <3>1 DEF n
  <2>5. QED
    BY <2>2, <2>3, <2>4 DEF n
<1> HIDE DEF s, t
<1>5. QED
  BY <1>2, <1>3, <1>4 DEF s, t

(* What is known of every merged summary. *)
LEMMA MergedWithin ==
  ASSUME seen \in Seq(Values), NEW lo \in Latency, NEW hi \in Latency, lo <= hi,
         \A x \in Samples : x \in lo .. hi, CountsFit, NEW u \in MergedSummaries
  PROVE  LET weight == Weight(Len(seen), hi - lo)
         IN  /\ lo * Unit <= u.m1_fp /\ u.m1_fp <= hi * Unit
             /\ u.m2 \in Int
             /\ 5 * weight < 4 * Half => 0 <= u.m2 /\ 4 * u.m2 <= 5 * weight
<1>1. PICK i \in DOMAIN seen :
        u = Merged(StreamedBpf(SubSeq(seen, 1, i)), StreamedBpf(SubSeq(seen, i + 1, Len(seen))))
  BY DEF MergedSummaries
<1> DEFINE a == StreamedBpf(SubSeq(seen, 1, i))
           b == StreamedBpf(SubSeq(seen, i + 1, Len(seen)))
<1>2. Within(a, lo, hi) /\ Within(b, lo, hi) /\ a.n = i /\ b.n = Len(seen) - i
  BY PartsAre
<1>3. i \in Nat \ {0} /\ Len(seen) \in Nat
  OBVIOUS
<1> HIDE DEF a, b
<1>4. a.n # 0 /\ a.n + b.n = Len(seen)
  BY <1>2, <1>3
<1>5. /\ (a.n + b.n) * (a.n + b.n) <= Half
      /\ (a.n + b.n) * Limit <= Half
  BY <1>4 DEF CountsFit
<1>6. u = Merged(a, b)
  BY <1>1 DEF a, b
<1>7. QED
  BY <1>2, <1>4, <1>5, <1>6, MergedIs

(* What is known of the streamed summary. *)
LEMMA SummaryWithin ==
  ASSUME BpfInv, seen # << >>, NEW lo \in Latency, NEW hi \in Latency,
         \A x \in Samples : x \in lo .. hi
  PROVE  LET n == Len(seen)
             error == n * summary.m1_fp - Unit * Total(seen)
         IN  /\ lo * Unit <= summary.m1_fp /\ summary.m1_fp <= hi * Unit
             /\ -(n * (n - 1)) <= 2 * error /\ 2 * error <= n * (n - 1)
             /\ Weight(n - 1, hi - lo) < Half =>
                  0 <= summary.m2 /\ summary.m2 <= Weight(n - 1, hi - lo)
<1>1. seen \in Seq(Values) /\ summary = StreamedBpf(seen)
  BY DEF BpfInv
<1>2. \A j \in 1 .. Len(seen) : seen[j] \in lo .. hi
  BY DEF Samples
<1>3. seen \in Seq(Int)
  BY <1>1, StreamsAre
<1>4. QED
  BY <1>1, <1>2, <1>3, StreamedIs

(* The mean stays between the samples, streamed or merged, whatever the    *)
(* divisions and the rounding to whole ns cost it.                         *)
THEOREM MeanStaysWithin == BpfSpec => []MeanWithinSamples
<1>1. BpfInv => MeanWithinSamples
  <2> SUFFICES ASSUME BpfInv, seen # << >>,
                      NEW s \in {summary} \cup (IF CountsFit THEN MergedSummaries ELSE {})
               PROVE  /\ \E x \in Samples : x * Unit <= s.m1_fp
                      /\ \E x \in Samples : s.m1_fp <= x * Unit
    BY DEF MeanWithinSamples
  <2>1. seen \in Seq(Values)
    BY DEF BpfInv
  <2>2. PICK lo \in Samples, hi \in Samples :
          /\ lo \in Latency /\ hi \in Latency /\ lo <= hi
          /\ \A x \in Samples : x \in lo .. hi
    BY <2>1, SpreadExists
  <2>3. CASE s = summary
    BY <2>2, <2>3, SummaryWithin
  <2>4. CASE CountsFit /\ s \in MergedSummaries
    BY <2>1, <2>2, <2>4, MergedWithin
  <2>5. QED
    BY <2>3, <2>4
<1>2. QED
  BY <1>1, BpfInvariant, PTL

(* What the truncated quotients cost the streamed mean. *)
THEOREM MeanStaysAccurate == BpfSpec => []MeanAccurate
<1>1. BpfInv => MeanAccurate
  <2> SUFFICES ASSUME BpfInv, seen # << >>
               PROVE  LET n     == Len(seen)
                          error == n * summary.m1_fp - Unit * Total(seen)
                      IN  -(n * (n - 1)) <= 2 * error /\ 2 * error <= n * (n - 1)
    BY DEF MeanAccurate
  <2>1. seen \in Seq(Values)
    BY DEF BpfInv
  <2>2. PICK lo \in Samples, hi \in Samples :
          /\ lo \in Latency /\ hi \in Latency /\ lo <= hi
          /\ \A x \in Samples : x \in lo .. hi
    BY <2>1, SpreadExists
  <2>3. QED
    BY <2>2, SummaryWithin
<1>2. QED
  BY <1>1, BpfInvariant, PTL

(* m2 stays a sum of squares, while one square of the spread for each      *)
(* sample fits the word: it is not negative, and does not wrap.            *)
THEOREM M2StaysWithin == BpfSpec => []M2WithinSpread
<1>1. BpfInv => M2WithinSpread
  <2> DEFINE n == Len(seen)
  <2> SUFFICES ASSUME BpfInv, NEW R \in 0 .. Limit, seen # << >>, SpreadAtMost(R)
               PROVE  /\ Weight(n - 1, R) < Half =>
                           0 <= summary.m2 /\ summary.m2 <= Weight(n - 1, R)
                      /\ CountsFit /\ 5 * Weight(n, R) < 4 * Half =>
                           \A s \in MergedSummaries : 0 <= s.m2 /\ 4 * s.m2 <= 5 * Weight(n, R)
    BY DEF M2WithinSpread, Weight
  <2>1. seen \in Seq(Values)
    BY DEF BpfInv
  <2>2. PICK lo \in Samples, hi \in Samples :
          /\ lo \in Latency /\ hi \in Latency /\ lo <= hi
          /\ \A x \in Samples : x \in lo .. hi
    BY <2>1, SpreadExists
  <2> DEFINE r == hi - lo
  <2>3. r \in Nat /\ R \in Nat /\ r <= R /\ n \in Nat /\ n - 1 \in Nat
    <3>1. hi - lo <= R
      BY <2>2 DEF SpreadAtMost
    <3>2. lo \in Nat /\ hi \in Nat /\ Limit \in Nat
      BY <2>2, WordsAreInts DEF Latency
    <3>3. n \in Nat /\ n # 0
      BY <2>1, EmptySeq
    <3> HIDE DEF n
    <3>4. QED
      BY <2>2, <3>1, <3>2, <3>3
  <2>4. /\ Weight(n - 1, r) <= Weight(n - 1, R) /\ Weight(n, r) <= Weight(n, R)
        /\ Weight(n - 1, r) \in Nat /\ Weight(n, r) \in Nat
        /\ Weight(n - 1, R) \in Nat /\ Weight(n, R) \in Nat
    <3> HIDE DEF r, n
    <3>1. r * r <= R * R /\ r * r \in Nat /\ R * R \in Nat
      BY <2>3
    <3>2. \A i \in Nat : i * (r * r) <= i * (R * R)
      <4> DEFINE q == r * r
                 Q == R * R
      <4> HIDE DEF q, Q
      <4>1. \A i \in Nat : i * q <= i * Q
        BY <3>1 DEF q, Q
      <4>2. QED
        BY <4>1 DEF q, Q
    <3>3. QED
      BY <2>3, <3>2, WeightIs DEF Weight
  <2>5. Half \in Nat
    BY WordsAreInts
  <2>6. ASSUME Weight(n - 1, R) < Half
        PROVE  0 <= summary.m2 /\ summary.m2 <= Weight(n - 1, R)
    <3>1. Weight(n - 1, r) < Half
      BY <2>4, <2>5, <2>6
    <3>2. 0 <= summary.m2 /\ summary.m2 <= Weight(n - 1, r)
      BY <2>2, <3>1, SummaryWithin
    <3>3. summary.m2 \in Int
      BY <2>1, StreamedTyped, SummaryIs DEF BpfInv
    <3>4. QED
      BY <2>4, <3>2, <3>3
  <2>7. ASSUME CountsFit, 5 * Weight(n, R) < 4 * Half, NEW s \in MergedSummaries
        PROVE  0 <= s.m2 /\ 4 * s.m2 <= 5 * Weight(n, R)
    <3>1. 5 * Weight(n, r) < 4 * Half
      BY <2>4, <2>5, <2>7
    <3>2. 0 <= s.m2 /\ 4 * s.m2 <= 5 * Weight(n, r)
      BY <2>1, <2>2, <2>7, <3>1, MergedWithin
    <3>3. s.m2 \in Int
      BY <2>1, <2>2, <2>7, MergedWithin
    <3>4. QED
      BY <2>4, <3>2, <3>3
  <2>8. QED
    BY <2>6, <2>7
<1>2. QED
  BY <1>1, BpfInvariant, PTL

-------------------------------------------------------------------------------
(* Powers of two, counted as the subsets of an interval: half of those of  *)
(* 1 .. n + 1 have n + 1 for an element.                                   *)
LEMMA PowerDoubles ==
  ASSUME NEW n \in Nat
  PROVE  2 ^ (n + 1) = 2 * 2 ^ n
<1> DEFINE S == SUBSET (1 .. n)
           T == {X \cup {n + 1} : X \in S}
           f == [X \in S |-> X \cup {n + 1}]
<1>1. IsFiniteSet(1 .. n) /\ Cardinality(1 .. n) = n
  BY FS_Interval
<1>2. IsFiniteSet(1 .. (n + 1)) /\ Cardinality(1 .. (n + 1)) = n + 1
  BY FS_Interval
<1>3. IsFiniteSet(S) /\ Cardinality(S) = 2 ^ n
  BY <1>1, FS_SUBSET
<1>4. Cardinality(SUBSET (1 .. (n + 1))) = 2 ^ (n + 1)
  BY <1>2, FS_SUBSET
<1>5. SUBSET (1 .. (n + 1)) = S \cup T
  <2>1. ASSUME NEW Y \in SUBSET (1 .. (n + 1)) PROVE Y \in S \cup T
    <3>1. CASE n + 1 \in Y
      <4>1. Y \ {n + 1} \in S /\ Y = (Y \ {n + 1}) \cup {n + 1}
        BY <3>1
      <4>2. QED
        BY <4>1
    <3>2. CASE n + 1 \notin Y
      BY <3>2
    <3>3. QED
      BY <3>1, <3>2
  <2>2. S \cup T \subseteq SUBSET (1 .. (n + 1))
    <3>1. 1 .. n \subseteq 1 .. (n + 1) /\ n + 1 \in 1 .. (n + 1)
      OBVIOUS
    <3>2. QED
      BY <3>1
  <2>3. QED
    BY <2>1, <2>2
<1>6. S \cap T = {}
  OBVIOUS
<1>7. f \in Bijection(S, T)
  <2>1. f \in [S -> T]
    OBVIOUS
  <2>2. ASSUME NEW X \in S, NEW Y \in S, f[X] = f[Y] PROVE X = Y
    <3>1. X \cup {n + 1} = Y \cup {n + 1} /\ n + 1 \notin X /\ n + 1 \notin Y
      BY <2>2
    <3>2. QED
      BY <3>1
  <2>3. \A Y \in T : \E X \in S : f[X] = Y
    OBVIOUS
  <2>4. QED
    BY <2>1, <2>2, <2>3 DEF Bijection, Injection, IsInjective, Surjection
<1> HIDE DEF S, T, f
<1>8. IsFiniteSet(T) /\ Cardinality(T) = 2 ^ n
  BY <1>3, <1>7, FS_Bijection DEF ExistsBijection
<1>9. Cardinality(S \cup T) = 2 ^ n + 2 ^ n
  <2>1. Cardinality(S \cup T) = Cardinality(S) + Cardinality(T) - Cardinality(S \cap T)
    BY <1>3, <1>8, FS_Union
  <2>2. Cardinality(S \cap T) = 0
    BY <1>6, FS_EmptySet
  <2>3. Cardinality(S) \in Nat
    BY <1>3, FS_CardinalityType
  <2>4. QED
    BY <1>3, <1>8, <2>1, <2>2, <2>3
<1>10. 2 ^ (n + 1) = 2 ^ n + 2 ^ n
  BY <1>4, <1>5, <1>9
<1>11. 2 ^ n \in Int
  BY <1>3, FS_CardinalityType
<1>12. QED
  BY <1>10, <1>11

LEMMA PowersArePositive == \A n \in Nat : 2 ^ n \in Nat \ {0}
<1> DEFINE S == {n \in Nat : 2 ^ n \in Nat \ {0}}
<1>1. 0 \in S
  OBVIOUS
<1>2. ASSUME NEW n \in Nat, n \in S PROVE n + 1 \in S
  <2>1. 2 ^ (n + 1) = 2 * 2 ^ n /\ 2 ^ n \in Nat \ {0}
    BY <1>2, PowerDoubles
  <2>2. QED
    BY <2>1
<1> HIDE DEF S
<1>3. Nat \subseteq S
  BY <1>1, <1>2, SetInduction
<1>4. QED
  BY <1>3 DEF S

LEMMA PowersMultiply ==
  ASSUME NEW m \in Nat, NEW n \in Nat
  PROVE  2 ^ (m + n) = 2 ^ m * 2 ^ n
<1> DEFINE S == {l \in Nat : 2 ^ (m + l) = 2 ^ m * 2 ^ l}
<1>1. 0 \in S
  <2>1. 2 ^ 0 = 1 /\ m + 0 = m /\ 2 ^ m \in Nat
    BY PowersArePositive
  <2>2. QED
    BY <2>1
<1>2. ASSUME NEW l \in Nat, l \in S PROVE l + 1 \in S
  <2> DEFINE x == 2 ^ m
             y == 2 ^ l
  <2>1. x \in Nat /\ y \in Nat
    BY PowersArePositive
  <2>2. 2 ^ (m + l) = x * y
    BY <1>2
  <2>3. 2 ^ ((m + l) + 1) = 2 * 2 ^ (m + l)
    BY PowerDoubles
  <2>4. 2 ^ (l + 1) = 2 * y
    BY PowerDoubles
  <2>5. m + (l + 1) = (m + l) + 1
    OBVIOUS
  <2>6. 2 ^ (m + (l + 1)) = 2 * (x * y)
    BY <2>2, <2>3, <2>5
  <2> HIDE DEF x, y
  <2>7. 2 * (x * y) = x * (2 * y)
    BY <2>1
  <2>8. QED
    BY <2>4, <2>6, <2>7 DEF x
<1> HIDE DEF S
<1>3. Nat \subseteq S
  BY <1>1, <1>2, SetInduction
<1>4. QED
  BY <1>3 DEF S

-------------------------------------------------------------------------------
(* A quotient and a remainder, and that there is but one of each.          *)
LEMMA DivModIs ==
  ASSUME NEW v \in Int, NEW m \in Nat \ {0}
  PROVE  /\ v \div m \in Int /\ v % m \in 0 .. (m - 1)
         /\ v = m * (v \div m) + (v % m)
BY SMT

LEMMA DivModUnique ==
  ASSUME NEW v \in Int, NEW m \in Nat \ {0}, NEW q \in Int, NEW r \in Int,
         0 <= r, r < m, v = m * q + r
  PROVE  v \div m = q /\ v % m = r
<1> DEFINE p == v \div m
           s == v % m
<1>1. p \in Int /\ s \in Int /\ 0 <= s /\ s < m /\ v = m * p + s
  <2>1. p \in Int /\ s \in 0 .. (m - 1) /\ v = m * p + s
    BY DivModIs
  <2> HIDE DEF p, s
  <2>2. QED
    BY <2>1
<1> HIDE DEF p, s
<1>2. ASSUME NEW i \in Int, NEW j \in Int, i < j PROVE m * i + m <= m * j
  <2>1. i + 1 <= j
    BY <1>2
  <2>2. m * (i + 1) <= m * j
    BY <2>1
  <2>3. m * (i + 1) = m * i + m
    OBVIOUS
  <2>4. QED
    BY <2>2, <2>3
<1>3. m * p \in Int /\ m * q \in Int
  BY <1>1
<1>4. ~(p < q)
  BY <1>1, <1>2, <1>3
<1>5. ~(q < p)
  BY <1>1, <1>2, <1>3
<1>6. p = q
  BY <1>1, <1>4, <1>5
<1>7. s = r
  BY <1>1, <1>3, <1>6
<1>8. QED
  BY <1>6, <1>7 DEF p, s

LEMMA BaseIs ==
  /\ B \in Nat /\ B >= 2 /\ B # 0 /\ W \in Nat /\ W # 0 /\ W = B * B /\ B <= W
  /\ W \div 2 \in Nat /\ W = 2 * (W \div 2) /\ 0 < W \div 2
  /\ \E h \in Nat : B = 2 * h
<1>1. PICK h \in Nat \ {0} : B = 2 * h
  <2>1. Bits - 1 \in Nat /\ Bits = (Bits - 1) + 1
    BY BitsAssumption
  <2>2. B = 2 * 2 ^ (Bits - 1)
    BY <2>1, PowerDoubles DEF B
  <2>3. 2 ^ (Bits - 1) \in Nat \ {0}
    BY <2>1, PowersArePositive
  <2>4. QED
    BY <2>2, <2>3
<1>2. B \in Nat /\ B >= 2 /\ B # 0
  BY <1>1
<1>3. W \in Nat /\ W # 0 /\ B <= W /\ W = B * B
  <2>1. 1 <= B /\ 1 * B <= B * B
    BY <1>2
  <2>2. QED
    BY <1>2, <2>1 DEF W
<1>4. W = 2 * (h * B) + 0 /\ h * B \in Nat
  <2>1. (2 * h) * B = 2 * (h * B)
    BY <1>2
  <2>2. QED
    BY <1>1, <1>2, <1>3, <2>1
<1>5. W \div 2 = h * B
  BY <1>3, <1>4, DivModUnique
<1>6. QED
  BY <1>1, <1>2, <1>3, <1>4, <1>5

-------------------------------------------------------------------------------
(* The integers a pattern stands for, modulo its width.                    *)
Stands(v, i) == v \in S128 /\ \E t \in Int : i = W * (W * t + v.hi) + v.lo

LEMMA StandsAlone ==
  ASSUME NEW v, NEW i \in Int, Stands(v, i)
  PROVE  v = Pattern(i)
<1>1. PICK t \in Int : i = W * (W * t + v.hi) + v.lo
  BY DEF Stands
<1>2. /\ v = [hi |-> v.hi, lo |-> v.lo] /\ v.hi \in Int /\ v.lo \in Int
      /\ 0 <= v.hi /\ v.hi < W /\ 0 <= v.lo /\ v.lo < W
  BY BaseIs DEF Stands, S128, Words
<1>3. W \in Nat \ {0} /\ W * t + v.hi \in Int
  BY BaseIs, <1>2
<1>4. i \div W = W * t + v.hi /\ i % W = v.lo
  BY <1>1, <1>2, <1>3, DivModUnique
<1>5. (W * t + v.hi) % W = v.hi
  BY <1>2, <1>3, DivModUnique
<1>6. QED
  BY <1>2, <1>4, <1>5 DEF Pattern

(* A high word that wraps makes no difference. *)
LEMMA HighWraps ==
  ASSUME NEW lo \in Words, NEW y \in Int, NEW t \in Int, NEW i, i = W * (W * t + y) + lo
  PROVE  Stands([hi |-> y % W, lo |-> lo], i)
<1> DEFINE q == y \div W
           r == y % W
<1>1. W \in Nat \ {0} /\ W \in Int
  BY BaseIs
<1>2. q \in Int /\ r \in 0 .. (W - 1) /\ y = W * q + r
  BY <1>1, DivModIs
<1> HIDE DEF q, r
<1>3. W * t + y = W * (t + q) + r
  <2>1. W * (t + q) = W * t + W * q /\ W * t \in Int /\ W * q \in Int
    BY <1>1, <1>2
  <2>2. r \in Int
    BY <1>2
  <2>3. QED
    BY <1>2, <2>1, <2>2
<1>4. t + q \in Int /\ i = W * (W * (t + q) + r) + lo
  BY <1>2, <1>3
<1>5. [hi |-> r, lo |-> lo] \in S128
  BY <1>2 DEF S128, Words
<1>6. QED
  BY <1>4, <1>5 DEF Stands, r

LEMMA WordsAre ==
  /\ Words \subseteq Int /\ \A w \in Words : 0 <= w /\ w < W
  /\ \A w \in Int : 0 <= w /\ w < W => w \in Words
BY BaseIs DEF Words

LEMMA StandsIs ==
  ASSUME NEW v, NEW i, Stands(v, i)
  PROVE  v.hi \in Words /\ v.lo \in Words /\ \E t \in Int : i = W * (W * t + v.hi) + v.lo
BY DEF Stands, S128

LEMMA HighSum ==
  ASSUME NEW t \in Int, NEW u \in Int, NEW p \in Int, NEW q \in Int, NEW c \in Int
  PROVE  W * (W * (t + u) + (p + q + c)) = W * (W * t + p) + W * (W * u + q) + W * c
<1> DEFINE T == W * t
           U == W * u
<1>1. W \in Int /\ W * (t + u) = T + U /\ T \in Int /\ U \in Int
  BY BaseIs
<1> HIDE DEF T, U
<1>2. W * ((T + U) + (p + q + c)) = W * (T + p) + W * (U + q) + W * c
  BY <1>1
<1>3. QED
  BY <1>1, <1>2 DEF T, U

LEMMA HighMinus ==
  ASSUME NEW u \in Int, NEW q \in Int
  PROVE  -(W * (W * u + q)) = W * (W * (-u) + (-q))
<1> DEFINE U == W * u
<1>1. W \in Int /\ W * (-u) = -U /\ U \in Int
  BY BaseIs
<1> HIDE DEF U
<1>2. -(W * (U + q)) = W * ((-U) + (-q))
  BY <1>1
<1>3. QED
  BY <1>1, <1>2 DEF U

(* The carry is what the low words lose. *)
LEMMA AddIs ==
  ASSUME NEW a, NEW b, NEW i \in Int, NEW j \in Int, Stands(a, i), Stands(b, j)
  PROVE  Stands(s128_add(a, b), i + j)
<1> DEFINE lo == (a.lo + b.lo) % W
           c == IF lo < a.lo THEN 1 ELSE 0
           y == a.hi + b.hi + c
<1>1. /\ a.hi \in Int /\ a.lo \in Int /\ 0 <= a.lo /\ a.lo < W
      /\ b.hi \in Int /\ b.lo \in Int /\ 0 <= b.lo /\ b.lo < W
  BY StandsIs, WordsAre
<1>2. PICK t \in Int : i = W * (W * t + a.hi) + a.lo
  BY StandsIs
<1>3. PICK u \in Int : j = W * (W * u + b.hi) + b.lo
  BY StandsIs
<1>4. W \in Nat \ {0} /\ W \in Int
  BY BaseIs
<1>5. lo \in Int /\ 0 <= lo /\ lo < W /\ a.lo + b.lo = W * c + lo /\ c \in Int
  <2> DEFINE x == a.lo + b.lo
  <2>1. CASE x < W
    <3>1. x = W * 0 + x
      BY <1>1, <1>4
    <3>2. x % W = x
      <4> HIDE DEF x
      <4>1. x \in Int /\ 0 <= x
        BY <1>1 DEF x
      <4>2. QED
        BY <1>4, <2>1, <3>1, <4>1, DivModUnique
    <3>3. lo = x /\ c = 0
      BY <1>1, <3>2
    <3>4. QED
      BY <1>1, <1>4, <2>1, <3>3
  <2>2. CASE x >= W
    <3>1. x = W * 1 + (x - W) /\ 0 <= x - W /\ x - W < W /\ x \in Int /\ x - W < a.lo
      BY <1>1, <1>4, <2>2
    <3>2. x % W = x - W
      <4> DEFINE r == x - W
      <4>1. r \in Int /\ 0 <= r /\ r < W /\ x = W * 1 + r /\ x \in Int /\ 1 \in Int
        BY <1>4, <3>1
      <4> HIDE DEF x, r
      <4>2. x % W = r
        BY <1>4, <4>1, DivModUnique
      <4>3. QED
        BY <4>2 DEF r
    <3>3. lo = x - W /\ c = 1
      BY <3>1, <3>2
    <3>4. QED
      BY <1>1, <1>4, <3>1, <3>3
  <2>3. QED
    BY <1>1, <1>4, <2>1, <2>2
<1> HIDE DEF lo, c
<1>6. i + j = W * (W * (t + u) + y) + lo
  <2>1. W * (W * (t + u) + y) = W * (W * t + a.hi) + W * (W * u + b.hi) + W * c
    <3>1. a.hi \in Int /\ b.hi \in Int /\ c \in Int
      BY <1>1, <1>5
    <3> DEFINE p == a.hi
               q == b.hi
    <3> HIDE DEF p, q
    <3>2. p \in Int /\ q \in Int /\ c \in Int
      BY <3>1 DEF p, q
    <3>3. W * (W * (t + u) + (p + q + c)) = W * (W * t + p) + W * (W * u + q) + W * c
      BY <3>2, HighSum
    <3>4. QED
      BY <3>3 DEF p, q
  <2> DEFINE A == W * (W * t + a.hi)
             C == W * (W * u + b.hi)
             D == W * c
             E == W * (W * (t + u) + y)
  <2>2. A \in Int /\ C \in Int /\ D \in Int
    BY <1>1, <1>4, <1>5
  <2> HIDE DEF A, C, D, E, y
  <2>3. i = A + a.lo /\ j = C + b.lo /\ a.lo + b.lo = D + lo
    BY <1>2, <1>3, <1>5 DEF A, C, D
  <2>4. E = A + C + D
    BY <2>1 DEF A, C, D, E
  <2>5. i + j = E + lo
    BY <1>1, <1>5, <2>2, <2>3, <2>4
  <2>6. QED
    BY <2>5 DEF E
<1>7. lo \in Words /\ y \in Int /\ t + u \in Int
  BY <1>1, <1>5, WordsAre
<1>8. s128_add(a, b) = [hi |-> y % W, lo |-> lo]
  BY DEF s128_add, lo, c
<1>9. QED
  BY <1>6, <1>7, <1>8, HighWraps

LEMMA SubIs ==
  ASSUME NEW a, NEW b, NEW i \in Int, NEW j \in Int, Stands(a, i), Stands(b, j)
  PROVE  Stands(s128_sub(a, b), i - j)
<1> DEFINE lo == (a.lo - b.lo) % W
           c == IF a.lo < b.lo THEN 1 ELSE 0
           y == a.hi - b.hi - c
<1>1. /\ a.hi \in Int /\ a.lo \in Int /\ 0 <= a.lo /\ a.lo < W
      /\ b.hi \in Int /\ b.lo \in Int /\ 0 <= b.lo /\ b.lo < W
  BY StandsIs, WordsAre
<1>2. PICK t \in Int : i = W * (W * t + a.hi) + a.lo
  BY StandsIs
<1>3. PICK u \in Int : j = W * (W * u + b.hi) + b.lo
  BY StandsIs
<1>4. W \in Nat \ {0} /\ W \in Int
  BY BaseIs
<1>5. lo \in Int /\ 0 <= lo /\ lo < W /\ a.lo - b.lo = W * (-c) + lo /\ c \in Int
  <2> DEFINE x == a.lo - b.lo
  <2>1. CASE a.lo >= b.lo
    <3>1. x = W * 0 + x /\ x \in Int /\ 0 <= x /\ x < W
      BY <1>1, <1>4, <2>1
    <3>2. x % W = x
      <4> HIDE DEF x
      <4>1. QED
        BY <1>4, <3>1, DivModUnique
    <3>3. lo = x /\ c = 0
      BY <1>1, <2>1, <3>2
    <3>4. W * (-c) = 0
      BY <1>4, <3>3
    <3>5. QED
      BY <1>1, <1>4, <3>1, <3>3, <3>4
  <2>2. CASE a.lo < b.lo
    <3>1. x = W * (-1) + (x + W) /\ 0 <= x + W /\ x + W < W /\ x \in Int
      BY <1>1, <1>4, <2>2
    <3>2. x % W = x + W
      <4> HIDE DEF x
      <4>1. x + W \in Int /\ -1 \in Int
        BY <1>4, <3>1
      <4>2. QED
        BY <1>4, <3>1, <4>1, DivModUnique
    <3>3. lo = x + W /\ c = 1
      BY <2>2, <3>2
    <3>4. QED
      BY <1>1, <1>4, <3>1, <3>3
  <2>3. QED
    BY <1>1, <2>1, <2>2
<1> HIDE DEF lo, c
<1>6. i - j = W * (W * (t + (-u)) + y) + lo
  <2> DEFINE A == W * (W * t + a.hi)
             C == W * (W * u + b.hi)
             C1 == W * (W * (-u) + (-b.hi))
             D == W * (-c)
             E == W * (W * (t + (-u)) + y)
  <2>1. A \in Int /\ C \in Int /\ C1 = -C /\ D \in Int
    <3>1. A \in Int /\ C \in Int /\ D \in Int
      BY <1>1, <1>4, <1>5
    <3>2. C1 = -C
      BY <1>1, HighMinus
    <3>3. QED
      BY <3>1, <3>2
  <2>2. W * (W * (t + (-u)) + (a.hi + (-b.hi) + (-c))) = A + C1 + D
    <3>1. -u \in Int /\ -b.hi \in Int /\ -c \in Int
      BY <1>1, <1>5
    <3> DEFINE p == a.hi
               q == -b.hi
               n == -u
               d == -c
    <3> HIDE DEF p, q, n, d
    <3>2. p \in Int /\ q \in Int /\ n \in Int /\ d \in Int
      BY <1>1, <3>1 DEF p, q, n, d
    <3>3. W * (W * (t + n) + (p + q + d)) = W * (W * t + p) + W * (W * n + q) + W * d
      BY <3>2, HighSum
    <3>4. QED
      BY <3>3 DEF p, q, n, d
  <2>3. y = a.hi + (-b.hi) + (-c)
    BY <1>1, <1>5
  <2>4. E = A + C1 + D
    BY <2>2, <2>3
  <2> HIDE DEF A, C, C1, D, E, y
  <2>5. i = A + a.lo /\ j = C + b.lo /\ a.lo - b.lo = D + lo
    BY <1>2, <1>3, <1>5 DEF A, C, D
  <2>6. i - j = E + lo
    <3>1. lo \in Int
      BY <1>5
    <3>2. QED
      BY <1>1, <2>1, <2>4, <2>5, <3>1
  <2>7. QED
    BY <2>6 DEF E
<1>7. lo \in Words /\ y \in Int /\ t + (-u) \in Int
  BY <1>1, <1>5, WordsAre
<1>8. s128_sub(a, b) = [hi |-> y % W, lo |-> lo]
  BY DEF s128_sub, lo, c
<1>9. QED
  BY <1>6, <1>7, <1>8, HighWraps

LEMMA NegateIs ==
  ASSUME NEW v, NEW i \in Int, Stands(v, i)
  PROVE  Stands(Negate(v), -i)
<1> DEFINE lo == (W - v.lo) % W
           c == IF lo = 0 THEN 1 ELSE 0
           y == (W - 1 - v.hi) + c
<1>1. v.hi \in Int /\ v.lo \in Int /\ 0 <= v.lo /\ v.lo < W
  BY StandsIs, WordsAre
<1>2. PICK t \in Int : i = W * (W * t + v.hi) + v.lo
  BY StandsIs
<1>3. W \in Nat \ {0} /\ W \in Int
  BY BaseIs
<1>4. lo \in Int /\ 0 <= lo /\ lo < W /\ lo = W * (1 - c) - v.lo /\ c \in Int
  <2>1. CASE v.lo = 0
    <3>1. W - v.lo = W * 1 + 0
      BY <1>3, <2>1
    <3>2. lo = 0
      <4>1. W - v.lo \in Int
        BY <1>1, <1>3
      <4>2. QED
        BY <1>3, <3>1, <4>1, DivModUnique
    <3>3. c = 1 /\ 1 - c = 0 /\ W * 0 = 0
      BY <1>3, <3>2
    <3>4. QED
      BY <1>3, <2>1, <3>2, <3>3
  <2>2. CASE v.lo # 0
    <3>1. /\ W - v.lo = W * 0 + (W - v.lo) /\ W - v.lo \in Int
          /\ 0 < W - v.lo /\ W - v.lo < W
      BY <1>1, <1>3, <2>2
    <3>2. lo = W - v.lo
      BY <1>3, <3>1, DivModUnique
    <3>3. c = 0 /\ 1 - c = 1 /\ W * 1 = W
      BY <1>3, <3>1, <3>2
    <3>4. QED
      BY <1>3, <3>1, <3>2, <3>3
  <2>3. QED
    BY <2>1, <2>2
<1> HIDE DEF lo, c
<1>5. -i = W * (W * ((-t) + (-1)) + y) + lo
  <2> DEFINE C == W * (W * t + v.hi)
             C1 == W * (W * (-t) + (-v.hi))
             A == W * (W * (-1) + W)
             D == W * (c - 1)
             E == W * (W * ((-t) + (-1)) + y)
  <2>1. C \in Int /\ C1 = -C /\ D \in Int /\ A = 0
    <3>1. C \in Int /\ D \in Int
      BY <1>1, <1>3, <1>4
    <3>2. C1 = -C
      BY <1>1, HighMinus
    <3>3. W * (-1) + W = 0 /\ W * 0 = 0
      BY <1>3
    <3>4. QED
      BY <3>1, <3>2, <3>3
  <2>2. W * (W * ((-t) + (-1)) + ((-v.hi) + W + (c - 1))) = C1 + A + D
    <3>1. -t \in Int /\ -v.hi \in Int /\ c - 1 \in Int /\ -1 \in Int
      BY <1>1, <1>4
    <3> DEFINE p == -v.hi
               n == -t
               d == c - 1
    <3> HIDE DEF p, n, d
    <3>2. p \in Int /\ n \in Int /\ d \in Int /\ W \in Int /\ -1 \in Int
      BY <1>3, <3>1 DEF p, n, d
    <3>3. W * (W * (n + (-1)) + (p + W + d)) = W * (W * n + p) + W * (W * (-1) + W) + W * d
      BY <3>2, HighSum
    <3>4. QED
      BY <3>3 DEF p, n, d
  <2>3. y = (-v.hi) + W + (c - 1)
    <3>1. c \in Int
      BY <1>4
    <3>2. QED
      BY <1>1, <1>3, <3>1
  <2>4. E = C1 + A + D
    BY <2>2, <2>3
  <2>5. W * (1 - c) = -D
    BY <1>3, <1>4
  <2> HIDE DEF A, C, C1, D, E, y
  <2>6. i = C + v.lo /\ lo = -D - v.lo
    BY <1>2, <1>4, <2>5 DEF C
  <2>7. -i = E + lo
    BY <1>1, <1>4, <2>1, <2>4, <2>6
  <2>8. QED
    BY <2>7 DEF E
<1>6. lo \in Words /\ y \in Int /\ (-t) + (-1) \in Int
  BY <1>1, <1>3, <1>4, WordsAre
<1>7. Negate(v) = [hi |-> y % W, lo |-> lo]
  BY DEF Negate, lo, c
<1>8. QED
  BY <1>5, <1>6, <1>7, HighWraps

-------------------------------------------------------------------------------
(* Words and patterns as signed numbers.                                   *)
LEMMA SignedIs ==
  ASSUME NEW w \in Words
  PROVE  /\ Signed(w) \in Int
         /\ IsNegative(w) => Signed(w) = w - W /\ Signed(w) < 0
         /\ ~IsNegative(w) => Signed(w) = w /\ 0 <= Signed(w)
         /\ IsNegative(w) \in BOOLEAN
<1>1. w \in Int /\ 0 <= w /\ w < W /\ W \in Int /\ W \div 2 \in Int
  BY WordsAre, BaseIs
<1> DEFINE h == W \div 2
<1> HIDE DEF h
<1>2. h \in Int
  BY <1>1 DEF h
<1>3. Signed(w) = (IF w < h THEN w ELSE w - W) /\ (IsNegative(w) <=> w >= h)
  BY DEF Signed, IsNegative, h
<1>4. IsNegative(w) \in BOOLEAN
  BY DEF IsNegative
<1>5. QED
  BY <1>1, <1>2, <1>3, <1>4

LEMMA MagnitudeIs ==
  ASSUME NEW w \in Words
  PROVE  /\ WordMagnitude(w) \in Words
         /\ WordMagnitude(w) = IF IsNegative(w) THEN -Signed(w) ELSE Signed(w)
<1>1. w \in Int /\ 0 <= w /\ w < W /\ W \in Nat \ {0}
  BY WordsAre, BaseIs
<1>2. CASE IsNegative(w)
  <2>1. Signed(w) = w - W /\ WordMagnitude(w) = (W - w) % W
    BY <1>2, SignedIs DEF WordMagnitude
  <2>2. 0 < w
    <3>1. 0 < W \div 2 /\ W \div 2 \in Int
      BY BaseIs
    <3> DEFINE h == W \div 2
    <3> HIDE DEF h
    <3>2. w >= h /\ h \in Int /\ 0 < h
      BY <1>2, <3>1 DEF IsNegative, h
    <3>3. QED
      BY <1>1, <3>2
  <2>3. W - w = W * 0 + (W - w) /\ 0 <= W - w /\ W - w < W /\ W - w \in Int
    BY <1>1, <2>2
  <2>4. (W - w) % W = W - w
    BY <1>1, <2>3, DivModUnique
  <2>5. QED
    BY <1>1, <1>2, <2>1, <2>3, <2>4, WordsAre
<1>3. CASE ~IsNegative(w)
  BY <1>3, SignedIs DEF WordMagnitude
<1>4. QED
  BY <1>2, <1>3

Unsigned(v) == W * v.hi + v.lo

LEMMA ValueIs ==
  ASSUME NEW v \in S128
  PROVE  /\ Value(v) \in Int /\ Stands(v, Value(v))
         /\ IsNegative(v.hi) => Value(v) < 0 /\ -Value(v) < W * W
         /\ ~IsNegative(v.hi) => Value(v) = Unsigned(v) /\ 0 <= Value(v)
<1>1. v.hi \in Words /\ v.lo \in Words
  BY DEF S128
<1>2. /\ v.hi \in Int /\ 0 <= v.hi /\ v.hi < W
      /\ v.lo \in Int /\ 0 <= v.lo /\ v.lo < W /\ W \in Nat \ {0}
  BY <1>1, WordsAre, BaseIs
<1>3. CASE IsNegative(v.hi)
  <2> DEFINE s == v.hi - W
  <2>1. Value(v) = s * W + v.lo
    BY <1>1, <1>3, SignedIs DEF Value
  <2>2. s \in Int /\ s <= -1 /\ -W <= s /\ W * (-1) + v.hi = s
    BY <1>2
  <2> HIDE DEF s
  <2>3. s * W \in Int /\ s * W <= -W /\ (-W) * W <= s * W /\ s * W = W * s
    BY <1>2, <2>2
  <2>4. Value(v) \in Int /\ Value(v) < 0
    BY <1>2, <2>1, <2>3
  <2>5. -Value(v) < W * W
    <3>1. 0 < v.lo \/ v.lo = 0
      BY <1>2
    <3>2. -W < s
      <4>1. 0 < W \div 2 /\ W \div 2 \in Int
        BY BaseIs
      <4> DEFINE h == W \div 2
      <4> HIDE DEF h
      <4>2. v.hi >= h /\ h \in Int /\ 0 < h
        BY <1>3, <4>1 DEF IsNegative, h
      <4>3. QED
        BY <1>2, <4>2 DEF s
    <3>3. -(W - 1) <= s
      BY <1>2, <2>2, <3>2
    <3>4. (-(W - 1)) * W <= s * W
      BY <1>2, <2>2, <3>3
    <3>5. (-(W - 1)) * W = W - W * W /\ W * W \in Int
      BY <1>2
    <3>6. QED
      BY <1>2, <2>1, <2>3, <3>4, <3>5
  <2>6. Value(v) = W * (W * (-1) + v.hi) + v.lo
    BY <2>1, <2>2, <2>3
  <2>7. Stands(v, Value(v))
    <3>1. -1 \in Int
      OBVIOUS
    <3>2. QED
      BY <2>6, <3>1 DEF Stands
  <2>8. QED
    BY <1>3, <2>4, <2>5, <2>7
<1>4. CASE ~IsNegative(v.hi)
  <2>1. Value(v) = v.hi * W + v.lo
    BY <1>1, <1>4, SignedIs DEF Value
  <2>2. v.hi * W = W * v.hi /\ v.hi * W \in Int /\ 0 <= v.hi * W
    BY <1>2
  <2>3. Value(v) = Unsigned(v) /\ 0 <= Value(v) /\ Value(v) \in Int
    BY <1>2, <2>1, <2>2 DEF Unsigned
  <2>4. W * 0 + v.hi = v.hi
    BY <1>2
  <2>5. Value(v) = W * (W * 0 + v.hi) + v.lo
    BY <2>1, <2>2, <2>4
  <2>6. Stands(v, Value(v))
    BY <2>5 DEF Stands
  <2>7. QED
    BY <1>4, <2>3, <2>6
<1>5. QED
  BY <1>3, <1>4

(* Of the integers of two words a pattern stands for itself. *)
LEMMA UnsignedIs ==
  ASSUME NEW v, NEW i \in Int, Stands(v, i), 0 <= i, i < W * W
  PROVE  i = Unsigned(v)
<1>1. PICK t \in Int : i = W * (W * t + v.hi) + v.lo
  BY StandsIs
<1>2. /\ v.hi \in Int /\ 0 <= v.hi /\ v.hi < W
      /\ v.lo \in Int /\ 0 <= v.lo /\ v.lo < W /\ W \in Nat \ {0}
  BY StandsIs, WordsAre, BaseIs
<1> DEFINE q == W * t + v.hi
<1>3. q \in Int /\ i = W * q + v.lo
  BY <1>1, <1>2
<1> HIDE DEF q
<1>4. 0 <= q
  <2>1. ASSUME q <= -1 PROVE FALSE
    <3>1. W * q <= W * (-1) /\ W * (-1) = -W /\ W * q \in Int
      BY <1>2, <1>3, <2>1
    <3>2. QED
      BY <1>2, <1>3, <3>1
  <2>2. QED
    BY <1>3, <2>1
<1>5. q < W
  <2>1. ASSUME W <= q PROVE FALSE
    <3>1. W * W <= W * q /\ W * q \in Int /\ W * W \in Int
      BY <1>2, <1>3, <2>1
    <3>2. QED
      BY <1>2, <1>3, <3>1
  <2>2. QED
    BY <1>2, <1>3, <2>1
<1>6. q % W = q
  <2>1. q = W * 0 + q
    BY <1>2, <1>3
  <2>2. QED
    <3>1. q \in Int /\ 0 <= q /\ q < W /\ W \in Nat \ {0} /\ 0 \in Int
      BY <1>2, <1>3, <1>4, <1>5
    <3>2. QED
      BY <2>1, <3>1, DivModUnique
<1>7. q % W = v.hi
  BY <1>2, <1>3, DivModUnique DEF q
<1>8. QED
  BY <1>3, <1>6, <1>7 DEF Unsigned

LEMMA AbsoluteIs ==
  ASSUME NEW v \in S128
  PROVE  /\ Absolute(v) \in S128
         /\ Unsigned(Absolute(v)) = IF IsNegative(v.hi) THEN -Value(v) ELSE Value(v)
<1>1. CASE IsNegative(v.hi)
  <2>1. Absolute(v) = Negate(v)
    BY <1>1 DEF Absolute
  <2>2. Value(v) \in Int /\ Stands(v, Value(v)) /\ Value(v) < 0 /\ -Value(v) < W * W
    BY <1>1, ValueIs
  <2>3. Stands(Negate(v), -Value(v))
    BY <2>2, NegateIs
  <2>4. -Value(v) = Unsigned(Negate(v))
    <3> DEFINE i == -Value(v)
    <3>1. i \in Int /\ 0 <= i /\ i < W * W
      BY <2>2
    <3> HIDE DEF i
    <3>2. QED
      BY <2>3, <3>1, UnsignedIs DEF i
  <2>5. QED
    BY <1>1, <2>1, <2>3, <2>4 DEF Stands
<1>2. CASE ~IsNegative(v.hi)
  BY <1>2, ValueIs DEF Absolute
<1>3. QED
  BY <1>1, <1>2

LEMMA NegateIfIs ==
  ASSUME NEW c, NEW v, NEW i \in Int, Stands(v, i)
  PROVE  Stands(NegateIf(c, v), IF c THEN -i ELSE i)
BY NegateIs DEF NegateIf

LEMMA SumsAreExact == SumsExact
<1>1. ASSUME NEW v \in Words PROVE s128_from_s64(v) = Pattern(Signed(v))
  <2> DEFINE hi == IF IsNegative(v) THEN W - 1 ELSE 0
             a == [hi |-> hi, lo |-> v]
  <2>1. v \in Int /\ W \in Nat \ {0} /\ hi \in Words /\ -1 \in Int
    BY WordsAre, BaseIs
  <2>2. a \in S128
    BY <2>1 DEF S128
  <2>3. \E t \in Int : Signed(v) = W * (W * t + hi) + v
    <3>1. CASE IsNegative(v)
      <4>1. W * (-1) + hi = -1 /\ W * (-1) = -W
        BY <2>1, <3>1
      <4>2. Signed(v) = W * (W * (-1) + hi) + v
        BY <2>1, <3>1, <4>1, SignedIs
      <4>3. QED
        BY <2>1, <4>2
    <3>2. CASE ~IsNegative(v)
      <4>1. W * 0 = 0 /\ W * 0 + hi = 0
        BY <2>1, <3>2
      <4>2. Signed(v) = W * (W * 0 + hi) + v
        BY <2>1, <3>2, <4>1, SignedIs
      <4>3. QED
        BY <4>2
    <3>3. QED
      BY <3>1, <3>2
  <2>4. Stands(a, Signed(v))
    BY <2>2, <2>3 DEF Stands
  <2>5. s128_from_s64(v) = a
    BY DEF s128_from_s64
  <2>6. QED
    BY <2>4, <2>5, SignedIs, StandsAlone
<1>2. ASSUME NEW v \in Wide, NEW w \in Wide
      PROVE  /\ s128_add(v, w) = Pattern(Value(v) + Value(w))
             /\ s128_sub(v, w) = Pattern(Value(v) - Value(w))
  <2>1. v \in S128 /\ w \in S128
    BY EdgesAssumption DEF Wide, S128
  <2>2. /\ Value(v) \in Int /\ Stands(v, Value(v))
        /\ Value(w) \in Int /\ Stands(w, Value(w))
    BY <2>1, ValueIs
  <2>3. /\ Stands(s128_add(v, w), Value(v) + Value(w))
        /\ Stands(s128_sub(v, w), Value(v) - Value(w))
    BY <2>2, AddIs, SubIs
  <2>4. Value(v) + Value(w) \in Int /\ Value(v) - Value(w) \in Int
    BY <2>2
  <2>5. QED
    BY <2>3, <2>4, StandsAlone
<1>3. QED
  BY <1>1, <1>2 DEF SumsExact

-------------------------------------------------------------------------------
(* The four products of limbs, each of which is below W, and the carries   *)
(* of the middle ones make up the product of the words.                    *)
LEMMA LimbsAre ==
  ASSUME NEW w \in Words
  PROVE  /\ w \div B \in Nat /\ w % B \in Nat /\ w % B < B /\ w \div B < B
         /\ w = B * (w \div B) + (w % B)
<1> DEFINE h == w \div B
           l == w % B
<1>1. /\ w \in Int /\ 0 <= w /\ w < B * B /\ B \in Nat \ {0}
  BY WordsAre, BaseIs
<1>2. h \in Int /\ l \in 0 .. (B - 1) /\ w = B * h + l
  BY <1>1, DivModIs
<1> HIDE DEF h, l
<1>3. l \in Int /\ 0 <= l /\ l < B
  BY <1>1, <1>2
<1>4. 0 <= h
  <2>1. ASSUME h <= -1 PROVE FALSE
    <3>1. B * h <= B * (-1) /\ B * (-1) = -B /\ B * h \in Int
      BY <1>1, <1>2, <2>1
    <3>2. QED
      BY <1>1, <1>2, <1>3, <3>1
  <2>2. QED
    BY <1>2, <2>1
<1>5. h < B
  <2>1. ASSUME B <= h PROVE FALSE
    <3>1. B * B <= B * h /\ B * h \in Int /\ B * B \in Int
      BY <1>1, <1>2, <2>1
    <3>2. QED
      BY <1>1, <1>2, <1>3, <3>1
  <2>2. QED
    BY <1>1, <1>2, <2>1
<1>6. QED
  BY <1>2, <1>3, <1>4, <1>5 DEF h, l

LEMMA ProductOfWords ==
  ASSUME NEW a \in Words, NEW b \in Words
  PROVE  /\ u64_mul_u64(a, b) \in S128
         /\ Unsigned(u64_mul_u64(a, b)) = a * b
<1> DEFINE a1 == a \div B
           a0 == a % B
           b1 == b \div B
           b0 == b % B
           ll == a0 * b0
           hl == a1 * b0
           lh == a0 * b1
           hh == a1 * b1
           l1 == ll \div B
           l0 == ll % B
           m1 == hl \div B
           m0 == hl % B
           n1 == lh \div B
           n0 == lh % B
           mid == l1 + m0 + n0
           d1 == mid \div B
           d0 == mid % B
           low == l0 + ((mid * B) % W)
           high == hh + m1 + n1 + d1
<1>1. B \in Nat \ {0} /\ W \in Nat \ {0} /\ W = B * B /\ B \in Int /\ W \in Int
  BY BaseIs
<1>2. /\ a1 \in Nat /\ a0 \in Nat /\ a0 < B /\ a1 < B /\ a = B * a1 + a0
      /\ b1 \in Nat /\ b0 \in Nat /\ b0 < B /\ b1 < B /\ b = B * b1 + b0
  BY LimbsAre
<1>3. u64_mul_u64(a, b) = [hi |-> high % W, lo |-> low]
  BY DEF u64_mul_u64
<1> HIDE DEF a1, a0, b1, b0
<1>4. ll \in Nat /\ hl \in Nat /\ lh \in Nat /\ hh \in Nat
  BY <1>2
<1>5. a * b = W * hh + B * hl + B * lh + ll
  <2>1. (B * a1 + a0) * (B * b1 + b0) = (B * B) * (a1 * b1) + B * (a1 * b0) + B * (a0 * b1) + a0 * b0
    BY <1>1, <1>2
  <2>2. QED
    BY <1>1, <1>2, <2>1
<1> HIDE DEF ll, hl, lh, hh
<1>6. ASSUME NEW i \in Nat
      PROVE  i \div B \in Nat /\ i % B \in Nat /\ i % B < B /\ i = B * (i \div B) + (i % B)
  <2> DEFINE h == i \div B
             l == i % B
  <2>1. h \in Int /\ l \in 0 .. (B - 1) /\ i = B * h + l
    BY <1>1, DivModIs
  <2> HIDE DEF h, l
  <2>2. l \in Int /\ 0 <= l /\ l < B
    BY <1>1, <2>1
  <2>3. 0 <= h
    <3>1. ASSUME h <= -1 PROVE FALSE
      <4>1. B * h <= B * (-1) /\ B * (-1) = -B /\ B * h \in Int
        BY <1>1, <2>1, <3>1
      <4>2. QED
        BY <1>1, <2>1, <2>2, <4>1
    <3>2. QED
      BY <2>1, <3>1
  <2>4. QED
    BY <2>1, <2>2, <2>3 DEF h, l
<1>7. /\ l1 \in Nat /\ l0 \in Nat /\ l0 < B /\ ll = B * l1 + l0
      /\ m1 \in Nat /\ m0 \in Nat /\ m0 < B /\ hl = B * m1 + m0
      /\ n1 \in Nat /\ n0 \in Nat /\ n0 < B /\ lh = B * n1 + n0
  BY <1>4, <1>6
<1> HIDE DEF l1, l0, m1, m0, n1, n0
<1>8. mid \in Nat
  BY <1>7
<1>9. d1 \in Nat /\ d0 \in Nat /\ d0 < B /\ mid = B * d1 + d0
  BY <1>6, <1>8
<1> HIDE DEF d1, d0
<1>10. (mid * B) % W = d0 * B /\ d0 * B \in Nat /\ d0 * B <= W - B
  <2>1. (B * d1 + d0) * B = (B * B) * d1 + d0 * B
    BY <1>1, <1>9
  <2>2. mid * B = W * d1 + d0 * B
    BY <1>1, <1>9, <2>1
  <2>3. d0 * B <= (B - 1) * B /\ (B - 1) * B = B * B - B /\ d0 * B \in Nat
    BY <1>1, <1>9
  <2> DEFINE x == mid * B
             r == d0 * B
  <2>4. x \in Int /\ r \in Int /\ 0 <= r /\ r < W /\ r <= W - B
    BY <1>1, <1>8, <2>3
  <2> HIDE DEF x, r
  <2>5. x = W * d1 + r /\ d1 \in Int
    BY <1>9, <2>2 DEF x, r
  <2>6. x % W = r
    BY <1>1, <2>4, <2>5, DivModUnique
  <2>7. QED
    BY <2>3, <2>4, <2>6 DEF x, r
<1>11. low = l0 + d0 * B /\ low \in Words
  <2>1. low = l0 + d0 * B
    BY <1>10
  <2> DEFINE r == d0 * B
  <2> HIDE DEF r
  <2>2. r \in Nat /\ r <= W - B
    BY <1>10 DEF r
  <2>3. l0 + r \in Int /\ 0 <= l0 + r /\ l0 + r < W
    BY <1>1, <1>7, <2>2
  <2>4. QED
    BY <2>1, <2>3, WordsAre DEF r
<1>12. high \in Nat
  BY <1>4, <1>7, <1>9
<1>13. a * b = W * high + low
  <2>1. B * (B * d1 + d0) = W * d1 + d0 * B
    BY <1>1, <1>9
  <2>2. B * (l1 + m0 + n0) = B * l1 + B * m0 + B * n0
    BY <1>1, <1>7
  <2>3. B * hl = W * m1 + B * m0 /\ B * lh = W * n1 + B * n0
    <3>1. B * (B * m1 + m0) = (B * B) * m1 + B * m0 /\ B * (B * n1 + n0) = (B * B) * n1 + B * n0
      BY <1>1, <1>7
    <3>2. QED
      BY <1>1, <1>7, <3>1
  <2>4. B * l1 + B * m0 + B * n0 = W * d1 + d0 * B
    BY <1>9, <2>1, <2>2
  <2>5. W * high = W * hh + W * m1 + W * n1 + W * d1
    BY <1>1, <1>4, <1>7, <1>9
  <2>6. /\ B * l1 \in Int /\ B * m0 \in Int /\ B * n0 \in Int /\ W * d1 \in Int /\ d0 * B \in Int
        /\ W * hh \in Int /\ W * m1 \in Int /\ W * n1 \in Int /\ B * hl \in Int /\ B * lh \in Int
    BY <1>1, <1>4, <1>7, <1>9
  <2>7. ll = B * l1 + l0 /\ low = l0 + d0 * B /\ l0 \in Int
    BY <1>7, <1>11
  <2> DEFINE BL1 == B * l1
             BM0 == B * m0
             BN0 == B * n0
             WD1 == W * d1
             D0B == d0 * B
             WHH == W * hh
             WM1 == W * m1
             WN1 == W * n1
             BHL == B * hl
             BLH == B * lh
             WH  == W * high
             AB  == a * b
  <2> HIDE DEF BL1, BM0, BN0, WD1, D0B, WHH, WM1, WN1, BHL, BLH, WH, AB, low, high
  <2>8. AB = WHH + BHL + BLH + ll
    BY <1>5 DEF AB, WHH, BHL, BLH
  <2>9. BHL = WM1 + BM0 /\ BLH = WN1 + BN0 /\ BL1 + BM0 + BN0 = WD1 + D0B
    BY <2>3, <2>4 DEF BHL, BLH, WM1, WN1, BM0, BN0, BL1, WD1, D0B
  <2>10. WH = WHH + WM1 + WN1 + WD1
    BY <2>5 DEF WH, WHH, WM1, WN1, WD1
  <2>11. ll = BL1 + l0 /\ low = l0 + D0B /\ l0 \in Int
    BY <2>7 DEF BL1, D0B
  <2>12. /\ BL1 \in Int /\ BM0 \in Int /\ BN0 \in Int /\ WD1 \in Int /\ D0B \in Int
         /\ WHH \in Int /\ WM1 \in Int /\ WN1 \in Int
    BY <2>6 DEF BL1, BM0, BN0, WD1, D0B, WHH, WM1, WN1
  <2>13. AB = WH + low
    BY <2>8, <2>9, <2>10, <2>11, <2>12
  <2>14. QED
    BY <2>13 DEF AB, WH
<1> HIDE DEF low, high
<1>14. high < W
  <2> DEFINE x == a * b
  <2>1. /\ a \in Int /\ 0 <= a /\ a < W /\ b \in Int /\ 0 <= b /\ b < W
        /\ low \in Int /\ 0 <= low
    BY <1>11, WordsAre
  <2>2. x \in Int /\ x < W * W /\ W * W \in Int
    <3>1. a * b <= W * b /\ W * b < W * W /\ a * b \in Int /\ W * b \in Int /\ W * W \in Int
      BY <1>1, <2>1
    <3>2. QED
      BY <3>1
  <2> HIDE DEF x
  <2>3. x = W * high + low
    BY <1>13 DEF x
  <2>4. ASSUME W <= high PROVE FALSE
    <3>1. W * W <= W * high /\ W * high \in Int
      BY <1>1, <1>12, <2>4
    <3>2. QED
      BY <2>1, <2>2, <2>3, <3>1
  <2>5. QED
    BY <1>1, <1>12, <2>4
<1>15. high % W = high
  <2>1. high = W * 0 + high /\ high \in Int /\ 0 <= high /\ 0 \in Int
    BY <1>1, <1>12
  <2>2. QED
    BY <1>1, <1>14, <2>1, DivModUnique
<1>16. high \in Words
  BY <1>12, <1>14, WordsAre
<1>17. QED
  BY <1>3, <1>11, <1>13, <1>15, <1>16 DEF S128, Unsigned

LEMMA UnsignedStands ==
  ASSUME NEW v \in S128
  PROVE  Unsigned(v) \in Int /\ 0 <= Unsigned(v) /\ Stands(v, Unsigned(v))
<1>1. /\ v.hi \in Int /\ 0 <= v.hi /\ v.lo \in Int /\ 0 <= v.lo /\ W \in Nat \ {0}
  BY WordsAre, BaseIs DEF S128
<1>2. W * v.hi \in Int /\ 0 <= W * v.hi
  BY <1>1
<1>3. W * 0 + v.hi = v.hi
  BY <1>1
<1>4. Unsigned(v) = W * (W * 0 + v.hi) + v.lo
  BY <1>3 DEF Unsigned
<1>5. Stands(v, Unsigned(v))
  BY <1>4 DEF Stands
<1>6. QED
  BY <1>1, <1>2, <1>5 DEF Unsigned

LEMMA WordProductIs ==
  ASSUME NEW a \in Words, NEW b \in Words
  PROVE  Stands(s64_mul_s64(a, b), Signed(a) * Signed(b))
<1> DEFINE x == WordMagnitude(a)
           y == WordMagnitude(b)
           p == u64_mul_u64(x, y)
           c == IsNegative(a) # IsNegative(b)
<1>1. x \in Words /\ y \in Words
  BY MagnitudeIs
<1>2. p \in S128 /\ Unsigned(p) = x * y
  BY <1>1, ProductOfWords
<1>3. Stands(p, x * y) /\ x * y \in Int
  BY <1>2, UnsignedStands
<1>4. s64_mul_s64(a, b) = NegateIf(c, p)
  BY DEF s64_mul_s64
<1> HIDE DEF p, c
<1>5. Stands(NegateIf(c, p), IF c THEN -(x * y) ELSE x * y)
  BY <1>3, NegateIfIs
<1>6. (IF c THEN -(x * y) ELSE x * y) = Signed(a) * Signed(b)
  <2> DEFINE s == Signed(a)
             t == Signed(b)
  <2>1. s \in Int /\ t \in Int
    BY SignedIs
  <2>2. /\ x = IF IsNegative(a) THEN -s ELSE s
        /\ y = IF IsNegative(b) THEN -t ELSE t
    BY MagnitudeIs
  <2> HIDE DEF s, t, x, y
  <2>3. IsNegative(a) \in BOOLEAN /\ IsNegative(b) \in BOOLEAN
    BY SignedIs
  <2>4. (-s) * (-t) = s * t /\ -((-s) * t) = s * t /\ -(s * (-t)) = s * t
    BY <2>1
  <2>5. CASE IsNegative(a) /\ IsNegative(b)
    BY <2>2, <2>4, <2>5 DEF c, s, t
  <2>6. CASE ~IsNegative(a) /\ ~IsNegative(b)
    <3>1. x = s /\ y = t
      BY <2>2, <2>6
    <3>2. ~c
      BY <2>3, <2>6 DEF c
    <3>3. QED
      BY <3>1, <3>2 DEF s, t
  <2>7. CASE IsNegative(a) /\ ~IsNegative(b)
    BY <2>2, <2>4, <2>7 DEF c, s, t
  <2>8. CASE ~IsNegative(a) /\ IsNegative(b)
    BY <2>2, <2>4, <2>8 DEF c, s, t
  <2>9. QED
    BY <2>3, <2>5, <2>6, <2>7, <2>8
<1>7. QED
  BY <1>4, <1>5, <1>6

LEMMA WideProductIs ==
  ASSUME NEW v \in S128, NEW m \in Words
  PROVE  Stands(s128_mul_u64(v, m), Value(v) * m) /\ Value(v) * m \in Int
<1> DEFINE a == Absolute(v)
           low == u64_mul_u64(a.lo, m)
           high == u64_mul_u64(a.hi, m)
           y == low.hi + high.lo
           r == [hi |-> y % W, lo |-> low.lo]
           u == Unsigned(a)
           c == IsNegative(v.hi)
<1>1. a \in S128 /\ u = (IF c THEN -Value(v) ELSE Value(v)) /\ u \in Int
  BY AbsoluteIs, UnsignedStands
<1>2. a.lo \in Words /\ a.hi \in Words
  BY <1>1 DEF S128
<1>3. /\ low \in S128 /\ Unsigned(low) = a.lo * m
      /\ high \in S128 /\ Unsigned(high) = a.hi * m
  BY <1>2, ProductOfWords
<1>4. s128_mul_u64(v, m) = NegateIf(c, r)
  BY DEF s128_mul_u64
<1>5. /\ low.hi \in Int /\ low.lo \in Words /\ low.lo \in Int
      /\ high.hi \in Int /\ high.lo \in Int
      /\ a.lo \in Int /\ a.hi \in Int /\ m \in Int /\ W \in Int
  <2> HIDE DEF low, high, a
  <2>1. low.hi \in Words /\ low.lo \in Words /\ high.hi \in Words /\ high.lo \in Words
    BY <1>3 DEF S128
  <2>2. ASSUME NEW w \in Words PROVE w \in Int
    BY WordsAre
  <2>3. W \in Int
    BY BaseIs
  <2>4. QED
    BY <1>2, <2>1, <2>2, <2>3
<1>6. u * m = W * (W * high.hi + y) + low.lo
  <2>1. u = W * a.hi + a.lo
    BY DEF Unsigned
  <2>2. u * m = W * (a.hi * m) + a.lo * m
    BY <1>5, <2>1
  <2>3. a.hi * m = W * high.hi + high.lo /\ a.lo * m = W * low.hi + low.lo
    BY <1>3 DEF Unsigned
  <2> DEFINE H == W * high.hi
             hl == high.lo
             lh == low.hi
             ll == low.lo
  <2>4. H \in Int /\ hl \in Int /\ lh \in Int /\ ll \in Int
    BY <1>5
  <2>5. u * m = W * (H + hl) + (W * lh + ll)
    BY <2>2, <2>3
  <2> HIDE DEF H, hl, lh, ll
  <2>6. W * (H + hl) + (W * lh + ll) = W * (H + (lh + hl)) + ll
    BY <1>5, <2>4
  <2>7. QED
    BY <2>5, <2>6 DEF H, hl, lh, ll
<1>7. y \in Int
  BY <1>5
<1> HIDE DEF low, high, y
<1>8. Stands(r, u * m)
  BY <1>5, <1>6, <1>7, HighWraps
<1> HIDE DEF u, a, r
<1>9. u * m \in Int
  BY <1>1, <1>5
<1>10. Stands(NegateIf(c, r), IF c THEN -(u * m) ELSE u * m)
  BY <1>8, <1>9, NegateIfIs
<1>11. Value(v) \in Int
  BY ValueIs
<1>12. (IF c THEN -(u * m) ELSE u * m) = Value(v) * m
  <2> DEFINE s == Value(v)
  <2>1. s \in Int /\ -((-s) * m) = s * m
    BY <1>5, <1>11
  <2>2. u = IF c THEN -s ELSE s
    BY <1>1
  <2> HIDE DEF s, c
  <2>3. QED
    BY <2>1, <2>2 DEF s
<1>13. QED
  BY <1>4, <1>5, <1>10, <1>11, <1>12

LEMMA ProductsAreExact == ProductsExact
<1>1. ASSUME NEW v \in Words, NEW w \in Words
      PROVE  s64_mul_s64(v, w) = Pattern(Signed(v) * Signed(w))
  <2>1. Signed(v) \in Int /\ Signed(w) \in Int
    BY SignedIs
  <2>2. Signed(v) * Signed(w) \in Int
    BY <2>1
  <2>3. QED
    BY <2>2, WordProductIs, StandsAlone
<1>2. ASSUME NEW v \in Wide, NEW w \in Words
      PROVE  /\ s128_mul_u64(v, w) = Pattern(Value(v) * w)
             /\ s128_mul_s64(v, w) = Pattern(Value(v) * Signed(w))
  <2>1. v \in S128 /\ Value(v) \in Int /\ Signed(w) \in Int
    BY EdgesAssumption, ValueIs, SignedIs DEF Wide, S128
  <2>2. s128_mul_u64(v, w) = Pattern(Value(v) * w)
    BY <2>1, WideProductIs, StandsAlone
  <2> DEFINE m == WordMagnitude(w)
             c == IsNegative(w)
             x == Value(v)
             s == Signed(w)
  <2>3. m \in Words /\ m = (IF c THEN -s ELSE s)
    BY MagnitudeIs
  <2>4. Stands(s128_mul_u64(v, m), x * m) /\ x * m \in Int
    BY <2>1, <2>3, WideProductIs
  <2>5. s128_mul_s64(v, w) = NegateIf(c, s128_mul_u64(v, m))
    BY DEF s128_mul_s64
  <2>6. Stands(s128_mul_s64(v, w), IF c THEN -(x * m) ELSE x * m)
    <3> HIDE DEF c, m, x
    <3>1. QED
      BY <2>4, <2>5, NegateIfIs
  <2>7. (IF c THEN -(x * m) ELSE x * m) = x * s /\ x * s \in Int
    <3>1. x \in Int /\ s \in Int
      BY <2>1
    <3> HIDE DEF c, m, x, s
    <3>2. -(x * (-s)) = x * s /\ x * s \in Int
      BY <3>1
    <3>3. QED
      BY <2>3, <3>2
  <2>8. s128_mul_s64(v, w) = Pattern(x * s)
    BY <2>6, <2>7, StandsAlone
  <2>9. QED
    BY <2>2, <2>8
<1>3. QED
  BY <1>1, <1>2 DEF ProductsExact

-------------------------------------------------------------------------------
LEMMA ProductsOrder ==
  ASSUME NEW i \in Int, NEW j \in Int, NEW m \in Nat, i <= j
  PROVE  /\ i * m \in Int /\ j * m \in Int /\ i * m <= j * m
         /\ m * i \in Int /\ m * j \in Int /\ m * i <= m * j
BY SMT

LEMMA FactorsOrder ==
  ASSUME NEW i \in Int, NEW j \in Int, NEW m \in Nat \ {0}
  PROVE  (i * m < j * m => i < j) /\ (m * i < m * j => i < j)
<1>1. ASSUME j <= i PROVE j * m <= i * m /\ m * j <= m * i
  BY <1>1, ProductsOrder
<1>2. i * m \in Int /\ j * m \in Int /\ m * i \in Int /\ m * j \in Int
  OBVIOUS
<1>3. QED
  BY <1>1, <1>2

(* W is a power of two, and every power from there on is no less.          *)
LEMMA WordPower ==
  /\ 2 * Bits \in Nat /\ 2 ^ (2 * Bits) = W
  /\ \A n \in Nat : 2 * Bits <= n => W <= 2 ^ n
<1>1. Bits \in Nat /\ 2 * Bits \in Nat /\ 2 * Bits = Bits + Bits
  BY BitsAssumption
<1>2. 2 ^ (2 * Bits) = W
  <2>1. 2 ^ (Bits + Bits) = 2 ^ Bits * 2 ^ Bits
    BY <1>1, PowersMultiply
  <2>2. QED
    BY <1>1, <2>1 DEF W, B
<1>3. ASSUME NEW n \in Nat, 2 * Bits <= n PROVE W <= 2 ^ n
  <2> DEFINE m == n - 2 * Bits
             p == 2 ^ m
  <2>1. m \in Nat /\ m + 2 * Bits = n
    BY <1>1, <1>3
  <2>2. 2 ^ (m + 2 * Bits) = p * W
    BY <1>1, <1>2, <2>1, PowersMultiply
  <2>3. p \in Nat /\ 1 <= p
    BY <2>1, PowersArePositive
  <2> HIDE DEF m, p
  <2>4. 1 * W <= p * W
    BY <2>3, BaseIs, ProductsOrder
  <2>5. QED
    BY <2>1, <2>2, <2>4, BaseIs
<1>4. QED
  BY <1>1, <1>2, <1>3

(* What the search of u64_clz keeps: x shifted by the bits counted, with   *)
(* fewer of its highest bits clear than there are bits.                    *)
Shifted(s, x, bits) ==
  /\ s.n \in Nat /\ s.x = x * 2 ^ s.n
  /\ s.x \in Nat /\ 1 <= s.x /\ s.x < W
  /\ W <= s.x * 2 ^ bits

LEMMA ShiftOutIs ==
  ASSUME NEW x \in Words, NEW bits \in Nat \ {0}, NEW l, l = bits + bits,
         NEW s, Shifted(s, x, l)
  PROVE  Shifted(ShiftOut(s, bits), x, bits)
<1> DEFINE p == 2 ^ bits
           y == s.x
           n == s.n
<1>1. /\ x \in Nat /\ W \in Nat \ {0} /\ p \in Nat \ {0} /\ 2 ^ n \in Nat \ {0}
      /\ n \in Nat /\ y \in Nat /\ 1 <= y /\ y < W /\ y = x * 2 ^ n
  BY WordsAre, BaseIs, PowersArePositive DEF Shifted
<1>2. W <= y * (p * p)
  <2>1. 2 ^ l = p * p
    BY PowersMultiply
  <2>2. QED
    BY <2>1 DEF Shifted
<1>3. CASE 2 * Bits <= bits
  <2>1. W <= p
    BY <1>3, WordPower
  <2> HIDE DEF p, y
  <2>2. 1 * p <= y * p /\ y * p \in Int
    BY <1>1, ProductsOrder
  <2>3. W <= y * p
    BY <1>1, <2>1, <2>2
  <2>4. ShiftOut(s, bits) = s
    BY <1>3, WordPower DEF ShiftOut
  <2>5. QED
    BY <2>3, <2>4 DEF Shifted, p, y
<1>4. CASE bits < 2 * Bits
  <2> DEFINE t == 2 ^ (2 * Bits - bits)
  <2>1. t \in Nat \ {0} /\ t * p = W
    <3>1. 2 * Bits - bits \in Nat /\ (2 * Bits - bits) + bits = 2 * Bits
      BY <1>4, WordPower
    <3>2. 2 ^ ((2 * Bits - bits) + bits) = t * p
      BY <3>1, PowersMultiply
    <3>3. QED
      BY <3>1, <3>2, PowersArePositive, WordPower
  <2>2. ShiftOut(s, bits) =
          IF y \div t = 0 THEN [n |-> n + bits, x |-> (y * p) % W] ELSE s
    BY <1>4 DEF ShiftOut
  <2>3. y * p \in Nat /\ 1 <= y * p
    <3> HIDE DEF p, y
    <3>1. 1 * 1 <= y * 1 /\ y * 1 <= y * p /\ y * p \in Int
      BY <1>1, ProductsOrder
    <3>2. QED
      BY <1>1, <3>1
  <2>4. CASE y \div t = 0
    <3>1. y < t
      <4> HIDE DEF t, y
      <4>1. QED
        BY <1>1, <2>1, <2>4, DivIs
    <3>2. y * p < W
      <4> HIDE DEF p, y, t
      <4>1. y + 1 <= t
        BY <1>1, <2>1, <3>1
      <4>2. (y + 1) * p <= t * p /\ (y + 1) * p = y * p + p
        BY <1>1, <2>1, <4>1, ProductsOrder
      <4>3. QED
        BY <1>1, <2>1, <2>3, <4>2
    <3>3. (y * p) % W = y * p
      <4> HIDE DEF p, y
      <4>1. y * p = W * 0 + y * p
        BY <1>1, <2>3
      <4>2. QED
        BY <1>1, <2>3, <3>2, <4>1, DivModUnique
    <3>4. ShiftOut(s, bits) = [n |-> n + bits, x |-> y * p]
      BY <2>2, <2>4, <3>3
    <3>5. y * p = x * 2 ^ (n + bits)
      <4> DEFINE m == 2 ^ n
      <4>1. 2 ^ (n + bits) = m * p
        BY <1>1, PowersMultiply
      <4>2. y = x * m
        BY <1>1
      <4> HIDE DEF m, p, y
      <4>3. (x * m) * p = x * (m * p)
        BY <1>1 DEF m
      <4>4. QED
        BY <4>1, <4>2, <4>3
    <3>6. W <= (y * p) * p
      <4> HIDE DEF p, y
      <4>1. (y * p) * p = y * (p * p)
        BY <1>1
      <4>2. QED
        BY <1>2, <4>1
    <3> DEFINE z == y * p
    <3>7. n + bits \in Nat
      BY <1>1
    <3> HIDE DEF y, n
    <3>8. QED
      BY <2>3, <3>2, <3>4, <3>5, <3>6, <3>7 DEF Shifted
  <2>5. CASE y \div t # 0
    <3>1. t <= y
      <4> HIDE DEF t, y
      <4>1. ASSUME y < t PROVE y = t * 0 + y
        BY <1>1, <2>1
      <4>2. QED
        BY <1>1, <2>1, <2>5, <4>1, DivModUnique
    <3>2. W <= y * p
      <4> HIDE DEF p, y, t
      <4>1. t * p <= y * p
        BY <1>1, <2>1, <3>1, ProductsOrder
      <4>2. QED
        BY <2>1, <4>1
    <3>3. ShiftOut(s, bits) = s
      BY <2>2, <2>5
    <3>4. QED
      BY <3>2, <3>3 DEF Shifted
  <2>6. QED
    BY <2>4, <2>5
<1>5. QED
  BY <1>3, <1>4, WordPower

(* The divisor is shifted to the least power of two that sets its top bit, *)
(* and the dividend by as much: the six tests count every clear bit.       *)
LEMMA ClzIs ==
  ASSUME NEW x \in Words, x # 0
  PROVE  /\ u64_clz(x) \in 0 .. (2 * Bits - 1)
         /\ x * 2 ^ u64_clz(x) < W /\ W <= 2 * x * 2 ^ u64_clz(x)
<1> DEFINE s0 == [n |-> 0, x |-> x]
           s1 == ShiftOut(s0, 32)
           s2 == ShiftOut(s1, 16)
           s3 == ShiftOut(s2, 8)
           s4 == ShiftOut(s3, 4)
           s5 == ShiftOut(s4, 2)
           s6 == ShiftOut(s5, 1)
           n  == s6.n
<1>1. x \in Nat /\ 1 <= x /\ x < W /\ W \in Nat
  BY WordsAre, BaseIs
<1>2. Shifted(s0, x, 64)
  <2> DEFINE p == 2 ^ 64
  <2>1. W <= p /\ p \in Nat
    <3>1. 64 \in Nat /\ 2 * Bits <= 64
      BY BitsAssumption
    <3>2. QED
      BY <3>1, WordPower, PowersArePositive
  <2> HIDE DEF p
  <2>2. 1 * p <= x * p /\ x * p \in Int
    BY <1>1, <2>1, ProductsOrder
  <2>3. W <= x * p
    BY <1>1, <2>1, <2>2
  <2>4. 2 ^ 0 = 1 /\ x * 1 = x
    BY <1>1
  <2>5. QED
    BY <1>1, <2>3, <2>4 DEF Shifted, p
<1> HIDE DEF s0
<1>3. Shifted(s1, x, 32)
  BY <1>2, ShiftOutIs
<1> HIDE DEF s1
<1>4. Shifted(s2, x, 16)
  BY <1>3, ShiftOutIs
<1> HIDE DEF s2
<1>5. Shifted(s3, x, 8)
  BY <1>4, ShiftOutIs
<1> HIDE DEF s3
<1>6. Shifted(s4, x, 4)
  BY <1>5, ShiftOutIs
<1> HIDE DEF s4
<1>7. Shifted(s5, x, 2)
  BY <1>6, ShiftOutIs
<1> HIDE DEF s5
<1>8. Shifted(s6, x, 1)
  BY <1>7, ShiftOutIs
<1>9. u64_clz(x) = n
  BY DEF u64_clz, s0, s1, s2, s3, s4, s5
<1> HIDE DEF s6
<1> DEFINE m == 2 ^ n
<1>10. n \in Nat /\ m \in Nat /\ x * m < W /\ W <= 2 * x * m
  <2>1. n \in Nat /\ x * m < W /\ W <= (x * m) * 2 ^ 1
    BY <1>8 DEF Shifted
  <2>2. m \in Nat
    BY <2>1, PowersArePositive
  <2>3. 2 ^ 1 = 2
    OBVIOUS
  <2> HIDE DEF m, n
  <2>4. 2 * x * m = (x * m) * 2
    BY <1>1, <2>2
  <2>5. QED
    BY <2>1, <2>2, <2>3, <2>4
<1>11. n <= 2 * Bits - 1
  <2>1. SUFFICES ASSUME 2 * Bits <= n PROVE FALSE
    BY <1>10, WordPower
  <2>2. W <= m
    BY <1>10, <2>1, WordPower
  <2> HIDE DEF m, n
  <2>3. 1 * m <= x * m /\ x * m \in Int
    BY <1>1, <1>10, ProductsOrder
  <2>4. QED
    BY <1>1, <1>10, <2>2, <2>3
<1>12. QED
  BY <1>9, <1>10, <1>11, WordPower

LEMMA NormalizedIs ==
  ASSUME NEW hi \in Words, NEW lo \in Words, NEW d \in Words \ {0}, hi < d
  PROVE  LET u == Normalized(hi, lo, d) IN
         /\ u.d \in Words /\ W <= 2 * u.d /\ u.lo \in Words
         /\ u.hi \in Nat /\ u.hi < u.d
         /\ \E f \in Nat \ {0} : /\ u.d = d * f
                                 /\ u.hi * W + u.lo = f * (hi * W + lo)
<1> DEFINE s == u64_clz(d)
           f == 2 ^ s
           x == IF s = 0 THEN 0 ELSE lo \div 2 ^ (2 * Bits - s)
           uh == ((hi * f) % W) + x
           ul == (lo * f) % W
           ud == d * f
<1>1. Normalized(hi, lo, d) = [d |-> ud, hi |-> uh, lo |-> ul]
  BY DEF Normalized
<1>2. /\ hi \in Nat /\ hi < W /\ lo \in Nat /\ lo < W /\ d \in Nat /\ d < W /\ 1 <= d
      /\ W \in Nat \ {0} /\ Bits \in Nat /\ d # 0
  BY WordsAre, BaseIs, BitsAssumption
<1>3. s \in 0 .. (2 * Bits - 1) /\ d * f < W /\ W <= 2 * d * f
  BY <1>2, ClzIs
<1> HIDE DEF s
<1>4. s \in Nat /\ s <= 2 * Bits - 1 /\ f \in Nat \ {0}
  BY <1>2, <1>3, PowersArePositive
<1>5. ud \in Nat /\ ud < W /\ W <= 2 * ud
  <2> HIDE DEF f
  <2>1. 2 * d * f = 2 * (d * f) /\ d * f \in Nat
    BY <1>2, <1>4
  <2>2. QED
    BY <1>3, <2>1
<1>6. /\ x \in Nat /\ x < f /\ ul \in Nat /\ ul < W /\ lo * f = W * x + ul
  <2>1. CASE s = 0
    <3>1. f = 1 /\ x = 0
      BY <2>1
    <3>2. lo * f = lo /\ lo = W * 0 + lo
      BY <1>2, <3>1
    <3>3. ul = lo
      <4>1. lo \in Int /\ 0 <= lo /\ 0 \in Int
        BY <1>2
      <4>2. lo % W = lo
        BY <1>2, <3>2, <4>1, DivModUnique
      <4>3. QED
        BY <3>2, <4>2
    <3>4. QED
      BY <1>2, <3>1, <3>2, <3>3
  <2>2. CASE s # 0
    <3> DEFINE T == 2 ^ (2 * Bits - s)
               r == lo % T
               q == lo \div T
    <3>1. 2 * Bits - s \in Nat /\ (2 * Bits - s) + s = Bits + Bits
      BY <1>2, <1>4
    <3>2. T \in Nat \ {0} /\ T * f = W
      <4>1. 2 ^ ((2 * Bits - s) + s) = T * f
        BY <1>4, <3>1, PowersMultiply
      <4>2. 2 ^ (Bits + Bits) = W
        BY <1>2, PowersMultiply DEF W, B
      <4>3. QED
        BY <3>1, <4>1, <4>2, PowersArePositive
    <3>3. x = q
      BY <2>2
    <3> HIDE DEF T, f, x
    <3>4. q \in Int /\ r \in 0 .. (T - 1) /\ lo = T * q + r
      <4>1. lo \in Int /\ T \in Nat \ {0}
        BY <1>2, <3>2
      <4>2. QED
        BY <4>1, DivModIs
    <3> HIDE DEF q, r
    <3>5. r \in Nat /\ r <= T - 1 /\ r < T
      BY <3>2, <3>4
    <3>6. 0 <= q
      <4>1. ASSUME q <= -1 PROVE FALSE
        <5>1. T * q <= T * (-1) /\ T * (-1) = -T /\ T * q \in Int
          BY <3>2, <3>4, <4>1
        <5>2. QED
          BY <1>2, <3>2, <3>4, <3>5, <5>1
      <4>2. QED
        BY <3>4, <4>1
    <3>7. q < f
      <4>1. T * q \in Int /\ T * q < T * f
        BY <1>2, <3>2, <3>4, <3>5
      <4>2. QED
        BY <1>4, <3>2, <3>4, <4>1, FactorsOrder
    <3> DEFINE rf == r * f
    <3>8. rf \in Nat /\ rf < W
      <4>1. r * f <= (T - 1) * f /\ (T - 1) * f = T * f - f
        BY <1>4, <3>2, <3>5
      <4>2. r * f \in Nat /\ T * f \in Nat
        BY <1>4, <3>2, <3>5
      <4>3. QED
        BY <1>4, <3>2, <4>1, <4>2
    <3>9. lo * f = W * q + rf
      <4>1. (T * q + r) * f = (T * f) * q + r * f
        BY <1>4, <3>2, <3>4, <3>5
      <4>2. QED
        BY <3>2, <3>4, <4>1
    <3> DEFINE lf == lo * f
    <3>10. lf \in Int
      BY <1>2, <1>4
    <3>11. ul = rf
      <4> HIDE DEF rf
      <4>1. lf = W * q + rf
        BY <3>9
      <4> HIDE DEF lf
      <4>2. rf \in Int /\ 0 <= rf
        BY <3>8
      <4>3. lf % W = rf
        BY <1>2, <3>4, <3>8, <3>10, <4>1, <4>2, DivModUnique
      <4>4. QED
        BY <4>3 DEF lf
    <3>12. QED
      BY <3>3, <3>4, <3>6, <3>7, <3>8, <3>9, <3>11
  <2>3. QED
    BY <2>1, <2>2
<1> HIDE DEF f, x, ul
<1>7. hi * f \in Nat /\ hi * f <= ud - f /\ (hi * f) % W = hi * f
  <2>1. hi <= d - 1
    BY <1>2
  <2>2. hi * f <= (d - 1) * f /\ (d - 1) * f = d * f - f /\ hi * f \in Nat
    BY <1>2, <1>4, <2>1
  <2> DEFINE h == hi * f
  <2> HIDE DEF h, ud
  <2>3. h \in Nat /\ h <= ud - f
    BY <2>2 DEF h, ud
  <2>4. h < W /\ h = W * 0 + h /\ h \in Int /\ 0 <= h /\ 0 \in Int
    BY <1>2, <1>4, <1>5, <2>3
  <2>5. h % W = h
    BY <1>2, <2>4, DivModUnique
  <2>6. QED
    BY <2>3, <2>5 DEF h
<1>8. uh = hi * f + x /\ uh \in Nat /\ uh < ud
  <2> HIDE DEF ud
  <2>1. uh = hi * f + x
    BY <1>7
  <2> DEFINE h == hi * f
  <2> HIDE DEF h
  <2>2. h \in Nat /\ h <= ud - f
    BY <1>7 DEF h
  <2>3. h + x \in Nat /\ h + x < ud
    BY <1>4, <1>5, <1>6, <2>2
  <2>4. QED
    BY <2>1, <2>3 DEF h
<1>9. uh * W + ul = f * (hi * W + lo)
  <2>1. f * (hi * W + lo) = (hi * f) * W + lo * f
    BY <1>2, <1>4
  <2>2. (hi * f + x) * W = (hi * f) * W + W * x
    BY <1>2, <1>4, <1>6
  <2> DEFINE A == (hi * f) * W
             C == W * x
  <2>3. A \in Int /\ C \in Int /\ ul \in Int
    BY <1>2, <1>4, <1>6
  <2> HIDE DEF A, C, uh
  <2>4. /\ f * (hi * W + lo) = A + lo * f /\ lo * f = C + ul /\ uh * W = A + C
    BY <1>6, <1>8, <2>1, <2>2 DEF A, C
  <2>5. QED
    BY <2>3, <2>4
<1> HIDE DEF uh
<1>10. ud \in Words /\ ul \in Words
  <2> HIDE DEF ud
  <2>1. QED
    BY <1>5, <1>6, WordsAre
<1>11. \E g \in Nat \ {0} : ud = d * g /\ uh * W + ul = g * (hi * W + lo)
  BY <1>4, <1>9
<1> HIDE DEF ud
<1>12. QED
  BY <1>1, <1>5, <1>8, <1>10, <1>11

-------------------------------------------------------------------------------
(* A digit of the quotient.  An estimate is too big exactly when its       *)
(* product by the divisor exceeds the dividend; the first is never too     *)
(* small and too big by two at most, and a remainder of a limb or more     *)
(* leaves it right.                                                        *)
LEMMA DivisorIs ==
  ASSUME NEW D \in Words, W <= 2 * D
  PROVE  /\ D \div B \in Nat \ {0} /\ D % B \in Nat /\ D % B < B
         /\ D = B * (D \div B) + (D % B) /\ B <= 2 * (D \div B)
<1> DEFINE v1 == D \div B
           v0 == D % B
<1>1. v1 \in Nat /\ v0 \in Nat /\ v0 < B /\ D = B * v1 + v0
  BY LimbsAre
<1>2. PICK h \in Nat : B = 2 * h
  BY BaseIs
<1>3. B \in Nat \ {0} /\ W = B * B /\ W \in Int
  BY BaseIs
<1>4. D \in Int
  BY WordsAre
<1> HIDE DEF v1, v0
<1>5. h <= v1
  <2>1. ASSUME v1 + 1 <= h PROVE FALSE
    <3>1. B * (v1 + 1) <= B * h /\ B * (v1 + 1) = B * v1 + B /\ B * v1 \in Int /\ B * h \in Int
      BY <1>1, <1>2, <1>3, <2>1
    <3>2. W = 2 * (B * h)
      BY <1>2, <1>3
    <3> DEFINE H == B * h
               V == B * v1
    <3> HIDE DEF H, V
    <3>3. V + B <= H /\ V \in Int /\ H \in Int /\ W = 2 * H
      BY <3>1, <3>2 DEF H, V
    <3>4. D = V + v0
      BY <1>1 DEF V
    <3>5. QED
      BY <1>1, <1>3, <1>4, <3>3, <3>4
  <2>2. QED
    BY <1>1, <1>2, <2>1
<1>6. B <= 2 * v1 /\ v1 # 0
  BY <1>1, <1>2, <1>3, <1>5
<1>7. QED
  BY <1>1, <1>6 DEF v1, v0

(* The quotient and the remainder of the exact division. *)
LEMMA ExactIs ==
  ASSUME NEW num \in Nat, NEW D \in Nat, num < D, NEW limb \in Nat, limb < B
  PROVE  LET x == num * B + limb IN
         /\ x \in Nat /\ x \div D \in Nat /\ x \div D < B
         /\ x % D \in Nat /\ x % D < D
         /\ x = D * (x \div D) + (x % D)
<1> DEFINE x == num * B + limb
           q == x \div D
           r == x % D
<1>1. B \in Nat \ {0} /\ D \in Nat \ {0}
  BY BaseIs
<1>2. x \in Nat /\ x < D * B
  <2>1. num * B <= (D - 1) * B /\ (D - 1) * B = D * B - B /\ num * B \in Nat /\ D * B \in Nat
    BY <1>1
  <2>2. QED
    BY <1>1, <2>1
<1> HIDE DEF x
<1>3. q \in Int /\ r \in 0 .. (D - 1) /\ x = D * q + r
  <2>1. x \in Int
    BY <1>2
  <2>2. QED
    BY <1>1, <2>1, DivModIs
<1> HIDE DEF q, r
<1>4. r \in Nat /\ r < D
  BY <1>1, <1>3
<1>5. 0 <= q
  <2>1. ASSUME q <= -1 PROVE FALSE
    <3>1. D * q <= D * (-1) /\ D * (-1) = -D /\ D * q \in Int
      BY <1>1, <1>3, <2>1
    <3>2. QED
      BY <1>1, <1>2, <1>3, <1>4, <3>1
  <2>2. QED
    BY <1>3, <2>1
<1>6. q < B
  <2>1. D * q \in Int /\ D * q < D * B
    BY <1>1, <1>2, <1>3, <1>4
  <2>2. QED
    BY <1>1, <1>3, <2>1, FactorsOrder
<1>7. QED
  BY <1>2, <1>3, <1>4, <1>5, <1>6 DEF x, q, r

LEMMA DigitIs ==
  ASSUME NEW D \in Words, W <= 2 * D, NEW num \in Nat, num < D, NEW limb \in Nat, limb < B
  PROVE  Digit(num, D \div B, D % B, limb).q = (num * B + limb) \div D
<1> DEFINE v1 == D \div B
           v0 == D % B
           x  == num * B + limb
           q  == x \div D
           r  == x % D
           E0 == Estimate(num, v1)
           E1 == CorrectOnce(E0, v1, v0, limb)
           E2 == CorrectOnce(E1, v1, v0, limb)
           Big(e) == TooBig(e, v0, limb)
           Fits(e) == /\ e \in [q : Int, r : Nat, stop : BOOLEAN]
                      /\ v1 * e.q + e.r = num
<1>1. /\ v1 \in Nat \ {0} /\ v0 \in Nat /\ v0 < B /\ D = B * v1 + v0 /\ B <= 2 * v1
      /\ B \in Nat \ {0} /\ D \in Nat /\ D < W /\ W = B * B
  BY DivisorIs, BaseIs, WordsAre
<1>2. x \in Nat /\ q \in Nat /\ q < B /\ r \in Nat /\ r < D /\ x = D * q + r
  <2>1. D \in Nat
    BY <1>1
  <2>2. QED
    BY <2>1, ExactIs
<1> HIDE DEF v1, v0, q, r
<1>3. Digit(num, v1, v0, limb) = E2
  BY DEF Digit, Correct
<1>4. ASSUME NEW e, Fits(e)
      PROVE  /\ D * e.q <= x <=> e.q * v0 <= B * e.r + limb
             /\ D * e.q <= x <=> e.q <= q
             /\ Big(e) <=> e.q > q
  <2> DEFINE p == e.q
             s == e.r
  <2>1. p \in Int /\ s \in Nat /\ v1 * p + s = num
    BY <1>4
  <2>2. Big(e) <=> p >= B \/ p * v0 > B * s + limb
    BY DEF TooBig
  <2> HIDE DEF p, s
  <2>3. D * p = B * (v1 * p) + p * v0
    BY <1>1, <2>1
  <2>4. num * B = B * (v1 * p) + B * s
    <3>1. (v1 * p + s) * B = B * (v1 * p) + B * s
      BY <1>1, <2>1
    <3>2. QED
      BY <2>1, <3>1
  <2>5. D * p <= x <=> p * v0 <= B * s + limb
    <3> DEFINE a == B * (v1 * p)
               b == p * v0
               c == B * s
               dp == D * p
               nb == num * B
    <3>1. a \in Int /\ b \in Int /\ c \in Int
      BY <1>1, <2>1
    <3> HIDE DEF a, b, c, dp, nb
    <3>2. dp = a + b /\ nb = a + c /\ x = nb + limb
      BY <2>3, <2>4 DEF a, b, c, dp, nb
    <3>3. dp <= x <=> b <= c + limb
      BY <3>1, <3>2
    <3>4. QED
      BY <3>3 DEF b, c, dp
  <2> HIDE DEF x
  <2>6. D * p <= x <=> p <= q
    <3>1. ASSUME p <= q PROVE D * p <= x
      <4>1. D * p <= D * q /\ D * p \in Int /\ D * q \in Int
        BY <1>1, <1>2, <2>1, <3>1
      <4>2. QED
        BY <1>2, <4>1
    <3>2. ASSUME q + 1 <= p PROVE x < D * p
      <4>1. D * (q + 1) <= D * p /\ D * (q + 1) = D * q + D /\ D * p \in Int /\ D * q \in Int
        BY <1>1, <1>2, <2>1, <3>2
      <4>2. QED
        BY <1>1, <1>2, <4>1
    <3>3. D * p \in Int
      BY <1>1, <2>1
    <3>4. QED
      BY <1>2, <2>1, <3>1, <3>2, <3>3
  <2>7. Big(e) <=> p > q
    <3>1. p * v0 \in Int /\ B * s \in Int
      BY <1>1, <2>1
    <3>2. QED
      BY <1>1, <1>2, <2>1, <2>2, <2>5, <2>6, <3>1
  <2>8. QED
    BY <2>5, <2>6, <2>7 DEF p, s
<1>5. Fits(E0) /\ q <= E0.q /\ E0.q <= q + 2 /\ E0.stop = FALSE
  <2> DEFINE p == num \div v1
             s == num % v1
  <2>1. E0 = [q |-> p, r |-> s, stop |-> FALSE]
    BY DEF Estimate
  <2>2. p \in Int /\ s \in 0 .. (v1 - 1) /\ num = v1 * p + s
    <3>1. num \in Int
      OBVIOUS
    <3>2. QED
      BY <1>1, <3>1, DivModIs
  <2> HIDE DEF p, s
  <2>3. s \in Nat /\ s < v1
    BY <1>1, <2>2
  <2>4. Fits(E0)
    BY <2>1, <2>2, <2>3
  <2>5. q <= p
    <3>1. ASSUME p + 1 <= q PROVE FALSE
      <4>1. v1 * (p + 1) <= v1 * q /\ v1 * (p + 1) = v1 * p + v1
        BY <1>1, <1>2, <2>2, <3>1
      <4>2. num + 1 <= v1 * q /\ v1 * q \in Nat
        BY <1>1, <1>2, <2>2, <2>3, <4>1
      <4>3. B * (num + 1) <= B * (v1 * q) /\ B * (num + 1) = num * B + B
        BY <1>1, <4>2
      <4>4. B * (v1 * q) <= D * q
        <5>1. D * q = B * (v1 * q) + v0 * q /\ v0 * q \in Nat /\ B * (v1 * q) \in Nat
          BY <1>1, <1>2
        <5>2. QED
          BY <5>1
      <4>5. num * B \in Int /\ B * (v1 * q) \in Int /\ D * q \in Int
        BY <1>1, <1>2
      <4>6. QED
        BY <1>1, <1>2, <4>3, <4>4, <4>5
    <3>2. QED
      BY <1>2, <2>2, <3>1
  <2>6. p <= q + 2
    <3>1. ASSUME q + 3 <= p PROVE FALSE
      <4>1. v1 * (q + 3) <= v1 * p
        BY <1>1, <1>2, <2>2, <3>1
      <4>2. v1 * (q + 3) <= num /\ v1 * (q + 3) \in Nat
        BY <1>1, <1>2, <2>2, <2>3, <4>1
      <4>3. B * (v1 * (q + 3)) <= B * num /\ B * num \in Nat
        BY <1>1, <4>2
      <4>4. x < D * q + D /\ D * q + D = B * (v1 * (q + 1)) + v0 * (q + 1)
        <5>1. (B * v1 + v0) * q + (B * v1 + v0) = B * (v1 * (q + 1)) + v0 * (q + 1)
          BY <1>1, <1>2
        <5>2. D * q \in Int
          BY <1>1, <1>2
        <5>3. x < D * q + D
          <6> HIDE DEF x
          <6>1. QED
            BY <1>1, <1>2, <5>2
        <5>4. D * q + D = B * (v1 * (q + 1)) + v0 * (q + 1)
          BY <1>1, <5>1
        <5>5. QED
          BY <5>3, <5>4
      <4>5. B * (v1 * (q + 3)) = B * (v1 * (q + 1)) + B * (2 * v1)
        BY <1>1, <1>2
      <4>6. B * num <= x
        <5>1. B * num = num * B /\ num * B \in Nat
          BY <1>1
        <5>2. QED
          BY <5>1
      <4>7. v0 * (q + 1) <= v0 * B /\ v0 * B <= (B - 1) * B /\ (B - 1) * B < B * B
        <5>1. q + 1 <= B /\ v0 <= B - 1
          BY <1>1, <1>2
        <5>2. QED
          BY <1>1, <1>2, <5>1
      <4>8. B * B <= B * (2 * v1)
        BY <1>1
      <4> DEFINE a == B * (v1 * (q + 1))
                 b == B * (2 * v1)
                 c == v0 * (q + 1)
                 bb == B * B
                 bn == B * num
                 vb == v0 * B
                 wb == (B - 1) * B
                 z  == B * (v1 * (q + 3))
                 dq == D * q + D
      <4>9. /\ a \in Int /\ b \in Int /\ c \in Int /\ bb \in Int /\ bn \in Int /\ vb \in Int
            /\ wb \in Int /\ dq \in Int
        BY <1>1, <1>2
      <4> HIDE DEF a, b, c, bb, bn, vb, wb, x, z, dq
      <4>10. z <= bn /\ bn <= x /\ x < dq /\ dq = a + c
        BY <4>3, <4>4, <4>6 DEF a, c, bn, z, dq
      <4>11. z = a + b
        BY <4>5 DEF a, b, z
      <4>12. c <= vb /\ vb <= wb /\ wb < bb /\ bb <= b
        BY <4>7, <4>8 DEF b, c, bb, vb, wb
      <4>13. x \in Int
        BY <1>2
      <4>14. QED
        BY <4>9, <4>10, <4>11, <4>12, <4>13
    <3>2. QED
      BY <1>2, <2>2, <3>1
  <2>7. QED
    BY <2>1, <2>4, <2>5, <2>6
<1>6. ASSUME NEW e, Fits(e), e.stop \/ ~Big(e)
      PROVE  LET c == CorrectOnce(e, v1, v0, limb) IN c.stop /\ c.q = e.q
  <2>1. CorrectOnce(e, v1, v0, limb) = [e EXCEPT !.stop = TRUE]
    BY <1>6 DEF CorrectOnce
  <2>2. [e EXCEPT !.stop = TRUE].stop /\ [e EXCEPT !.stop = TRUE].q = e.q
    BY <1>6
  <2>3. QED
    BY <2>1, <2>2
<1>7. ASSUME NEW e, Fits(e), ~e.stop, Big(e)
      PROVE  LET c == CorrectOnce(e, v1, v0, limb) IN
             Fits(c) /\ c.q = e.q - 1 /\ (c.stop => c.r >= B)
  <2> DEFINE p == e.q
             s == e.r
  <2>1. p \in Int /\ s \in Nat /\ v1 * p + s = num
    BY <1>7
  <2>2. CorrectOnce(e, v1, v0, limb) = [q |-> p - 1, r |-> s + v1, stop |-> s + v1 >= B]
    BY <1>7 DEF CorrectOnce
  <2> HIDE DEF p, s
  <2>3. v1 * (p - 1) + (s + v1) = num /\ p - 1 \in Int /\ s + v1 \in Nat
    BY <1>1, <2>1
  <2> DEFINE m == p - 1
             n == s + v1
             b == n >= B
             c == [q |-> m, r |-> n, stop |-> b]
  <2>4. m \in Int /\ n \in Nat /\ b \in BOOLEAN /\ v1 * m + n = num /\ (b => n >= B)
    BY <2>3
  <2>5. CorrectOnce(e, v1, v0, limb) = c /\ m = e.q - 1
    BY <2>2 DEF p
  <2> HIDE DEF m, n, b
  <2>6. c \in [q : Int, r : Nat, stop : BOOLEAN]
    BY <2>4
  <2>7. QED
    BY <2>4, <2>5, <2>6
<1> HIDE DEF E0, x
<1>8. CASE E0.q = q
  <2>1. ~Big(E0)
    BY <1>2, <1>4, <1>5, <1>8
  <2>2. E1.q = q /\ E1.stop
    <3> HIDE DEF Fits, Big
    <3>1. QED
      BY <1>5, <1>6, <1>8, <2>1
  <2>3. Fits(E1)
    <3>1. E1 = [E0 EXCEPT !.stop = TRUE]
      BY <2>1 DEF CorrectOnce
    <3>2. QED
      BY <1>5, <3>1
  <2>4. E2.q = E1.q
    <3> HIDE DEF Fits, Big, E1
    <3>1. QED
      BY <1>6, <2>2, <2>3
  <2>5. QED
    BY <1>3, <2>2, <2>4 DEF q, v1, v0, x
<1>9. CASE E0.q > q
  <2>1. Big(E0)
    BY <1>2, <1>4, <1>5, <1>9
  <2>2. Fits(E1) /\ E1.q = E0.q - 1 /\ (E1.stop => E1.r >= B)
    <3> HIDE DEF Fits, Big
    <3>1. QED
      BY <1>5, <1>7, <2>1
  <2> HIDE DEF E1
  <2>3. E1.q \in Int /\ E1.r \in Nat /\ E0.q \in Int
    BY <1>5, <2>2
  <2>4. q <= E1.q /\ E1.q <= q + 1
    BY <1>2, <1>5, <1>9, <2>2, <2>3
  <2>5. CASE E1.stop
    <3>1. E1.q * v0 <= B * v0 /\ B * v0 <= B * B /\ B * B <= B * E1.r
      <4>1. E1.q <= B /\ v0 <= B /\ B <= E1.r
        BY <1>1, <1>2, <2>2, <2>3, <2>4, <2>5
      <4> DEFINE p == E1.q
                 s == E1.r
      <4> HIDE DEF p, s
      <4>2. p \in Int /\ s \in Nat /\ p <= B /\ B <= s
        BY <2>3, <4>1 DEF p, s
      <4>3. p * v0 <= B * v0 /\ B * v0 <= B * B /\ B * B <= B * s
        BY <1>1, <4>1, <4>2
      <4>4. QED
        BY <4>3 DEF p, s
    <3>2. E1.q * v0 <= B * E1.r + limb
      <4>1. E1.q * v0 \in Int /\ B * v0 \in Int /\ B * B \in Int /\ B * E1.r \in Int
        BY <1>1, <2>3
      <4>2. QED
        BY <3>1, <4>1
    <3>3. E1.q <= q
      BY <1>4, <2>2, <3>2
    <3>4. E2.q = E1.q
      <4> HIDE DEF Fits, Big
      <4>1. QED
        BY <1>6, <2>2, <2>5
    <3>5. E2.q = q
      BY <1>2, <2>3, <2>4, <3>3, <3>4
    <3>6. QED
      BY <1>3, <3>5 DEF q, v1, v0, x
  <2>6. CASE ~E1.stop /\ ~Big(E1)
    <3>1. ~(E1.q > q)
      BY <1>4, <2>2, <2>6
    <3>2. E2.q = E1.q
      <4> HIDE DEF Fits, Big
      <4>1. QED
        BY <1>6, <2>2, <2>6
    <3>3. E2.q = q
      BY <1>2, <2>3, <2>4, <3>1, <3>2
    <3>4. QED
      BY <1>3, <3>3 DEF q, v1, v0, x
  <2>7. CASE ~E1.stop /\ Big(E1)
    <3>1. E1.q > q
      BY <1>4, <2>2, <2>7
    <3>2. E2.q = E1.q - 1
      <4> HIDE DEF Fits, Big
      <4>1. QED
        BY <1>7, <2>2, <2>7
    <3>3. E2.q = q
      BY <1>2, <2>3, <2>4, <3>1, <3>2
    <3>4. QED
      BY <1>3, <3>3 DEF q, v1, v0, x
  <2>8. QED
    BY <2>5, <2>6, <2>7
<1>10. E0.q \in Int
  BY <1>5
<1>11. QED
  BY <1>2, <1>5, <1>8, <1>9, <1>10

-------------------------------------------------------------------------------
(* Both digits of a division, and the quotient they make up.               *)
LEMMA DigitsAre ==
  ASSUME NEW hi \in Words, NEW lo \in Words, NEW d \in Words \ {0}, hi < d
  PROVE  LET u      == Normalized(hi, lo, d)
             exact  == u.hi * B + u.lo \div B
             first  == FirstDigit(u)
             rest   == Rest(u, first.q)
             second == SecondDigit(u, rest)
         IN  /\ first.q = exact \div u.d /\ first.q \in Nat /\ first.q < B
             /\ rest = exact % u.d /\ rest \in Nat
             /\ second.q = (rest * B + (u.lo % B)) \div u.d
             /\ second.q \in Nat /\ second.q < B
             /\ \E r \in Nat : r < u.d /\ u.hi * W + u.lo = u.d * (first.q * B + second.q) + r
<1> DEFINE u  == Normalized(hi, lo, d)
           D  == u.d
           h  == u.hi
           l1 == u.lo \div B
           l0 == u.lo % B
           x  == h * B + l1
           q1 == FirstDigit(u).q
           R  == Rest(u, q1)
           y  == R * B + l0
           q0 == SecondDigit(u, R).q
<1>1. D \in Words /\ W <= 2 * D /\ u.lo \in Words /\ h \in Nat /\ h < D
  BY NormalizedIs
<1>2. D \in Nat /\ D < W /\ B \in Nat \ {0} /\ W \in Nat \ {0} /\ W = B * B
  <2> HIDE DEF D
  <2>1. D \in Nat /\ D < W
    BY <1>1, WordsAre
  <2>2. QED
    BY <2>1, BaseIs
<1>3. l1 \in Nat /\ l1 < B /\ l0 \in Nat /\ l0 < B /\ u.lo = B * l1 + l0
  BY <1>1, LimbsAre
<1>4. q1 = Digit(h, D \div B, D % B, l1).q
  BY DEF FirstDigit
<1>5. q0 = Digit(R, D \div B, D % B, l0).q
  BY DEF SecondDigit
<1>6. R = (h * B + (l1 - q1 * D)) % W
  BY DEF Rest
<1> HIDE DEF u, D, h, l1, l0, q1, R, q0
<1>7. q1 = x \div D
  BY <1>1, <1>3, <1>4, DigitIs
<1>8. /\ x \in Nat /\ q1 \in Nat /\ q1 < B
      /\ x % D \in Nat /\ x % D < D /\ x = D * q1 + (x % D)
  BY <1>1, <1>2, <1>3, <1>7, ExactIs
<1>9. R = x % D
  <2> DEFINE r == x % D
             z == x - q1 * D
  <2>1. r \in Nat /\ r < D /\ x = D * q1 + r
    BY <1>8
  <2>2. z = h * B + (l1 - q1 * D)
    <3>1. h * B \in Int /\ q1 * D \in Int
      BY <1>1, <1>2, <1>8
    <3>2. QED
      BY <1>3, <3>1
  <2>3. R = z % W
    BY <1>6, <2>2
  <2> HIDE DEF r, x
  <2>4. z = r
    <3>1. q1 * D = D * q1 /\ D * q1 \in Int
      BY <1>2, <1>8
    <3>2. QED
      BY <1>8, <2>1, <3>1
  <2> HIDE DEF z
  <2>5. r = W * 0 + r /\ 0 <= r /\ r < W /\ r \in Int /\ 0 \in Int
    BY <1>2, <2>1
  <2>6. r % W = r
    BY <1>2, <2>5, DivModUnique
  <2>7. QED
    BY <2>3, <2>6, <2>4 DEF r
<1>10. R \in Nat /\ R < D /\ x = D * q1 + R
  BY <1>8, <1>9
<1>11. q0 = y \div D
  BY <1>1, <1>3, <1>5, <1>10, DigitIs
<1>12. /\ y \in Nat /\ q0 \in Nat /\ q0 < B
       /\ y % D \in Nat /\ y % D < D /\ y = D * q0 + (y % D)
  <2>1. R \in Nat /\ D \in Nat /\ R < D /\ l0 \in Nat /\ l0 < B
    BY <1>2, <1>3, <1>10
  <2>2. /\ y \in Nat /\ y \div D \in Nat /\ y \div D < B
        /\ y % D \in Nat /\ y % D < D /\ y = D * (y \div D) + (y % D)
    BY <2>1, ExactIs
  <2>3. QED
    BY <1>11, <2>2
<1> DEFINE r0 == y % D
<1>13. r0 \in Nat /\ r0 < D /\ y = D * q0 + r0
  BY <1>12
<1> HIDE DEF r0
<1>14. h * W + u.lo = D * (q1 * B + q0) + r0
  <2>1. h * W + u.lo = x * B + l0
    <3>1. (h * B + l1) * B = h * (B * B) + B * l1 /\ h * (B * B) \in Int /\ B * l1 \in Int
      BY <1>1, <1>2, <1>3
    <3>2. QED
      BY <1>2, <1>3, <3>1
  <2>2. (D * q1 + R) * B = D * (q1 * B) + R * B
    BY <1>2, <1>8, <1>10
  <2>3. D * (q1 * B + q0) = D * (q1 * B) + D * q0
    BY <1>2, <1>8, <1>12
  <2> DEFINE A == D * (q1 * B)
             C == R * B
             E == D * q0
  <2>4. A \in Int /\ C \in Int /\ E \in Int
    BY <1>2, <1>8, <1>10, <1>12
  <2>5. x * B = A + C /\ y = C + l0
    BY <1>10, <2>2
  <2> HIDE DEF A, C, E, x, y
  <2>6. h * W + u.lo = (A + C) + l0 /\ C + l0 = E + r0
    BY <1>13, <2>1, <2>5 DEF E
  <2>7. D * (q1 * B + q0) + r0 = (A + E) + r0
    BY <2>3 DEF A, E
  <2>8. (A + C) + l0 = (A + E) + r0
    BY <1>3, <1>13, <2>4, <2>6
  <2>9. QED
    BY <2>6, <2>7, <2>8
<1>15. \E r \in Nat : r < D /\ h * W + u.lo = D * (q1 * B + q0) + r
  BY <1>13, <1>14
<1> HIDE DEF x, y
<1>16. QED
  BY <1>7, <1>8, <1>9, <1>10, <1>11, <1>12, <1>15 DEF u, D, h, l1, l0, x, q1, R, y, q0

LEMMA DigitsAreExact == DigitsExact
BY DigitsAre DEF DigitsExact

(* The division by a word that exceeds the high word of the dividend. *)
LEMMA InnerIs ==
  ASSUME NEW hi \in Words, NEW lo \in Words, NEW d \in Words \ {0}, hi < d
  PROVE  /\ u128_div_u64_inner(hi, lo, d) \in Words
         /\ \E r \in Nat : r < d /\ hi * W + lo = d * u128_div_u64_inner(hi, lo, d) + r
<1> DEFINE u  == Normalized(hi, lo, d)
           D  == u.d
           q1 == FirstDigit(u).q
           q0 == SecondDigit(u, Rest(u, q1)).q
           x  == hi * W + lo
           y  == q1 * B
           q  == y + q0
<1>1. u128_div_u64_inner(hi, lo, d) = (y % W) + q0
  BY DEF u128_div_u64_inner
<1>2. /\ hi \in Nat /\ lo \in Nat /\ d \in Nat \ {0}
      /\ B \in Nat \ {0} /\ W \in Nat \ {0} /\ W = B * B
  BY WordsAre, BaseIs
<1>3. PICK f \in Nat \ {0} : D = d * f /\ u.hi * W + u.lo = f * x
  BY NormalizedIs
<1>4. q1 \in Nat /\ q1 < B /\ q0 \in Nat /\ q0 < B
  BY DigitsAre
<1>5. PICK r \in Nat : r < D /\ u.hi * W + u.lo = D * q + r
  BY DigitsAre
<1> HIDE DEF q1, q0
<1>6. y \in Nat /\ y <= W - B /\ y % W = y
  <2>1. q1 * B <= (B - 1) * B /\ (B - 1) * B = B * B - B /\ y \in Nat
    BY <1>2, <1>4
  <2> HIDE DEF y
  <2>2. y \in Nat /\ y <= W - B
    BY <1>2, <2>1 DEF y
  <2>3. y = W * 0 + y /\ 0 <= y /\ y < W /\ y \in Int /\ 0 \in Int
    BY <1>2, <2>2
  <2>4. y % W = y
    BY <1>2, <2>3, DivModUnique
  <2>5. QED
    BY <2>2, <2>4
<1>7. u128_div_u64_inner(hi, lo, d) = q
  BY <1>1, <1>6
<1> HIDE DEF D, y, u
<1>8. q \in Nat /\ q < W
  BY <1>2, <1>4, <1>6
<1>9. q \in Words
  BY <1>8, WordsAre
<1>10. x \in Nat
  BY <1>2
<1> HIDE DEF q, x
<1>11. f * x = (d * f) * q + r /\ r < d * f
  BY <1>3, <1>5
<1> DEFINE z == x - d * q
<1>12. z \in Int /\ f * z = r /\ x = d * q + z
  <2>1. f * (x - d * q) = f * x - (d * f) * q
    BY <1>2, <1>8, <1>10
  <2>2. f * x \in Int /\ (d * f) * q \in Int /\ d * q \in Int
    BY <1>2, <1>8, <1>10
  <2> DEFINE a == f * x
             b == (d * f) * q
             c == d * q
  <2> HIDE DEF a, b, c
  <2>3. a = b + r /\ f * (x - c) = a - b /\ a \in Int /\ b \in Int /\ c \in Int
    BY <1>11, <2>1, <2>2 DEF a, b, c
  <2>4. f * (x - c) = r
    BY <2>3
  <2>5. x - c \in Int /\ x = c + (x - c)
    BY <1>10, <2>3
  <2>6. QED
    BY <2>4, <2>5 DEF c
<1> HIDE DEF z
<1>13. 0 <= z
  <2>1. ASSUME z <= -1 PROVE FALSE
    <3>1. f * z <= f * (-1) /\ f * (-1) = -f
      BY <1>12, <2>1
    <3>2. QED
      BY <1>12, <3>1
  <2>2. QED
    BY <1>12, <2>1
<1>14. z < d
  <2>1. z * f < d * f
    BY <1>11, <1>12
  <2>2. QED
    BY <1>2, <1>12, <2>1, FactorsOrder
<1>15. z \in Nat /\ x = d * q + z
  BY <1>12, <1>13
<1>16. QED
  BY <1>7, <1>9, <1>14, <1>15 DEF x

LEMMA QuotientsAreExact == QuotientsExact
<1> SUFFICES ASSUME NEW v \in S128, NEW d \in Words \ {0}
             PROVE  s128_div_u64(v, d) = Pattern(Quotient(Value(v), d))
  BY DEF QuotientsExact
<1> DEFINE a == Absolute(v)
           h == a.hi \div d
           g == a.hi % d
           l == IF a.hi = 0 THEN a.lo \div d ELSE u128_div_u64_inner(g, a.lo, d)
           p == [hi |-> h, lo |-> l]
           c == IsNegative(v.hi)
           i == Value(v)
           U == Unsigned(a)
<1>1. a \in S128 /\ U = (IF c THEN -i ELSE i) /\ i \in Int
  BY AbsoluteIs, ValueIs
<1>2. a.hi \in Words /\ a.lo \in Words
  BY <1>1 DEF S128
<1>3. s128_div_u64(v, d) = NegateIf(c, p)
  BY DEF s128_div_u64
<1>4. U = W * a.hi + a.lo
  BY DEF Unsigned
<1> DEFINE ah == a.hi
           al == a.lo
<1>5. /\ ah \in Nat /\ ah < W /\ al \in Nat /\ al < W /\ d \in Nat \ {0} /\ d < W
      /\ W \in Nat \ {0} /\ U = W * ah + al
  <2>1. U = W * ah + al
    BY <1>4
  <2> HIDE DEF ah, al
  <2>2. ah \in Words /\ al \in Words
    BY <1>2 DEF ah, al
  <2>3. ah \in Nat /\ ah < W /\ al \in Nat /\ al < W /\ d \in Nat \ {0} /\ d < W
    BY <2>2, WordsAre
  <2>4. QED
    BY <2>1, <2>3, BaseIs
<1>6. c => i < 0
  BY ValueIs
<1>7. h \in Nat /\ h <= ah /\ g \in Nat /\ g < d /\ ah = d * h + g
  <2> HIDE DEF ah
  <2> DEFINE m == ah \div d
             n == ah % d
  <2>1. m \in Int /\ n \in 0 .. (d - 1) /\ ah = d * m + n
    <3>1. ah \in Int /\ d \in Nat \ {0}
      BY <1>5
    <3>2. QED
      BY <3>1, DivModIs
  <2> HIDE DEF m, n
  <2>2. n \in Nat /\ n < d
    BY <1>5, <2>1
  <2>3. 0 <= m
    <3>1. ASSUME m <= -1 PROVE FALSE
      <4>1. d * m <= d * (-1) /\ d * (-1) = -d /\ d * m \in Int
        BY <1>5, <2>1, <3>1
      <4>2. QED
        BY <1>5, <2>1, <2>2, <4>1
    <3>2. QED
      BY <2>1, <3>1
  <2>4. m <= ah
    <3>1. 1 * m <= d * m /\ d * m \in Int
      BY <1>5, <2>1, <2>3
    <3>2. QED
      BY <1>5, <2>1, <2>2, <2>3, <3>1
  <2>5. QED
    BY <2>1, <2>2, <2>3, <2>4 DEF m, n, ah
<1>8. PICK r \in Nat : r < d /\ g * W + al = d * l + r /\ l \in Words
  <2>1. CASE ah = 0
    <3>1. h = 0 /\ g = 0
      <4> HIDE DEF h, g, ah
      <4>1. h = 0
        BY <1>5, <1>7, <2>1
      <4>2. d * h = 0
        BY <1>5, <4>1
      <4>3. QED
        BY <1>5, <1>7, <2>1, <4>1, <4>2
    <3>2. l = al \div d
      BY <2>1
    <3> DEFINE m == al \div d
               n == al % d
    <3> HIDE DEF al, g
    <3>3. m \in Int /\ n \in 0 .. (d - 1) /\ al = d * m + n
      <4>1. al \in Int /\ d \in Nat \ {0}
        BY <1>5
      <4>2. QED
        BY <4>1, DivModIs
    <3> HIDE DEF m, n, l
    <3>4. n \in Nat /\ n < d
      BY <1>5, <3>3
    <3>5. 0 <= m
      <4>1. ASSUME m <= -1 PROVE FALSE
        <5>1. d * m <= d * (-1) /\ d * (-1) = -d /\ d * m \in Int
          BY <1>5, <3>3, <4>1
        <5>2. QED
          BY <1>5, <3>3, <3>4, <5>1
      <4>2. QED
        BY <3>3, <4>1
    <3>6. m <= al
      <4>1. 1 * m <= d * m /\ d * m \in Int
        BY <1>5, <3>3, <3>5
      <4>2. QED
        BY <1>5, <3>3, <3>4, <3>5, <4>1
    <3>7. m \in Words
      <4>1. 0 <= m /\ m < W
        BY <1>5, <3>3, <3>5, <3>6
      <4>2. QED
        BY <3>3, <4>1, WordsAre
    <3>8. g * W + al = d * m + n
      <4>1. g * W = 0
        BY <1>5, <3>1
      <4>2. QED
        BY <1>5, <3>3, <4>1
    <3>9. l = m
      BY <3>2 DEF m
    <3>10. QED
      BY <3>4, <3>7, <3>8, <3>9
  <2>2. CASE ah # 0
    <3>1. l = u128_div_u64_inner(g, al, d)
      BY <2>2
    <3>2. g \in Words /\ al \in Words
      <4> HIDE DEF g
      <4>1. g \in Int /\ 0 <= g /\ g < W
        BY <1>5, <1>7
      <4>2. QED
        BY <1>2, <4>1, WordsAre
    <3> HIDE DEF l, g, al
    <3>3. QED
      BY <1>7, <3>1, <3>2, InnerIs
  <2>3. QED
    BY <2>1, <2>2
<1>9. h \in Words
  <2> HIDE DEF h, ah
  <2>1. h \in Int /\ 0 <= h /\ h < W
    BY <1>5, <1>7
  <2>2. QED
    BY <2>1, WordsAre
<1>10. p \in S128
  BY <1>8, <1>9 DEF S128
<1>11. Unsigned(p) = W * h + l
  BY DEF Unsigned
<1> HIDE DEF ah, al, h, g, l
<1>12. l \in Int
  BY <1>8, WordsAre
<1> HIDE DEF p, U, i, c
<1> DEFINE q == W * h + l
<1>13. q \in Int /\ U = d * q + r
  <2>1. W * (d * h + g) = d * (W * h) + g * W /\ d * (W * h + l) = d * (W * h) + d * l
    BY <1>5, <1>7, <1>12
  <2> DEFINE A == d * (W * h)
             C == g * W
             E == d * l
  <2>2. A \in Int /\ C \in Int /\ E \in Int /\ q \in Int
    BY <1>5, <1>7, <1>12
  <2> HIDE DEF A, C, E, q
  <2>3. U = (A + C) + al /\ C + al = E + r /\ d * q = A + E
    BY <1>5, <1>7, <1>8, <2>1 DEF A, C, E, q
  <2>4. U = d * q + r
    BY <1>5, <1>8, <2>2, <2>3
  <2>5. QED
    BY <2>2, <2>4
<1> HIDE DEF q
<1>14. U \in Int
  BY <1>1
<1>15. U \div d = q
  <2>1. 0 <= r /\ r \in Int
    BY <1>8
  <2>2. QED
    BY <1>5, <1>8, <1>13, <1>14, <2>1, DivModUnique
<1>16. Stands(p, q)
  BY <1>10, <1>11, UnsignedStands DEF q
<1>17. Stands(NegateIf(c, p), IF c THEN -q ELSE q)
  BY <1>13, <1>16, NegateIfIs
<1>18. (IF c THEN -q ELSE q) = Quotient(i, d)
  <2>1. CASE c
    BY <1>1, <1>6, <1>15, <2>1 DEF Quotient, i
  <2>2. CASE ~c
    <3>1. U = i
      BY <1>1, <2>2
    <3>2. i >= 0
      BY <2>2, ValueIs DEF i, c
    <3>3. QED
      BY <1>15, <2>2, <3>1, <3>2 DEF Quotient
  <2>3. QED
    BY <2>1, <2>2
<1>19. Stands(s128_div_u64(v, d), Quotient(i, d)) /\ Quotient(i, d) \in Int
  <2>1. -q \in Int
    BY <1>13
  <2>2. (IF c THEN -q ELSE q) \in Int
    BY <1>13, <2>1
  <2>3. QED
    BY <1>3, <1>17, <1>18, <2>2
<1>20. QED
  BY <1>19, StandsAlone DEF i

(* The arithmetic of u128.h on two words is that of the integers, modulo   *)
(* its width: sums, differences, products and quotients of any operands,   *)
(* and each digit of a quotient after at most two corrections.             *)
THEOREM ArithmeticIsExact == ArithmeticExact
BY SumsAreExact, ProductsAreExact, QuotientsAreExact, DigitsAreExact DEF ArithmeticExact

(* In the form the model of the BPF moments asks for it. *)
THEOREM DoubleWordsAreExact == BpfSpec => []DoubleWordsExact
<1>1. DoubleWordsExact
  BY ArithmeticIsExact DEF DoubleWordsExact
<1>2. QED
  BY <1>1, PTL

-------------------------------------------------------------------------------
Divides(d, a) == \E m \in Nat : a = d * m

Common(a, b) == {d \in Nat : Divides(d, a) /\ Divides(d, b)}

Greatest(a, b) ==
  IF a = 0 /\ b = 0 THEN 0
  ELSE CHOOSE d \in Common(a, b) : \A e \in Common(a, b) : e <= d

IsGcd(f) == f = [b \in Nat |-> [a \in Nat |-> IF b = 0 THEN a ELSE f[a % b][b]]]

(* Euclid's step keeps the common divisors. *)
LEMMA CommonStep ==
  ASSUME NEW a \in Nat, NEW b \in Nat \ {0}
  PROVE  Common(a, b) = Common(b, a % b)
<1> DEFINE q == a \div b
           r == a % b
<1>1. q \in Nat /\ r \in Nat /\ a = b * q + r
  OBVIOUS
<1> HIDE DEF q, r
<1>2. ASSUME NEW d \in Nat, Divides(d, a), Divides(d, b) PROVE Divides(d, r)
  <2>1. PICK x \in Nat : a = d * x
    BY <1>2 DEF Divides
  <2>2. PICK y \in Nat : b = d * y
    BY <1>2 DEF Divides
  <2>3. r = d * (x - y * q)
    BY <1>1, <2>1, <2>2
  <2>4. CASE d = 0
    <3>1. r = d * 0
      BY <1>1, <2>1, <2>2, <2>4
    <3>2. QED
      BY <3>1 DEF Divides
  <2>5. CASE d # 0
    <3>1. x - y * q \in Int
      BY <1>1
    <3>2. x - y * q >= 0
      BY <3>1, <2>3, <2>5, <1>1
    <3>3. QED
      BY <3>1, <3>2, <2>3 DEF Divides
  <2>6. QED
    BY <2>4, <2>5
<1>3. ASSUME NEW d \in Nat, Divides(d, b), Divides(d, r) PROVE Divides(d, a)
  <2>1. PICK x \in Nat : b = d * x
    BY <1>3 DEF Divides
  <2>2. PICK y \in Nat : r = d * y
    BY <1>3 DEF Divides
  <2>3. a = d * (x * q + y) /\ x * q + y \in Nat
    BY <1>1, <2>1, <2>2
  <2>4. QED
    BY <2>3 DEF Divides
<1>4. QED
  BY <1>2, <1>3 DEF Common, r

LEMMA GcdExists == \E f : IsGcd(f)
<1> DEFINE f == [b \in Nat |-> [a \in Nat |-> Greatest(a, b)]]
<1>1. ASSUME NEW a \in Nat PROVE Greatest(a, 0) = a
  <2>1. CASE a = 0
    BY <2>1 DEF Greatest
  <2>2. CASE a # 0
    <3>1. a \in Common(a, 0)
      <4>1. a = a * 1 /\ 0 = a * 0
        OBVIOUS
      <4>2. QED
        BY <4>1 DEF Common, Divides
    <3>2. ASSUME NEW d \in Common(a, 0) PROVE d \in Nat /\ d <= a
      <4>1. PICK m \in Nat : a = d * m /\ d \in Nat
        BY DEF Common, Divides
      <4>2. m # 0
        BY <4>1, <2>2
      <4>3. d * m >= d
        BY <4>1, <4>2
      <4>4. QED
        BY <4>1, <4>3
    <3>3. \A d \in Common(a, 0) : (\A e \in Common(a, 0) : e <= d) => d = a
      BY <3>1, <3>2
    <3>4. QED
      BY <3>1, <3>2, <3>3, <2>2 DEF Greatest
  <2>3. QED
    BY <2>1, <2>2
<1>2. ASSUME NEW a \in Nat, NEW b \in Nat, b # 0 PROVE Greatest(a, b) = Greatest(b, a % b)
  <2>1. Common(a, b) = Common(b, a % b)
    BY <1>2, CommonStep
  <2>2. QED
    BY <2>1, <1>2 DEF Greatest
<1>3. ASSUME NEW a \in Nat, NEW b \in Nat
      PROVE  f[b][a] = IF b = 0 THEN a ELSE f[a % b][b]
  <2>1. CASE b = 0
    BY <2>1, <1>1
  <2>2. CASE b # 0
    <3>1. a % b \in Nat
      BY <2>2
    <3>2. QED
      BY <3>1, <2>2, <1>2
  <2>3. QED
    BY <2>1, <2>2
<1>4. f = [b \in Nat |-> f[b]] /\ \A b \in Nat : f[b] = [a \in Nat |-> f[b][a]]
  OBVIOUS
<1> HIDE DEF f
<1> DEFINE step(b) == [a \in Nat |-> IF b = 0 THEN a ELSE f[a % b][b]]
<1>5. ASSUME NEW b \in Nat PROVE f[b] = step(b)
  <2>1. f[b] = [a \in Nat |-> f[b][a]]
    BY <1>4
  <2>2. QED
    BY <2>1, <1>3
<1> HIDE DEF step
<1>6. f = [b \in Nat |-> step(b)]
  BY <1>4, <1>5
<1>7. IsGcd(f)
  BY <1>6 DEF IsGcd, step
<1>8. QED
  BY <1>7

LEMMA GcdIs == IsGcd(GcdWith)
<1> DEFINE g == CHOOSE f : IsGcd(f)
<1>1. IsGcd(g)
  BY GcdExists
<1>2. GcdWith = g
  BY DEF GcdWith, IsGcd
<1>3. QED
  BY <1>1, <1>2

LEMMA DivCancel ==
  ASSUME NEW g \in Nat \ {0}, NEW x \in Int
  PROVE  (g * x) \div g = x
<1>1. g * x = g * x + 0
  OBVIOUS
<1>2. QED
  BY <1>1

(* The divisor of b and of the remainder is one of a.  *)
LEMMA GcdIsDivisor ==
  \A b \in Nat : \A a \in Nat :
    /\ Gcd(a, b) \in Nat
    /\ Divides(Gcd(a, b), a) /\ Divides(Gcd(a, b), b)
    /\ a # 0 \/ b # 0 => Gcd(a, b) # 0
<1> DEFINE Good(a, b) == /\ Gcd(a, b) \in Nat
                         /\ Divides(Gcd(a, b), a) /\ Divides(Gcd(a, b), b)
                         /\ a # 0 \/ b # 0 => Gcd(a, b) # 0
           S == {n \in Nat : \A b \in 0 .. n : \A a \in Nat : Good(a, b)}
<1>1. ASSUME NEW a \in Nat, NEW b \in Nat
      PROVE  Gcd(a, b) = IF b = 0 THEN a ELSE Gcd(b, a % b)
  BY GcdIs DEF IsGcd, Gcd
<1>2. \A a \in Nat : Good(a, 0)
  <2>1. \A a \in Nat : a = a * 1 /\ 0 = a * 0
    OBVIOUS
  <2>2. QED
    BY <1>1, <2>1 DEF Divides
<1>3. ASSUME NEW a \in Nat, NEW b \in Nat \ {0}, Good(b, a % b) PROVE Good(a, b)
  <2>1. Gcd(a, b) = Gcd(b, a % b)
    BY <1>1
  <2>2. Gcd(a, b) \in Common(b, a % b)
    BY <2>1, <1>3 DEF Common
  <2>3. Gcd(a, b) \in Common(a, b)
    BY <2>2, CommonStep
  <2>4. QED
    BY <2>1, <2>3, <1>3 DEF Common
<1> HIDE DEF Good
<1>4. 0 \in S
  BY <1>2
<1>5. ASSUME NEW n \in Nat, n \in S PROVE n + 1 \in S
  <2>1. ASSUME NEW a \in Nat PROVE Good(a, n + 1)
    <3>1. a % (n + 1) \in 0 .. n
      OBVIOUS
    <3>2. Good(n + 1, a % (n + 1))
      BY <3>1, <1>5
    <3>3. QED
      BY <3>2, <1>3
  <2>2. QED
    BY <2>1, <1>5
<1>6. Nat \subseteq S
  <2> HIDE DEF S
  <2>1. QED
    BY <1>4, <1>5, SetInduction
<1>7. QED
  BY <1>6 DEF Good

(* Reduced to lowest terms a fraction keeps its value and its sign.        *)
LEMMA FracIs ==
  ASSUME NEW p \in Int, NEW q \in Int \ {0}
  PROVE  /\ Frac(p, q) \in Fractions
         /\ Frac(p, q).num * q = p * Frac(p, q).den
         /\ p = 0 => Frac(p, q).num = 0
         /\ p > 0 /\ q > 0 => Frac(p, q).num > 0
<1> DEFINE P == Magnitude(p)
           Q == Magnitude(q)
           g == Gcd(P, Q)
<1>1. P \in Nat /\ Q \in Nat \ {0} /\ (p = P \/ p = -P) /\ (q = Q \/ q = -Q)
  BY DEF Magnitude
<1>2. g \in Nat \ {0} /\ Divides(g, P) /\ Divides(g, Q)
  BY <1>1, GcdIsDivisor
<1> HIDE DEF g
<1>3. PICK x \in Nat : P = g * x
  BY <1>2 DEF Divides
<1>4. PICK y \in Nat : Q = g * y
  BY <1>2 DEF Divides
<1> DEFINE s == IF q < 0 THEN -1 ELSE 1
           z == IF p < 0 THEN -x ELSE x
<1>5. z \in Int /\ p = g * z /\ q = s * Q
  BY <1>1, <1>2, <1>3 DEF Magnitude
<1>6. p \div g = z /\ Q \div g = y /\ y # 0
  BY <1>1, <1>2, <1>4, <1>5, DivCancel
<1>7. Frac(p, q) = [num |-> s * z, den |-> y]
  BY <1>6 DEF Frac, g
<1>8. (s * z) * q = p * y
  <2>1. (s * z) * q = z * Q
    BY <1>1, <1>5
  <2>2. z * Q = p * y
    BY <1>2, <1>4, <1>5
  <2>3. QED
    BY <2>1, <2>2
<1>9. s * z \in Int /\ (p = 0 => s * z = 0) /\ (p > 0 /\ q > 0 => s * z > 0)
  BY <1>1, <1>2, <1>3 DEF Magnitude
<1> HIDE DEF s, z
<1>10. QED
  BY <1>6, <1>7, <1>8, <1>9 DEF Fractions

(* Two records of one rational. *)
Equal(a, b) == a.num * b.den = b.num * a.den

LEMMA CancelFactor ==
  ASSUME NEW c \in Int \ {0}, NEW x \in Int, NEW y \in Int, x * c = y * c
  PROVE  x = y
  OBVIOUS

LEMMA EqualTransitive ==
  ASSUME NEW a \in Fractions, NEW b \in Fractions, NEW c \in Fractions,
         Equal(a, b), Equal(b, c)
  PROVE  Equal(a, c)
<1>1. /\ a.num \in Int /\ b.num \in Int /\ c.num \in Int
      /\ a.den \in Nat \ {0} /\ b.den \in Nat \ {0} /\ c.den \in Nat \ {0}
  BY DEF Fractions
<1>2. (a.num * c.den) * b.den = (c.num * a.den) * b.den
  <2>1. (a.num * c.den) * b.den = (a.num * b.den) * c.den
    BY <1>1
  <2>2. (a.num * b.den) * c.den = (b.num * a.den) * c.den
    BY DEF Equal
  <2>3. (b.num * a.den) * c.den = (b.num * c.den) * a.den
    BY <1>1
  <2>4. (b.num * c.den) * a.den = (c.num * b.den) * a.den
    BY DEF Equal
  <2>5. (c.num * b.den) * a.den = (c.num * a.den) * b.den
    BY <1>1
  <2>6. QED
    BY <2>1, <2>2, <2>3, <2>4, <2>5
<1>3. a.num * c.den \in Int /\ c.num * a.den \in Int /\ b.den \in Int \ {0}
  BY <1>1
<1>4. a.num * c.den = c.num * a.den
  BY <1>2, <1>3, CancelFactor
<1>5. QED
  BY <1>4 DEF Equal

LEMMA PlusIs ==
  ASSUME NEW a \in Fractions, NEW b \in Fractions
  PROVE  /\ Plus(a, b) \in Fractions
         /\ b.num = 0 => Equal(Plus(a, b), a)
         /\ a.num = 0 => Equal(Plus(a, b), b)
         /\ a.num * b.den + b.num * a.den = 0 => Plus(a, b).num = 0
<1> DEFINE g == Gcd(a.den, b.den)
<1>1. /\ a.num \in Int /\ b.num \in Int
      /\ a.den \in Nat \ {0} /\ b.den \in Nat \ {0}
  BY DEF Fractions
<1>2. g \in Nat \ {0} /\ Divides(g, a.den) /\ Divides(g, b.den)
  BY <1>1, GcdIsDivisor
<1> HIDE DEF g
<1>3. PICK v \in Nat : a.den = g * v
  BY <1>2 DEF Divides
<1>4. PICK u \in Nat : b.den = g * u
  BY <1>2 DEF Divides
<1>5. a.den \div g = v /\ b.den \div g = u /\ u # 0 /\ v # 0
  BY <1>1, <1>2, <1>3, <1>4, DivCancel
<1> DEFINE N == a.num * u + b.num * v
           D == a.den * u
           r == Frac(N, D)
<1>6. Plus(a, b) = r
  BY <1>5 DEF Plus, g
<1>7. N \in Int /\ D \in Nat \ {0}
  BY <1>1, <1>5
<1> HIDE DEF N, D
<1>8. r \in Fractions /\ r.num * D = N * r.den /\ (N = 0 => r.num = 0)
  BY <1>7, FracIs
<1>9. r.num \in Int /\ r.den \in Nat \ {0}
  BY <1>8 DEF Fractions
<1> HIDE DEF r
<1>10. ASSUME b.num = 0 PROVE Equal(r, a)
  <2>1. N = a.num * u
    BY <1>1, <1>10 DEF N
  <2>2. (r.num * a.den) * u = (a.num * r.den) * u
    BY <2>1, <1>1, <1>8, <1>9 DEF D
  <2>3. QED
    BY <2>2, <1>1, <1>5, <1>9, CancelFactor DEF Equal
<1>11. ASSUME a.num = 0 PROVE Equal(r, b)
  <2>1. N = b.num * v
    BY <1>1, <1>11 DEF N
  <2>2. D = b.den * v
    BY <1>2, <1>3, <1>4 DEF D
  <2>3. (r.num * b.den) * v = (b.num * r.den) * v
    BY <2>1, <2>2, <1>1, <1>8, <1>9
  <2>4. QED
    BY <2>3, <1>1, <1>5, <1>9, CancelFactor DEF Equal
<1>12. ASSUME a.num * b.den + b.num * a.den = 0 PROVE r.num = 0
  <2>1. N * g = a.num * b.den + b.num * a.den
    BY <1>1, <1>2, <1>3, <1>4 DEF N
  <2>2. N = 0
    BY <2>1, <1>2, <1>7, <1>12
  <2>3. QED
    BY <2>2, <1>8
<1>13. QED
  BY <1>6, <1>8, <1>10, <1>11, <1>12

LEMMA MinusIs ==
  ASSUME NEW a \in Fractions, NEW b \in Fractions
  PROVE  /\ Minus(a, b) \in Fractions
         /\ b.num = 0 => Equal(Minus(a, b), a)
         /\ Equal(a, b) => Minus(a, b).num = 0
<1> DEFINE c == [b EXCEPT !.num = -@]
<1>1. c \in Fractions /\ c.num = -b.num /\ c.den = b.den
  BY DEF Fractions
<1>2. Minus(a, b) = Plus(a, c)
  BY DEF Minus
<1> HIDE DEF c
<1>3. Equal(a, b) => a.num * c.den + c.num * a.den = 0
  <2>1. a.num * c.den + c.num * a.den = a.num * b.den - b.num * a.den
    BY <1>1 DEF Fractions
  <2>2. a.num * b.den \in Int /\ b.num * a.den \in Int
    BY DEF Fractions
  <2>3. QED
    BY <2>1, <2>2 DEF Equal
<1>4. b.num = 0 => c.num = 0
  <2>1. \A i, j \in Int : j = -i => j + i = 0
    OBVIOUS
  <2>2. b.num \in Int /\ c.num \in Int
    BY <1>1 DEF Fractions
  <2>3. c.num + b.num = 0
    BY <2>1, <2>2, <1>1
  <2>4. QED
    BY <2>2, <2>3
<1>5. QED
  BY <1>1, <1>2, <1>3, <1>4, PlusIs

LEMMA TimesIs ==
  ASSUME NEW a \in Fractions, NEW b \in Fractions
  PROVE  /\ Times(a, b) \in Fractions
         /\ a.num = 0 \/ b.num = 0 => Times(a, b).num = 0
         /\ a.num > 0 /\ b.num > 0 => Times(a, b).num > 0
         /\ b.num = b.den => Equal(Times(a, b), a)
<1> DEFINE x == Frac(a.num, b.den)
           y == Frac(b.num, a.den)
<1>1. /\ a.num \in Int /\ b.num \in Int
      /\ a.den \in Nat \ {0} /\ b.den \in Nat \ {0}
  BY DEF Fractions
<1>2. /\ x \in Fractions /\ x.num * b.den = a.num * x.den
      /\ (a.num = 0 => x.num = 0) /\ (a.num > 0 => x.num > 0)
  BY <1>1, FracIs
<1>3. /\ y \in Fractions /\ y.num * a.den = b.num * y.den
      /\ (b.num = 0 => y.num = 0) /\ (b.num > 0 => y.num > 0)
  BY <1>1, FracIs
<1>4. Times(a, b) = [num |-> x.num * y.num, den |-> x.den * y.den]
  BY DEF Times
<1> HIDE DEF x, y
<1>5. /\ x.num \in Int /\ x.den \in Nat \ {0}
      /\ y.num \in Int /\ y.den \in Nat \ {0}
  BY <1>2, <1>3 DEF Fractions
<1>6. Times(a, b) \in Fractions
  <2>1. x.num * y.num \in Int /\ x.den * y.den \in Nat \ {0}
    BY <1>5
  <2>2. QED
    BY <1>4, <2>1 DEF Fractions
<1>7. a.num = 0 \/ b.num = 0 => x.num * y.num = 0
  BY <1>2, <1>3, <1>5
<1>8. a.num > 0 /\ b.num > 0 => x.num * y.num > 0
  <2>1. \A m, n \in Int : m > 0 /\ n > 0 => m * n > 0
    OBVIOUS
  <2>2. QED
    BY <2>1, <1>2, <1>3, <1>5
<1>9. ASSUME b.num = b.den PROVE (x.num * y.num) * a.den = a.num * (x.den * y.den)
  <2>1. (x.num * y.num) * a.den = x.num * (y.num * a.den)
    BY <1>1, <1>5
  <2>2. x.num * (y.num * a.den) = x.num * (b.den * y.den)
    BY <1>3, <1>9
  <2>3. x.num * (b.den * y.den) = (x.num * b.den) * y.den
    BY <1>1, <1>5
  <2>4. (x.num * b.den) * y.den = (a.num * x.den) * y.den
    BY <1>2
  <2>5. (a.num * x.den) * y.den = a.num * (x.den * y.den)
    BY <1>1, <1>5
  <2>6. QED
    BY <2>1, <2>2, <2>3, <2>4, <2>5
<1>10. QED
  BY <1>4, <1>6, <1>7, <1>8, <1>9 DEF Equal

LEMMA OverIs ==
  ASSUME NEW a \in Fractions, NEW b \in Fractions, b.num # 0
  PROVE  /\ Over(a, b) \in Fractions
         /\ a.num = 0 => Over(a, b).num = 0
         /\ a.num > 0 /\ b.num > 0 => Over(a, b).num > 0
         /\ b.num = b.den => Equal(Over(a, b), a)
<1> DEFINE c == Frac(b.den, b.num)
<1>1. b.num \in Int \ {0} /\ b.den \in Nat \ {0}
  BY DEF Fractions
<1>2. c \in Fractions /\ c.num * b.num = b.den * c.den /\ (b.num > 0 => c.num > 0)
  BY <1>1, FracIs
<1>3. c.num \in Int /\ c.den \in Nat \ {0}
  BY <1>2 DEF Fractions
<1> HIDE DEF c
<1>4. b.num = b.den => c.num = c.den
  <2>1. ASSUME b.num = b.den PROVE c.num = c.den
    <3>1. c.num * b.num = c.den * b.num
      BY <2>1, <1>1, <1>2, <1>3
    <3>2. c.num \in Int /\ c.den \in Int
      BY <1>3
    <3>3. QED
      BY <3>1, <3>2, <1>1, CancelFactor
  <2>2. QED
    BY <2>1
<1>5. Over(a, b) = Times(a, c)
  BY DEF Over, c
<1>6. QED
  BY <1>2, <1>4, <1>5, TimesIs

(* The sign of a rational against another. *)
LEMMA LessThanSigns ==
  ASSUME NEW a \in Fractions, NEW b \in Fractions
  PROVE  /\ LessThan(a, b) /\ b.num <= 0 => a.num <= 0
         /\ ~LessThan(a, b) /\ a.num <= 0 => b.num <= 0
<1> DEFINE g == Gcd(a.den, b.den)
<1>1. /\ a.num \in Int /\ b.num \in Int
      /\ a.den \in Nat \ {0} /\ b.den \in Nat \ {0}
  BY DEF Fractions
<1>2. g \in Nat \ {0} /\ Divides(g, a.den) /\ Divides(g, b.den)
  BY <1>1, GcdIsDivisor
<1> HIDE DEF g
<1>3. PICK v \in Nat : a.den = g * v
  BY <1>2 DEF Divides
<1>4. PICK u \in Nat : b.den = g * u
  BY <1>2 DEF Divides
<1>5. a.den \div g = v /\ b.den \div g = u /\ u > 0 /\ v > 0
  BY <1>1, <1>2, <1>3, <1>4, DivCancel
<1>6. LessThan(a, b) <=> a.num * u < b.num * v
  BY <1>5 DEF LessThan, g
<1>7. \A m \in Int, n \in Nat : n > 0 => (m <= 0 <=> m * n <= 0)
  OBVIOUS
<1>8. a.num * u \in Int /\ b.num * v \in Int
  BY <1>1
<1>9. (a.num <= 0 <=> a.num * u <= 0) /\ (b.num <= 0 <=> b.num * v <= 0)
  BY <1>1, <1>5, <1>7
<1>10. QED
  BY <1>6, <1>8, <1>9

LEMMA IntIsFraction ==
  ASSUME NEW i \in Int
  PROVE  FromInt(i) \in Fractions /\ FromInt(i).num = i /\ FromInt(i).den = 1
  BY DEF FromInt, Fractions

-------------------------------------------------------------------------------
LEMMA WindowIs ==
  ASSUME NEW w \in Window
  PROVE  /\ w.n \in Nat /\ w.m1 \in Fractions /\ w.m2 \in Fractions
         /\ w.m1.num \in Int /\ w.m2.num \in Int
  BY DEF Window, Fractions

LEMMA EmptyIs == Empty \in Window /\ Empty.n = 0 /\ Empty.m1.num = 0 /\ Empty.m2.num = 0
  BY DEF Empty, Window, ZeroFrac, FromInt, Fractions

LEMMA VarianceIs ==
  ASSUME NEW w \in Window
  PROVE  /\ SummaryVariance(w) \in Fractions
         /\ SummaryVariance(w).num \in Int
         /\ w.m2.num = 0 => SummaryVariance(w).num = 0
<1>1. CASE w.n = 0
  BY <1>1 DEF SummaryVariance, ZeroFrac, FromInt, Fractions
<1>2. CASE w.n # 0
  <2>1. FromInt(w.n) \in Fractions /\ FromInt(w.n).num # 0
    BY <1>2, WindowIs, IntIsFraction
  <2>2. SummaryVariance(w) = Over(w.m2, FromInt(w.n))
    BY <1>2 DEF SummaryVariance
  <2>3. SummaryVariance(w) \in Fractions /\ (w.m2.num = 0 => SummaryVariance(w).num = 0)
    BY <2>1, <2>2, WindowIs, OverIs
  <2>4. QED
    BY <2>3 DEF Fractions
<1>3. QED
  BY <1>1, <1>2

(* A mean observed anew leaves the mean of means and their m2 as they are. *)
LEMMA ObserveIs ==
  ASSUME NEW s \in Window, NEW x \in Fractions
  PROVE  /\ Observe(s, x) \in Window
         /\ Observe(s, x).n = s.n + 1
         /\ s = Empty \/ (Equal(x, s.m1) /\ s.m2.num = 0)
              => Equal(x, Observe(s, x).m1) /\ Observe(s, x).m2.num = 0
<1> DEFINE d == Minus(x, s.m1)
           c == FromInt(s.n + 1)
           delta_n == Over(d, c)
           t == Times(d, delta_n)
           i == Scale(s.n, t)
           o == Observe(s, x)
<1>1. s.n \in Nat /\ s.m1 \in Fractions /\ s.m2 \in Fractions
  BY WindowIs
<1>2. /\ d \in Fractions
      /\ s.m1.num = 0 => Equal(d, x)
      /\ Equal(x, s.m1) => d.num = 0
  BY <1>1, MinusIs
<1>3. c \in Fractions /\ c.num = s.n + 1 /\ c.den = 1 /\ c.num # 0
  BY <1>1, IntIsFraction
<1> HIDE DEF d, c
<1>4. /\ delta_n \in Fractions /\ (d.num = 0 => delta_n.num = 0)
      /\ s.n = 0 => Equal(delta_n, d)
  BY <1>1, <1>2, <1>3, OverIs
<1> HIDE DEF delta_n
<1>5. t \in Fractions /\ (d.num = 0 => t.num = 0)
  BY <1>2, <1>4, TimesIs
<1> HIDE DEF t
<1>6. i \in Fractions /\ (t.num = 0 \/ s.n = 0 => i.num = 0)
  <2>1. FromInt(s.n) \in Fractions /\ FromInt(s.n).num = s.n
    BY <1>1, IntIsFraction
  <2>2. QED
    BY <2>1, <1>5, TimesIs DEF Scale
<1> HIDE DEF i
<1>7. o = [n |-> s.n + 1, m1 |-> Plus(s.m1, delta_n), m2 |-> Plus(s.m2, i)]
  BY DEF Observe, d, c, delta_n, t, i
<1> HIDE DEF o
<1>8. Plus(s.m1, delta_n) \in Fractions /\ Plus(s.m2, i) \in Fractions
  BY <1>1, <1>4, <1>6, PlusIs
<1>9. o \in Window /\ o.n = s.n + 1
  BY <1>1, <1>7, <1>8 DEF Window
<1>10. ASSUME s.m2.num = 0, i.num = 0 PROVE o.m2.num = 0
  <2>1. s.m2.num * i.den + i.num * s.m2.den = 0
    BY <1>1, <1>6, <1>10 DEF Fractions
  <2>2. QED
    BY <2>1, <1>1, <1>6, <1>7, PlusIs
<1>11. ASSUME s = Empty PROVE Equal(x, o.m1) /\ o.m2.num = 0
  <2>1. s.n = 0 /\ s.m1.num = 0 /\ s.m2.num = 0
    BY <1>11, EmptyIs
  <2>2. Equal(Plus(s.m1, delta_n), delta_n) /\ Equal(delta_n, d) /\ Equal(d, x)
    BY <2>1, <1>1, <1>2, <1>4, PlusIs
  <2>3. Equal(Plus(s.m1, delta_n), x)
    BY <2>2, <1>2, <1>4, <1>8, EqualTransitive
  <2>4. QED
    BY <2>1, <2>3, <1>6, <1>7, <1>10 DEF Equal
<1>12. ASSUME Equal(x, s.m1), s.m2.num = 0 PROVE Equal(x, o.m1) /\ o.m2.num = 0
  <2>1. d.num = 0 /\ delta_n.num = 0 /\ i.num = 0
    BY <1>2, <1>4, <1>5, <1>6, <1>12
  <2>2. Equal(Plus(s.m1, delta_n), s.m1) /\ Equal(s.m1, x)
    BY <2>1, <1>1, <1>4, <1>12, PlusIs DEF Equal
  <2>3. Equal(Plus(s.m1, delta_n), x)
    BY <2>2, <1>1, <1>8, EqualTransitive
  <2>4. QED
    BY <2>1, <2>3, <1>7, <1>10, <1>12 DEF Equal
<1>13. QED
  BY <1>9, <1>11, <1>12 DEF o

LEMMA PoolIs ==
  ASSUME NEW a \in Window, NEW b \in Window
  PROVE  Pool(a, b) \in Window /\ Pool(a, b).n = a.n + b.n
<1>1. /\ a.n \in Nat /\ a.m1 \in Fractions /\ a.m2 \in Fractions
      /\ b.n \in Nat /\ b.m1 \in Fractions /\ b.m2 \in Fractions
  BY WindowIs
<1>2. CASE b.n = 0 \/ a.n = 0
  BY <1>1, <1>2 DEF Pool
<1>3. CASE b.n # 0 /\ a.n # 0
  <2> DEFINE n == a.n + b.n
             m1 == Plus(Times(Frac(a.n, n), a.m1), Times(Frac(b.n, n), b.m1))
             d == Minus(b.m1, a.m1)
             m2 == Plus(Plus(a.m2, b.m2), Times(Square(d), Frac(a.n * b.n, n)))
  <2>1. n \in Nat \ {0} /\ a.n * b.n \in Nat
    BY <1>1, <1>3
  <2> HIDE DEF n
  <2>2. /\ Frac(a.n, n) \in Fractions /\ Frac(b.n, n) \in Fractions
        /\ Frac(a.n * b.n, n) \in Fractions
    BY <1>1, <2>1, FracIs
  <2>3. Times(Frac(a.n, n), a.m1) \in Fractions /\ Times(Frac(b.n, n), b.m1) \in Fractions
    BY <1>1, <2>2, TimesIs
  <2>4. m1 \in Fractions
    BY <2>3, PlusIs
  <2>5. Square(d) \in Fractions
    BY <1>1, MinusIs, TimesIs DEF Square
  <2>6. Times(Square(d), Frac(a.n * b.n, n)) \in Fractions /\ Plus(a.m2, b.m2) \in Fractions
    BY <1>1, <2>2, <2>5, TimesIs, PlusIs
  <2>7. m2 \in Fractions
    BY <2>6, PlusIs
  <2>8. Pool(a, b) = [n |-> n, m1 |-> m1, m2 |-> m2]
    BY <1>3 DEF Pool, n
  <2> HIDE DEF m1, m2
  <2>9. QED
    BY <2>1, <2>4, <2>7, <2>8 DEF Window, n
<1>4. QED
  BY <1>2, <1>3

-------------------------------------------------------------------------------
IsPooled(f, ws) ==
  f = [i \in 0 .. Len(ws) |-> IF i = 0 THEN Empty ELSE Pool(f[i - 1], ws[i])]

(* What the loops over windows return. *)
LEMMA PooledIs ==
  ASSUME NEW ws \in Seq(Window)
  PROVE  IsPooled(Pooled(ws), ws)
<1> DEFINE n == Len(ws)
           step == [i \in 1 .. n |-> [w \in Window |-> Pool(w, ws[i])]]
<1>1. n \in Nat /\ \A i \in 1 .. n : ws[i] \in Window
  OBVIOUS
<1>2. step \in [1 .. n -> [Window -> Window]]
  BY <1>1, PoolIs
<1>3. \A i \in 1 .. n, w \in Window : step[i][w] = Pool(w, ws[i])
  OBVIOUS
<1> HIDE DEF step
<1>4. PICK f : IsLoop(f, n, Window, Empty, step)
  <2>1. n \in Nat /\ Empty \in Window
    BY <1>1, EmptyIs
  <2> HIDE DEF n
  <2>2. QED
    BY <2>1, <1>2, LoopExists
<1>5. \A i \in 0 .. n : f[i] = IF i = 0 THEN Empty ELSE Pool(f[i - 1], ws[i])
  BY <1>1, <1>3, <1>4 DEF IsLoop
<1>6. IsPooled(f, ws)
  BY <1>4, <1>5 DEF IsPooled, IsLoop
<1>7. IsPooled(CHOOSE g : IsPooled(g, ws), ws)
  BY <1>6
<1>8. Pooled(ws) = CHOOSE g : IsPooled(g, ws)
  BY DEF Pooled, IsPooled
<1>9. QED
  BY <1>7, <1>8

LEMMA PoolAllIs ==
  ASSUME NEW ws \in Seq(Window)
  PROVE  /\ PoolAll(ws) \in Window
         /\ ws # << >> /\ (\A i \in 1 .. Len(ws) : ws[i].n # 0) => PoolAll(ws).n # 0
<1> DEFINE n == Len(ws)
           f == Pooled(ws)
           all == \A i \in 1 .. n : ws[i].n # 0
           S == {i \in Nat : i <= n => f[i] \in Window /\ (i > 0 /\ all => f[i].n # 0)}
<1>1. /\ n \in Nat /\ \A i \in 1 .. n : ws[i] \in Window
      /\ \A i \in 0 .. n : f[i] = IF i = 0 THEN Empty ELSE Pool(f[i - 1], ws[i])
  BY PooledIs DEF IsPooled
<1> HIDE DEF f
<1>2. 0 \in S
  BY <1>1, EmptyIs
<1>3. ASSUME NEW i \in 1 .. n, i - 1 \in S PROVE i \in S
  <2>1. f[i - 1] \in Window /\ ws[i] \in Window /\ f[i] = Pool(f[i - 1], ws[i])
    BY <1>1, <1>3
  <2>2. f[i] \in Window /\ f[i].n = f[i - 1].n + ws[i].n
    BY <2>1, PoolIs
  <2>3. f[i - 1].n \in Nat /\ ws[i].n \in Nat
    BY <2>1, WindowIs
  <2>4. all => f[i].n # 0
    BY <2>2, <2>3
  <2>5. QED
    BY <2>2, <2>4
<1>4. n \in S
  <2> HIDE DEF S
  <2>1. 0 .. n \subseteq S
    BY <1>1, <1>2, <1>3, LoopInduction
  <2>2. QED
    BY <1>1, <2>1
<1>5. ws # << >> => n > 0
  BY <1>1
<1>6. QED
  BY <1>1, <1>4, <1>5 DEF PoolAll, f

ScanTurn(r, w) ==
  IF w.n = 0 THEN r
  ELSE [means |-> Observe(r.means, w.m1), samples |-> r.samples + w.n]

IsScanned(f, ws) ==
  f = [i \in 0 .. Len(ws) |-> IF i = 0 THEN [means |-> Empty, samples |-> 0]
                              ELSE ScanTurn(f[i - 1], ws[i])]

LEMMA ScannedIs ==
  ASSUME NEW ws \in Seq(Window)
  PROVE  IsScanned(Scanned(ws), ws)
<1> DEFINE n == Len(ws)
           T == [means : Window, samples : Nat]
           base == [means |-> Empty, samples |-> 0]
           step == [i \in 1 .. n |-> [r \in T |-> ScanTurn(r, ws[i])]]
<1>1. n \in Nat /\ \A i \in 1 .. n : ws[i] \in Window
  OBVIOUS
<1>2. step \in [1 .. n -> [T -> T]]
  <2>1. ASSUME NEW i \in 1 .. n, NEW r \in T PROVE ScanTurn(r, ws[i]) \in T
    <3>1. r.means \in Window /\ r.samples \in Nat /\ ws[i].n \in Nat /\ ws[i].m1 \in Fractions
      BY <1>1, WindowIs
    <3>2. Observe(r.means, ws[i].m1) \in Window
      BY <3>1, ObserveIs
    <3>3. QED
      BY <3>1, <3>2 DEF ScanTurn
  <2>2. QED
    BY <2>1
<1>3. \A i \in 1 .. n, r \in T : step[i][r] = ScanTurn(r, ws[i])
  OBVIOUS
<1>4. base \in T
  BY EmptyIs
<1> HIDE DEF step, T, base
<1>5. PICK f : IsLoop(f, n, T, base, step)
  <2>1. n \in Nat
    BY <1>1
  <2> HIDE DEF n
  <2>2. QED
    BY <2>1, <1>2, <1>4, LoopExists
<1>6. \A i \in 0 .. n : f[i] = IF i = 0 THEN base ELSE ScanTurn(f[i - 1], ws[i])
  BY <1>1, <1>3, <1>5 DEF IsLoop
<1>7. IsScanned(f, ws)
  BY <1>5, <1>6 DEF IsScanned, IsLoop, base
<1>8. IsScanned(CHOOSE g : IsScanned(g, ws), ws)
  BY <1>7
<1>9. Scanned(ws) = CHOOSE g : IsScanned(g, ws)
  BY DEF Scanned, IsScanned, ScanTurn
<1>10. QED
  BY <1>8, <1>9

(* The windows with samples among the first. *)
NonEmptyTo(ws, i) == {j \in 1 .. i : ws[j].n > 0}

(* It counts the windows with samples; of windows that all have samples    *)
(* and one mean, the means do not vary.                                    *)
LEMMA ScanIs ==
  ASSUME NEW ws \in Seq(Window)
  PROVE  /\ Scan(ws).means \in Window /\ Scan(ws).samples \in Nat
         /\ Scan(ws).samples >= Scan(ws).means.n
         /\ Scan(ws).means.n = Cardinality(NonEmpty(ws))
         /\ (\A i \in 1 .. Len(ws) : ws[i].n # 0) => Scan(ws).means.n = Len(ws)
         /\ (\A i \in 1 .. Len(ws) : ws[i].n # 0 /\ ws[i].m1 = ws[1].m1)
              => Scan(ws).means.m2.num = 0
<1> DEFINE n == Len(ws)
           f == Scanned(ws)
           all == \A i \in 1 .. n : ws[i].n # 0
           same == all /\ \A i \in 1 .. n : ws[i].m1 = ws[1].m1
           Typed(i) == /\ f[i].means \in Window /\ f[i].samples \in Nat
                       /\ f[i].samples >= f[i].means.n
           Counted(i) == /\ IsFiniteSet(NonEmptyTo(ws, i))
                         /\ f[i].means.n = Cardinality(NonEmptyTo(ws, i))
                         /\ all => f[i].means.n = i
           Const(i) == /\ f[i].means.m2.num = 0
                       /\ IF i = 0 THEN f[i].means = Empty
                          ELSE Equal(ws[1].m1, f[i].means.m1)
           Good(i) == Typed(i) /\ Counted(i) /\ (same => Const(i))
           S == {i \in Nat : i <= n => Good(i)}
<1>1. /\ n \in Nat /\ \A i \in 1 .. n : ws[i] \in Window
      /\ f[0] = [means |-> Empty, samples |-> 0]
      /\ \A i \in 1 .. n : f[i] = ScanTurn(f[i - 1], ws[i])
  BY ScannedIs DEF IsScanned
<1> HIDE DEF f
<1>2. Good(0)
  <2>1. NonEmptyTo(ws, 0) = {}
    BY DEF NonEmptyTo
  <2>2. IsFiniteSet(NonEmptyTo(ws, 0)) /\ Cardinality(NonEmptyTo(ws, 0)) = 0
    BY <2>1, FS_EmptySet
  <2>3. f[0].means = Empty /\ f[0].samples = 0
    BY <1>1
  <2>4. Typed(0)
    BY <2>3, EmptyIs
  <2>5. Counted(0) /\ Const(0)
    BY <2>2, <2>3, EmptyIs
  <2>6. QED
    BY <2>4, <2>5
<1>3. ASSUME NEW i \in 1 .. n, Good(i - 1) PROVE Good(i)
  <2>1. /\ f[i] = ScanTurn(f[i - 1], ws[i])
        /\ f[i - 1].means \in Window /\ f[i - 1].samples \in Nat
        /\ f[i - 1].samples >= f[i - 1].means.n
    BY <1>1, <1>3
  <2>2. /\ ws[i].n \in Nat /\ ws[i].m1 \in Fractions /\ f[i - 1].means.n \in Nat
    BY <1>1, <2>1, WindowIs
  <2>3. CASE ws[i].n = 0
    <3>1. f[i] = f[i - 1]
      BY <2>1, <2>3 DEF ScanTurn
    <3>2. NonEmptyTo(ws, i) = NonEmptyTo(ws, i - 1)
      BY <1>1, <2>3 DEF NonEmptyTo
    <3>3. QED
      BY <1>3, <2>3, <3>1, <3>2
  <2>4. CASE ws[i].n # 0
    <3> DEFINE o == Observe(f[i - 1].means, ws[i].m1)
    <3>1. o \in Window /\ o.n = f[i - 1].means.n + 1
      BY <2>1, <2>2, ObserveIs
    <3>2. f[i].means = o /\ f[i].samples = f[i - 1].samples + ws[i].n
      BY <2>1, <2>4 DEF ScanTurn
    <3> HIDE DEF o
    <3>3. Typed(i)
      <4>1. /\ f[i].means \in Window
            /\ f[i].means.n = f[i - 1].means.n + 1
            /\ f[i].samples = f[i - 1].samples + ws[i].n
        BY <3>1, <3>2
      <4>2. ws[i].n >= 1
        BY <2>2, <2>4
      <4>3. QED
        BY <2>1, <2>2, <4>1, <4>2
    <3>4. Counted(i)
      <4>1. NonEmptyTo(ws, i) = NonEmptyTo(ws, i - 1) \cup {i} /\ i \notin NonEmptyTo(ws, i - 1)
        BY <1>1, <2>2, <2>4 DEF NonEmptyTo
      <4>2. /\ IsFiniteSet(NonEmptyTo(ws, i))
            /\ Cardinality(NonEmptyTo(ws, i)) = Cardinality(NonEmptyTo(ws, i - 1)) + 1
        BY <1>3, <4>1, FS_AddElement
      <4>3. QED
        BY <1>1, <1>3, <3>1, <3>2, <4>2
    <3>5. ASSUME same PROVE Const(i)
      <4>1. Const(i - 1) /\ ws[i].m1 = ws[1].m1
        BY <1>3, <3>5
      <4>2. \/ f[i - 1].means = Empty
            \/ Equal(ws[i].m1, f[i - 1].means.m1) /\ f[i - 1].means.m2.num = 0
        BY <4>1
      <4>3. Equal(ws[i].m1, o.m1) /\ o.m2.num = 0
        BY <2>1, <2>2, <4>2, ObserveIs DEF o
      <4>4. QED
        BY <3>2, <4>1, <4>3
    <3>6. QED
      BY <3>3, <3>4, <3>5
  <2>5. QED
    BY <2>3, <2>4
<1> HIDE DEF Good
<1>4. n \in S
  <2>1. 0 \in S
    BY <1>2
  <2>2. ASSUME NEW i \in 1 .. n, i - 1 \in S PROVE i \in S
    BY <1>3, <2>2
  <2> HIDE DEF S
  <2>3. 0 .. n \subseteq S
    BY <1>1, <2>1, <2>2, LoopInduction
  <2>4. QED
    BY <1>1, <2>3
<1>5. Good(n) /\ Scan(ws) = f[n]
  BY <1>1, <1>4 DEF Scan, f
<1>6. NonEmptyTo(ws, n) = NonEmpty(ws)
  BY DEF NonEmptyTo, NonEmpty
<1>7. QED
  BY <1>5, <1>6 DEF Good

-------------------------------------------------------------------------------
LEMMA VarianceRatioIs ==
  ASSUME NEW scan, scan.means \in Window, scan.samples \in Nat,
         scan.means.n # 0, NEW g \in Window
  PROVE  /\ VarianceRatio(scan, g) \in Fractions
         /\ scan.means.m2.num = 0 => VarianceRatio(scan, g).num = 0
<1> DEFINE v == SummaryVariance(g)
           q == Frac(scan.means.n, scan.samples)
           predicted == Times(v, q)
<1>1. v \in Fractions /\ v.num \in Int
  BY VarianceIs
<1>2. CASE scan.samples > 0 /\ v.num > 0
  <2>1. scan.means.n \in Nat /\ scan.means.n > 0
    BY WindowIs
  <2>2. q \in Fractions /\ q.num > 0
    BY <1>2, <2>1, FracIs
  <2> HIDE DEF q
  <2>3. predicted \in Fractions /\ predicted.num > 0
    BY <1>1, <1>2, <2>2, TimesIs
  <2>4. VarianceRatio(scan, g) = Over(SummaryVariance(scan.means), predicted)
    BY <1>2 DEF VarianceRatio, q
  <2> HIDE DEF predicted
  <2>5. /\ SummaryVariance(scan.means) \in Fractions
        /\ scan.means.m2.num = 0 => SummaryVariance(scan.means).num = 0
    BY VarianceIs
  <2>6. predicted.num # 0
    BY <2>3
  <2>7. QED
    BY <2>3, <2>4, <2>5, <2>6, OverIs
<1>3. CASE ~(scan.samples > 0 /\ v.num > 0)
  <2>1. VarianceRatio(scan, g) = ZeroFrac
    BY <1>3 DEF VarianceRatio
  <2>2. QED
    BY <2>1, IntIsFraction DEF ZeroFrac
<1>4. QED
  BY <1>2, <1>3

LEMMA Level2Is ==
  ASSUME NEW ws \in Seq(Window), NEW g \in Window
  PROVE  /\ Level2(ws, g).insufficient \in BOOLEAN
         /\ Level2(ws, g).ratio \in Fractions
         /\ ~Level2(ws, g).insufficient => Cardinality(NonEmpty(ws)) >= 4
<1>1. /\ Scan(ws).means \in Window /\ Scan(ws).samples \in Nat
      /\ Scan(ws).means.n = Cardinality(NonEmpty(ws))
      /\ Scan(ws).means.n \in Nat
  BY ScanIs, WindowIs
<1>2. CASE Scan(ws).means.n < 4
  BY <1>2, IntIsFraction DEF Level2, ZeroFrac
<1>3. CASE ~(Scan(ws).means.n < 4)
  <2>1. VarianceRatio(Scan(ws), g) \in Fractions
    BY <1>1, <1>3, VarianceRatioIs
  <2>2. Level2(ws, g).insufficient = FALSE /\ Level2(ws, g).ratio = VarianceRatio(Scan(ws), g)
    BY <1>3 DEF Level2
  <2>3. Cardinality(NonEmpty(ws)) >= 4
    BY <1>1, <1>3
  <2>4. QED
    BY <2>1, <2>2, <2>3, Zenon
<1>4. QED
  BY <1>2, <1>3

(* The windows of one virtual window. *)
Block(ws, m, v) == SubSeq(ws, (v - 1) * m + 1, v * m)

Before(m, v) == (v - 1) * m     \* the windows before it

LEMMA BlockIs ==
  ASSUME NEW ws \in Seq(Window), NEW m \in Nat \ {0}, NEW v \in 1 .. Len(ws) \div m
  PROVE  /\ Block(ws, m, v) \in Seq(Window) /\ Len(Block(ws, m, v)) = m
         /\ Before(m, v) \in Nat /\ Before(m, v + 1) = Before(m, v) + m
         /\ \A j \in 1 .. m : /\ Before(m, v) + j \in 1 .. Len(ws)
                            /\ Block(ws, m, v)[j] = ws[Before(m, v) + j]
<1> DEFINE q == Len(ws) \div m
           a == (v - 1) * m
           b == v * m
<1>1. Len(ws) \in Nat /\ q \in Nat /\ q * m <= Len(ws) /\ v \in Nat /\ v >= 1 /\ v <= q
  OBVIOUS
<1>2. b = a + m /\ a \in Nat /\ b \in Nat
  BY <1>1
<1>3. b <= Len(ws)
  <2>1. \A i, j \in Nat : i <= j => i * m <= j * m
    OBVIOUS
  <2> HIDE DEF q
  <2>2. b <= q * m
    BY <1>1, <2>1
  <2>3. QED
    BY <1>1, <1>2, <2>2
<1>4. /\ SubSeq(ws, a + 1, b) \in Seq(Window) /\ Len(SubSeq(ws, a + 1, b)) = m
      /\ \A j \in 1 .. m : SubSeq(ws, a + 1, b)[j] = ws[a + j] /\ a + j \in 1 .. Len(ws)
  <2> HIDE DEF a, b, q
  <2>1. \A i \in (a + 1) .. b : i \in 1 .. Len(ws) /\ ws[i] \in Window
    BY <1>1, <1>2, <1>3
  <2>2. SubSeq(ws, a + 1, b) \in Seq(Window)
    BY <1>2, <2>1, SubSeqProperties
  <2>3. Len(SubSeq(ws, a + 1, b)) = m
    BY <1>2, <2>1, SubSeqProperties
  <2>4. \A j \in 1 .. m : SubSeq(ws, a + 1, b)[j] = ws[(a + 1) + j - 1]
    <3>1. a + 1 \in Nat /\ b \in Nat
      BY <1>2
    <3>2. \A j \in 1 .. Len(SubSeq(ws, a + 1, b)) :
            SubSeq(ws, a + 1, b)[j] = ws[(a + 1) + j - 1]
      BY <2>1, <3>1, SubSeqProperties
    <3>3. QED
      BY <2>3, <3>2
  <2>5. \A j \in 1 .. m : (a + 1) + j - 1 = a + j /\ a + j \in 1 .. Len(ws)
    BY <1>1, <1>2, <1>3
  <2>6. QED
    BY <2>2, <2>3, <2>4, <2>5
<1>5. Before(m, v) = a /\ Before(m, v + 1) = b
  <2>1. (v + 1) - 1 = v
    BY <1>1
  <2>2. QED
    BY <2>1 DEF Before
<1> HIDE DEF a, b
<1>6. Block(ws, m, v) = SubSeq(ws, a + 1, b)
  BY DEF Block, a, b
<1>7. QED
  BY <1>2, <1>4, <1>5, <1>6

Period(ws, m) == \A i \in 1 .. Len(ws) - m : ws[i] = ws[i + m]

(* In a ring of period m all blocks of m windows are the same.             *)
LEMMA BlocksRepeat ==
  ASSUME NEW ws \in Seq(Window), NEW m \in Nat \ {0}, Period(ws, m)
  PROVE  \A v \in 1 .. Len(ws) \div m : Block(ws, m, v) = Block(ws, m, 1)
<1> DEFINE q == Len(ws) \div m
           S == {v \in Nat : v + 1 <= q => Block(ws, m, v + 1) = Block(ws, m, 1)}
<1>1. q \in Nat /\ Len(ws) \in Nat
  OBVIOUS
<1>2. 0 \in S
  OBVIOUS
<1>3. ASSUME NEW v \in Nat, v \in S PROVE v + 1 \in S
  <2>1. SUFFICES ASSUME v + 2 <= q PROVE Block(ws, m, v + 2) = Block(ws, m, 1)
    OBVIOUS
  <2>2. Block(ws, m, v + 1) = Block(ws, m, 1)
    BY <1>1, <1>3, <2>1
  <2>3. v + 1 \in 1 .. q /\ v + 2 \in 1 .. q
    BY <1>1, <2>1
  <2> DEFINE a == v + 1
             b == v + 2
             x == Block(ws, m, a)
             y == Block(ws, m, b)
  <2>4. /\ x \in Seq(Window) /\ Len(x) = m /\ Before(m, a) \in Nat
        /\ Before(m, a + 1) = Before(m, a) + m
        /\ \A j \in 1 .. m : x[j] = ws[Before(m, a) + j]
    <3>1. a \in 1 .. q
      BY <2>3
    <3> HIDE DEF a
    <3>2. a \in 1 .. Len(ws) \div m
      BY <3>1
    <3> HIDE DEF q
    <3>3. /\ Block(ws, m, a) \in Seq(Window) /\ Len(Block(ws, m, a)) = m
          /\ Before(m, a) \in Nat /\ Before(m, a + 1) = Before(m, a) + m
      BY <3>2, BlockIs
    <3>4. \A j \in 1 .. m : /\ Before(m, a) + j \in 1 .. Len(ws)
                           /\ Block(ws, m, a)[j] = ws[Before(m, a) + j]
      BY <3>2, BlockIs, Zenon
    <3>5. QED
      BY <3>3, <3>4
  <2>5. /\ y \in Seq(Window) /\ Len(y) = m
        /\ \A j \in 1 .. m : /\ Before(m, b) + j \in 1 .. Len(ws)
                           /\ y[j] = ws[Before(m, b) + j]
    <3>1. b \in 1 .. q
      BY <2>3
    <3> HIDE DEF b
    <3>2. b \in 1 .. Len(ws) \div m
      BY <3>1
    <3> HIDE DEF q
    <3>3. Block(ws, m, b) \in Seq(Window) /\ Len(Block(ws, m, b)) = m
      BY <3>2, BlockIs
    <3>4. \A j \in 1 .. m : /\ Before(m, b) + j \in 1 .. Len(ws)
                           /\ Block(ws, m, b)[j] = ws[Before(m, b) + j]
      BY <3>2, BlockIs, Zenon
    <3>5. QED
      BY <3>3, <3>4
  <2>6. ASSUME NEW j \in 1 .. m PROVE x[j] = y[j]
    <3> DEFINE i == Before(m, a) + j
    <3>1. b = a + 1
      OBVIOUS
    <3> HIDE DEF a, b
    <3>2. i + m = Before(m, b) + j /\ i + m \in 1 .. Len(ws) /\ i \in Nat /\ i >= 1
      BY <2>4, <2>5, <3>1
    <3>3. i \in 1 .. Len(ws) - m
      BY <1>1, <3>2
    <3>4. ws[i] = ws[i + m]
      BY <3>3 DEF Period
    <3>5. QED
      BY <2>4, <2>5, <3>2, <3>4
  <2>7. x = y
    <3>1. \A j \in 1 .. Len(x) : x[j] = y[j]
      BY <2>4, <2>6
    <3> HIDE DEF x, y
    <3>2. QED
      BY <2>4, <2>5, <3>1, SeqEqual
  <2>8. QED
    BY <2>2, <2>7
<1>4. Nat \subseteq S
  <2> HIDE DEF S
  <2>1. QED
    BY <1>2, <1>3, SetInduction
<1>5. ASSUME NEW v \in 1 .. q PROVE Block(ws, m, v) = Block(ws, m, 1)
  <2>1. v - 1 \in Nat /\ (v - 1) + 1 = v /\ v <= q
    BY <1>1
  <2>2. v - 1 \in S
    BY <1>4, <2>1
  <2>3. QED
    BY <2>1, <2>2
<1>6. QED
  BY <1>5

(* A sweep's point over windows that all have samples is there for every   *)
(* block, and 0 where all blocks are the same.                             *)
LEMMA SweepPointIs ==
  ASSUME NEW ws \in Seq(Window), NEW m \in Nat \ {0}, NEW g \in Window
  PROVE  /\ SweepPoint(ws, m, g).ratio \in Fractions
         /\ SweepPoint(ws, m, g).n_virtual \in Nat /\ SweepPoint(ws, m, g).k = m
         /\ (\A i \in 1 .. Len(ws) : ws[i].n # 0)
              => /\ SweepPoint(ws, m, g).n_virtual = Len(ws) \div m
                 /\ Period(ws, m) => SweepPoint(ws, m, g).ratio.num = 0
<1> DEFINE q == Len(ws) \div m
           virtuals == Virtuals(ws, m)
           scan == Scan(virtuals)
           p == SweepPoint(ws, m, g)
<1>1. q \in Nat /\ \A v \in 1 .. q : Block(ws, m, v) \in Seq(Window)
  <2>1. q \in Nat
    OBVIOUS
  <2>2. \A v \in 1 .. q : Block(ws, m, v) \in Seq(Window)
    BY BlockIs
  <2>3. QED
    BY <2>1, <2>2
<1>2. \A v \in 1 .. q : PoolAll(Block(ws, m, v)) \in Window
  BY <1>1, PoolAllIs
<1>3. virtuals = [v \in 1 .. q |-> PoolAll(Block(ws, m, v))]
  BY DEF Virtuals, Block
<1>4. virtuals \in Seq(Window) /\ Len(virtuals) = q
  <2> HIDE DEF q, virtuals
  <2>1. QED
    BY <1>1, <1>2, <1>3
<1> HIDE DEF virtuals
<1>5. /\ scan.means \in Window /\ scan.samples \in Nat /\ scan.means.n \in Nat
      /\ (\A v \in 1 .. q : virtuals[v].n # 0) => scan.means.n = q
      /\ (\A v \in 1 .. q : virtuals[v].n # 0 /\ virtuals[v].m1 = virtuals[1].m1)
           => scan.means.m2.num = 0
  BY <1>4, ScanIs, WindowIs
<1> HIDE DEF scan
<1>6. p = [k |-> m, n_virtual |-> scan.means.n,
           ratio |-> IF scan.means.n = 0 THEN ZeroFrac ELSE VarianceRatio(scan, g)]
  BY DEF SweepPoint, scan, virtuals
<1> HIDE DEF p
<1>7. /\ ZeroFrac \in Fractions /\ ZeroFrac.num = 0
      /\ scan.means.n # 0 =>
           /\ VarianceRatio(scan, g) \in Fractions
           /\ scan.means.m2.num = 0 => VarianceRatio(scan, g).num = 0
  BY <1>5, IntIsFraction, VarianceRatioIs DEF ZeroFrac
<1>8. p.ratio \in Fractions /\ p.n_virtual \in Nat /\ p.k = m
  BY <1>5, <1>6, <1>7
<1>9. ASSUME \A i \in 1 .. Len(ws) : ws[i].n # 0
      PROVE  \A v \in 1 .. q : virtuals[v].n # 0
  <2>1. ASSUME NEW v \in 1 .. q PROVE PoolAll(Block(ws, m, v)).n # 0
    <3> DEFINE b == Block(ws, m, v)
    <3>1. b \in Seq(Window) /\ Len(b) = m /\ \A j \in 1 .. m : b[j].n # 0
      <4>1. /\ b \in Seq(Window) /\ Len(b) = m
            /\ \A j \in 1 .. m : /\ Before(m, v) + j \in 1 .. Len(ws)
                               /\ b[j] = ws[Before(m, v) + j]
        BY BlockIs
      <4> HIDE DEF b
      <4>2. QED
        BY <4>1, <1>9
    <3>2. b # << >>
      BY <3>1
    <3> HIDE DEF b
    <3>3. PoolAll(b).n # 0
      BY <3>1, <3>2, PoolAllIs
    <3>4. QED
      BY <3>3 DEF b
  <2>2. QED
    BY <1>3, <2>1
<1>10. ASSUME Period(ws, m)
       PROVE  \A v \in 1 .. q : virtuals[v].m1 = virtuals[1].m1
  <2>1. ASSUME NEW v \in 1 .. q PROVE virtuals[v] = virtuals[1]
    <3>1. 1 \in 1 .. q
      BY <1>1
    <3>2. Block(ws, m, v) = Block(ws, m, 1)
      BY <1>10, BlocksRepeat
    <3>3. QED
      BY <1>3, <3>1, <3>2
  <2>2. QED
    BY <2>1
<1>11. QED
  BY <1>5, <1>6, <1>7, <1>8, <1>9, <1>10 DEF p

-------------------------------------------------------------------------------
(* The evaluators: what a status depends on, and that it is one.           *)
EvaluatorIs(e) ==
  \/ e = "sample_count" \/ e = "variance_sanity" \/ e = "kurtosis_sanity"
  \/ e = "carleman_partial_sum" \/ e = "hankel_conditioning" \/ e = "jb_normality"
  \/ e = "edgeworth_pdf_consistency" \/ e = "hill_tail_index"
  \/ e = "nyquist_confidence" \/ e = "autocorr_residual" \/ e = "spectral_sweep"
  \/ e = "half_split_stability"

LEMMA EvaluatorsAre ==
  /\ Len(Evaluators) = 12 /\ DOMAIN Evaluators = 1 .. 12
  /\ \A i \in 1 .. 12 : EvaluatorIs(Evaluators[i])
  /\ \A i \in 1 .. 12 : Evaluators[i] \in Names
  /\ \A e \in Names : EvaluatorIs(e) /\ \E i \in 1 .. 12 : e = Evaluators[i]
<1>1. Len(Evaluators) = 12 /\ DOMAIN Evaluators = 1 .. 12
  BY DEF Evaluators
<1>2. ASSUME NEW i \in 1 .. 12 PROVE EvaluatorIs(Evaluators[i])
  <2>1. \/ i = 1 \/ i = 2 \/ i = 3 \/ i = 4 \/ i = 5 \/ i = 6
        \/ i = 7 \/ i = 8 \/ i = 9 \/ i = 10 \/ i = 11 \/ i = 12
    OBVIOUS
  <2>2. QED
    BY <2>1 DEF Evaluators, EvaluatorIs
<1>3. QED
  BY <1>1, <1>2 DEF Names

LEMMA FindingIs ==
  ASSUME TypeOK, NEW name
  PROVE  Finding(name) \in Status
<1>1. finding.status \in Status
  <2>1. CASE finding = [name |-> "none", status |-> GREEN]
    BY <2>1 DEF Status, GREEN, RED
  <2>2. CASE \E e \in DOMAIN OpenBands : finding \in [name : {e}, status : OpenBands[e]]
    BY <2>2 DEF OpenBands, Status, GREEN, YELLOW, AMBER, RED
  <2>3. QED
    BY <2>1, <2>2 DEF TypeOK, Findings
<1>2. QED
  BY <1>1 DEF Finding, Status, GREEN, RED

LEMMA StatusIs ==
  ASSUME TypeOK, NEW e \in Names
  PROVE  StatusOf(e) \in Status
<1>1. /\ GREEN \in Status /\ YELLOW \in Status /\ AMBER \in Status /\ RED \in Status
      /\ \A name : Finding(name) \in Status
  BY FindingIs DEF Status, GREEN, YELLOW, AMBER, RED
<1>2. /\ SampleCountStatus \in Status /\ VarianceStatus \in Status
      /\ KurtosisStatus \in Status /\ HillStatus \in Status
      /\ \A name, n : FromM4(name, n) \in Status
  BY <1>1 DEF SampleCountStatus, VarianceStatus, KurtosisStatus, HillStatus, FromM4
<1>3. /\ NyquistStatus \in Status /\ AutocorrStatus \in Status
      /\ SpectralStatus \in Status
  BY <1>1 DEF NyquistStatus, AutocorrStatus, SpectralStatus
<1>4. HalfSplitStatus \in Status
  BY <1>1, Zenon DEF HalfSplitStatus
<1>5. EvaluatorIs(e)
  BY EvaluatorsAre
<1>6. QED
  BY <1>2, <1>3, <1>4, <1>5 DEF EvaluatorIs, StatusOf, CarlemanStatus, HankelStatus,
     JbStatus, EdgeworthStatus

(* A status is computed from what no evaluator changes. *)
LEMMA StatusKept ==
  ASSUME UNCHANGED <<ring, order, finding, global, l2, points, min_idx>>
  PROVE  \A e : StatusOf(e)' = StatusOf(e) /\ (Silent(e)' <=> Silent(e))
<1>1. /\ SampleCountStatus' = SampleCountStatus
      /\ VarianceStatus' = VarianceStatus
  BY DEF SampleCountStatus, VarianceStatus
<1>2. \A name : Finding(name)' = Finding(name)
  BY DEF Finding
<1>3. /\ KurtosisStatus' = KurtosisStatus /\ HillStatus' = HillStatus
      /\ CarlemanStatus' = CarlemanStatus /\ HankelStatus' = HankelStatus
      /\ JbStatus' = JbStatus /\ EdgeworthStatus' = EdgeworthStatus
  BY DEF KurtosisStatus, HillStatus, CarlemanStatus, HankelStatus, JbStatus,
     EdgeworthStatus, FromM4, Finding
<1>4. NyquistStatus' = NyquistStatus /\ SpectralStatus' = SpectralStatus
  BY DEF NyquistStatus, SpectralStatus
<1>5. AutocorrStatus' = AutocorrStatus
  BY DEF AutocorrStatus, AutocorrAbove
<1>6. HalfSplitStatus' = HalfSplitStatus
  BY DEF HalfSplitStatus
<1>7. \A e : StatusOf(e)' = StatusOf(e)
  BY <1>1, <1>3, <1>4, <1>5, <1>6 DEF StatusOf
<1>8. \A e : Silent(e)' <=> Silent(e)
  BY DEF Silent
<1>9. QED
  BY <1>7, <1>8

-------------------------------------------------------------------------------
(* The inductive invariant: what was computed before the evaluators run,   *)
(* the points of the sweep, and the signals of the evaluators so far.      *)
Computed ==
  pc # "level2" => global = PoolAll(ring) /\ l2 = Level2(ring, global)

(* The sizes the first three points are of, and the size of the next. *)
Doubling ==
  /\ Len(points) = 0 => k = 1
  /\ Len(points) = 1 => k = 2
  /\ Len(points) = 2 => k = 4
  /\ Len(points) > 0 => points[1].k = 1
  /\ Len(points) > 1 => points[2].k = 2
  /\ Len(points) > 2 => points[3].k = 4

Swept ==
  /\ pc = "level2" => points = << >>
  /\ \A i \in DOMAIN points : points[i] = SweepPoint(ring, points[i].k, global)
  /\ \A i \in DOMAIN points : points[i].ratio.num <= 0 => points[min_idx].ratio.num <= 0
  /\ pc \in {"evaluate", "done"} => ~SweepGoesOn

Spoken(j) == ~Silent(Evaluators[j])

Signalled ==
  /\ pc \in {"level2", "sweep"} => evaluated = 0
  /\ pc = "evaluate" => evaluated < 12
  /\ pc = "done" => evaluated = 12
  /\ Len(signals) <= evaluated
  /\ \A i \in DOMAIN signals : \E j \in 1 .. evaluated :
       /\ Spoken(j) /\ signals[i].name = Evaluators[j]
       /\ signals[i].status = StatusOf(Evaluators[j])
  /\ \A j \in 1 .. evaluated : Spoken(j) =>
       \E i \in DOMAIN signals : signals[i].name = Evaluators[j]

Worst ==
  /\ \A i \in DOMAIN signals : signals[i].status <= overall
  /\ overall = GREEN \/ \E i \in DOMAIN signals : signals[i].status = overall

IInv == TypeOK /\ Computed /\ Doubling /\ Swept /\ Signalled /\ Worst

LEMMA InitIInv == Init => IInv
<1> SUFFICES ASSUME Init PROVE IInv
  OBVIOUS
<1>1. ring \in Seq(Window)
  BY VerdictAssumption DEF Init
<1>2. l2.insufficient \in BOOLEAN /\ l2.ratio \in Fractions
  BY Level2Is, EmptyIs, EmptySeq DEF Init, NoLevel2
<1>3. TypeOK
  BY <1>1, <1>2, EmptyIs, EvaluatorsAre, VerdictAssumption DEF Init, TypeOK, Status, GREEN, RED
<1>4. Computed /\ Doubling /\ Swept
  BY DEF Init, Computed, Doubling, Swept
<1>5. Signalled /\ Worst
  BY DEF Init, Signalled, Worst
<1>6. QED
  BY <1>3, <1>4, <1>5 DEF IInv

(* Nothing but the evaluators touches the signals. *)
LEMMA QuietStep ==
  ASSUME IInv, UNCHANGED <<evaluated, signals, overall>>, evaluated = 0,
         pc' \in {"level2", "sweep", "evaluate"}
  PROVE  Signalled' /\ Worst'
<1>1. signals = << >>
  BY DEF IInv, TypeOK, Signalled
<1>2. QED
  BY <1>1 DEF IInv, Signalled, Worst

LEMMA LevelStep ==
  ASSUME IInv, AnalyzeLevel2
  PROVE  IInv'
<1>1. /\ ring' = ring /\ order' = order /\ finding' = finding /\ evaluated' = evaluated
      /\ k' = k /\ points' = points /\ min_idx' = min_idx
      /\ signals' = signals /\ overall' = overall
      /\ pc = "level2" /\ pc' = "sweep"
      /\ global' = PoolAll(ring) /\ l2' = Level2(ring, global')
  BY DEF AnalyzeLevel2, input
<1>2. ring \in Seq(Window)
  BY DEF IInv, TypeOK
<1>3. global' \in Window
  BY <1>1, <1>2, PoolAllIs
<1>4. l2'.insufficient \in BOOLEAN /\ l2'.ratio \in Fractions
  BY <1>1, <1>2, <1>3, Level2Is
<1>5. TypeOK'
  BY <1>1, <1>3, <1>4 DEF IInv, TypeOK
<1>6. Computed' /\ Doubling'
  BY <1>1 DEF IInv, Computed, Doubling
<1>7. Swept'
  BY <1>1 DEF IInv, Swept
<1>8. Signalled' /\ Worst'
  BY <1>1, QuietStep DEF IInv, Signalled
<1>9. QED
  BY <1>5, <1>6, <1>7, <1>8 DEF IInv

LEMMA SweepStep ==
  ASSUME IInv, Sweep
  PROVE  IInv'
<1> DEFINE p == SweepPoint(ring, k, global)
<1>1. /\ ring' = ring /\ order' = order /\ finding' = finding /\ evaluated' = evaluated
      /\ global' = global /\ l2' = l2 /\ pc' = pc /\ pc = "sweep"
      /\ signals' = signals /\ overall' = overall /\ k' = 2 * k
      /\ points' = Append(points, p)
      /\ min_idx' = IF points = << >> \/ LessThan(p.ratio, points[min_idx].ratio)
                    THEN Len(points) + 1 ELSE min_idx
      /\ Len(points) < MaxPoints
  BY DEF Sweep, input, SweepGoesOn
<1>2. /\ ring \in Seq(Window) /\ global \in Window /\ k \in Nat \ {0}
      /\ points \in Seq(Point) /\ min_idx \in 0 .. Len(points)
      /\ points # << >> => min_idx # 0
  BY DEF IInv, TypeOK
<1>3. /\ p.ratio \in Fractions /\ p.n_virtual \in Nat /\ p.k = k
      /\ p = [k |-> p.k, n_virtual |-> p.n_virtual, ratio |-> p.ratio]
  BY <1>2, SweepPointIs DEF SweepPoint
<1> HIDE DEF p
<1>4. p \in Point
  BY <1>2, <1>3 DEF Point
<1> DEFINE n == Len(points)
<1>5. /\ n \in Nat /\ points' \in Seq(Point) /\ Len(points') = n + 1
      /\ DOMAIN points = 1 .. n /\ DOMAIN points' = 1 .. (n + 1)
      /\ \A i \in 1 .. n : points'[i] = points[i]
      /\ points'[n + 1] = p
      /\ n = 0 <=> points = << >>
  BY <1>1, <1>2, <1>4
<1>6. TypeOK'
  <2>1. min_idx' \in 0 .. Len(points') /\ min_idx' # 0
    BY <1>1, <1>2, <1>5
  <2>2. k' \in Nat \ {0} /\ Len(points') <= MaxPoints
    BY <1>1, <1>2, <1>5, VerdictAssumption
  <2>3. QED
    BY <1>1, <1>5, <2>1, <2>2 DEF IInv, TypeOK
<1>7. Computed'
  BY <1>1 DEF IInv, Computed
<1>8. Doubling'
  <2>1. Doubling /\ k \in Nat
    BY <1>2 DEF IInv
  <2>2. n = 0 \/ n = 1 \/ n = 2 \/ n > 2
    BY <1>5
  <2>3. QED
    BY <1>1, <1>3, <1>5, <2>1, <2>2 DEF Doubling
<1>9. Swept'
  <2>1. \A i \in 1 .. n : points[i] = SweepPoint(ring, points[i].k, global)
    BY <1>5 DEF IInv, Swept
  <2>2. p = SweepPoint(ring, p.k, global)
    BY <1>3 DEF p
  <2>3. \A i \in 1 .. (n + 1) : points'[i] = SweepPoint(ring, points'[i].k, global)
    BY <1>5, <2>1, <2>2
  <2>4. ASSUME NEW i \in 1 .. (n + 1), points'[i].ratio.num <= 0
        PROVE  points'[min_idx'].ratio.num <= 0
    <3>1. CASE n = 0
      BY <1>1, <1>5, <2>4, <3>1
    <3>2. CASE n # 0
      <4> DEFINE least == points[min_idx]
      <4>1. least \in Point /\ least.ratio \in Fractions /\ min_idx \in 1 .. n
        <5>1. min_idx \in 1 .. n
          BY <1>2, <1>5, <3>2
        <5>2. least \in Point
          BY <1>2, <5>1
        <5>3. QED
          BY <5>1, <5>2 DEF Point
      <4>2. i \in 1 .. n => least.ratio.num <= 0
        BY <1>5, <2>4 DEF IInv, Swept
      <4>3. i = n + 1 => p.ratio.num <= 0
        BY <1>5, <2>4
      <4> HIDE DEF least
      <4>4. CASE LessThan(p.ratio, least.ratio)
        <5>1. p.ratio.num <= 0
          BY <1>3, <4>1, <4>2, <4>3, <4>4, LessThanSigns
        <5>2. min_idx' = n + 1
          BY <1>1, <4>4 DEF least
        <5>3. QED
          BY <1>5, <5>1, <5>2
      <4>5. CASE ~LessThan(p.ratio, least.ratio)
        <5>1. least.ratio.num <= 0
          BY <1>3, <4>1, <4>2, <4>3, <4>5, LessThanSigns
        <5>2. min_idx' = min_idx /\ points'[min_idx] = least
          BY <1>1, <1>5, <3>2, <4>1, <4>5 DEF least
        <5>3. QED
          BY <5>1, <5>2
      <4>6. QED
        BY <4>4, <4>5
    <3>3. QED
      BY <3>1, <3>2
  <2>5. QED
    BY <1>1, <1>5, <2>3, <2>4 DEF Swept
<1>10. Signalled' /\ Worst'
  BY <1>1, QuietStep DEF IInv, Signalled
<1>11. QED
  BY <1>6, <1>7, <1>8, <1>9, <1>10 DEF IInv

LEMMA EndSweepStep ==
  ASSUME IInv, EndSweep
  PROVE  IInv'
<1>1. /\ UNCHANGED <<ring, order, finding, evaluated, global, l2, k, points, min_idx>>
      /\ UNCHANGED <<signals, overall>>
      /\ pc = "sweep" /\ pc' = "evaluate" /\ ~SweepGoesOn
  BY DEF EndSweep, input
<1>2. TypeOK' /\ Computed' /\ Doubling'
  BY <1>1 DEF IInv, TypeOK, Computed, Doubling
<1>3. SweepGoesOn' <=> SweepGoesOn
  BY <1>1 DEF SweepGoesOn
<1>4. Swept'
  BY <1>1, <1>3 DEF IInv, Swept
<1>5. Signalled' /\ Worst'
  BY <1>1, QuietStep DEF IInv, Signalled
<1>6. QED
  BY <1>2, <1>4, <1>5 DEF IInv

LEMMA EvaluateStep ==
  ASSUME IInv, Evaluate
  PROVE  IInv'
<1> DEFINE j == evaluated + 1
           name == Evaluators[j]
           signal == [name |-> name, status |-> StatusOf(name)]
<1>1. /\ UNCHANGED <<ring, order, finding, global, l2, k, points, min_idx>>
      /\ pc = "evaluate" /\ evaluated' = j
      /\ pc' = IF j = 12 THEN "done" ELSE pc
      /\ IF Silent(name) THEN UNCHANGED <<signals, overall>> ELSE Push(name, StatusOf(name))
  BY EvaluatorsAre DEF Evaluate, input
<1>2. /\ TypeOK /\ Signalled /\ Worst
      /\ evaluated \in 0 .. 11 /\ j \in 1 .. 12 /\ Len(signals) <= evaluated
      /\ signals \in Seq([name : Names, status : Status]) /\ overall \in Status
  BY <1>1, EvaluatorsAre DEF IInv, TypeOK, Signalled
<1>3. name \in Names /\ StatusOf(name) \in Status
  BY <1>2, EvaluatorsAre, StatusIs
<1>4. \A e : StatusOf(e)' = StatusOf(e) /\ (Silent(e)' <=> Silent(e))
  BY <1>1, StatusKept
<1> DEFINE n == Len(signals)
<1>5. n \in Nat /\ DOMAIN signals = 1 .. n
  BY <1>2
<1>6. /\ Silent(name) => signals' = signals /\ overall' = overall
      /\ ~Silent(name) => /\ signals' = Append(signals, signal)
                          /\ overall' = IF StatusOf(name) > overall THEN StatusOf(name)
                                        ELSE overall
  <2>1. n < MaxSignals
    BY <1>2, <1>5, VerdictAssumption, EvaluatorsAre
  <2>2. QED
    BY <1>1, <2>1 DEF Push
<1>7. ~Silent(name) => /\ Len(signals') = n + 1 /\ DOMAIN signals' = 1 .. (n + 1)
                       /\ \A i \in 1 .. n : signals'[i] = signals[i]
                       /\ signals'[n + 1] = signal
                       /\ signals' \in Seq([name : Names, status : Status])
  <2>1. signal \in [name : Names, status : Status]
    BY <1>3
  <2> DEFINE T == [name : Names, status : Status]
  <2> HIDE DEF signal, T
  <2>2. signals \in Seq(T) /\ signal \in T
    BY <1>2, <2>1 DEF T
  <2>3. ~Silent(name) => signals' = Append(signals, signal)
    BY <1>6
  <2>4. ~Silent(name) => signals' \in Seq(T)
    BY <2>2, <2>3
  <2>5. QED
    BY <1>5, <2>2, <2>3, <2>4 DEF T
<1>8. signal.name = name /\ signal.status = StatusOf(name)
  OBVIOUS
<1> HIDE DEF signal
<1>9. TypeOK'
  <2>1. /\ signals' \in Seq([name : Names, status : Status]) /\ Len(signals') <= MaxSignals
        /\ overall' \in Status
    <3>1. CASE Silent(name)
      BY <1>2, <1>6, <3>1 DEF TypeOK
    <3>2. CASE ~Silent(name)
      <4>1. signals' \in Seq([name : Names, status : Status]) /\ overall' \in Status
        BY <1>2, <1>3, <1>6, <1>7, <3>2
      <4>2. Len(signals') <= MaxSignals
        BY <1>2, <1>3, <1>5, <1>6, <1>7, <3>2, VerdictAssumption, EvaluatorsAre
      <4>3. QED
        BY <4>1, <4>2
    <3>3. QED
      BY <3>1, <3>2
  <2>2. evaluated' \in 0 .. 12 /\ pc' \in {"level2", "sweep", "evaluate", "done"}
    BY <1>1, <1>2
  <2>3. QED
    BY <1>1, <1>2, <2>1, <2>2, EvaluatorsAre DEF TypeOK
<1>10. Computed' /\ Doubling'
  BY <1>1 DEF IInv, Computed, Doubling
<1>11. Swept'
  <2>1. SweepGoesOn' <=> SweepGoesOn
    BY <1>1 DEF SweepGoesOn
  <2>2. QED
    BY <1>1, <2>1 DEF IInv, Swept
<1>12. Signalled'
  <2>1. \A i \in 1 .. n : \E m \in 1 .. evaluated :
          /\ Spoken(m) /\ signals[i].name = Evaluators[m]
          /\ signals[i].status = StatusOf(Evaluators[m])
    BY <1>2, <1>5 DEF Signalled
  <2>2. \A m \in 1 .. evaluated : Spoken(m) => \E i \in 1 .. n : signals[i].name = Evaluators[m]
    BY <1>2, <1>5 DEF Signalled
  <2>3. \A m : Spoken(m)' <=> Spoken(m)
    BY <1>4 DEF Spoken
  <2>4. \A i \in DOMAIN signals' : \E m \in 1 .. j :
          /\ Spoken(m) /\ signals'[i].name = Evaluators[m]
          /\ signals'[i].status = StatusOf(Evaluators[m])
    <3>1. \A m \in 1 .. evaluated : m \in 1 .. j
      BY <1>2
    <3>2. CASE Silent(name)
      BY <1>5, <1>6, <2>1, <3>1, <3>2
    <3>3. CASE ~Silent(name)
      <4>1. Spoken(j) /\ j \in 1 .. j
        BY <1>2, <3>3 DEF Spoken
      <4>2. \A i \in 1 .. (n + 1) : i \in 1 .. n \/ i = n + 1
        BY <1>5
      <4>3. QED
        BY <1>7, <1>8, <2>1, <3>1, <3>3, <4>1, <4>2
    <3>4. QED
      BY <3>2, <3>3
  <2>5. \A m \in 1 .. j : Spoken(m) =>
          \E i \in DOMAIN signals' : signals'[i].name = Evaluators[m]
    <3>1. \A m \in 1 .. j : m \in 1 .. evaluated \/ m = j
      BY <1>2
    <3>2. CASE Silent(name)
      BY <1>5, <1>6, <2>2, <3>1, <3>2 DEF Spoken
    <3>3. CASE ~Silent(name)
      <4>1. n + 1 \in 1 .. (n + 1) /\ \A i \in 1 .. n : i \in 1 .. (n + 1)
        BY <1>5
      <4>2. QED
        BY <1>7, <1>8, <2>2, <3>1, <3>3, <4>1
    <3>4. QED
      BY <3>2, <3>3
  <2>6. \A i \in DOMAIN signals' : \E m \in 1 .. evaluated' :
          /\ Spoken(m)' /\ signals'[i].name = Evaluators[m]
          /\ signals'[i].status = StatusOf(Evaluators[m])'
    BY <1>1, <1>4, <2>3, <2>4
  <2>7. \A m \in 1 .. evaluated' : Spoken(m)' =>
          \E i \in DOMAIN signals' : signals'[i].name = Evaluators[m]
    BY <1>1, <2>3, <2>5
  <2>8. Len(signals') <= evaluated'
    BY <1>1, <1>2, <1>5, <1>6, <1>7
  <2>9. /\ pc' \notin {"level2", "sweep"}
        /\ (pc' = "evaluate" => evaluated' < 12) /\ (pc' = "done" => evaluated' = 12)
    BY <1>1, <1>2
  <2>10. QED
    BY <2>6, <2>7, <2>8, <2>9 DEF Signalled
<1>13. Worst'
  <2>1. CASE Silent(name)
    BY <1>2, <1>6, <2>1 DEF Worst
  <2>2. CASE ~Silent(name)
    <3>1. \A i \in 1 .. n : signals[i].status \in Int
      <4>1. \A i \in 1 .. n : signals[i] \in [name : Names, status : Status]
        <5> DEFINE T == [name : Names, status : Status]
        <5>1. signals \in Seq(T)
          BY <1>2
        <5> HIDE DEF T
        <5>2. \A i \in 1 .. n : signals[i] \in T
          BY <5>1, ElementOfSeq
        <5>3. QED
          BY <5>2 DEF T
      <4>2. \A i \in 1 .. n : signals[i].status \in Status
        BY <4>1
      <4>3. QED
        BY <4>2 DEF Status, GREEN, RED
    <3>2. StatusOf(name) \in Int /\ overall \in Int
      BY <1>2, <1>3 DEF Status, GREEN, RED
    <3>3. \A i \in 1 .. (n + 1) : i \in 1 .. n \/ i = n + 1
      BY <1>5
    <3>4. \A i \in 1 .. (n + 1) : signals'[i].status <= overall'
      BY <1>2, <1>5, <1>6, <1>7, <1>8, <2>2, <3>1, <3>2, <3>3 DEF Worst
    <3>5. overall' = GREEN \/ \E i \in 1 .. (n + 1) : signals'[i].status = overall'
      <4>1. CASE StatusOf(name) > overall
        <5>1. n + 1 \in 1 .. (n + 1) /\ signals'[n + 1].status = overall'
          BY <1>5, <1>6, <1>7, <1>8, <2>2, <4>1
        <5>2. QED
          BY <5>1
      <4>2. CASE ~(StatusOf(name) > overall)
        <5>1. overall' = overall /\ \A i \in 1 .. n : i \in 1 .. (n + 1)
          BY <1>5, <1>6, <2>2, <4>2
        <5>2. QED
          BY <1>2, <1>5, <1>7, <2>2, <5>1 DEF Worst
      <4>3. QED
        BY <4>1, <4>2
    <3>6. QED
      BY <1>7, <2>2, <3>4, <3>5 DEF Worst
  <2>3. QED
    BY <2>1, <2>2
<1>14. QED
  BY <1>9, <1>10, <1>11, <1>12, <1>13 DEF IInv

LEMMA StutterStep ==
  ASSUME IInv, UNCHANGED vars
  PROVE  IInv'
<1>1. /\ UNCHANGED <<ring, order, finding, global, l2, k, points, min_idx>>
      /\ UNCHANGED <<pc, evaluated, signals, overall>>
  BY DEF vars, input
<1>2. TypeOK' /\ Computed' /\ Doubling' /\ Worst'
  BY <1>1 DEF IInv, TypeOK, Computed, Doubling, Worst
<1>3. SweepGoesOn' <=> SweepGoesOn
  BY <1>1 DEF SweepGoesOn
<1>4. Swept'
  BY <1>1, <1>3 DEF IInv, Swept
<1>5. \A e : StatusOf(e)' = StatusOf(e) /\ (Silent(e)' <=> Silent(e))
  BY <1>1, StatusKept
<1>6. \A m : Spoken(m)' <=> Spoken(m)
  BY <1>5 DEF Spoken
<1>7. Signalled'
  BY <1>1, <1>5, <1>6 DEF IInv, Signalled
<1>8. QED
  BY <1>2, <1>4, <1>7 DEF IInv

(* The invariant holds of every reachable state, whatever the rings, the   *)
(* thresholds and the bounds of the sweep and of the report.               *)
THEOREM VerdictInvariant == Spec => []IInv
<1>1. IInv /\ [Next]_vars => IInv'
  BY LevelStep, SweepStep, EndSweepStep, EvaluateStep, StutterStep DEF Next
<1>2. QED
  BY InitIInv, <1>1, PTL DEF Spec

-------------------------------------------------------------------------------
(* Type correctness of the verdict and of what it is computed from: the    *)
(* counts are numbers, every fraction has a denominator.                   *)
THEOREM VerdictTyped == Spec => []TypeOK
<1>1. IInv => TypeOK
  BY DEF IInv
<1>2. QED
  BY VerdictInvariant, <1>1, PTL

(* When all have spoken, the status of each evaluator is in the report and *)
(* the overall verdict is the worst of them.                               *)
LEMMA AllSpoken ==
  ASSUME IInv, pc = "done", NEW e \in Names, ~Silent(e)
  PROVE  /\ \E i \in DOMAIN signals : signals[i].name = e /\ signals[i].status = StatusOf(e)
         /\ StatusOf(e) <= overall
<1>1. PICK j \in 1 .. 12 : e = Evaluators[j]
  BY EvaluatorsAre
<1>2. Signalled /\ evaluated = 12
  BY DEF IInv, Signalled
<1>3. Spoken(j)
  BY <1>1 DEF Spoken
<1>4. PICK i \in DOMAIN signals : signals[i].name = e
  BY <1>1, <1>2, <1>3 DEF Signalled
<1>5. signals[i].status = StatusOf(e)
  BY <1>2, <1>4 DEF Signalled
<1>6. StatusOf(e) <= overall
  BY <1>5 DEF IInv, Worst
<1>7. QED
  BY <1>4, <1>5, <1>6

(* The overall verdict is the worst of all evaluators that have spoken,    *)
(* each of which has its signal in the report.                             *)
THEOREM VerdictIsWorst == Spec => []OverallIsWorst
<1>1. IInv => OverallIsWorst
  <2> SUFFICES ASSUME IInv, pc = "done"
               PROVE  LET speaking == {e \in Names : ~Silent(e)} IN
                        /\ {signals[i].name : i \in DOMAIN signals} = speaking
                        /\ \A e \in speaking : StatusOf(e) <= overall
                        /\ \E e \in speaking : StatusOf(e) = overall
    BY DEF OverallIsWorst
  <2> DEFINE speaking == {e \in Names : ~Silent(e)}
  <2>1. \A i \in DOMAIN signals : signals[i].name \in speaking /\
          signals[i].status = StatusOf(signals[i].name)
    <3>1. ASSUME NEW i \in DOMAIN signals
          PROVE  /\ signals[i].name \in speaking
                 /\ signals[i].status = StatusOf(signals[i].name)
      <4>1. evaluated = 12
        BY DEF IInv, Signalled
      <4>2. PICK j \in 1 .. 12 : /\ Spoken(j) /\ signals[i].name = Evaluators[j]
                                /\ signals[i].status = StatusOf(Evaluators[j])
        BY <4>1 DEF IInv, Signalled
      <4>3. QED
        BY <4>2, EvaluatorsAre DEF Spoken
    <3>2. QED
      BY <3>1
  <2>2. \A e \in speaking : StatusOf(e) <= overall /\
          \E i \in DOMAIN signals : signals[i].name = e
    BY AllSpoken
  <2>3. {signals[i].name : i \in DOMAIN signals} = speaking
    BY <2>1, <2>2
  <2>4. \E e \in speaking : StatusOf(e) = overall
    <3>1. CASE overall = GREEN
      <4> DEFINE e == "sample_count"
      <4>1. e \in speaking
        <5>1. e = Evaluators[1]
          BY DEF Evaluators
        <5>2. e \in Names /\ e # "autocorr_residual"
          BY <5>1, EvaluatorsAre
        <5>3. QED
          BY <5>2 DEF Silent
      <4>2. StatusOf(e) \in Status /\ StatusOf(e) <= GREEN
        BY <2>2, <3>1, <4>1, StatusIs DEF IInv
      <4>3. StatusOf(e) = GREEN
        BY <4>2 DEF Status, GREEN, RED
      <4>4. QED
        BY <3>1, <4>1, <4>3
    <3>2. CASE overall # GREEN
      BY <2>1, <3>2 DEF IInv, Worst
    <3>3. QED
      BY <3>1, <3>2
  <2>5. QED
    BY <2>2, <2>3, <2>4
<1>2. QED
  BY VerdictInvariant, <1>1, PTL

(* A GREEN verdict is never given for want of data.                        *)
THEOREM VerdictGreenIsEarned == Spec => []GreenIsEarned
<1>1. IInv => GreenIsEarned
  <2> SUFFICES ASSUME IInv, pc = "done", overall = GREEN
               PROVE  /\ order = 4
                      /\ global.n >= SomeSamples /\ SummaryVariance(global).num > 0
                      /\ Len(ring) >= 8 /\ Cardinality(NonEmpty(ring)) >= 4
                      /\ l2.ratio.num > 0 /\ points # << >>
    BY DEF GreenIsEarned
  <2>1. /\ TypeOK /\ global \in Window /\ ring \in Seq(Window) /\ l2.ratio \in Fractions
        /\ order \in {3, 4} /\ l2 = Level2(ring, global)
    BY DEF IInv, TypeOK, Computed
  <2>2. ASSUME NEW e \in Names, ~Silent(e) PROVE StatusOf(e) = GREEN
    <3>1. StatusOf(e) \in Status /\ StatusOf(e) <= GREEN
      BY <2>1, <2>2, AllSpoken, StatusIs
    <3>2. QED
      BY <3>1 DEF Status, GREEN, RED
  <2>3. /\ SampleCountStatus = GREEN /\ VarianceStatus = GREEN /\ KurtosisStatus = GREEN
        /\ NyquistStatus = GREEN /\ SpectralStatus = GREEN /\ HalfSplitStatus = GREEN
    <3>1. /\ "sample_count" = Evaluators[1] /\ "variance_sanity" = Evaluators[2]
          /\ "kurtosis_sanity" = Evaluators[3] /\ "nyquist_confidence" = Evaluators[9]
          /\ "spectral_sweep" = Evaluators[11] /\ "half_split_stability" = Evaluators[12]
      BY DEF Evaluators
    <3>2. \A e \in {"sample_count", "variance_sanity", "kurtosis_sanity",
                    "nyquist_confidence", "spectral_sweep", "half_split_stability"} :
            e \in Names /\ ~Silent(e)
      BY <3>1, EvaluatorsAre DEF Silent
    <3>3. \A e \in {"sample_count", "variance_sanity", "kurtosis_sanity",
                    "nyquist_confidence", "spectral_sweep", "half_split_stability"} :
            StatusOf(e) = GREEN
      BY <3>2, <2>2
    <3>4. /\ StatusOf("sample_count") = SampleCountStatus
          /\ StatusOf("variance_sanity") = VarianceStatus
          /\ StatusOf("kurtosis_sanity") = KurtosisStatus
          /\ StatusOf("nyquist_confidence") = NyquistStatus
          /\ StatusOf("spectral_sweep") = SpectralStatus
          /\ StatusOf("half_split_stability") = HalfSplitStatus
      BY DEF StatusOf
    <3>5. QED
      BY <3>3, <3>4
  <2>4. order = 4
    BY <2>1, <2>3 DEF KurtosisStatus, GREEN, YELLOW
  <2>5. global.n >= SomeSamples
    <3>1. global.n \in Nat
      BY <2>1, WindowIs
    <3>2. QED
      BY <2>3, <3>1, VerdictAssumption DEF SampleCountStatus, GREEN, YELLOW, RED
  <2>6. SummaryVariance(global).num > 0
    <3>1. SummaryVariance(global).num \in Int
      BY <2>1, VarianceIs
    <3>2. QED
      BY <2>3, <3>1 DEF VarianceStatus, GREEN, RED
  <2>7. Len(ring) >= 8
    <3>1. Len(ring) \in Nat
      BY <2>1
    <3>2. ~(Len(ring) < 8)
      <4>1. Len(ring) < 8 => HalfSplitStatus = YELLOW
        BY Zenon DEF HalfSplitStatus
      <4>2. YELLOW # GREEN
        BY DEF GREEN, YELLOW
      <4>3. QED
        BY <2>3, <4>1, <4>2
    <3>3. QED
      BY <3>1, <3>2
  <2>8. ~l2.insufficient
    BY <2>3 DEF NyquistStatus, GREEN, YELLOW
  <2>9. Cardinality(NonEmpty(ring)) >= 4
    BY <2>1, <2>8, Level2Is
  <2>10. l2.ratio.num > 0
    <3>1. l2.ratio.num \in Int
      BY <2>1 DEF Fractions
    <3>2. ~ConfidenceBelow(l2.ratio, TenthRatio)
      BY <2>3, <2>8 DEF NyquistStatus, GREEN, AMBER
    <3>3. ~(l2.ratio.num <= 0)
      BY <3>2 DEF ConfidenceBelow
    <3>4. QED
      BY <3>1, <3>3
  <2>11. points # << >>
    BY <2>3 DEF SpectralStatus, GREEN, YELLOW
  <2>12. QED
    BY <2>4, <2>5, <2>6, <2>7, <2>9, <2>10, <2>11
<1>2. QED
  BY VerdictInvariant, <1>1, PTL

(* Where nothing is amiss with the size of the ring, the sweep does not    *)
(* end before its point for a period of 2 or 4.                            *)
LEMMA SweepReaches ==
  ASSUME IInv, pc = "done", NonEmpty(ring) = DOMAIN ring, MaxPoints >= 3,
         SummaryVariance(global).num > 0,
         NEW m \in {2, 4}, Len(ring) >= 4 * m
  PROVE  \E i \in DOMAIN points : points[i].k = m
<1>1. /\ ring \in Seq(Window) /\ global \in Window /\ points \in Seq(Point)
      /\ Len(points) <= MaxPoints /\ Doubling /\ ~SweepGoesOn
  BY DEF IInv, TypeOK, Swept
<1>2. \A i \in 1 .. Len(ring) : ring[i].n # 0
  BY <1>1 DEF NonEmpty
<1> DEFINE n == Len(points)
<1>3. n \in Nat /\ DOMAIN points = 1 .. n /\ Len(ring) \in Nat
  BY <1>1
<1>4. ASSUME k \in {1, 2, 4}, k <= m, n < 3 PROVE FALSE
  <2>1. k \in Nat \ {0} /\ Len(ring) >= 4 * k
    BY <1>3, <1>4
  <2>2. SweepPoint(ring, k, global).n_virtual = Len(ring) \div k
    BY <1>1, <1>2, <2>1, SweepPointIs
  <2>3. Len(ring) \div k >= 4 /\ k <= Len(ring) \div 4 /\ Len(ring) >= 4
    BY <1>3, <1>4, <2>1
  <2>4. Len(points) < MaxPoints
    BY <1>3, <1>4, VerdictAssumption
  <2>5. SweepGoesOn
    BY <2>2, <2>3, <2>4 DEF SweepGoesOn
  <2>6. QED
    BY <1>1, <2>5
<1>5. n # 0 /\ n # 1
  BY <1>1, <1>4 DEF Doubling
<1>6. CASE m = 2
  <2>1. 2 \in DOMAIN points /\ points[2].k = 2
    BY <1>1, <1>3, <1>5 DEF Doubling
  <2>2. QED
    BY <1>6, <2>1
<1>7. CASE m = 4
  <2>1. n # 2
    BY <1>1, <1>4, <1>7 DEF Doubling
  <2>2. 3 \in DOMAIN points /\ points[3].k = 4
    BY <1>1, <1>3, <1>5, <2>1 DEF Doubling
  <2>3. QED
    BY <1>7, <2>2
<1>8. QED
  BY <1>6, <1>7

(* A hidden period of 2 or 4 windows is flagged, whatever the windows are: *)
(* the blocks of that size are all the same, so that their means do not    *)
(* vary and the sweep's least ratio is 0.                                  *)
THEOREM VerdictFlagsPeriod == Spec => []HiddenPeriodFlagged
<1>1. IInv => HiddenPeriodFlagged
  <2> SUFFICES ASSUME IInv, pc = "done", NonEmpty(ring) = DOMAIN ring, MaxPoints >= 3,
                      NEW m \in {2, 4}, Repeats(m)
               PROVE  \E i \in DOMAIN signals :
                        /\ signals[i].name \in {"variance_sanity", "spectral_sweep"}
                        /\ signals[i].status >= AMBER
    BY DEF HiddenPeriodFlagged
  <2>1. /\ TypeOK /\ Swept /\ global \in Window /\ ring \in Seq(Window)
        /\ points \in Seq(Point)
        /\ min_idx \in 0 .. Len(points) /\ (points # << >> => min_idx # 0)
    BY DEF IInv, TypeOK
  <2>2. Len(ring) >= 4 * m /\ Period(ring, m)
    BY DEF Repeats, Period
  <2>3. /\ "variance_sanity" \in Names /\ ~Silent("variance_sanity")
        /\ "spectral_sweep" \in Names /\ ~Silent("spectral_sweep")
    <3>1. "variance_sanity" = Evaluators[2] /\ "spectral_sweep" = Evaluators[11]
      BY DEF Evaluators
    <3>2. QED
      BY <3>1, EvaluatorsAre DEF Silent
  <2>4. /\ StatusOf("variance_sanity") = VarianceStatus
        /\ StatusOf("spectral_sweep") = SpectralStatus
    BY DEF StatusOf
  <2>5. CASE SummaryVariance(global).num <= 0
    <3>1. VarianceStatus = RED
      BY <2>5 DEF VarianceStatus
    <3>2. PICK i \in DOMAIN signals :
            signals[i].name = "variance_sanity" /\ signals[i].status = RED
      BY <2>3, <2>4, <3>1, AllSpoken
    <3>3. QED
      BY <3>2 DEF AMBER, RED
  <2>6. CASE ~(SummaryVariance(global).num <= 0)
    <3>1. SummaryVariance(global).num > 0
      BY <2>1, <2>6, VarianceIs
    <3>2. PICK j \in DOMAIN points : points[j].k = m
      BY <2>2, <3>1, SweepReaches
    <3>3. points[j] = SweepPoint(ring, m, global)
      BY <2>1, <3>2 DEF Swept
    <3>4. \A i \in 1 .. Len(ring) : ring[i].n # 0
      BY <2>1 DEF NonEmpty
    <3>5. points[j].ratio.num = 0
      <4>1. m \in Nat \ {0} /\ ring \in Seq(Window) /\ global \in Window
        BY <2>1
      <4>2. SweepPoint(ring, m, global).ratio.num = 0
        BY <4>1, <2>2, <3>4, SweepPointIs
      <4>3. QED
        BY <3>3, <4>2
    <3>6. points[min_idx].ratio.num <= 0
      BY <2>1, <3>5 DEF Swept
    <3>7. points # << >> /\ min_idx \in 1 .. Len(points)
      BY <2>1, <3>2
    <3>8. points[min_idx].ratio \in Fractions
      <4>1. points[min_idx] \in Point
        BY <2>1, <3>7
      <4>2. QED
        BY <4>1 DEF Point
    <3>9. Frac(2, 10) \in Fractions /\ Frac(2, 10).num > 0
      BY FracIs
    <3>10. LessThan(points[min_idx].ratio, Frac(2, 10))
      <4>1. Frac(2, 10).num \in Int
        BY <3>9 DEF Fractions
      <4>2. QED
        BY <3>6, <3>8, <3>9, <4>1, LessThanSigns
    <3>11. SpectralStatus = AMBER
      BY <3>7, <3>10 DEF SpectralStatus
    <3>12. PICK i \in DOMAIN signals :
             signals[i].name = "spectral_sweep" /\ signals[i].status = AMBER
      BY <2>3, <2>4, <3>11, AllSpoken
    <3>13. QED
      BY <3>12 DEF AMBER
  <2>7. QED
    BY <2>5, <2>6
<1>2. QED
  BY VerdictInvariant, <1>1, PTL
===============================================================================
