-------------------------------- MODULE PebayBpf ------------------------------
(***************************************************************************)
(* iomoments_summary_bpf_update of pebay_bpf.h, the fixed-point moments    *)
(* the BPF program keeps per CPU, and iomoments_summary_bpf_merge, which   *)
(* the tests of the C code use.  The mean is in units of 1/Unit ns, the  *)
(* sums of powers of the deviations are whole, and every product and       *)
(* quotient is truncated where the code truncates it.                      *)
(*                                                                         *)
(* m1_fp and m2 are signed words of the machine, m3 and m4 signed double   *)
(* words (u128.h); both wrap, the double words at every product and sum.   *)
(* So do the products of counts, words without a sign.  That the double    *)
(* words are integers modulo their width is what U128 is about.            *)
(***************************************************************************)
EXTENDS Moments, U128, SequencesExt

CONSTANTS Unit,         \* 2^IOMOMENTS_BPF_FRAC_BITS
          Half,         \* 2^63: signed words go from -Half to Half - 1
          WideHalf,     \* 2^127: the same for the double words
          Limit,        \* 2^31: latencies are saturated below it
          Values,       \* the latencies of a behaviour
          MaxSamples,   \* bound: samples between two resets
          WithM4        \* FALSE: the k = 3 variant

ASSUME PebayAssumption ==
  /\ Unit \in Nat \ {0}
  /\ Half \in Nat \ {0} /\ WideHalf \in Nat \ {0}
  /\ Limit \in Nat \ {0}
  /\ Limit * Unit <= Half
  /\ Values \subseteq 0 .. (Limit - 1)
  /\ MaxSamples \in Nat
  /\ WithM4 \in BOOLEAN

Py == INSTANCE Oracle

VARIABLES
  summary,    \* struct iomoments_summary_bpf
  seen        \* history: the samples since the last reset

bpfVars == <<summary, seen>>

SummaryBpfZero == [n |-> 0, m1_fp |-> 0, m2 |-> 0, m3 |-> 0, m4 |-> 0]

(* Words that overflowed, signed and not. *)
Wrap(v) == ((v + Half) % (2 * Half)) - Half
WrapCount(c) == c % (2 * Half)

(* Mutant: the high word is unsigned. *)
WideWrap_Unsigned(v) == v % (2 * WideHalf)

WideWrap(v) == ((v + WideHalf) % (2 * WideHalf)) - WideHalf

WideMul(v, m) == WideWrap(v * m)

(* Mutant: the numerator is divided as an unsigned word. *)
SignedDiv_Unsigned(num, den) == (num % (2 * Half)) \div den

(* Division by a positive number, truncated towards zero. *)
SignedDiv(num, den) == IF num >= 0 THEN num \div den ELSE -((-num) \div den)

(* The arithmetic shift that takes a fixed-point number to whole ns. *)
Whole(fp) == fp \div Unit

BpfInit == summary = SummaryBpfZero /\ seen = << >>

-------------------------------------------------------------------------------
(* d^4 * k * (c^2 - 3 * c + 3) / c^3, dividing as it goes; c = k + 1.  The *)
(* polynomial is all but c^2 again: its product is the largest number met. *)
Polynomial(c) == WrapCount(c * c - 3 * c + 3)

M4Quotient(d, k) ==
  LET c == k + 1 IN SignedDiv(WideMul(SignedDiv(d * d * d * d, c), k), c)

M4Term1(d, k) ==
  IF k = 0 THEN 0
  ELSE SignedDiv(WideMul(M4Quotient(d, k), Polynomial(k + 1)), k + 1)

M4Term2(d, k, m2) == WideMul(SignedDiv(SignedDiv(d * d * m2, k + 1), k + 1), 6)

M4Term3(d, k, m3) == WideMul(SignedDiv(WideMul(m3, d), k + 1), 4)

M4Inc(d, s) == M4Term1(d, s.n) + M4Term2(d, s.n, s.m2) - M4Term3(d, s.n, s.m3)

(* d^3 * k * (c - 2) / c^2 - 3 * d * m2 / c. *)
M3Term1(d, k) ==
  IF k + 1 < 3 THEN 0
  ELSE SignedDiv(WideMul(SignedDiv(WideMul(d * d * d, k), k + 1), k - 1), k + 1)

M3Inc(d, s) == M3Term1(d, s.n) - WideMul(SignedDiv(d * s.m2, s.n + 1), 3)

(* Mutant: the count is not raised before it divides. *)
MeanInc_OldCount(delta_fp, c) ==
  IF c = 1 THEN delta_fp ELSE SignedDiv(delta_fp, c - 1)

MeanInc(delta_fp, c) == SignedDiv(delta_fp, c)

(* Mutant: only the deviation before m1 moves. *)
M2Inc_Before(delta, delta_post) == delta * delta

M2Inc(delta, delta_post) == delta * delta_post

(* Mutant: m3 reads the new m2. *)
Updated_M2First(s, x) ==
  LET x_fp     == x * Unit
      delta_fp == x_fp - s.m1_fp
      delta    == Whole(delta_fp)
      mean_fp  == Wrap(s.m1_fp + MeanInc(delta_fp, s.n + 1))
      m2       == Wrap(s.m2 + M2Inc(delta, Whole(x_fp - mean_fp)))
  IN  [n     |-> s.n + 1,
       m1_fp |-> mean_fp,
       m2    |-> m2,
       m3    |-> WideWrap(s.m3 + M3Inc(delta, [s EXCEPT !.m2 = m2])),
       m4    |-> IF WithM4 THEN WideWrap(s.m4 + M4Inc(delta, s)) ELSE s.m4]

(* iomoments_summary_bpf_update.  m4 reads the old m3 and m2, m3 the old   *)
(* m2; m2 is the product of the deviations before and after m1 moves.      *)
Updated(s, x) ==
  LET x_fp     == x * Unit
      delta_fp == x_fp - s.m1_fp
      delta    == Whole(delta_fp)
      mean_fp  == Wrap(s.m1_fp + MeanInc(delta_fp, s.n + 1))
  IN  [n     |-> s.n + 1,
       m1_fp |-> mean_fp,
       m2    |-> Wrap(s.m2 + M2Inc(delta, Whole(x_fp - mean_fp))),
       m3    |-> WideWrap(s.m3 + M3Inc(delta, s)),
       m4    |-> IF WithM4 THEN WideWrap(s.m4 + M4Inc(delta, s)) ELSE s.m4]

Update(x) ==
  /\ summary.n < MaxSamples
  /\ summary' = Updated(summary, x)
  /\ seen' = Append(seen, x)

(* The zeroing of a drain. *)
Reset ==
  /\ summary' = SummaryBpfZero /\ seen' = << >>

BpfNext == (\E x \in Values : Update(x)) \/ Reset

BpfSpec == BpfInit /\ [][BpfNext]_bpfVars

-------------------------------------------------------------------------------
(* iomoments_summary_bpf_merge.  What it adds to m3 and m4, dividing as it *)
(* goes; d is the distance of the means in whole ns.                       *)
MergeM3(a, b, d) ==
  LET k == a.n + b.n
      cubed == SignedDiv(WideMul(SignedDiv(WideMul(d * d * d, a.n), k), b.n), k)
      cross == WideMul(WideWrap(a.n * b.m2 - b.n * a.m2), d)
  IN  WideMul(cubed, a.n - b.n) + WideMul(SignedDiv(cross, k), 3)

MergeM4(a, b, d) ==
  LET k == a.n + b.n
      fourth == SignedDiv(WideMul(SignedDiv(WideMul(SignedDiv(d * d * d * d, k), a.n), k), b.n), k)
      square == WideMul(WideWrap(WideMul(b.m2, WrapCount(a.n * a.n))
                                   + WideMul(a.m2, WrapCount(b.n * b.n))), d * d)
      cross  == WideMul(WideWrap(WideMul(b.m3, a.n) - WideMul(a.m3, b.n)), d)
  IN  WideMul(fourth, WrapCount(a.n * a.n - a.n * b.n + b.n * b.n))
        + WideMul(SignedDiv(SignedDiv(square, k), k), 6) + WideMul(SignedDiv(cross, k), 4)

(* The mean of the merged summary is one in whole ns. *)
MergeMean(a, b) ==
  Unit * SignedDiv(Wrap(Whole(a.m1_fp) * a.n + Whole(b.m1_fp) * b.n), a.n + b.n)

(* The product of the counts is taken for a signed word. *)
MergeM2(a, b, d) == SignedDiv(d * d * Wrap(a.n * b.n), a.n + b.n)

Merged(a, b) ==
  LET d == Whole(b.m1_fp - a.m1_fp)
  IN  CASE b.n = 0 -> a
        [] a.n = 0 /\ b.n # 0 -> b
        [] OTHER   ->
             [n     |-> a.n + b.n,
              m1_fp |-> MergeMean(a, b),
              m2    |-> Wrap(a.m2 + b.m2 + MergeM2(a, b, d)),
              m3    |-> WideWrap(a.m3 + b.m3 + MergeM3(a, b, d)),
              m4    |-> WideWrap(a.m4 + b.m4 + MergeM4(a, b, d))]

-------------------------------------------------------------------------------
Word       == -Half .. (Half - 1)
DoubleWord == -WideHalf .. (WideHalf - 1)

SummaryTyped ==
  /\ summary \in [n : 0 .. MaxSamples, m1_fp : Word, m2 : Word,
                 m3 : DoubleWord, m4 : DoubleWord]
  /\ seen \in Seq(Values)

Samples == {seen[i] : i \in 1 .. Len(seen)}

(* The summaries after each sample of a stream, and after the last. *)
AfterEach(s) ==
  LET after[i \in 0 .. Len(s)] ==
        IF i = 0 THEN SummaryBpfZero
        ELSE LET before == after[i - 1] IN Updated(before, s[i])
  IN  after

StreamedBpf(s) == AfterEach(s)[Len(s)]

(* Of the samples of summary, the summaries merged from two parts. *)
MergedSummaries ==
  {Merged(StreamedBpf(SubSeq(seen, 1, i)), StreamedBpf(SubSeq(seen, i + 1, Len(seen)))) :
     i \in DOMAIN seen}

(* The arithmetic of u128.h beneath is that of integers modulo the width   *)
(* (U128).  It has no state: asked once, where the moments are zero, for   *)
(* all its operands.                                                       *)
DoubleWordsExact == seen = << >> => ArithmeticExact

(* What a merge takes for granted: the products of its counts, and of a    *)
(* count and a mean, are signed words (2^32 samples or less).              *)
CountsFit == Len(seen) * Len(seen) <= Half /\ Len(seen) * Limit <= Half

(***************************************************************************)
(* The mean never leaves the samples it is the mean of: whatever is lost   *)
(* to truncation, by updates or by a merge to whole ns, m1_fp lies between *)
(* the least and the greatest sample.  So the differences m1_fp is updated *)
(* from do not overflow either.                                            *)
(***************************************************************************)
MeanWithinSamples ==
  seen # << >> =>
    \A s \in {summary} \cup (IF CountsFit THEN MergedSummaries ELSE {}) :
      /\ \E x \in Samples : x * Unit <= s.m1_fp
      /\ \E x \in Samples : s.m1_fp <= x * Unit

(* The sums of the first samples, and of all. *)
SumOfEach(s) ==
  LET sum[i \in 0 .. Len(s)] == IF i = 0 THEN 0 ELSE sum[i - 1] + s[i] IN sum

Total(s) == SumOfEach(s)[Len(s)]

(***************************************************************************)
(* What the streamed mean loses: a quotient is truncated by less than one  *)
(* unit, and what was lost early weighs less as the count grows, so that n *)
(* samples cost the mean (n - 1) / 2 units at most.  The header has it     *)
(* converge to bit-exact; this is the bound there is.                      *)
(***************************************************************************)
MeanAccurate ==
  LET n     == Len(seen)
      error == n * summary.m1_fp - Unit * Total(seen)
  IN  seen # << >> => -(n * (n - 1)) <= 2 * error /\ 2 * error <= n * (n - 1)

(* R bounds the distance of any two samples. *)
SpreadAtMost(R) == \A x, y \in Samples : x - y <= R

(***************************************************************************)
(* m2 is a sum of squares: it is not negative, and at most the square of   *)
(* the spread for each sample after the first, as long as that fits the    *)
(* word; this is the saturation window the header computes for m2.  Beyond *)
(* it m2 may wrap and a variable stream look constant.  A merge adds a     *)
(* quarter of a square for each sample at most.                            *)
(***************************************************************************)
M2WithinSpread ==
  LET n == Len(seen) IN
  \A R \in 0 .. Limit :
    seen # << >> /\ SpreadAtMost(R) =>
      /\ (n - 1) * (R * R) < Half => 0 <= summary.m2 /\ summary.m2 <= (n - 1) * (R * R)
      /\ CountsFit /\ 5 * (n * (R * R)) < 4 * Half =>
           \A s \in MergedSummaries : 0 <= s.m2 /\ 4 * s.m2 <= 5 * (n * (R * R))

(* iomoments_summary_update over a stream, and the moments by definition.  *)
Streamed(s)      == FoldLeft(LAMBDA r, x : SummaryUpdate(r, FromInt(x)),
                             SummaryZero, s)
TrueMean(s)      == Frac(Total(s), Len(s))
Deviations(s, k) ==
  FoldLeft(LAMBDA t, x : Plus(t, Power[k, Minus(FromInt(x), TrueMean(s))]),
           ZeroFrac, s)

(***************************************************************************)
(* The reference these words are measured against, pebay.h: a summary is   *)
(* that of its samples whether they were streamed into it or merged from   *)
(* two parts, empty parts included, as the drain merges the CPUs and the   *)
(* sweep its virtual windows; hence in any grouping.  The count, the mean  *)
(* and the three sums of powers are those computed from the samples in two *)
(* passes, and they fit together as the moments of a distribution do       *)
(* (Pearson): the Hankel determinant the verdict reads is not negative but *)
(* for rounding.                                                           *)
(***************************************************************************)
MomentsExact ==
  seen # << >> =>
    \A i \in 0 .. Len(seen) :
      LET s == SummaryMerge(Streamed(SubSeq(seen, 1, i)),
                            Streamed(SubSeq(seen, i + 1, Len(seen))))
      IN  /\ s = [n  |-> Len(seen),           m1 |-> TrueMean(seen),
                  m2 |-> Deviations(seen, 2), m3 |-> Deviations(seen, 3),
                  m4 |-> Deviations(seen, 4)]
          /\ SummaryVariance(s).num > 0 =>
               AtMost(Plus(FromInt(1), Abs(SignedSquareSkewness(s))),
                      Plus(SummaryExcessKurtosis(s), FromInt(3)))

(***************************************************************************)
(* The oracle is a second witness for pebay.h: streaming, merging and the  *)
(* readouts give what the header's do, for any samples and any split of    *)
(* them, though it assigns in place; and merging an object with itself, as *)
(* merge promises, gives the moments of its samples taken twice.           *)
(***************************************************************************)
OracleAgrees ==
  \A i \in 0 .. Len(seen) :
    LET parts  == <<Py!UpdateMany(Py!Summary, SubSeq(seen, 1, i)),
                    Py!UpdateMany(Py!Summary, SubSeq(seen, i + 1, Len(seen)))>>
        merged == Py!Merge(parts, 1, 2)
        s      == SummaryMerge(Streamed(SubSeq(seen, 1, i)),
                               Streamed(SubSeq(seen, i + 1, Len(seen))))
    IN  /\ merged = <<s, parts[2]>>
        /\ Py!Merge(parts, 1, 1)[1] = Streamed(SubSeq(seen, 1, i) \o SubSeq(seen, 1, i))
        /\ Py!Variance(s) = SummaryVariance(s)
        /\ Py!SquareSkewness(s) = SignedSquareSkewness(s)
        /\ Py!ExcessKurtosis(s) = SummaryExcessKurtosis(s)

(* Each sum of powers is off by at most c times the spread to the power    *)
(* below, for each sample after the first.                                 *)
Near(s, c, R) ==
  \A k \in 2 .. 4 :
    LET sum == CASE k = 2 -> s.m2 [] k = 3 -> s.m3 [] k = 4 -> s.m4
    IN  AtMost(Abs(Minus(FromInt(sum), Deviations(seen, k))), FromInt(c * (s.n - 1) * R ^ (k - 1)))

(***************************************************************************)
(* What the truncations cost the sums of powers: the deviations are        *)
(* rounded down before they are multiplied and each quotient is truncated, *)
(* so what a sample loses grows with its deviation: with the spread for    *)
(* m2, its square for m3 and its cube for m4, and up to twice that in a    *)
(* merge.  It holds while the samples are no more than the units of the    *)
(* mean, which no longer moves by less, and no product leaves its word.    *)
(***************************************************************************)
SumsAccurate ==
  LET n == Len(seen) IN
  \A R \in 0 .. Limit :
    /\ seen # << >> /\ SpreadAtMost(R) /\ n <= Unit
    /\ 5 * (n * (R * R)) < 4 * Half /\ n * R ^ 4 < WideHalf
    => /\ Near(summary, 1, R)
       /\ CountsFit /\ n ^ 3 * R ^ 4 < WideHalf => \A s \in MergedSummaries : Near(s, 2, R)

-------------------------------------------------------------------------------
(***************************************************************************)
(* What the comment on the update says of its double words: multiplies and *)
(* divides are interleaved "to keep s128 intermediates within bounds at    *)
(* worst-case delta saturation".  The product by the polynomial does not   *)
(* leave its word, whatever latency below Limit comes next.                *)
(***************************************************************************)
IntermediatesInBounds ==
  \A x \in Values :
    summary.n > 0 =>
      M4Quotient(Whole(x * Unit - summary.m1_fp), summary.n) * Polynomial(summary.n + 1)
        < WideHalf
===============================================================================
