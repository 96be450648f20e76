-------------------------------- MODULE Analysis ------------------------------
(***************************************************************************)
(* The statistics over the ring of windows: Level 2 (iomoments_level2.h)   *)
(* and the points of the spectral sweep (iomoments_spectral.h), over exact *)
(* rationals.  A window is its count, mean and m2; m3 and m4, which these  *)
(* statistics do not read, are left out.                                   *)
(***************************************************************************)
EXTENDS Moments, Sequences, SequencesExt

Window == [n : Nat, m1 : Fractions, m2 : Fractions]

Empty == [n |-> 0, m1 |-> ZeroFrac, m2 |-> ZeroFrac]

(* SummaryUpdate and SummaryMerge of what is left of a summary. *)
Observe(s, x) ==
  LET delta_n == Over(Minus(x, s.m1), FromInt(s.n + 1))
  IN  [n  |-> s.n + 1,
       m1 |-> Plus(s.m1, delta_n),
       m2 |-> Plus(s.m2, Scale(s.n, Times(Minus(x, s.m1), delta_n)))]

Pool(a, b) ==
  IF b.n = 0 THEN a ELSE IF a.n = 0 THEN b ELSE
  LET n == a.n + b.n IN
  [n  |-> n,
   m1 |-> Plus(Times(Frac(a.n, n), a.m1), Times(Frac(b.n, n), b.m1)),
   m2 |-> Plus(Plus(a.m2, b.m2),
               Times(Square(Minus(b.m1, a.m1)), Frac(a.n * b.n, n)))]

(* The summaries pooled so far, window after window; all of them.          *)
Pooled(ring) ==
  LET pooled[i \in 0 .. Len(ring)] ==
        IF i = 0 THEN Empty ELSE Pool(pooled[i - 1], ring[i])
  IN  pooled

PoolAll(ring) == Pooled(ring)[Len(ring)]

NonEmpty(ring) == {i \in DOMAIN ring : ring[i].n > 0}

(* The loop over the windows with samples: m1_dist, the distribution of    *)
(* their means, and total_n.  How many there were is means.n.              *)
Scanned(ring) ==
  LET scanned[i \in 0 .. Len(ring)] ==
        IF i = 0 THEN [means |-> Empty, samples |-> 0]
        ELSE IF ring[i].n = 0 THEN scanned[i - 1]
        ELSE LET before == scanned[i - 1] IN
             [means   |-> Observe(before.means, ring[i].m1),
              samples |-> before.samples + ring[i].n]
  IN  scanned

Scan(ring) == Scanned(ring)[Len(ring)]

-------------------------------------------------------------------------------
LagValues == {1, 2, 4, 8}

(* iomoments_level2_autocorr. *)
Autocorr(ring, lag, mean, var) ==
  LET both == {i \in 1 .. Len(ring) - lag : ring[i].n > 0 /\ ring[i + lag].n > 0}
      d(i) == Minus(ring[i].m1, mean)
      sum  == FoldSet(LAMBDA i, t : Plus(t, Times(d(i), d(i + lag))),
                      ZeroFrac, both)
  IN  IF Len(ring) <= lag \/ var.num <= 0 \/ both = {} THEN ZeroFrac
      ELSE Over(Over(sum, FromInt(Cardinality(both))), var)

(* Observed variance of means against what the CLT predicts for windows of *)
(* this size, or 0 where there is nothing to predict.                      *)
VarianceRatio(scan, global) ==
  LET predicted == Times(SummaryVariance(global), Frac(scan.means.n, scan.samples))
  IN  IF scan.samples > 0 /\ SummaryVariance(global).num > 0
      THEN Over(SummaryVariance(scan.means), predicted)
      ELSE ZeroFrac

(* iomoments_level2_analyze. *)
Level2(ring, global) ==
  LET scan  == Scan(ring)
      means == scan.means
  IN  IF means.n < 4
      THEN [insufficient |-> TRUE, n_windows |-> means.n, ratio |-> ZeroFrac,
            autocorr |-> [lag \in LagValues |-> ZeroFrac]]
      ELSE [insufficient |-> FALSE, n_windows |-> means.n,
            ratio        |-> VarianceRatio(scan, global),
            autocorr     |-> [lag \in LagValues |->
                                Autocorr(ring, lag, means.m1,
                                         SummaryVariance(means))]]

(***************************************************************************)
(* nyquist_confidence is exp(-(log2 ratio)^2 / 2), 0 for a ratio of 0.  It *)
(* is compared with 0.1 and 0.5, that is |log2 ratio| with 2.146 and       *)
(* 1.1774: the ratio with these bounds and their inverses.                 *)
(***************************************************************************)
TenthRatio == Frac(4426, 1000)
HalfRatio  == Frac(2262, 1000)

ConfidenceBelow(ratio, bound) ==
  \/ ratio.num <= 0
  \/ LessThan(bound, ratio)
  \/ LessThan(ratio, Over(FromInt(1), bound))

-------------------------------------------------------------------------------
(* The virtual windows of size k: k consecutive windows each, the windows  *)
(* left over at the end dropped.                                           *)
Virtuals(ring, k) ==
  [v \in 1 .. (Len(ring) \div k) |->
     PoolAll(SubSeq(ring, (v - 1) * k + 1, v * k))]

(* One point of iomoments_spectral_sweep. *)
SweepPoint(ring, k, global) ==
  LET scan == Scan(Virtuals(ring, k))
  IN  [k |-> k, n_virtual |-> scan.means.n,
       ratio |-> IF scan.means.n = 0 THEN ZeroFrac ELSE VarianceRatio(scan, global)]
===============================================================================
