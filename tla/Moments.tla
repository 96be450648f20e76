-------------------------------- MODULE Moments -------------------------------
(***************************************************************************)
(* The reference accumulator of pebay.h, over exact rationals: a summary   *)
(* holds the count, the mean and the sums of the second, third and fourth  *)
(* powers of the deviations from it.                                       *)
(***************************************************************************)
EXTENDS Rational

ZeroFrac == FromInt(0)

SummaryZero ==
  [n |-> 0, m1 |-> ZeroFrac, m2 |-> ZeroFrac, m3 |-> ZeroFrac, m4 |-> ZeroFrac]

(* Mutant: m3 reads the new m2. *)
SummaryUpdate_M2First(s, x) ==
  LET n        == s.n + 1
      delta    == Minus(x, s.m1)
      delta_n  == Over(delta, FromInt(n))
      delta_n2 == Power[2, delta_n]
      term1    == Scale(s.n, Times(delta, delta_n))
  IN  [n  |-> n,
       m1 |-> Plus(s.m1, delta_n),
       m2 |-> Plus(s.m2, term1),
       m3 |-> Minus(Plus(s.m3, Scale(n - 2, Times(term1, delta_n))),
                    Scale(3, Times(delta_n, Plus(s.m2, term1)))),
       m4 |-> Minus(Plus(Plus(s.m4,
                              Scale(n * n - 3 * n + 3, Times(term1, delta_n2))),
                         Scale(6, Times(delta_n2, s.m2))),
                    Scale(4, Times(delta_n, s.m3)))]

(* iomoments_summary_update.  The right-hand sides read the old m2 and m3. *)
SummaryUpdate(s, x) ==
  LET n        == s.n + 1
      delta    == Minus(x, s.m1)
      delta_n  == Over(delta, FromInt(n))
      delta_n2 == Power[2, delta_n]
      term1    == Scale(s.n, Times(delta, delta_n))
  IN  [n  |-> n,
       m1 |-> Plus(s.m1, delta_n),
       m2 |-> Plus(s.m2, term1),
       m3 |-> Minus(Plus(s.m3, Scale(n - 2, Times(term1, delta_n))),
                    Scale(3, Times(delta_n, s.m2))),
       m4 |-> Minus(Plus(Plus(s.m4,
                              Scale(n * n - 3 * n + 3, Times(term1, delta_n2))),
                         Scale(6, Times(delta_n2, s.m2))),
                    Scale(4, Times(delta_n, s.m3)))]

(* iomoments_summary_merge of two summaries that hold samples. *)
Combine(a, b) ==
  LET n      == a.n + b.n
      delta  == Minus(b.m1, a.m1)
      cross(p, q) == Minus(Scale(a.n, p), Scale(b.n, q))
  IN  [n  |-> n,
       m1 |-> Plus(Times(Frac(a.n, n), a.m1), Times(Frac(b.n, n), b.m1)),
       m2 |-> Plus(Plus(a.m2, b.m2), Times(Power[2, delta], Frac(a.n * b.n, n))),
       m3 |-> Plus(Plus(a.m3, b.m3),
                   Plus(Times(Power[3, delta],
                              Frac(a.n * b.n * (a.n - b.n), n * n)),
                        Times(Scale(3, delta),
                              Over(cross(b.m2, a.m2), FromInt(n))))),
       m4 |-> Plus(Plus(a.m4, b.m4),
                   Plus(Times(Power[4, delta],
                              Frac(a.n * b.n * (a.n * a.n - a.n * b.n + b.n * b.n),
                                   n * n * n)),
                        Plus(Times(Scale(6, Power[2, delta]),
                                   Plus(Times(Frac(a.n * a.n, n * n), b.m2),
                                        Times(Frac(b.n * b.n, n * n), a.m2))),
                             Times(Scale(4, delta),
                                   Over(cross(b.m3, a.m3), FromInt(n))))))]

SummaryMerge(a, b) ==
  IF b.n = 0 THEN a ELSE IF a.n = 0 THEN b ELSE Combine(a, b)

SummaryVariance(s) == IF s.n = 0 THEN ZeroFrac ELSE Over(s.m2, FromInt(s.n))

(* n * m4 / m2^2 - 3, or 0 where the stream is constant. *)
SummaryExcessKurtosis(s) ==
  IF s.n = 0 \/ s.m2.num <= 0 THEN ZeroFrac
  ELSE Minus(Scale(s.n, Over(Over(s.m4, s.m2), s.m2)), FromInt(3))

(* The square of skewness() with its sign: n * m3 * |m3| / m2^3. *)
SignedSquareSkewness(s) ==
  IF s.n = 0 \/ s.m2.num <= 0 THEN ZeroFrac
  ELSE LET ratio == Over(s.m3, s.m2)
       IN  Scale(s.n, Over(Times(ratio, Abs(ratio)), s.m2))
===============================================================================
