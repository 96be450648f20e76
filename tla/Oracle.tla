-------------------------------- MODULE Oracle --------------------------------
(***************************************************************************)
(* The Python oracle of iomoments_oracle, the port of pebay.h that the     *)
(* calibration tests judge.  It works in place: an assignment reads what   *)
(* the ones before it have left, and merge may be given one object twice.  *)
(* Doubles are exact rationals.                                            *)
(***************************************************************************)
EXTENDS Rational, SequencesExt

Summary ==
  [n |-> 0, m1 |-> FromInt(0), m2 |-> FromInt(0), m3 |-> FromInt(0), m4 |-> FromInt(0)]

(* What update adds to a moment, from the object as it is at that line.    *)
M4Step(s, term1, delta_n, nf) ==
  Minus(Plus(Scale(nf * nf - 3 * nf + 3, Times(term1, Power[2, delta_n])),
             Scale(6, Times(Power[2, delta_n], s.m2))),
        Scale(4, Times(delta_n, s.m3)))

M3Step(s, term1, delta_n, nf) ==
  Minus(Scale(nf - 2, Times(term1, delta_n)), Scale(3, Times(delta_n, s.m2)))

(* Mutant: m2 is assigned before m3 and m4, as the fields are declared.    *)
Assign_InFieldOrder(s, term1, delta_n, nf) ==
  LET m1 == [s EXCEPT !.n = nf, !.m1 = Plus(@, delta_n)]
      m2 == [m1 EXCEPT !.m2 = Plus(@, term1)]
      m3 == [m2 EXCEPT !.m3 = Plus(@, M3Step(m2, term1, delta_n, nf))]
  IN  [m3 EXCEPT !.m4 = Plus(@, M4Step(m3, term1, delta_n, nf))]

(* The assignments of update, one object after the other. *)
Assign(s, term1, delta_n, nf) ==
  LET m1 == [s EXCEPT !.n = nf, !.m1 = Plus(@, delta_n)]
      m4 == [m1 EXCEPT !.m4 = Plus(@, M4Step(m1, term1, delta_n, nf))]
      m3 == [m4 EXCEPT !.m3 = Plus(@, M3Step(m4, term1, delta_n, nf))]
  IN  [m3 EXCEPT !.m2 = Plus(@, term1)]

Update(s, x) ==
  LET nf      == s.n + 1
      delta   == Minus(x, s.m1)
      delta_n == Over(delta, FromInt(nf))
  IN  Assign(s, Scale(s.n, Times(delta, delta_n)), delta_n, nf)

UpdateMany(s, xs) == FoldLeft(LAMBDA t, x : Update(t, FromInt(x)), s, xs)

(* What merge adds to the sums of the moments of a and b. *)
M2Correction(a, b, nf, delta) == Times(Power[2, delta], Frac(a.n * b.n, nf))

M3Correction(a, b, nf, delta) ==
  Plus(Times(Power[3, delta], Frac(a.n * b.n * (a.n - b.n), nf * nf)),
       Times(Scale(3, delta),
             Over(Minus(Scale(a.n, b.m2), Scale(b.n, a.m2)), FromInt(nf))))

M4Correction(a, b, nf, delta) ==
  Plus(Times(Power[4, delta],
             Frac(a.n * b.n * (a.n * a.n - a.n * b.n + b.n * b.n), nf * nf * nf)),
       Plus(Times(Scale(6, Power[2, delta]),
                  Over(Plus(Scale(a.n * a.n, b.m2), Scale(b.n * b.n, a.m2)),
                       FromInt(nf * nf))),
            Times(Scale(4, delta),
                  Over(Minus(Scale(a.n, b.m3), Scale(b.n, a.m3)), FromInt(nf)))))

(***************************************************************************)
(* merge of object q into object p of the heap h; p = q is a self-merge.   *)
(* All of h[q] and all new values are read before h[p] is written.         *)
(***************************************************************************)
Merge(h, p, q) ==
  LET a     == h[p]
      b     == h[q]
      nf    == a.n + b.n
      delta == Minus(b.m1, a.m1)
  IN  IF b.n = 0 THEN h
      ELSE IF a.n = 0 THEN [h EXCEPT ![p] = b]
      ELSE [h EXCEPT ![p] =
             [n  |-> nf,
              m1 |-> Plus(Times(Frac(a.n, nf), a.m1), Times(Frac(b.n, nf), b.m1)),
              m2 |-> Plus(Plus(a.m2, b.m2), M2Correction(a, b, nf, delta)),
              m3 |-> Plus(Plus(a.m3, b.m3), M3Correction(a, b, nf, delta)),
              m4 |-> Plus(Plus(a.m4, b.m4), M4Correction(a, b, nf, delta))]]

Variance(s) == IF s.n = 0 THEN FromInt(0) ELSE Over(s.m2, FromInt(s.n))

IsConstant(s) == s.n = 0 \/ s.m2.num <= 0

(* skewness squared, with its sign: no square roots of rationals. *)
SquareSkewness(s) ==
  IF IsConstant(s) THEN FromInt(0)
  ELSE Scale(s.n, Over(Over(Over(Times(s.m3, Abs(s.m3)), s.m2), s.m2), s.m2))

ExcessKurtosis(s) ==
  IF IsConstant(s) THEN FromInt(0)
  ELSE Minus(Scale(s.n, Over(s.m4, Times(s.m2, s.m2))), FromInt(3))
===============================================================================
