-------------------------------- MODULE Rational ------------------------------
(***************************************************************************)
(* Exact rational arithmetic, standing for the double arithmetic of        *)
(* pebay.h, iomoments_level2.h and iomoments_spectral.h: rounding is left  *)
(* out.  A rational is a record in lowest terms with a positive            *)
(* denominator, so that equal values are equal records.                    *)
(***************************************************************************)
EXTENDS Integers

(* Euclid: GcdWith[b][a] is that of a and b. *)
GcdWith[b \in Nat] == [a \in Nat |-> IF b = 0 THEN a ELSE GcdWith[a % b][b]]

Gcd(a, b) == GcdWith[b][a]

Magnitude(i) == IF i < 0 THEN -i ELSE i

Frac(p, q) ==
  LET g == Gcd(Magnitude(p), Magnitude(q))
      s == IF q < 0 THEN -1 ELSE 1
  IN  [num |-> s * (p \div g),
       den |-> Magnitude(q) \div g]

FromInt(i) == [num |-> i, den |-> 1]

Fractions == [num : Int, den : Nat \ {0}]

(* Over the least common denominator, to keep the products small. *)
Plus(a, b) ==
  LET g == Gcd(a.den, b.den)
  IN  Frac(a.num * (b.den \div g) + b.num * (a.den \div g), a.den * (b.den \div g))
Minus(a, b) == Plus(a, [b EXCEPT !.num = -@])

(* Cross-reduced first, for the same reason. *)
Times(a, b) ==
  LET x == Frac(a.num, b.den)
      y == Frac(b.num, a.den)
  IN  [num |-> x.num * y.num, den |-> x.den * y.den]
Over(a, b) == Times(a, Frac(b.den, b.num))

Scale(i, a) == Times(FromInt(i), a)

(* Over the least common denominator, for the same reason. *)
LessThan(a, b) ==
  LET g == Gcd(a.den, b.den)
  IN  a.num * (b.den \div g) < b.num * (a.den \div g)
AtMost(a, b)   == ~LessThan(b, a)
Abs(a)         == [a EXCEPT !.num = Magnitude(@)]

Square(a)      == Times(a, a)

(* a to the k-th power. *)
Power[k \in Nat, a \in Fractions] ==
  IF k = 0 THEN FromInt(1) ELSE Times(a, Power[k - 1, a])
===============================================================================
