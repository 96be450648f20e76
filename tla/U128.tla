---------------------------------- MODULE U128 ----------------------------------
(***************************************************************************)
(* The 128-bit arithmetic of u128.h, by which the BPF program, which has   *)
(* no 128-bit integers, keeps the third and fourth moments: numbers of two *)
(* words, a word of two limbs.  The width of a limb is a parameter; every  *)
(* sum, product and shift of words is taken modulo 2^(2 * Bits).           *)
(***************************************************************************)
EXTENDS Integers

CONSTANTS Bits,         \* bits of a limb: 32
          Edges         \* bound: the high words of the operands but a dividend's

(* At most the code's width: u64_clz tests for no more than 64 clear bits. *)
ASSUME BitsAssumption == Bits \in 1 .. 32

B == 2 ^ Bits            \* the base of the limbs
W == B * B               \* a word is below W

Words == 0 .. (W - 1)

ASSUME EdgesAssumption == Edges \subseteq Words

S128  == [hi : Words, lo : Words]     \* bit patterns, hi that of a signed word

(* Words as signed numbers, and patterns as the numbers they stand for. *)
Signed(w) == IF w < W \div 2 THEN w ELSE w - W
Value(v)  == Signed(v.hi) * W + v.lo
Pattern(i) == [hi |-> (i \div W) % W, lo |-> i % W]

IsNegative(w) == w >= W \div 2

-------------------------------------------------------------------------------
s128_from_s64(v) == [hi |-> IF IsNegative(v) THEN W - 1 ELSE 0, lo |-> v]

s128_add(a, b) ==
  LET lo    == (a.lo + b.lo) % W
      carry == IF lo < a.lo THEN 1 ELSE 0
  IN  [hi |-> (a.hi + b.hi + carry) % W, lo |-> lo]

s128_sub(a, b) ==
  LET lo     == (a.lo - b.lo) % W
      borrow == IF a.lo < b.lo THEN 1 ELSE 0
  IN  [hi |-> (a.hi - b.hi - borrow) % W, lo |-> lo]

(* ~x + 1 on both words, the carry from lo into hi. *)
Negate(v) ==
  LET lo == (W - v.lo) % W
      carry == IF lo = 0 THEN 1 ELSE 0
  IN  [hi |-> ((W - 1 - v.hi) + carry) % W, lo |-> lo]

WordMagnitude(w) == IF IsNegative(w) THEN (W - w) % W ELSE w
Absolute(v)      == IF IsNegative(v.hi) THEN Negate(v) ELSE v
NegateIf(c, v)   == IF c THEN Negate(v) ELSE v

(* The four products of limbs; mid is the sum of those in the middle. *)
u64_mul_u64(a, b) ==
  LET ll  == (a % B) * (b % B)
      hl  == (a \div B) * (b % B)
      lh  == (a % B) * (b \div B)
      hh  == (a \div B) * (b \div B)
      mid == (ll \div B) + (hl % B) + (lh % B)
  IN  [hi |-> (hh + (hl \div B) + (lh \div B) + (mid \div B)) % W,
       lo |-> (ll % B) + ((mid * B) % W)]

s64_mul_s64(a, b) ==
  NegateIf(IsNegative(a) # IsNegative(b),
           u64_mul_u64(WordMagnitude(a), WordMagnitude(b)))

(* The high word of the product by hi is cut off. *)
s128_mul_u64(v, m) ==
  LET low  == u64_mul_u64(Absolute(v).lo, m)
      high == u64_mul_u64(Absolute(v).hi, m)
  IN  NegateIf(IsNegative(v.hi),
               [hi |-> (low.hi + high.lo) % W, lo |-> low.lo])

s128_mul_s64(v, m) ==
  NegateIf(IsNegative(m), s128_mul_u64(v, WordMagnitude(m)))

-------------------------------------------------------------------------------
(* Division of two words by one, Knuth's Algorithm D with two limbs.       *)

(* One test of the binary search for the highest bit: where the so many    *)
(* highest bits are clear, they are counted and shifted out.  With limbs   *)
(* narrower than the code's, a test as wide as a word or wider is skipped. *)
ShiftOut(s, bits) ==
  IF bits < 2 * Bits /\ s.x \div 2 ^ (2 * Bits - bits) = 0
  THEN [n |-> s.n + bits, x |-> (s.x * 2 ^ bits) % W] ELSE s

(* The tests one after the other, of 32, 16, 8, 4, 2 and 1 bits.           *)
u64_clz(x) ==
  LET halved == ShiftOut(ShiftOut(ShiftOut([n |-> 0, x |-> x], 32), 16), 8)
  IN  IF x = 0 THEN 2 * Bits
      ELSE ShiftOut(ShiftOut(ShiftOut(halved, 4), 2), 1).n

(* An estimate of a digit of the quotient, and the remainder it leaves.    *)
Estimate(num, vn1) == [q |-> num \div vn1, r |-> num % vn1, stop |-> FALSE]

TooBig(e, vn0, limb) == e.q >= B \/ e.q * vn0 > B * e.r + limb

(* One iteration of the correction; the loop makes at most two.  *)
CorrectOnce(e, vn1, vn0, limb) ==
  IF e.stop \/ ~TooBig(e, vn0, limb) THEN [e EXCEPT !.stop = TRUE]
  ELSE [q |-> e.q - 1, r |-> e.r + vn1, stop |-> e.r + vn1 >= B]

(* Mutant: one iteration. *)
Correct_Once(e, vn1, vn0, limb) == CorrectOnce(e, vn1, vn0, limb)

Correct(e, vn1, vn0, limb) ==
  CorrectOnce(CorrectOnce(e, vn1, vn0, limb), vn1, vn0, limb)

Digit(num, vn1, vn0, limb) ==
  Correct(Estimate(num, vn1), vn1, vn0, limb)

(* The divisor shifted until its top bit is set, the dividend with it.     *)
Normalized(u_hi, u_lo, d) ==
  LET s == u64_clz(d) IN
  [d  |-> d * 2 ^ s,
   hi |-> ((u_hi * 2 ^ s) % W) + (IF s = 0 THEN 0 ELSE u_lo \div 2 ^ (2 * Bits - s)),
   lo |-> (u_lo * 2 ^ s) % W]

(* un21, what is left after the first digit, from words that wrap. *)
Rest(u, q1) == (u.hi * B + (u.lo \div B) - q1 * u.d) % W

FirstDigit(u)     == Digit(u.hi, u.d \div B, u.d % B, u.lo \div B)
SecondDigit(u, r) == Digit(r, u.d \div B, u.d % B, u.lo % B)

u128_div_u64_inner(u_hi, u_lo, d) ==
  LET u  == Normalized(u_hi, u_lo, d)
      q1 == FirstDigit(u).q
      q0 == SecondDigit(u, Rest(u, q1)).q
  IN  ((q1 * B) % W) + q0

s128_div_u64(v, d) ==
  LET a == Absolute(v) IN
  NegateIf(IsNegative(v.hi),
           [hi |-> a.hi \div d,
            lo |-> IF a.hi = 0 THEN a.lo \div d
                   ELSE u128_div_u64_inner(a.hi % d, a.lo, d)])

-------------------------------------------------------------------------------
(***************************************************************************)
(* The operands.  A high word plays no part in a sum but as a summand of   *)
(* the other and the carry, and in a product but as a sign and a factor,   *)
(* so that few of them do; of a division all words matter.                 *)
(***************************************************************************)
Wide == [hi : Edges, lo : Words]

(* Division of integers rounded towards zero. *)
Quotient(i, d) == IF i >= 0 THEN i \div d ELSE -((-i) \div d)

SumsExact ==
  /\ \A v \in Words : s128_from_s64(v) = Pattern(Signed(v))
  /\ \A v, w \in Wide : /\ s128_add(v, w) = Pattern(Value(v) + Value(w))
                       /\ s128_sub(v, w) = Pattern(Value(v) - Value(w))

ProductsExact ==
  /\ \A v, w \in Words : s64_mul_s64(v, w) = Pattern(Signed(v) * Signed(w))
  /\ \A v \in Wide, w \in Words :
       /\ s128_mul_u64(v, w) = Pattern(Value(v) * w)
       /\ s128_mul_s64(v, w) = Pattern(Value(v) * Signed(w))

QuotientsExact ==
  \A v \in S128, d \in Words \ {0} :
    s128_div_u64(v, d) = Pattern(Quotient(Value(v), d))

(* Both digits of a quotient are exact after the corrections, and un21     *)
(* fits a word and is below the divisor, so that its subtraction, which    *)
(* wraps, computes it.                                                     *)
DigitsExact ==
  \A hi, lo \in Words, d \in Words \ {0} :
    hi < d =>
      LET u      == Normalized(hi, lo, d)
          exact  == u.hi * B + u.lo \div B
          first  == FirstDigit(u)
          rest   == Rest(u, first.q)
          second == SecondDigit(u, rest)
      IN  /\ first.q = exact \div u.d
          /\ rest = exact % u.d
          /\ second.q = (rest * B + (u.lo % B)) \div u.d

(***************************************************************************)
(* Each operation returns what integer arithmetic does, modulo the width:  *)
(* no carry between the words, no partial product, no sign and no digit of *)
(* a quotient is lost, for any operands.  Two corrections are enough for   *)
(* either digit, which the comment on the division takes from Knuth.       *)
(***************************************************************************)
ArithmeticExact == SumsExact /\ ProductsExact /\ QuotientsExact /\ DigitsExact
===============================================================================
