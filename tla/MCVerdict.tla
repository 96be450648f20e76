------------------------------- MODULE MCVerdict ------------------------------
EXTENDS Verdict

(* Windows: none, one or two equal samples, two different ones. *)
One(x)  == [n |-> 1, m1 |-> FromInt(x), m2 |-> ZeroFrac]
Same(x) == [n |-> 2, m1 |-> FromInt(x), m2 |-> ZeroFrac]
Mixed   == [n |-> 2, m1 |-> Frac(1, 2), m2 |-> Frac(1, 2)]
Patterns ==
  UNION {[1 .. l -> {Empty, One(0), Same(1), Mixed}] : l \in 1 .. 2}
  \cup [1 .. 4 -> {One(0), One(1)}]

(* Every pattern repeated up to a length. *)
Repeated(p, len) == [i \in 1 .. len |-> p[((i - 1) % Len(p)) + 1]]
Periodic == {Repeated(p, len) : p \in Patterns, len \in {0, 3, 4, 8, 10, 16}}

(* No pattern: among these are rings every evaluator finds GREEN. *)
Irregular ==
  {<<Same(0), Same(0), Mixed, Same(1), Same(0)>> \o tail :
     tail \in UNION {[1 .. l -> {Same(0), Same(1), Mixed}] : l \in 2 .. 4}}

MCRings == Periodic \cup Irregular
===============================================================================
