--------------------------------- MODULE TopK ---------------------------------
(***************************************************************************)
(* The top-K reservoir of src/iomoments_topk.h: K unsorted slots that hold *)
(* the K largest latencies seen, filled by the BPF completion program and  *)
(* merged in userspace.  This module holds the data structure and its      *)
(* operations; TopKPipeline runs them.                                     *)
(***************************************************************************)
EXTENDS Integers, FiniteSets

CONSTANT K            \* IOMOMENTS_TOPK_K

(***************************************************************************)
(* IOMOMENTS_TOPK_K is 32.  The code masks indexes with K - 1, which is    *)
(* the remainder by K because K is a power of two; with Mask defined as    *)
(* the remainder nothing below depends on the power of two.                *)
(***************************************************************************)
ASSUME KAssumption == K \in Nat \ {0}

Slots == 0 .. (K - 1)

Reservoir == [samples : [Slots -> Nat], count : 0 .. K, min_idx : Slots]

Zero == [samples |-> [s \in Slots |-> 0], count |-> 0, min_idx |-> 0]

Mask(idx) == idx % K

(* The scan keeps the first of the smallest slots: it moves on a strict <. *)
IsFirstMin(samples, m) ==
  /\ \A s \in Slots : samples[m] <= samples[s]
  /\ \A s \in Slots : s < m => samples[m] < samples[s]

RecomputeMin(t) ==
  [t EXCEPT !.min_idx = CHOOSE m \in Slots : IsFirstMin(t.samples, m)]

WithSample(t, slot, x) == [t.samples EXCEPT ![slot] = x]

Fill(t, x) ==
  LET filled == [samples |-> WithSample(t, Mask(t.count), x),
                 count   |-> t.count + 1,
                 min_idx |-> t.min_idx]
  IN  IF filled.count = K THEN RecomputeMin(filled) ELSE filled

(* Mutant: the smallest slot is not looked for again. *)
Displace_StaleMin(t, x) ==
  IF x <= t.samples[Mask(t.min_idx)]
  THEN t
  ELSE [t EXCEPT !.samples = WithSample(t, Mask(t.min_idx), x)]

Displace(t, x) ==
  IF x <= t.samples[Mask(t.min_idx)]
  THEN t
  ELSE RecomputeMin([t EXCEPT !.samples = WithSample(t, Mask(t.min_idx), x)])

(* Mutant: the reservoir is never full. *)
Insert_AlwaysFills(t, x) == Fill(t, x)

Insert(t, x) == IF t.count < K THEN Fill(t, x) ELSE Displace(t, x)

-------------------------------------------------------------------------------
(***************************************************************************)
(* What a reservoir promises, stated without its mechanism.  The K largest *)
(* of a collection are determined by how many of them reach each threshold *)
(* v: as many as the collection has, but at most K.                        *)
(***************************************************************************)
Used(t) == {s \in Slots : s < t.count}

AtLeast(t, v) == {s \in Used(t) : t.samples[s] >= v}

CountAtLeast(t, v) == Cardinality(AtLeast(t, v))

Lesser(a, b) == IF a <= b THEN a ELSE b

(* A full reservoir must know its smallest slot: the O(1) reject reads it. *)
MinIdxValid(t) ==
  t.count = K => \A s \in Slots : t.samples[t.min_idx] <= t.samples[s]
===============================================================================
