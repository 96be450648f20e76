-------------------------- MODULE TopKPipelineProofs --------------------------
(***************************************************************************)
(* TopKPipeline for every K, every number of CPUs and every set of         *)
(* latencies: type correctness, that each reservoir holds exactly the      *)
(* K largest of what went into it, and that from the CPUs to the Hill      *)
(* estimator nothing goes in twice or is left out.                         *)
(*                                                                         *)
(* ReservoirsExact is not inductive: it says nothing of a merge under way, *)
(* of the copies being merged or of min_idx.  IInv adds them.  The end to  *)
(* end property needs a balance of the samples besides, Conserved.         *)
(*                                                                         *)
(* First come induction and sums, then the operations of one reservoir,    *)
(* then the pipeline.                                                      *)
(***************************************************************************)
EXTENDS TopKPipeline, SequenceTheorems, FiniteSetTheorems, WellFoundedInduction, TLAPS

(* Every non-empty set of naturals has a least element. *)
LEMMA LeastNat ==
  ASSUME NEW S, S \subseteq Nat, S # {}
  PROVE  \E x \in S : \A y \in S : x <= y
<1> DEFINE Below(x) == 0 .. x
           T == {Below(x) : x \in S}
<1>1. T \subseteq FiniteSubsetsOf(Nat)
  <2>1. ASSUME NEW x \in S
        PROVE  Below(x) \in SUBSET Nat /\ IsFiniteSet(Below(x))
    BY FS_Interval
  <2>2. QED
    BY <2>1, Zenon DEF FiniteSubsetsOf
<1>2. T # {}
  OBVIOUS
<1>3. \E u \in T : \A w \in T : <<w, u>> \notin StrictSubsetOrdering(Nat)
  <2> HIDE DEF T
  <2>1. QED
    BY <1>1, <1>2, FS_StrictSubsetOrderingWellFounded, WFMin
<1>4. PICK x \in S : \A w \in T : <<w, Below(x)>> \notin StrictSubsetOrdering(Nat)
  BY <1>3
<1>5. ASSUME NEW y \in S, y < x PROVE FALSE
  <2>1. Below(y) \subseteq Below(x) /\ Below(y) # Below(x)
    <3>1. x \in Below(x) /\ x \notin Below(y)
      BY <1>5
    <3>2. QED
      BY <3>1, <1>5
  <2>2. Below(y) \in SUBSET Nat /\ Below(x) \in SUBSET Nat
    OBVIOUS
  <2>3. <<Below(y), Below(x)>> \in StrictSubsetOrdering(Nat)
    BY <2>1, <2>2, Zenon DEF StrictSubsetOrdering
  <2>4. QED
    BY <2>3, <1>4
<1>6. \A y \in S : x <= y
  BY <1>5
<1>7. QED
  BY <1>6

(* Induction, over a set rather than a predicate. *)
LEMMA SetInduction ==
  ASSUME NEW S, 0 \in S, \A n \in Nat : n \in S => n + 1 \in S
  PROVE  Nat \subseteq S
<1> SUFFICES ASSUME Nat \ S # {}
             PROVE  FALSE
  OBVIOUS
<1> DEFINE T == Nat \ S
<1>1. PICK x \in T : \A y \in T : x <= y
  BY LeastNat
<1>2. x - 1 \in Nat /\ x - 1 \notin T
  BY <1>1
<1> QED
  BY <1>1, <1>2

(* The sum of f[0] .. f[n - 1]. *)
SumTo(f, n) == LET s[i \in 0 .. n] == IF i = 0 THEN 0 ELSE s[i - 1] + f[i - 1] IN s[n]

(* s holds the partial sums of f up to its n-th. *)
IsSum(s, f, n) ==
  s = [i \in 0 .. n |-> IF i = 0 THEN 0 ELSE s[i - 1] + f[i - 1]]

(* Partial sums exist, of any integers. *)
LEMMA SumExists ==
  ASSUME NEW n \in Nat, NEW f, \A i \in 0 .. n - 1 : f[i] \in Int
  PROVE  \E s \in [0 .. n -> Int] : IsSum(s, f, n)
<1> DEFINE S == {m \in Nat : m <= n => \E s \in [0 .. m -> Int] : IsSum(s, f, m)}
<1>1. 0 \in S
  <2> DEFINE s == [i \in 0 .. 0 |-> 0]
  <2>1. s \in [0 .. 0 -> Int] /\ IsSum(s, f, 0)
    BY DEF IsSum
  <2> QED
    BY <2>1
<1>2. ASSUME NEW m \in Nat, m \in S PROVE m + 1 \in S
  <2> SUFFICES ASSUME m + 1 <= n
               PROVE  \E t \in [0 .. m + 1 -> Int] : IsSum(t, f, m + 1)
    OBVIOUS
  <2>1. PICK s \in [0 .. m -> Int] : IsSum(s, f, m)
    BY <1>2
  <2> DEFINE t == [i \in 0 .. m + 1 |-> IF i = m + 1 THEN s[m] + f[m] ELSE s[i]]
  <2>2. f[m] \in Int /\ s[m] \in Int
    OBVIOUS
  <2>3. t \in [0 .. m + 1 -> Int]
    BY <2>2
  <2>4. ASSUME NEW i \in 0 .. m + 1
        PROVE  t[i] = IF i = 0 THEN 0 ELSE t[i - 1] + f[i - 1]
    <3>1. \A j \in 0 .. m : s[j] = IF j = 0 THEN 0 ELSE s[j - 1] + f[j - 1]
      BY <2>1 DEF IsSum
    <3>2. CASE i = 0
      BY <3>1, <3>2
    <3>3. CASE i # 0 /\ i # m + 1
      BY <3>1, <3>3
    <3>4. CASE i = m + 1
      BY <2>2, <3>4
    <3> QED
      BY <3>2, <3>3, <3>4
  <2>5. t = [i \in 0 .. m + 1 |-> IF i = 0 THEN 0 ELSE t[i - 1] + f[i - 1]]
    BY <2>4
  <2> HIDE DEF t
  <2> QED
    BY <2>3, <2>5 DEF IsSum
<1> HIDE DEF S
<1>3. n \in S
  BY <1>1, <1>2, SetInduction
<1> QED
  BY <1>3 DEF S

(* g has the summands of f, but for the p-th, which is larger by d; then   *)
(* so are the sums behind it.                                              *)
Shifted(f, g, n, p, d) ==
  \A i \in 0 .. n - 1 : /\ f[i] \in Int
                        /\ i = p => g[i] = f[i] + d
                        /\ i # p => g[i] = f[i]

ShiftedBehind(s, t, m, p, d) ==
  /\ s[m] \in Int
  /\ m <= p => t[m] = s[m]
  /\ p < m => t[m] = s[m] + d

LEMMA SumsShift ==
  ASSUME NEW n \in Nat, NEW p \in Nat, NEW d \in Int, NEW f, NEW g, NEW s, NEW t,
         Shifted(f, g, n, p, d), IsSum(s, f, n), IsSum(t, g, n)
  PROVE  \A m \in 0 .. n : ShiftedBehind(s, t, m, p, d)
<1> DEFINE S == {m \in Nat : m <= n => ShiftedBehind(s, t, m, p, d)}
<1>1. 0 \in S
  BY DEF IsSum, ShiftedBehind
<1>2. ASSUME NEW m \in Nat, m \in S PROVE m + 1 \in S
  <2> SUFFICES ASSUME m + 1 <= n
               PROVE  ShiftedBehind(s, t, m + 1, p, d)
    OBVIOUS
  <2>1. s[m + 1] = s[m] + f[m] /\ t[m + 1] = t[m] + g[m]
    BY DEF IsSum
  <2>2. f[m] \in Int /\ (m = p => g[m] = f[m] + d) /\ (m # p => g[m] = f[m])
    BY DEF Shifted
  <2>3. ShiftedBehind(s, t, m, p, d)
    BY <1>2
  <2> QED
    BY <2>1, <2>2, <2>3 DEF ShiftedBehind
<1> HIDE DEF S
<1>3. Nat \subseteq S
  BY <1>1, <1>2, SetInduction
<1> QED
  BY <1>3 DEF S

(* Whichever function holds the partial sums, the sum is its last value.   *)
LEMMA SumIs ==
  ASSUME NEW n \in Nat, NEW f, \A i \in 0 .. n - 1 : f[i] \in Int,
         NEW t, IsSum(t, f, n)
  PROVE  SumTo(f, n) = t[n] /\ SumTo(f, n) \in Int
<1> DEFINE u == CHOOSE s : s = [i \in 0 .. n |-> IF i = 0 THEN 0 ELSE s[i - 1] + f[i - 1]]
<1>1. IsSum(u, f, n)
  BY DEF IsSum
<1> HIDE DEF u
<1>2. SumTo(f, n) = u[n]
  BY DEF SumTo, u
<1>3. Shifted(f, f, n, 0, 0)
  BY DEF Shifted
<1>4. \A m \in 0 .. n : ShiftedBehind(t, u, m, 0, 0)
  BY <1>1, <1>3, SumsShift
<1> QED
  BY <1>2, <1>4 DEF ShiftedBehind

(* What the sum is computed from: nothing, and one summand more.           *)
LEMMA SumFirst ==
  ASSUME NEW f
  PROVE  SumTo(f, 0) = 0
<1> DEFINE t == [i \in 0 .. 0 |-> 0]
<1>1. IsSum(t, f, 0)
  BY DEF IsSum
<1>2. \A i \in 0 .. 0 - 1 : f[i] \in Int
  OBVIOUS
<1> HIDE DEF t
<1>3. SumTo(f, 0) = t[0]
  BY <1>1, <1>2, SumIs
<1> QED
  BY <1>3 DEF t

LEMMA SumNext ==
  ASSUME NEW n \in Nat, NEW f, \A i \in 0 .. n : f[i] \in Int
  PROVE  SumTo(f, n) \in Int /\ SumTo(f, n + 1) = SumTo(f, n) + f[n]
<1>0. n + 1 \in Nat /\ \A i \in 0 .. (n + 1) - 1 : f[i] \in Int
  OBVIOUS
<1>1. PICK s \in [0 .. n + 1 -> Int] : IsSum(s, f, n + 1)
  BY <1>0, SumExists
<1> DEFINE t == [i \in 0 .. n |-> s[i]]
<1>2. \A i \in 0 .. n + 1 : s[i] = IF i = 0 THEN 0 ELSE s[i - 1] + f[i - 1]
  BY <1>1 DEF IsSum
<1>3. \A i \in 0 .. n : t[i] = IF i = 0 THEN 0 ELSE t[i - 1] + f[i - 1]
  BY <1>2
<1>4. IsSum(t, f, n)
  BY <1>3 DEF IsSum
<1>5. t[n] = s[n] /\ s[n + 1] = s[n] + f[n]
  BY <1>2
<1> HIDE DEF t
<1>6. SumTo(f, n) = t[n] /\ SumTo(f, n) \in Int
  BY <1>4, SumIs
<1>7. SumTo(f, n + 1) = s[n + 1]
  BY <1>0, <1>1, SumIs
<1> QED
  BY <1>5, <1>6, <1>7

(* A summand that grows makes the sum grow by as much. *)
LEMMA SumChange ==
  ASSUME NEW n \in Nat, NEW p \in Nat, NEW d \in Int, NEW f, NEW g,
         Shifted(f, g, n, p, d)
  PROVE  /\ SumTo(f, n) \in Int
         /\ SumTo(g, n) = IF p < n THEN SumTo(f, n) + d ELSE SumTo(f, n)
<1>1. \A i \in 0 .. n - 1 : f[i] \in Int /\ g[i] \in Int
  BY DEF Shifted
<1>2. PICK s \in [0 .. n -> Int] : IsSum(s, f, n)
  BY <1>1, SumExists
<1>3. PICK t \in [0 .. n -> Int] : IsSum(t, g, n)
  BY <1>1, SumExists
<1>4. \A m \in 0 .. n : ShiftedBehind(s, t, m, p, d)
  BY <1>2, <1>3, SumsShift
<1>5. SumTo(f, n) = s[n] /\ SumTo(f, n) \in Int
  BY <1>1, <1>2, SumIs
<1>6. SumTo(g, n) = t[n]
  BY <1>1, <1>3, SumIs
<1> QED
  BY <1>4, <1>5, <1>6 DEF ShiftedBehind

(* Sums of equal summands are equal. *)
LEMMA SumSame ==
  ASSUME NEW n \in Nat, NEW f, NEW g,
         \A i \in 0 .. n - 1 : f[i] \in Int /\ g[i] = f[i]
  PROVE  SumTo(f, n) \in Int /\ SumTo(g, n) = SumTo(f, n)
<1>1. Shifted(f, g, n, n, 0)
  BY DEF Shifted
<1> QED
  BY <1>1, SumChange

LEMMA SumOfZeros ==
  ASSUME NEW n \in Nat, NEW f, \A i \in 0 .. n - 1 : f[i] = 0
  PROVE  SumTo(f, n) = 0
<1> DEFINE t == [i \in 0 .. n |-> 0]
<1>1. \A i \in 0 .. n : t[i] = IF i = 0 THEN 0 ELSE t[i - 1] + f[i - 1]
  OBVIOUS
<1>2. IsSum(t, f, n) /\ t[n] = 0
  BY <1>1 DEF IsSum
<1> HIDE DEF t
<1>3. \A i \in 0 .. n - 1 : f[i] \in Int
  OBVIOUS
<1> QED
  BY <1>2, <1>3, SumIs

-------------------------------------------------------------------------------
(* What the operations of a reservoir do for every K: an insert keeps it   *)
(* well formed and changes each threshold's count the way keeping the K    *)
(* largest must.                                                           *)

(* A well-formed reservoir, one a run of the code can have produced. *)
Good(t) == t \in Reservoir /\ MinIdxValid(t)

(* The part of AtLeast(t, v) in the first n slots, for a loop that has     *)
(* consumed n of them.                                                     *)
Prefix(t, n, v) == {s \in Used(t) : s < n /\ t.samples[s] >= v}
PrefixCount(t, n, v) == Cardinality(Prefix(t, n, v))

-------------------------------------------------------------------------------
(* The scan's result exists for every contents of the slots. *)
LEMMA FirstMinExists ==
  ASSUME NEW samples \in [Slots -> Nat]
  PROVE  \E m \in Slots : IsFirstMin(samples, m)
<1> DEFINE V == {samples[s] : s \in Slots}
<1>1. V \subseteq Nat /\ V # {}
  BY KAssumption DEF Slots
<1>2. PICK x \in V : \A y \in V : x <= y
  <2> HIDE DEF V
  <2>1. QED
    BY <1>1, LeastNat
<1> DEFINE P == {s \in Slots : samples[s] = x}
<1>3. P \subseteq Nat /\ P # {}
  BY DEF Slots
<1>4. PICK m \in P : \A s \in P : m <= s
  <2> HIDE DEF P
  <2>1. QED
    BY <1>3, LeastNat
<1>5. ASSUME NEW s \in Slots
      PROVE  /\ samples[m] <= samples[s]
             /\ s < m => samples[m] < samples[s]
  <2>1. samples[m] = x /\ x <= samples[s]
    BY <1>2
  <2>2. s < m => s \notin P
    BY <1>4 DEF Slots
  <2>3. QED
    BY <2>1, <2>2 DEF Slots
<1>6. QED
  BY <1>5 DEF IsFirstMin

(* Recomputing min_idx leaves the samples alone and finds the minimum. *)
LEMMA RecomputeMinSpec ==
  ASSUME NEW t \in Reservoir
  PROVE  /\ RecomputeMin(t) \in Reservoir
         /\ RecomputeMin(t).samples = t.samples
         /\ RecomputeMin(t).count = t.count
         /\ MinIdxValid(RecomputeMin(t))
<1> DEFINE m == CHOOSE m \in Slots : IsFirstMin(t.samples, m)
<1>1. m \in Slots /\ IsFirstMin(t.samples, m)
  BY FirstMinExists DEF Reservoir
<1>2. RecomputeMin(t) = [t EXCEPT !.min_idx = m]
  BY DEF RecomputeMin
<1> HIDE DEF m
<1>3. QED
  BY <1>1, <1>2 DEF Reservoir, MinIdxValid, IsFirstMin

(* The mask is the identity on the indexes a well-formed reservoir has. *)
LEMMA MaskSlot ==
  ASSUME NEW s \in Slots
  PROVE  Mask(s) = s
BY KAssumption DEF Slots, Mask

-------------------------------------------------------------------------------
(* What an insert does to a reservoir with room. *)
LEMMA FillSpec ==
  ASSUME NEW t, Good(t), t.count < K, NEW x \in Nat
  PROVE  /\ Good(Insert(t, x))
         /\ Insert(t, x).count = t.count + 1
         /\ Insert(t, x).samples = [t.samples EXCEPT ![t.count] = x]
<1> DEFINE filled == [samples |-> [t.samples EXCEPT ![t.count] = x],
                      count   |-> t.count + 1,
                      min_idx |-> t.min_idx]
<1>1. t \in Reservoir /\ t.count \in Slots
  BY KAssumption DEF Good, Reservoir, Slots
<1>2. filled \in Reservoir
  BY <1>1, KAssumption DEF Reservoir, Slots
<1>3. Insert(t, x) = IF filled.count = K THEN RecomputeMin(filled) ELSE filled
  BY <1>1, MaskSlot DEF Insert, Fill, WithSample, Reservoir
<1>4. filled.samples = [t.samples EXCEPT ![t.count] = x]
      /\ filled.count = t.count + 1
  BY <1>1 DEF Reservoir
<1> HIDE DEF filled
<1>5. CASE filled.count = K
  BY <1>2, <1>3, <1>4, <1>5, RecomputeMinSpec DEF Good
<1>6. CASE filled.count # K
  BY <1>2, <1>3, <1>4, <1>6 DEF Good, MinIdxValid
<1>7. QED
  BY <1>5, <1>6

(* What an insert does to a full reservoir. *)
LEMMA DisplaceSpec ==
  ASSUME NEW t, Good(t), t.count = K, NEW x \in Nat
  PROVE  /\ Good(Insert(t, x))
         /\ Insert(t, x).count = K
         /\ Insert(t, x).samples =
              IF x <= t.samples[t.min_idx]
              THEN t.samples
              ELSE [t.samples EXCEPT ![t.min_idx] = x]
<1> DEFINE stored == [t EXCEPT !.samples = [t.samples EXCEPT ![t.min_idx] = x]]
<1>1. t \in Reservoir /\ t.min_idx \in Slots /\ ~(t.count < K)
  BY KAssumption DEF Good, Reservoir, Slots
<1>2. stored \in Reservoir
  BY <1>1 DEF Reservoir
<1>3. Insert(t, x) = IF x <= t.samples[t.min_idx] THEN t ELSE RecomputeMin(stored)
  BY <1>1, MaskSlot DEF Insert, Displace, WithSample, Reservoir
<1>4. stored.samples = [t.samples EXCEPT ![t.min_idx] = x] /\ stored.count = K
  BY <1>1 DEF Reservoir
<1> HIDE DEF stored
<1>5. QED
  BY <1>2, <1>3, <1>4, RecomputeMinSpec DEF Good

(* An insert keeps the reservoir well formed. *)
LEMMA InsertGood ==
  ASSUME NEW t, Good(t), NEW x \in Nat
  PROVE  Good(Insert(t, x))
<1>1. t.count < K \/ t.count = K
  BY KAssumption DEF Good, Reservoir
<1>2. QED
  BY <1>1, FillSpec, DisplaceSpec
-------------------------------------------------------------------------------
(* The slots that reach a threshold are finitely many, at most the count. *)
LEMMA CountType ==
  ASSUME NEW t \in Reservoir, NEW v \in Nat
  PROVE  /\ IsFiniteSet(AtLeast(t, v))
         /\ CountAtLeast(t, v) \in 0 .. t.count
<1>1. Used(t) = 0 .. (t.count - 1)
  BY KAssumption DEF Used, Slots, Reservoir
<1>2. t.count \in Nat
  BY KAssumption DEF Reservoir
<1>3. IsFiniteSet(Used(t)) /\ Cardinality(Used(t)) = t.count
  BY <1>1, <1>2, FS_Interval
<1>4. AtLeast(t, v) \in SUBSET Used(t)
  BY DEF AtLeast
<1>5. IsFiniteSet(AtLeast(t, v)) /\ Cardinality(AtLeast(t, v)) <= t.count
  BY <1>3, <1>4, FS_Subset
<1>6. Cardinality(AtLeast(t, v)) \in Nat
  BY <1>5, FS_CardinalityType
<1>7. QED
  BY <1>2, <1>5, <1>6 DEF CountAtLeast

(* A full reservoir whose minimum reaches v reaches it everywhere. *)
LEMMA FullCount ==
  ASSUME NEW t, Good(t), t.count = K, NEW v \in Nat,
         v <= t.samples[t.min_idx]
  PROVE  CountAtLeast(t, v) = K
<1>1. t \in Reservoir /\ t.samples \in [Slots -> Nat] /\ t.min_idx \in Slots
  BY DEF Good, Reservoir
<1>2. AtLeast(t, v) = 0 .. (K - 1)
  BY <1>1, KAssumption DEF AtLeast, Used, Good, MinIdxValid, Slots
<1>3. Cardinality(0 .. (K - 1)) = IF 0 > K - 1 THEN 0 ELSE (K - 1) - 0 + 1
  <2>1. 0 \in Int /\ K - 1 \in Int
    BY KAssumption
  <2>2. QED
    BY <2>1, FS_Interval
<1>4. QED
  BY <1>2, <1>3, KAssumption DEF CountAtLeast

(* An empty reservoir holds nothing. *)
LEMMA ZeroSpec ==
  ASSUME NEW v \in Nat
  PROVE  Good(Zero) /\ CountAtLeast(Zero, v) = 0
<1>1. Good(Zero)
  BY KAssumption DEF Good, Zero, Reservoir, Slots, MinIdxValid
<1>2. AtLeast(Zero, v) = {}
  BY DEF AtLeast, Used, Zero, Slots
<1>3. QED
  BY <1>1, <1>2, FS_EmptySet DEF CountAtLeast

(***************************************************************************)
(* The heart of the matter: an insert changes the number of samples that   *)
(* reach v exactly as keeping the K largest must, whether it fills a slot, *)
(* displaces the minimum or rejects the sample.                            *)
(***************************************************************************)
LEMMA InsertCount ==
  ASSUME NEW t, Good(t), NEW x \in Nat, NEW v \in Nat
  PROVE  CountAtLeast(Insert(t, x), v) =
           IF x >= v THEN Lesser(K, CountAtLeast(t, v) + 1)
                     ELSE CountAtLeast(t, v)
<1> DEFINE u == Insert(t, x)
           A == AtLeast(t, v)
           B == AtLeast(u, v)
<1>1. t \in Reservoir /\ t.samples \in [Slots -> Nat]
      /\ t.min_idx \in Slots /\ t.count \in 0 .. K
  BY DEF Good, Reservoir
<1>2. IsFiniteSet(A) /\ Cardinality(A) \in 0 .. t.count
  BY <1>1, CountType DEF CountAtLeast
<1>3. CASE t.count < K
  <2>1. /\ u.count = t.count + 1
        /\ u.samples = [t.samples EXCEPT ![t.count] = x]
        /\ t.count \in Slots
    BY <1>1, <1>3, FillSpec, KAssumption DEF Slots
  <2>2. t.count \notin A
    BY <1>1, KAssumption DEF AtLeast, Used
  <2> HIDE DEF u
  <2>3. B = IF x >= v THEN A \cup {t.count} ELSE A
    <3>1. \A s \in Slots : s < u.count <=> s < t.count \/ s = t.count
      BY <1>1, <2>1, KAssumption DEF Slots
    <3>2. u.samples[t.count] = x /\ \A s \in Used(t) : u.samples[s] = t.samples[s]
      <4>1. \A s \in Slots : u.samples[s] = IF s = t.count THEN x ELSE t.samples[s]
        BY <1>1, <2>1
      <4>2. \A s \in Used(t) : s \in Slots /\ s # t.count
        BY <1>1, KAssumption DEF Used, Slots
      <4> QED
        BY <2>1, <4>1, <4>2
    <3> QED
      <4>1. B = {s \in Slots : s < u.count /\ u.samples[s] >= v}
        BY DEF AtLeast, Used
      <4>2. A = {s \in Slots : s < t.count /\ t.samples[s] >= v}
        BY DEF AtLeast, Used
      <4> HIDE DEF A, B
      <4> QED
        BY <2>1, <3>1, <3>2, <4>1, <4>2 DEF Used
  <2>4. x >= v => Cardinality(B) = Cardinality(A) + 1
    BY <1>2, <2>2, <2>3, FS_AddElement
  <2>5. Cardinality(A) + 1 <= K
    BY <1>1, <1>2, <1>3, KAssumption
  <2>6. QED
    BY <1>2, <2>3, <2>4, <2>5, KAssumption DEF CountAtLeast, Lesser, u
<1>4. CASE t.count = K /\ x <= t.samples[t.min_idx]
  <2>1. u.count = t.count /\ u.samples = t.samples
    BY <1>1, <1>4, DisplaceSpec
  <2> HIDE DEF u
  <2>2. B = A
    BY <2>1 DEF AtLeast, Used
  <2>3. x >= v => Cardinality(A) = K
    BY <1>1, <1>4, FullCount DEF CountAtLeast
  <2>4. QED
    BY <1>2, <2>2, <2>3, KAssumption DEF CountAtLeast, Lesser, u
<1>5. CASE t.count = K /\ ~(x <= t.samples[t.min_idx])
  <2> DEFINE m == t.min_idx
  <2>1. /\ u.count = K
        /\ u.samples = [t.samples EXCEPT ![m] = x]
        /\ m \in Used(t)
    BY <1>1, <1>5, DisplaceSpec, KAssumption DEF Used, Slots
  <2>2. t.samples[m] \in Nat /\ t.samples[m] < x
    BY <1>1, <1>5
  <2> HIDE DEF u, m
  <2>3. CASE x < v
    <3>1. B = A
      BY <1>1, <1>5, <2>1, <2>2, <2>3 DEF AtLeast, Used, Slots
    <3>2. QED
      BY <3>1, <2>3 DEF CountAtLeast, u
  <2>4. CASE x >= v /\ t.samples[m] < v
    <3>1. B = A \cup {m} /\ m \notin A
      BY <1>1, <1>5, <2>1, <2>2, <2>4 DEF AtLeast, Used, Slots
    <3>2. Cardinality(B) = Cardinality(A) + 1
      BY <1>2, <3>1, FS_AddElement
    <3>3. Cardinality(B) <= K
      <4>1. Good(u)
        BY <1>5, InsertGood DEF u
      <4>2. QED
        BY <4>1, <2>1, CountType, KAssumption DEF Good, CountAtLeast
    <3>4. QED
      BY <1>2, <2>4, <3>2, <3>3, KAssumption DEF CountAtLeast, Lesser, u
  <2>5. CASE t.samples[m] >= v
    <3>1. B = A
      BY <1>1, <1>5, <2>1, <2>2, <2>5 DEF AtLeast, Used, Slots
    <3>2. Cardinality(A) = K
      BY <1>5, <2>5, <1>1, FullCount DEF CountAtLeast, m
    <3>3. QED
      BY <1>2, <2>5, <2>2, <3>1, <3>2, KAssumption DEF CountAtLeast, Lesser, u
  <2>6. QED
    BY <2>2, <2>3, <2>4, <2>5
<1>6. QED
  BY <1>1, <1>3, <1>4, <1>5, KAssumption

-------------------------------------------------------------------------------
(* A merge loop that consumed nothing has counted nothing. *)
LEMMA PrefixEmpty ==
  ASSUME NEW t \in Reservoir, NEW v \in Nat
  PROVE  PrefixCount(t, 0, v) = 0
<1>1. Prefix(t, 0, v) = {}
  BY DEF Prefix, Used, Slots
<1>2. QED
  BY <1>1, FS_EmptySet DEF PrefixCount

(* The next iteration counts the next slot if it reaches the threshold. *)
LEMMA PrefixNext ==
  ASSUME NEW t \in Reservoir, NEW v \in Nat, NEW n \in Nat, n < t.count
  PROVE  /\ PrefixCount(t, n, v) \in Nat
         /\ t.samples[n] \in Nat
         /\ PrefixCount(t, n + 1, v) =
              PrefixCount(t, n, v) + IF t.samples[n] >= v THEN 1 ELSE 0
<1>1. t.samples \in [Slots -> Nat] /\ t.count \in 0 .. K /\ n \in Used(t)
  BY KAssumption DEF Reservoir, Used, Slots
<1>2. Prefix(t, n, v) \in SUBSET AtLeast(t, v)
  BY DEF Prefix, AtLeast
<1>3. IsFiniteSet(Prefix(t, n, v))
  BY <1>2, CountType, FS_Subset
<1>4. n \notin Prefix(t, n, v)
  BY DEF Prefix
<1>5. Prefix(t, n + 1, v) =
        IF t.samples[n] >= v THEN Prefix(t, n, v) \cup {n} ELSE Prefix(t, n, v)
  BY <1>1 DEF Prefix, Used, Slots
<1>6. PrefixCount(t, n, v) \in Nat
  BY <1>3, FS_CardinalityType DEF PrefixCount
<1>7. t.samples[n] \in Nat
  BY <1>1 DEF Used
<1>8. CASE t.samples[n] >= v
  BY <1>3, <1>4, <1>5, <1>6, <1>7, <1>8, FS_AddElement DEF PrefixCount
<1>9. CASE ~(t.samples[n] >= v)
  BY <1>5, <1>6, <1>7, <1>9 DEF PrefixCount
<1>10. QED
  BY <1>6, <1>7, <1>8, <1>9

(* A loop that ran to the count has counted the whole reservoir. *)
LEMMA PrefixFull ==
  ASSUME NEW t \in Reservoir, NEW v \in Nat, NEW n \in Nat, n >= t.count
  PROVE  PrefixCount(t, n, v) = CountAtLeast(t, v)
<1>1. Prefix(t, n, v) = AtLeast(t, v)
  BY KAssumption DEF Prefix, AtLeast, Used, Slots, Reservoir
<1>2. QED
  BY <1>1 DEF PrefixCount, CountAtLeast

-------------------------------------------------------------------------------
(* A reservoir that can be trusted: well formed, and exact for its tally. *)
Sound(t, f) == Good(t) /\ f \in Tally /\ Exact(t, f)

(* dst has taken in f and the first n slots of src. *)
HalfMerged(dst, f, src, n) ==
  /\ Good(dst)
  /\ f \in Tally
  /\ n \in 0 .. src.count
  /\ \A v \in Values :
       CountAtLeast(dst, v) = Lesser(K, f[v] + PrefixCount(src, n, v))

MapsInv ==
  /\ cpu \in [CPUs -> Reservoir] /\ snap \in [CPUs -> Reservoir]
  /\ fedCpu \in [CPUs -> Tally] /\ fedSnap \in [CPUs -> Tally]
  /\ \A p \in CPUs : Sound(cpu[p], fedCpu[p]) /\ Sound(snap[p], fedSnap[p])

RingInv ==
  /\ ring \in Seq(Reservoir) /\ fedRing \in Seq(Tally)
  /\ Len(ring) = Len(fedRing)
  /\ \A w \in 1 .. Len(ring) : Sound(ring[w], fedRing[w])

DrainInv ==
  /\ out \in Reservoir /\ fedOut \in Tally
  /\ pc \in {"lookup", "merge", "reset"} => idx \in CPUs
  /\ pc \in {"lookup", "reset"} => slot = 0
  /\ pc = "merge" => HalfMerged(out, fedOut, snap[idx], slot)
  /\ pc = "reset" => Sound(out, fedOut)

VerdictInv ==
  /\ global \in Reservoir /\ fedGlobal \in Tally
  /\ pc = "verdict" =>
       /\ idx \in 0 .. Len(ring)
       /\ IF idx < Len(ring)
          THEN HalfMerged(global, fedGlobal, ring[idx + 1], slot)
          ELSE slot = 0 /\ Sound(global, fedGlobal)
  /\ pc = "done" => Sound(global, fedGlobal)

Rest ==
  /\ pc \in {"lookup", "merge", "reset", "verdict", "done", "failed"}
  /\ idx \in Nat /\ slot \in Nat /\ completed \in Nat
  /\ lost \in [Values -> Int] /\ total \in Tally

IInv == MapsInv /\ RingInv /\ DrainInv /\ VerdictInv /\ Rest
-------------------------------------------------------------------------------
(* An empty reservoir is exact for nothing. *)
LEMMA SoundZero == Sound(Zero, None)
<1>1. ASSUME NEW v \in Values
      PROVE  CountAtLeast(Zero, v) = Lesser(K, None[v])
  BY ZeroSpec, PipelineAssumption, KAssumption DEF None, Lesser
<1>2. Good(Zero)
  BY KAssumption DEF Good, Zero, Reservoir, Slots, MinIdxValid
<1>3. None \in Tally
  BY DEF None, Tally
<1>4. QED
  BY <1>1, <1>2, <1>3 DEF Sound, Exact

(* An insert keeps a reservoir exact. *)
LEMMA SoundInsert ==
  ASSUME NEW t, NEW f, Sound(t, f), NEW x \in Values
  PROVE  Sound(Insert(t, x), Bump(f, x))
<1>1. x \in Nat /\ f \in [Values -> Nat] /\ t \in Reservoir
  BY PipelineAssumption DEF Sound, Tally, Good
<1>2. Bump(f, x) \in Tally
  BY <1>1, PipelineAssumption DEF Bump, Tally
<1>3. ASSUME NEW v \in Values
      PROVE  CountAtLeast(Insert(t, x), v) = Lesser(K, Bump(f, x)[v])
  <2>1. CountAtLeast(Insert(t, x), v) =
          IF x >= v THEN Lesser(K, CountAtLeast(t, v) + 1)
                    ELSE CountAtLeast(t, v)
    BY <1>1, InsertCount, PipelineAssumption DEF Sound
  <2>2. CountAtLeast(t, v) = Lesser(K, f[v])
    BY DEF Sound, Exact
  <2>3. Bump(f, x)[v] = f[v] + IF x >= v THEN 1 ELSE 0
    BY DEF Bump
  <2>4. f[v] \in Nat /\ v \in Nat
    BY <1>1, PipelineAssumption
  <2>5. QED
    BY <1>1, <2>1, <2>2, <2>3, <2>4, KAssumption DEF Lesser
<1>4. Good(Insert(t, x))
  BY <1>1, InsertGood DEF Sound
<1>5. QED
  BY <1>2, <1>3, <1>4 DEF Sound, Exact

(* A merge loop starts from an exact destination. *)
LEMMA StartMerge ==
  ASSUME NEW t, NEW f, Sound(t, f), NEW src \in Reservoir
  PROVE  HalfMerged(t, f, src, 0)
<1>1. ASSUME NEW v \in Values
      PROVE  CountAtLeast(t, v) = Lesser(K, f[v] + PrefixCount(src, 0, v))
  <2>1. PrefixCount(src, 0, v) = 0
    BY PrefixEmpty, PipelineAssumption
  <2>2. f[v] \in Nat
    BY DEF Sound, Tally
  <2>3. QED
    BY <2>1, <2>2 DEF Sound, Exact
<1>2. 0 \in 0 .. src.count
  BY KAssumption DEF Reservoir
<1>3. QED
  BY <1>1, <1>2 DEF HalfMerged, Sound

(* An iteration takes in one more slot of the source. *)
LEMMA StepMerge ==
  ASSUME NEW dst, NEW f, NEW src \in Reservoir, NEW n \in Nat,
         HalfMerged(dst, f, src, n), n < src.count
  PROVE  /\ HalfMerged(Insert(dst, src.samples[n]), f, src, n + 1)
         /\ Insert(dst, src.samples[n]) \in Reservoir
<1> DEFINE x == src.samples[n]
<1>1. n \in Slots /\ x \in Nat /\ src.count \in Nat
  BY KAssumption DEF Slots, Reservoir
<1>2. Good(dst) /\ dst \in Reservoir /\ f \in [Values -> Nat]
  BY DEF HalfMerged, Good, Tally
<1>3. ASSUME NEW v \in Values
      PROVE  CountAtLeast(Insert(dst, x), v) =
               Lesser(K, f[v] + PrefixCount(src, n + 1, v))
  <2>1. CountAtLeast(dst, v) = Lesser(K, f[v] + PrefixCount(src, n, v))
    BY DEF HalfMerged
  <2>2. /\ PrefixCount(src, n, v) \in Nat
        /\ PrefixCount(src, n + 1, v) =
             PrefixCount(src, n, v) + IF x >= v THEN 1 ELSE 0
    BY PrefixNext, PipelineAssumption
  <2>3. CountAtLeast(Insert(dst, x), v) =
          IF x >= v THEN Lesser(K, CountAtLeast(dst, v) + 1)
                    ELSE CountAtLeast(dst, v)
    BY <1>1, <1>2, InsertCount, PipelineAssumption
  <2>4. f[v] \in Nat /\ v \in Nat
    BY <1>2, PipelineAssumption
  <2> HIDE DEF x
  <2>5. QED
    BY <1>1, <2>1, <2>2, <2>3, <2>4, KAssumption DEF Lesser
<1>4. Good(Insert(dst, x))
  BY <1>1, <1>2, InsertGood
<1>5. n + 1 \in 0 .. src.count
  BY <1>1
<1>6. QED
  BY <1>2, <1>3, <1>4, <1>5 DEF HalfMerged, Good, Tally

(* A finished loop leaves the destination exact for both tallies. *)
LEMMA EndMerge ==
  ASSUME NEW dst, NEW f, NEW src, NEW g, NEW n \in Nat,
         HalfMerged(dst, f, src, n), Sound(src, g), n >= src.count
  PROVE  Sound(dst, Plus(f, g))
<1>1. src \in Reservoir /\ f \in [Values -> Nat] /\ g \in [Values -> Nat]
  BY DEF Sound, Good, HalfMerged, Tally
<1>2. Plus(f, g) \in Tally
  BY <1>1 DEF Plus, Tally
<1>3. ASSUME NEW v \in Values
      PROVE  CountAtLeast(dst, v) = Lesser(K, Plus(f, g)[v])
  <2>1. PrefixCount(src, n, v) = Lesser(K, g[v])
    BY <1>1, PrefixFull, PipelineAssumption DEF Sound, Exact
  <2>2. CountAtLeast(dst, v) = Lesser(K, f[v] + PrefixCount(src, n, v))
    BY DEF HalfMerged
  <2>3. Plus(f, g)[v] = f[v] + g[v] /\ f[v] \in Nat /\ g[v] \in Nat
    BY <1>1 DEF Plus
  <2>4. QED
    BY <2>1, <2>2, <2>3, KAssumption DEF Lesser
<1>4. QED
  BY <1>2, <1>3 DEF Sound, Exact, HalfMerged
-------------------------------------------------------------------------------
LEMMA InitIInv == Init => IInv
<1> SUFFICES ASSUME Init PROVE IInv
  OBVIOUS
<1>1. Sound(Zero, None) /\ Zero \in Reservoir /\ None \in Tally
  BY SoundZero DEF Sound, Good
<1>2. MapsInv
  BY <1>1 DEF MapsInv, Init
<1>3. RingInv
  BY DEF RingInv, Init
<1>4. DrainInv
  BY <1>1, PipelineAssumption DEF DrainInv, Init, CPUs
<1>5. VerdictInv
  BY <1>1 DEF VerdictInv, Init
<1>6. Rest
  BY <1>1 DEF Rest, Init, None, Tally
<1>7. QED
  BY <1>2, <1>3, <1>4, <1>5, <1>6 DEF IInv

(* A completion changes one CPU's reservoir and nothing userspace holds. *)
LEMMA CompleteStep ==
  ASSUME IInv, NEW p \in CPUs, NEW x \in Values, Complete(p, x)
  PROVE  IInv'
<1>1. Sound(Insert(cpu[p], x), Bump(fedCpu[p], x))
  BY SoundInsert DEF IInv, MapsInv
<1>2. MapsInv'
  BY <1>1 DEF IInv, MapsInv, Complete, Sound, Good
<1>3. Bump(total, x) \in Tally
  BY PipelineAssumption DEF IInv, Rest, Tally, Bump
<1>4. (RingInv /\ DrainInv /\ VerdictInv)'
  BY DEF IInv, RingInv, DrainInv, VerdictInv, Complete, HalfMerged,
         Sound, Good, Exact
<1>5. Rest'
  BY <1>3 DEF IInv, Rest, Complete
<1>6. QED
  BY <1>2, <1>4, <1>5 DEF IInv

(* A CPU is copied; after the last one the merge starts from nothing. *)
LEMMA LookupStep ==
  ASSUME IInv, Lookup
  PROVE  IInv'
<1>1. idx \in CPUs /\ slot = 0
  BY DEF IInv, DrainInv, Lookup
<1>2. MapsInv'
  BY <1>1 DEF IInv, MapsInv, Lookup
<1>3. RingInv' /\ VerdictInv'
  BY DEF IInv, RingInv, VerdictInv, Lookup
<1>4. Rest'
  BY <1>1 DEF IInv, Rest, Lookup, CPUs
<1>5. DrainInv'
  <2>1. CASE idx + 1 < NCPU
    BY <1>1, <2>1, PipelineAssumption DEF IInv, DrainInv, Lookup, CPUs
  <2>2. CASE ~(idx + 1 < NCPU)
    <3>1. 0 \in CPUs /\ snap'[0] \in Reservoir
      BY <1>2, PipelineAssumption DEF CPUs, MapsInv
    <3>2. HalfMerged(Zero, None, snap'[0], 0)
      BY <3>1, SoundZero, StartMerge
    <3>3. idx' = 0 /\ slot' = 0 /\ out' = Zero /\ fedOut' = None /\ pc' = "merge"
      BY <1>1, <2>2 DEF Lookup
    <3>4. Zero \in Reservoir /\ None \in Tally
      BY SoundZero DEF Sound, Good
    <3>5. QED
      BY <3>1, <3>2, <3>3, <3>4 DEF DrainInv
  <2>3. QED
    BY <2>1, <2>2
<1>6. QED
  BY <1>2, <1>3, <1>4, <1>5 DEF IInv

(* An iteration of the window's merge. *)
LEMMA MergeSampleStep ==
  ASSUME IInv, MergeSample
  PROVE  IInv'
<1>1. /\ idx \in CPUs /\ slot \in Nat /\ snap[idx] \in Reservoir
      /\ HalfMerged(out, fedOut, snap[idx], slot)
      /\ slot < snap[idx].count
  BY DEF IInv, DrainInv, MapsInv, Rest, MergeSample
<1>2. HalfMerged(out', fedOut, snap[idx], slot + 1) /\ out' \in Reservoir
  BY <1>1, StepMerge DEF MergeSample
<1>3. DrainInv'
  BY <1>1, <1>2 DEF IInv, DrainInv, MergeSample, fedVars
<1>4. (MapsInv /\ RingInv /\ VerdictInv /\ Rest)'
  BY <1>1 DEF IInv, MapsInv, RingInv, VerdictInv, Rest, MergeSample, fedVars
<1>5. QED
  BY <1>3, <1>4 DEF IInv

(* The merge turns to the next CPU, or is complete. *)
LEMMA MergeNextStep ==
  ASSUME IInv, MergeNext
  PROVE  IInv'
<1>1. /\ idx \in CPUs /\ slot \in Nat
      /\ HalfMerged(out, fedOut, snap[idx], slot)
      /\ slot >= snap[idx].count
      /\ Sound(snap[idx], fedSnap[idx])
  BY DEF IInv, DrainInv, MapsInv, Rest, MergeNext
<1>2. Sound(out, Plus(fedOut, fedSnap[idx]))
  BY <1>1, EndMerge
<1>3. /\ out' = out /\ fedOut' = Plus(fedOut, fedSnap[idx]) /\ slot' = 0
      /\ UNCHANGED <<cpu, snap, fedCpu, fedSnap, ring, fedRing, global,
                     fedGlobal, completed, lost, total>>
  BY DEF MergeNext
<1>4. out' \in Reservoir /\ fedOut' \in Tally
  BY <1>2, <1>3 DEF Sound, Good
<1>5. DrainInv'
  <2>1. CASE idx + 1 < NCPU
    <3>1. idx' = idx + 1 /\ idx' \in CPUs /\ pc' = "merge"
      BY <1>1, <2>1, PipelineAssumption DEF MergeNext, CPUs
    <3>2. HalfMerged(out', fedOut', snap'[idx'], slot')
      <4>1. snap[idx'] \in Reservoir
        BY <3>1 DEF IInv, MapsInv
      <4>2. HalfMerged(out, Plus(fedOut, fedSnap[idx]), snap[idx'], 0)
        BY <1>2, <4>1, StartMerge
      <4>3. QED
        BY <1>3, <4>2
    <3>3. QED
      BY <1>4, <3>1, <3>2 DEF DrainInv
  <2>2. CASE ~(idx + 1 < NCPU)
    <3>1. idx' = 0 /\ idx' \in CPUs /\ pc' = "reset"
      BY <2>2, PipelineAssumption DEF MergeNext, CPUs
    <3>2. Sound(out', fedOut')
      BY <1>2, <1>3
    <3>3. QED
      BY <1>3, <1>4, <3>1, <3>2 DEF DrainInv
  <2>3. QED
    BY <2>1, <2>2
<1>6. pc' \in {"merge", "reset"} /\ idx' \in Nat
  BY <1>1 DEF MergeNext, CPUs
<1>7. MapsInv' /\ RingInv'
  BY <1>3 DEF IInv, MapsInv, RingInv
<1>8. VerdictInv'
  BY <1>3, <1>6 DEF IInv, VerdictInv
<1>9. Rest'
  BY <1>3, <1>6 DEF IInv, Rest
<1>10. QED
  BY <1>5, <1>7, <1>8, <1>9 DEF IInv
(* A CPU is zeroed; after the last one the window is stored. *)
LEMMA ResetStep ==
  ASSUME IInv, Reset
  PROVE  IInv'
<1>1. /\ idx \in CPUs /\ slot = 0 /\ Sound(out, fedOut)
      /\ out \in Reservoir /\ fedOut \in Tally
  BY DEF IInv, DrainInv, Reset
<1>2. MapsInv'
  <2>1. Sound(Zero, None) /\ Zero \in Reservoir /\ None \in Tally
    BY SoundZero DEF Sound, Good
  <2>2. QED
    BY <1>1, <2>1 DEF IInv, MapsInv, Reset
<1>3. lost' \in [Values -> Int]
  <2>1. fedCpu[idx] \in [Values -> Nat] /\ fedSnap[idx] \in [Values -> Nat]
    BY <1>1 DEF IInv, MapsInv, Tally
  <2>2. lost \in [Values -> Int]
    BY DEF IInv, Rest
  <2>3. lost' = Plus(lost, Less(fedCpu[idx], fedSnap[idx]))
    BY DEF Reset
  <2>4. QED
    BY <2>1, <2>2, <2>3 DEF Plus, Less
<1>4. CASE idx + 1 < NCPU
  <2>1. /\ idx' = idx + 1 /\ idx' \in CPUs
        /\ UNCHANGED <<pc, ring, fedRing, snap, out, global, slot, completed,
                       fedSnap, fedOut, fedGlobal, total>>
        /\ pc = "reset"
    BY <1>1, <1>4, PipelineAssumption DEF Reset, CPUs
  <2>2. RingInv' /\ DrainInv' /\ VerdictInv'
    BY <1>1, <2>1 DEF IInv, RingInv, DrainInv, VerdictInv
  <2>3. Rest'
    BY <1>3, <2>1 DEF IInv, Rest, CPUs
  <2>4. QED
    BY <1>2, <2>2, <2>3 DEF IInv
<1>5. CASE ~(idx + 1 < NCPU)
  <2>1. /\ idx' = 0 /\ idx' \in CPUs /\ pc' = "lookup"
        /\ ring' = Append(ring, out) /\ fedRing' = Append(fedRing, fedOut)
        /\ UNCHANGED <<snap, out, global, slot, completed,
                       fedSnap, fedOut, fedGlobal, total>>
    BY <1>5, PipelineAssumption DEF Reset, CPUs
  <2>2. RingInv'
    <3>1. /\ ring \in Seq(Reservoir) /\ fedRing \in Seq(Tally)
          /\ Len(ring) = Len(fedRing)
          /\ \A w \in 1 .. Len(ring) : Sound(ring[w], fedRing[w])
      BY DEF IInv, RingInv
    <3>2. /\ ring' \in Seq(Reservoir) /\ fedRing' \in Seq(Tally)
          /\ Len(ring') = Len(ring) + 1 /\ Len(fedRing') = Len(ring) + 1
      BY <1>1, <2>1, <3>1, AppendProperties
    <3>3. ASSUME NEW w \in 1 .. Len(ring')
          PROVE  Sound(ring'[w], fedRing'[w])
      BY <1>1, <2>1, <3>1, <3>2, AppendProperties
    <3>4. QED
      BY <3>2, <3>3 DEF RingInv
  <2>3. DrainInv' /\ VerdictInv'
    BY <1>1, <2>1 DEF IInv, DrainInv, VerdictInv
  <2>4. Rest'
    BY <1>3, <2>1 DEF IInv, Rest
  <2>5. QED
    BY <1>2, <2>2, <2>3, <2>4 DEF IInv
<1>6. QED
  BY <1>4, <1>5

LEMMA DrainFailsStep ==
  ASSUME IInv, DrainFails
  PROVE  IInv'
BY DEF IInv, MapsInv, RingInv, DrainInv, VerdictInv, Rest, DrainFails, fedVars

(* A merge into the global reservoir is ready at the window with index w. *)
LEMMA VerdictReady ==
  ASSUME IInv, NEW t, NEW f, Sound(t, f), NEW w \in 0 .. Len(ring)
  PROVE  IF w < Len(ring) THEN HalfMerged(t, f, ring[w + 1], 0)
                          ELSE Sound(t, f)
<1>1. ring \in Seq(Reservoir) /\ Len(ring) \in Nat
  BY LenProperties DEF IInv, RingInv
<1>2. w < Len(ring) => ring[w + 1] \in Reservoir
  BY <1>1, ElementOfSeq
<1>3. QED
  BY <1>2, StartMerge

LEMMA StartVerdictStep ==
  ASSUME IInv, StartVerdict
  PROVE  IInv'
<1>1. /\ idx = 0 /\ slot = 0 /\ pc' = "verdict" /\ global' = Zero
      /\ fedGlobal' = None
      /\ UNCHANGED <<cpu, snap, out, ring, idx, slot, completed,
                     fedCpu, fedSnap, fedOut, fedRing, lost, total>>
  BY DEF IInv, DrainInv, StartVerdict
<1>2. 0 \in 0 .. Len(ring)
  BY LenProperties DEF IInv, RingInv
<1>3. Sound(Zero, None) /\ Zero \in Reservoir /\ None \in Tally
  BY SoundZero DEF Sound, Good
<1>4. IF 0 < Len(ring) THEN HalfMerged(Zero, None, ring[0 + 1], 0)
                       ELSE Sound(Zero, None)
  BY <1>2, <1>3, VerdictReady
<1>5. VerdictInv'
  BY <1>1, <1>2, <1>3, <1>4 DEF VerdictInv
<1>6. (MapsInv /\ RingInv /\ DrainInv /\ Rest)'
  BY <1>1 DEF IInv, MapsInv, RingInv, DrainInv, Rest
<1>7. QED
  BY <1>5, <1>6 DEF IInv

LEMMA VerdictSampleStep ==
  ASSUME IInv, VerdictSample
  PROVE  IInv'
<1>1. /\ idx \in 0 .. Len(ring) /\ idx < Len(ring) /\ slot \in Nat
      /\ HalfMerged(global, fedGlobal, ring[idx + 1], slot)
      /\ slot < ring[idx + 1].count
  BY DEF IInv, VerdictInv, Rest, VerdictSample
<1>2. ring[idx + 1] \in Reservoir
  BY <1>1, LenProperties, ElementOfSeq DEF IInv, RingInv
<1>3. HalfMerged(global', fedGlobal, ring[idx + 1], slot + 1)
      /\ global' \in Reservoir
  BY <1>1, <1>2, StepMerge DEF VerdictSample
<1>4. VerdictInv'
  BY <1>1, <1>3 DEF IInv, VerdictInv, VerdictSample, fedVars
<1>5. (MapsInv /\ RingInv /\ DrainInv /\ Rest)'
  BY <1>1 DEF IInv, MapsInv, RingInv, DrainInv, Rest, VerdictSample, fedVars
<1>6. QED
  BY <1>4, <1>5 DEF IInv

LEMMA VerdictNextStep ==
  ASSUME IInv, VerdictNext
  PROVE  IInv'
<1>1. /\ idx \in 0 .. Len(ring) /\ idx < Len(ring) /\ slot \in Nat
      /\ HalfMerged(global, fedGlobal, ring[idx + 1], slot)
      /\ slot >= ring[idx + 1].count /\ Len(ring) \in Nat
  BY LenProperties DEF IInv, VerdictInv, RingInv, Rest, VerdictNext
<1>2. Sound(ring[idx + 1], fedRing[idx + 1])
  BY <1>1 DEF IInv, RingInv
<1>3. Sound(global, Plus(fedGlobal, fedRing[idx + 1]))
  BY <1>1, <1>2, EndMerge
<1>4. /\ idx' = idx + 1 /\ slot' = 0 /\ pc' = "verdict" /\ global' = global
      /\ fedGlobal' = Plus(fedGlobal, fedRing[idx + 1])
      /\ UNCHANGED <<cpu, snap, out, ring, completed,
                     fedCpu, fedSnap, fedOut, fedRing, lost, total>>
  BY DEF VerdictNext
<1>5. idx + 1 \in 0 .. Len(ring)
  BY <1>1
<1>6. IF idx + 1 < Len(ring)
      THEN HalfMerged(global, fedGlobal', ring[(idx + 1) + 1], 0)
      ELSE Sound(global, fedGlobal')
  BY <1>3, <1>4, <1>5, VerdictReady
<1>7. VerdictInv'
  <2>1. global' \in Reservoir /\ fedGlobal' \in Tally
    BY <1>3, <1>4 DEF Sound, Good
  <2>2. QED
    BY <1>3, <1>4, <1>5, <1>6, <2>1 DEF VerdictInv
<1>8. (MapsInv /\ RingInv /\ DrainInv /\ Rest)'
  BY <1>1, <1>4 DEF IInv, MapsInv, RingInv, DrainInv, Rest, VerdictNext
<1>9. QED
  BY <1>7, <1>8 DEF IInv

LEMMA VerdictDoneStep ==
  ASSUME IInv, VerdictDone
  PROVE  IInv'
<1>1. idx = Len(ring) /\ Len(ring) \in Nat /\ pc = "verdict"
  BY LenProperties DEF IInv, RingInv, VerdictDone
<1>2. Sound(global, fedGlobal)
  BY <1>1 DEF IInv, VerdictInv
<1>3. QED
  BY <1>2 DEF IInv, MapsInv, RingInv, DrainInv, VerdictInv, Rest, VerdictDone,
              fedVars

LEMMA NextIInv == IInv /\ [Next]_vars => IInv'
<1> SUFFICES ASSUME IInv, [Next]_vars PROVE IInv'
  OBVIOUS
<1>1. ASSUME NEW p \in CPUs, NEW x \in Values, Complete(p, x) PROVE IInv'
  BY <1>1, CompleteStep
<1>2. CASE Userspace
  BY <1>2, LookupStep, MergeSampleStep, MergeNextStep, ResetStep,
     DrainFailsStep, StartVerdictStep, VerdictSampleStep, VerdictNextStep,
     VerdictDoneStep DEF Userspace
<1>3. CASE UNCHANGED vars
  BY <1>3 DEF IInv, MapsInv, RingInv, DrainInv, VerdictInv, Rest, vars,
              codeVars, fedVars
<1>4. QED
  BY <1>1, <1>2, <1>3 DEF Next

(* The strengthened invariant holds in every reachable state. *)
THEOREM InductiveInvariant == Spec => []IInv
BY InitIInv, NextIInv, PTL DEF Spec

(* TypeOK: every reservoir keeps its shape, its count at most K and its    *)
(* min_idx a slot, on every path of the drain and the verdict.             *)
THEOREM TypeCorrect == Spec => []TypeOK
<1>1. IInv => TypeOK
  BY DEF IInv, MapsInv, RingInv, DrainInv, VerdictInv, Rest, TypeOK
<1>2. QED
  BY InductiveInvariant, <1>1, PTL

(* ReservoirsExact: per-CPU maps, stored windows and the reservoir Hill    *)
(* reads hold exactly the K largest of what was inserted into them, for    *)
(* every K, CPU count, set of latencies and interleaving of completions    *)
(* with drains.                                                            *)
THEOREM KLargestKept == Spec => []ReservoirsExact
<1>1. IInv => ReservoirsExact
  BY DEF IInv, MapsInv, RingInv, VerdictInv, ReservoirsExact, Sound
<1>2. QED
  BY InductiveInvariant, <1>1, PTL

-------------------------------------------------------------------------------
(* One threshold's tallies, of the CPUs, of their copies, of the windows.  *)
FedAt(v)  == [p \in CPUs |-> fedCpu[p][v]]
SnapAt(v) == [p \in CPUs |-> fedSnap[p][v]]
RingAt(v) == [w \in 0 .. Len(fedRing) - 1 |-> fedRing[w + 1][v]]

(* Each sample is lost, or on its CPU, or in a stored window, or in the    *)
(* window being drained: there from when its CPU is zeroed.  A merge has   *)
(* taken in the CPUs, or the windows, up to its index.                     *)
ConservedAt(v) ==
  /\ total[v] = lost[v] + SumTo(FedAt(v), NCPU) + SumTo(RingAt(v), Len(fedRing))
                  + (IF pc = "reset" THEN SumTo(SnapAt(v), idx) ELSE 0)
  /\ pc = "merge" => fedOut[v] = SumTo(SnapAt(v), idx)
  /\ pc = "reset" => fedOut[v] = SumTo(SnapAt(v), NCPU)
  /\ pc \in {"verdict", "done"} => fedGlobal[v] = SumTo(RingAt(v), idx)
  /\ pc = "done" => idx = Len(fedRing)

Conserved == \A v \in Values : ConservedAt(v)

(* What of IInv the sums need. *)
LEMMA TallyTypes ==
  ASSUME IInv, NEW v \in Values
  PROVE  /\ NCPU \in Nat \ {0} /\ CPUs = 0 .. NCPU - 1 /\ Len(fedRing) \in Nat
         /\ Len(fedRing) = Len(ring) /\ idx \in Nat
         /\ total[v] \in Int /\ lost[v] \in Int /\ fedOut[v] \in Int /\ fedGlobal[v] \in Int
         /\ \A p \in CPUs : /\ fedCpu[p][v] \in Int /\ FedAt(v)[p] = fedCpu[p][v]
                            /\ fedSnap[p][v] \in Int /\ SnapAt(v)[p] = fedSnap[p][v]
         /\ \A w \in 0 .. Len(fedRing) - 1 :
              fedRing[w + 1][v] \in Int /\ RingAt(v)[w] = fedRing[w + 1][v]
<1>1. NCPU \in Nat \ {0} /\ CPUs = 0 .. NCPU - 1
  BY PipelineAssumption DEF CPUs
<1>2. Len(fedRing) \in Nat /\ Len(fedRing) = Len(ring) /\ idx \in Nat
  BY LenProperties DEF IInv, RingInv, Rest
<1>3. /\ total[v] \in Int /\ lost[v] \in Int /\ fedOut[v] \in Int /\ fedGlobal[v] \in Int
  BY DEF IInv, Rest, DrainInv, VerdictInv, Tally
<1>4. ASSUME NEW p \in CPUs
      PROVE  /\ fedCpu[p][v] \in Int /\ FedAt(v)[p] = fedCpu[p][v]
             /\ fedSnap[p][v] \in Int /\ SnapAt(v)[p] = fedSnap[p][v]
  <2>1. fedCpu[p] \in Tally /\ fedSnap[p] \in Tally
    BY DEF IInv, MapsInv
  <2> QED
    BY <2>1 DEF Tally, FedAt, SnapAt
<1>5. ASSUME NEW w \in 0 .. Len(fedRing) - 1
      PROVE  fedRing[w + 1][v] \in Int /\ RingAt(v)[w] = fedRing[w + 1][v]
  <2>1. fedRing \in Seq(Tally) /\ w + 1 \in 1 .. Len(fedRing)
    BY <1>2 DEF IInv, RingInv
  <2>2. fedRing[w + 1] \in Tally
    BY <2>1, ElementOfSeq
  <2> QED
    BY <2>2 DEF Tally, RingAt
<1> QED
  BY <1>1, <1>2, <1>3, <1>4, <1>5

(* The sums are integers, and each grows by its next summand. *)
LEMMA TallySums ==
  ASSUME IInv, NEW v \in Values
  PROVE  /\ SumTo(FedAt(v), NCPU) \in Int /\ SumTo(RingAt(v), Len(fedRing)) \in Int
         /\ SumTo(SnapAt(v), 0) = 0 /\ SumTo(RingAt(v), 0) = 0
         /\ \A p \in CPUs : /\ SumTo(SnapAt(v), p) \in Int
                            /\ SumTo(SnapAt(v), p + 1) = SumTo(SnapAt(v), p) + fedSnap[p][v]
         /\ \A w \in 0 .. Len(fedRing) - 1 :
              /\ SumTo(RingAt(v), w) \in Int
              /\ SumTo(RingAt(v), w + 1) = SumTo(RingAt(v), w) + fedRing[w + 1][v]
<1>1. SumTo(FedAt(v), NCPU) \in Int
  <2>1. \A p \in 0 .. NCPU - 1 : FedAt(v)[p] \in Int /\ FedAt(v)[p] = FedAt(v)[p]
    BY TallyTypes
  <2> QED
    BY <2>1, TallyTypes, SumSame
<1>2. SumTo(RingAt(v), Len(fedRing)) \in Int
  <2>1. \A w \in 0 .. Len(fedRing) - 1 : RingAt(v)[w] \in Int /\ RingAt(v)[w] = RingAt(v)[w]
    BY TallyTypes
  <2> QED
    BY <2>1, TallyTypes, SumSame
<1>3. SumTo(SnapAt(v), 0) = 0 /\ SumTo(RingAt(v), 0) = 0
  BY SumFirst
<1>4. ASSUME NEW p \in CPUs
      PROVE  /\ SumTo(SnapAt(v), p) \in Int
             /\ SumTo(SnapAt(v), p + 1) = SumTo(SnapAt(v), p) + fedSnap[p][v]
  <2>1. p \in Nat /\ \A i \in 0 .. p : SnapAt(v)[i] \in Int
    <3>1. NCPU \in Nat /\ CPUs = 0 .. NCPU - 1 /\ \A i \in CPUs : SnapAt(v)[i] \in Int
      BY TallyTypes
    <3>2. p \in 0 .. NCPU - 1
      BY <3>1
    <3>3. p \in Nat /\ \A i \in 0 .. p : i \in 0 .. NCPU - 1
      BY <3>1, <3>2
    <3> QED
      BY <3>1, <3>3
  <2>2. SnapAt(v)[p] = fedSnap[p][v]
    BY TallyTypes
  <2> QED
    BY <2>1, <2>2, SumNext
<1>5. ASSUME NEW w \in 0 .. Len(fedRing) - 1
      PROVE  /\ SumTo(RingAt(v), w) \in Int
             /\ SumTo(RingAt(v), w + 1) = SumTo(RingAt(v), w) + fedRing[w + 1][v]
  <2>1. w \in Nat /\ \A i \in 0 .. w : RingAt(v)[i] \in Int
    <3>1. Len(fedRing) \in Nat /\ \A i \in 0 .. Len(fedRing) - 1 : RingAt(v)[i] \in Int
      BY TallyTypes
    <3> QED
      BY <3>1
  <2>2. RingAt(v)[w] = fedRing[w + 1][v]
    BY TallyTypes
  <2> QED
    BY <2>1, <2>2, SumNext
<1> QED
  BY <1>1, <1>2, <1>3, <1>4, <1>5

(* The window being drained takes in one CPU more at each step. *)
LEMMA InFlight ==
  ASSUME IInv, NEW v \in Values
  PROVE  /\ total[v] \in Int /\ lost[v] \in Int /\ SumTo(FedAt(v), NCPU) \in Int
         /\ SumTo(RingAt(v), Len(fedRing)) \in Int
         /\ pc \in {"merge", "reset"} =>
              /\ SumTo(SnapAt(v), idx) \in Int /\ fedSnap[idx][v] \in Int
              /\ SumTo(SnapAt(v), idx + 1) = SumTo(SnapAt(v), idx) + fedSnap[idx][v]
         /\ pc \in {"lookup", "reset"} /\ idx = 0 => SumTo(SnapAt(v), idx) = 0
<1>1. /\ total[v] \in Int /\ lost[v] \in Int /\ SumTo(FedAt(v), NCPU) \in Int
      /\ SumTo(RingAt(v), Len(fedRing)) \in Int
  BY TallyTypes, TallySums
<1>2. pc \in {"merge", "reset"} => idx \in CPUs
  BY DEF IInv, DrainInv
<1>3. \A p \in CPUs : /\ SumTo(SnapAt(v), p) \in Int /\ fedSnap[p][v] \in Int
                      /\ SumTo(SnapAt(v), p + 1) = SumTo(SnapAt(v), p) + fedSnap[p][v]
  BY TallyTypes, TallySums
<1>4. SumTo(SnapAt(v), 0) = 0
  BY TallySums
<1> QED
  BY <1>1, <1>2, <1>3, <1>4

(* One CPU's tally changes, and their sum by as much. *)
LEMMA FedChange ==
  ASSUME IInv, NEW v \in Values, NEW p \in CPUs, NEW d \in Int, NEW g,
         g[p] = fedCpu[p][v] + d, \A q \in CPUs \ {p} : g[q] = fedCpu[q][v]
  PROVE  SumTo(g, NCPU) = SumTo(FedAt(v), NCPU) + d
<1>1. p \in Nat /\ p < NCPU /\ NCPU \in Nat
  BY TallyTypes
<1>2. \A q \in 0 .. NCPU - 1 : q \in CPUs /\ FedAt(v)[q] = fedCpu[q][v] /\ fedCpu[q][v] \in Int
  BY TallyTypes
<1>3. Shifted(FedAt(v), g, NCPU, p, d)
  BY <1>2 DEF Shifted
<1> QED
  BY <1>1, <1>3, SumChange

LEMMA InitConserved == Init => Conserved
<1> SUFFICES ASSUME Init, NEW v \in Values
             PROVE  ConservedAt(v)
  BY DEF Conserved
<1>1. NCPU \in Nat /\ \A p \in 0 .. NCPU - 1 : FedAt(v)[p] = 0
  BY PipelineAssumption DEF Init, FedAt, None, CPUs
<1>2. SumTo(FedAt(v), NCPU) = 0
  BY <1>1, SumOfZeros
<1>3. SumTo(RingAt(v), 0) = 0 /\ Len(fedRing) = 0
  BY SumFirst DEF Init
<1> QED
  BY <1>2, <1>3 DEF Init, ConservedAt, None

LEMMA CompleteConserves ==
  ASSUME IInv, Conserved, NEW p \in CPUs, NEW x \in Values, Complete(p, x)
  PROVE  Conserved'
<1> SUFFICES ASSUME NEW v \in Values
             PROVE  ConservedAt(v)'
  BY DEF Conserved
<1> DEFINE d == IF x >= v THEN 1 ELSE 0
<1>1. /\ d \in Int /\ total'[v] = total[v] + d
      /\ UNCHANGED <<lost, fedOut, fedRing, fedSnap, fedGlobal, pc, idx>>
  BY PipelineAssumption DEF Complete, Bump
<1>2. /\ FedAt(v)'[p] = fedCpu[p][v] + d
      /\ \A q \in CPUs \ {p} : FedAt(v)'[q] = fedCpu[q][v]
  BY DEF Complete, Bump, FedAt, IInv, MapsInv, Tally
<1> HIDE DEF d
<1>3. SumTo(FedAt(v)', NCPU) = SumTo(FedAt(v), NCPU) + d
  BY <1>1, <1>2, FedChange
<1>5. SnapAt(v)' = SnapAt(v) /\ RingAt(v)' = RingAt(v)
  BY <1>1 DEF SnapAt, RingAt
<1>6. ConservedAt(v)
  BY DEF Conserved
<1>7. /\ total[v] \in Int /\ lost[v] \in Int /\ SumTo(FedAt(v), NCPU) \in Int
      /\ SumTo(RingAt(v), Len(fedRing)) \in Int
      /\ pc = "reset" => SumTo(SnapAt(v), idx) \in Int
  BY InFlight
<1> DEFINE part == IF pc = "reset" THEN SumTo(SnapAt(v), idx) ELSE 0
<1>8. total[v] + d = lost[v] + (SumTo(FedAt(v), NCPU) + d) + SumTo(RingAt(v), Len(fedRing)) + part
  <2>1. part \in Int
    BY <1>7
  <2>2. total[v] = lost[v] + SumTo(FedAt(v), NCPU) + SumTo(RingAt(v), Len(fedRing)) + part
    BY <1>6 DEF ConservedAt
  <2> HIDE DEF part
  <2> QED
    BY <1>1, <1>7, <2>1, <2>2
<1>9. total'[v] = lost'[v] + SumTo(FedAt(v)', NCPU) + SumTo(RingAt(v)', Len(fedRing'))
                    + (IF pc' = "reset" THEN SumTo(SnapAt(v)', idx') ELSE 0)
  BY <1>1, <1>3, <1>5, <1>8
<1> QED
  BY <1>1, <1>5, <1>6, <1>9 DEF ConservedAt

LEMMA LookupConserves ==
  ASSUME IInv, Conserved, Lookup
  PROVE  Conserved'
<1> SUFFICES ASSUME NEW v \in Values
             PROVE  ConservedAt(v)'
  BY DEF Conserved
<1>1. /\ pc = "lookup" /\ UNCHANGED <<total, lost, fedCpu, fedRing, fedGlobal>>
      /\ pc' = "lookup" \/ (pc' = "merge" /\ idx' = 0 /\ fedOut' = None)
  BY DEF Lookup
<1>2. FedAt(v)' = FedAt(v) /\ RingAt(v)' = RingAt(v)
  BY <1>1 DEF FedAt, RingAt
<1>3. ConservedAt(v)
  BY DEF Conserved
<1>4. SumTo(SnapAt(v)', 0) = 0 /\ None[v] = 0
  BY SumFirst DEF None
<1> QED
  BY <1>1, <1>2, <1>3, <1>4, InFlight DEF ConservedAt

LEMMA MergeNextConserves ==
  ASSUME IInv, Conserved, MergeNext
  PROVE  Conserved'
<1> SUFFICES ASSUME NEW v \in Values
             PROVE  ConservedAt(v)'
  BY DEF Conserved
<1>1. /\ pc = "merge" /\ UNCHANGED <<total, lost, fedCpu, fedSnap, fedRing, fedGlobal>>
      /\ fedOut'[v] = fedOut[v] + fedSnap[idx][v] /\ idx \in CPUs
      /\ \/ pc' = "merge" /\ idx' = idx + 1
         \/ pc' = "reset" /\ idx' = 0 /\ idx + 1 >= NCPU
  <2>1. /\ pc = "merge" /\ UNCHANGED <<total, lost, fedCpu, fedSnap, fedRing, fedGlobal>>
        /\ fedOut' = Plus(fedOut, fedSnap[idx])
        /\ IF idx + 1 < NCPU THEN idx' = idx + 1 /\ pc' = pc ELSE idx' = 0 /\ pc' = "reset"
    BY DEF MergeNext
  <2>2. idx \in CPUs
    BY <2>1 DEF IInv, DrainInv
  <2>3. fedOut'[v] = fedOut[v] + fedSnap[idx][v]
    BY <2>1 DEF Plus
  <2> QED
    BY <2>1, <2>2, <2>3, TallyTypes
<1>2. FedAt(v)' = FedAt(v) /\ RingAt(v)' = RingAt(v) /\ SnapAt(v)' = SnapAt(v)
  BY <1>1 DEF FedAt, RingAt, SnapAt
<1>3. ConservedAt(v)
  BY DEF Conserved
<1>4. fedOut'[v] = SumTo(SnapAt(v), idx + 1)
  BY <1>1, <1>3, InFlight DEF ConservedAt
<1>5. pc' = "reset" => idx + 1 = NCPU /\ SumTo(SnapAt(v), 0) = 0
  BY <1>1, TallyTypes, SumFirst
<1> QED
  BY <1>1, <1>2, <1>3, <1>4, <1>5, InFlight DEF ConservedAt

(* What a CPU's zeroing moves: from its tally to the lost ones and to the  *)
(* window being drained.                                                   *)
LEMMA ResetBalance ==
  ASSUME NEW t \in Int, NEW l \in Int, NEW f \in Int, NEW r \in Int, NEW s \in Int,
         NEW a \in Int, NEW b \in Int, t = l + f + r + s
  PROVE  /\ t = (l + (a - b)) + (f - a) + r + (s + b)
         /\ t = (l + (a - b)) + (f - a) + (r + (s + b)) + 0
OBVIOUS

(* Zeroing a CPU moves its samples to the window being drained and to the  *)
(* lost ones; storing the window moves those it took in to the ring.       *)
LEMMA ResetConserves ==
  ASSUME IInv, Conserved, Reset
  PROVE  Conserved'
<1> SUFFICES ASSUME NEW v \in Values
             PROVE  ConservedAt(v)'
  BY DEF Conserved
<1>1. /\ pc = "reset" /\ idx \in CPUs /\ UNCHANGED <<total, fedSnap, fedOut, fedGlobal>>
      /\ lost'[v] = lost[v] + (fedCpu[idx][v] - fedSnap[idx][v])
      /\ fedCpu' = [fedCpu EXCEPT ![idx] = None]
  BY DEF Reset, Plus, Less, IInv, DrainInv
<1>2. lost'[v] = lost[v] + (fedCpu[idx][v] - fedSnap[idx][v]) /\ pc = "reset" /\ total' = total
  BY <1>1
<1>3. fedCpu[idx][v] \in Int /\ fedSnap[idx][v] \in Int /\ fedOut[v] \in Int
  BY <1>1, TallyTypes
<1>4. SumTo(FedAt(v)', NCPU) = SumTo(FedAt(v), NCPU) - fedCpu[idx][v]
  <2>1. FedAt(v)'[idx] = fedCpu[idx][v] + (0 - fedCpu[idx][v])
    BY <1>1, <1>3 DEF FedAt, None, IInv, MapsInv
  <2>2. \A q \in CPUs \ {idx} : FedAt(v)'[q] = fedCpu[q][v]
    BY <1>1 DEF FedAt, IInv, MapsInv
  <2>3. 0 - fedCpu[idx][v] \in Int
    BY <1>3
  <2>4. SumTo(FedAt(v)', NCPU) = SumTo(FedAt(v), NCPU) + (0 - fedCpu[idx][v])
    BY <1>1, <2>1, <2>2, <2>3, FedChange
  <2> QED
    BY <1>3, <2>4, InFlight
<1>5. SnapAt(v)' = SnapAt(v)
  BY <1>1 DEF SnapAt
<1>6. ConservedAt(v)
  BY DEF Conserved
<1>7. /\ total[v] \in Int /\ lost[v] \in Int /\ SumTo(FedAt(v), NCPU) \in Int
      /\ SumTo(RingAt(v), Len(fedRing)) \in Int /\ SumTo(SnapAt(v), idx) \in Int
      /\ SumTo(SnapAt(v), idx + 1) = SumTo(SnapAt(v), idx) + fedSnap[idx][v]
  BY <1>1, InFlight
<1>8. /\ total[v] = lost[v] + SumTo(FedAt(v), NCPU) + SumTo(RingAt(v), Len(fedRing))
                       + SumTo(SnapAt(v), idx)
      /\ fedOut[v] = SumTo(SnapAt(v), NCPU)
  BY <1>1, <1>6 DEF ConservedAt
<1> DEFINE cpus == SumTo(FedAt(v), NCPU)
           wins == SumTo(RingAt(v), Len(fedRing))
           part == SumTo(SnapAt(v), idx)
<1>9. /\ total[v] = (lost[v] + (fedCpu[idx][v] - fedSnap[idx][v]))
                      + (cpus - fedCpu[idx][v]) + wins + (part + fedSnap[idx][v])
      /\ total[v] = (lost[v] + (fedCpu[idx][v] - fedSnap[idx][v]))
                      + (cpus - fedCpu[idx][v]) + (wins + (part + fedSnap[idx][v])) + 0
  <2>1. /\ total[v] \in Int /\ lost[v] \in Int /\ cpus \in Int /\ wins \in Int /\ part \in Int
        /\ total[v] = lost[v] + cpus + wins + part
    BY <1>7, <1>8
  <2> HIDE DEF cpus, wins, part
  <2> QED
    BY <1>3, <2>1, ResetBalance
<1>10. CASE idx + 1 < NCPU
  <2>1. pc' = pc /\ idx' = idx + 1 /\ fedRing' = fedRing
    BY <1>10 DEF Reset
  <2>2. RingAt(v)' = RingAt(v)
    BY <2>1 DEF RingAt
  <2>3. total[v] = lost'[v] + SumTo(FedAt(v)', NCPU) + SumTo(RingAt(v), Len(fedRing))
                     + SumTo(SnapAt(v), idx + 1)
    BY <1>2, <1>4, <1>7, <1>9
  <2> QED
    BY <1>1, <1>5, <1>8, <2>1, <2>2, <2>3 DEF ConservedAt
<1>11. CASE ~(idx + 1 < NCPU)
  <2>1. pc' = "lookup" /\ fedRing' = Append(fedRing, fedOut)
    BY <1>11 DEF Reset
  <2>2. idx + 1 = NCPU
    BY <1>1, <1>11, TallyTypes
  <2>3. SumTo(RingAt(v)', Len(fedRing')) = SumTo(RingAt(v), Len(fedRing)) + fedOut[v]
    <3> DEFINE n == Len(fedRing)
    <3>1. fedRing \in Seq(Tally) /\ fedOut \in Tally /\ n \in Nat
      BY TallyTypes DEF IInv, RingInv, DrainInv
    <3>2. /\ Len(fedRing') = n + 1 /\ fedRing'[n + 1] = fedOut
          /\ \A i \in 1 .. n : fedRing'[i] = fedRing[i]
      BY <2>1, <3>1, AppendProperties
    <3>3. RingAt(v)' = [w \in 0 .. Len(fedRing') - 1 |-> fedRing'[w + 1][v]]
      BY DEF RingAt
    <3>4. /\ RingAt(v)'[n] = fedOut[v]
          /\ \A w \in 0 .. n - 1 : RingAt(v)'[w] = fedRing[w + 1][v]
      BY <3>1, <3>2, <3>3
    <3>5. \A w \in 0 .. n - 1 : RingAt(v)[w] \in Int /\ RingAt(v)'[w] = RingAt(v)[w]
      BY <3>4, TallyTypes
    <3>6. SumTo(RingAt(v)', n) = SumTo(RingAt(v), n)
      BY <3>1, <3>5, SumSame
    <3>7. \A w \in 0 .. n : RingAt(v)'[w] \in Int
      BY <1>3, <3>1, <3>4, <3>5
    <3>8. SumTo(RingAt(v)', n + 1) = SumTo(RingAt(v)', n) + RingAt(v)'[n]
      BY <3>1, <3>7, SumNext
    <3> QED
      BY <3>2, <3>4, <3>6, <3>8
  <2>4. fedOut[v] = SumTo(SnapAt(v), idx) + fedSnap[idx][v]
    BY <1>7, <1>8, <2>2
  <2>5. total[v] = lost'[v] + SumTo(FedAt(v)', NCPU) + SumTo(RingAt(v)', Len(fedRing')) + 0
    BY <1>2, <1>4, <1>9, <2>3, <2>4
  <2> QED
    BY <1>1, <2>1, <2>5 DEF ConservedAt
<1> QED
  BY <1>10, <1>11

(* Steps that move no sample between the tallies. *)
LEMMA OthersConserve ==
  ASSUME IInv, Conserved,
         MergeSample \/ DrainFails \/ VerdictSample \/ VerdictDone \/ UNCHANGED vars
  PROVE  Conserved'
<1> SUFFICES ASSUME NEW v \in Values
             PROVE  ConservedAt(v)'
  BY DEF Conserved
<1>1. UNCHANGED fedVars /\ idx' = idx
  BY DEF MergeSample, DrainFails, VerdictSample, VerdictDone, vars, codeVars
<1>2. FedAt(v)' = FedAt(v) /\ RingAt(v)' = RingAt(v) /\ SnapAt(v)' = SnapAt(v)
  BY <1>1 DEF FedAt, RingAt, SnapAt, fedVars
<1>3. \/ pc' = pc
      \/ pc \in {"lookup", "reset"} /\ idx = 0 /\ pc' = "failed"
      \/ pc = "verdict" /\ pc' = "done" /\ idx = Len(fedRing)
  BY TallyTypes DEF MergeSample, DrainFails, VerdictSample, VerdictDone, vars, codeVars
<1>4. ConservedAt(v)
  BY DEF Conserved
<1> QED
  BY <1>1, <1>2, <1>3, <1>4, InFlight DEF ConservedAt, fedVars

(* The verdict begins where no window is being drained, or drops the one   *)
(* whose first CPU is not zeroed yet.                                      *)
LEMMA StartVerdictConserves ==
  ASSUME IInv, Conserved, StartVerdict
  PROVE  Conserved'
<1> SUFFICES ASSUME NEW v \in Values
             PROVE  ConservedAt(v)'
  BY DEF Conserved
<1>1. /\ pc \in {"lookup", "reset"} /\ pc' = "verdict" /\ idx = 0 /\ idx' = 0
      /\ UNCHANGED <<total, lost, fedCpu, fedSnap, fedOut, fedRing>>
      /\ fedGlobal' = None
  BY DEF StartVerdict
<1>2. FedAt(v)' = FedAt(v) /\ RingAt(v)' = RingAt(v) /\ SnapAt(v)' = SnapAt(v)
  BY <1>1 DEF FedAt, RingAt, SnapAt
<1>3. None[v] = SumTo(RingAt(v), 0)
  BY SumFirst DEF None
<1>4. ConservedAt(v)
  BY DEF Conserved
<1> QED
  BY <1>1, <1>2, <1>3, <1>4, InFlight DEF ConservedAt

LEMMA VerdictNextConserves ==
  ASSUME IInv, Conserved, VerdictNext
  PROVE  Conserved'
<1> SUFFICES ASSUME NEW v \in Values
             PROVE  ConservedAt(v)'
  BY DEF Conserved
<1>1. /\ pc = "verdict" /\ pc' = pc /\ idx < Len(ring) /\ idx' = idx + 1
      /\ UNCHANGED <<total, lost, fedCpu, fedSnap, fedOut, fedRing>>
      /\ fedGlobal'[v] = fedGlobal[v] + fedRing[idx + 1][v]
  BY DEF VerdictNext, Plus
<1>2. FedAt(v)' = FedAt(v) /\ RingAt(v)' = RingAt(v) /\ SnapAt(v)' = SnapAt(v)
  BY <1>1 DEF FedAt, RingAt, SnapAt
<1>3. ConservedAt(v)
  BY DEF Conserved
<1>4. idx \in 0 .. Len(fedRing) - 1
  BY <1>1, TallyTypes
<1>5. fedGlobal'[v] = SumTo(RingAt(v), idx + 1)
  BY <1>1, <1>3, <1>4, TallySums DEF ConservedAt
<1> QED
  BY <1>1, <1>2, <1>3, <1>5 DEF ConservedAt

(* No sample is counted twice or dropped between the CPUs' reservoirs and  *)
(* the verdict's, but those a drain loses.                                 *)
THEOREM SamplesConserved == Spec => [](IInv /\ Conserved)
<1>1. IInv /\ Conserved /\ [Next]_vars => Conserved'
  BY CompleteConserves, LookupConserves, MergeNextConserves, ResetConserves, OthersConserve,
     StartVerdictConserves, VerdictNextConserves DEF Next, Userspace
<1> QED
  BY <1>1, InitIInv, NextIInv, InitConserved, PTL DEF Spec

(* SumFed is the sum of the CPUs' tallies. *)
LEMMA SumFedIsSum ==
  ASSUME IInv, NEW v \in Values
  PROVE  SumFed[NCPU][v] = SumTo(FedAt(v), NCPU)
<1>1. NCPU \in Nat /\ CPUs = 0 .. NCPU - 1 /\ NCPU # 0
  BY TallyTypes
<1> DEFINE step(g) == [n \in 0 .. NCPU |->
                 [x \in Values |-> IF n = 0 THEN 0 ELSE g[n - 1][x] + fedCpu[n - 1][x]]]
           w == [n \in 0 .. NCPU |-> [x \in Values |-> SumTo(FedAt(x), n)]]
           c == CHOOSE g : g = step(g)
<1>2. w = step(w)
  <2>1. ASSUME NEW n \in 0 .. NCPU, NEW x \in Values
        PROVE  w[n][x] = IF n = 0 THEN 0 ELSE w[n - 1][x] + fedCpu[n - 1][x]
    <3>1. CASE n = 0
      BY <3>1, SumFirst
    <3>2. CASE n # 0
      <4>1. n - 1 \in Nat /\ n - 1 \in CPUs /\ n = (n - 1) + 1
        BY <1>1, <3>2
      <4>2. \A i \in 0 .. n - 1 : FedAt(x)[i] \in Int
        <5>1. \A p \in CPUs : FedAt(x)[p] \in Int
          BY TallyTypes
        <5> QED
          BY <1>1, <5>1
      <4>3. SumTo(FedAt(x), n) = SumTo(FedAt(x), n - 1) + FedAt(x)[n - 1]
        BY <4>1, <4>2, SumNext
      <4>4. FedAt(x)[n - 1] = fedCpu[n - 1][x]
        BY <4>1, TallyTypes
      <4> QED
        BY <1>1, <3>2, <4>1, <4>3, <4>4
    <3> QED
      BY <3>1, <3>2
  <2> QED
    BY <2>1
<1> HIDE DEF w
<1>3. c = step(c)
  BY <1>2
<1>4. SumFed = c
  BY DEF SumFed
<1> HIDE DEF c
<1>5. c[NCPU][v] = SumTo(FedAt(v), NCPU)
  <2> DEFINE S == {n \in Nat : n <= NCPU => c[n][v] = SumTo(FedAt(v), n)}
  <2>0. \A n \in 0 .. NCPU : c[n][v] = IF n = 0 THEN 0 ELSE c[n - 1][v] + fedCpu[n - 1][v]
    <3> SUFFICES ASSUME NEW n \in 0 .. NCPU
                 PROVE  c[n][v] = IF n = 0 THEN 0 ELSE c[n - 1][v] + fedCpu[n - 1][v]
      OBVIOUS
    <3>1. c[n] = step(c)[n]
      BY <1>3, Zenon
    <3> QED
      BY <3>1
  <2>1. 0 \in S
    BY <2>0, <1>1, SumFirst
  <2>2. ASSUME NEW n \in Nat, n \in S PROVE n + 1 \in S
    <3> SUFFICES ASSUME n + 1 <= NCPU
                 PROVE  c[n + 1][v] = SumTo(FedAt(v), n + 1)
      OBVIOUS
    <3>1. c[n + 1][v] = c[n][v] + fedCpu[n][v]
      BY <1>1, <2>0
    <3>2. c[n][v] = SumTo(FedAt(v), n)
      BY <1>1, <2>2
    <3>3. \A i \in 0 .. n : FedAt(v)[i] \in Int
      BY <1>1, TallyTypes
    <3>4. SumTo(FedAt(v), n + 1) = SumTo(FedAt(v), n) + FedAt(v)[n]
      BY <3>3, SumNext
    <3>5. FedAt(v)[n] = fedCpu[n][v]
      BY <1>1, TallyTypes
    <3> QED
      BY <3>1, <3>2, <3>4, <3>5
  <2> HIDE DEF S
  <2>3. Nat \subseteq S
    BY <2>1, <2>2, SetInduction
  <2> QED
    BY <1>1, <2>3 DEF S
<1> QED
  BY <1>4, <1>5

(***************************************************************************)
(* End to end: what the Hill estimator reads is the K largest of all       *)
(* completions, without those a drain lost and those still on their CPUs.  *)
(* No CPU is skipped by a drain or merged twice, nor a window by the       *)
(* verdict, for every K, number of CPUs and number of windows.             *)
(***************************************************************************)
THEOREM HillReadsKLargest == Spec => []HillSeesKLargest
<1>1. IInv /\ Conserved => HillSeesKLargest
  <2> SUFFICES ASSUME IInv, Conserved, pc = "done", NEW v \in Values
               PROVE  CountAtLeast(global, v) = Lesser(K, total[v] - lost[v] - SumFed[NCPU][v])
    BY DEF HillSeesKLargest
  <2>1. CountAtLeast(global, v) = Lesser(K, fedGlobal[v])
    BY DEF IInv, VerdictInv, Sound, Exact
  <2>2. ConservedAt(v)
    BY DEF Conserved
  <2>3. total[v] = lost[v] + SumTo(FedAt(v), NCPU) + fedGlobal[v]
    BY <2>2, InFlight DEF ConservedAt
  <2>4. fedGlobal[v] = total[v] - lost[v] - SumTo(FedAt(v), NCPU)
    BY <2>3, InFlight, TallyTypes
  <2> QED
    BY <2>1, <2>4, SumFedIsSum
<1> QED
  BY <1>1, SamplesConserved, PTL
===============================================================================
