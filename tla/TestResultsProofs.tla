---------------------------- MODULE TestResultsProofs ---------------------------
(***************************************************************************)
(* Facts about the operations of dag.py on one chain of nodes, whatever    *)
(* its contents and however long it is, about what the producers report,   *)
(* and the induction over a set of numbers these and the audit's rest on.  *)
(***************************************************************************)
EXTENDS TestResults, SequenceTheorems, FiniteSetTheorems, WellFoundedInduction, TLAPS

(* Every non-empty set of naturals has a least element. *)
LEMMA LeastNat ==
  ASSUME NEW S, S \subseteq Nat, S # {}
  PROVE  \E x \in S : \A y \in S : x <= y
<1> DEFINE Below(x) == 0 .. x
           T == {Below(x) : x \in S}
<1>1. T \subseteq FiniteSubsetsOf(Nat)
  <2>1. ASSUME NEW x \in S
        PROVE  Below(x) \in SUBSET Nat /\ IsFiniteSet(Below(x))
    BY FS_Interval
  <2>2. QED
    BY <2>1, Zenon DEF FiniteSubsetsOf
<1>2. T # {}
  OBVIOUS
<1>3. \E u \in T : \A w \in T : <<w, u>> \notin StrictSubsetOrdering(Nat)
  <2> HIDE DEF T
  <2>1. QED
    BY <1>1, <1>2, FS_StrictSubsetOrderingWellFounded, WFMin
<1>4. PICK x \in S : \A w \in T : <<w, Below(x)>> \notin StrictSubsetOrdering(Nat)
  BY <1>3
<1>5. ASSUME NEW y \in S, y < x PROVE FALSE
  <2>1. Below(y) \subseteq Below(x) /\ Below(y) # Below(x)
    <3>1. x \in Below(x) /\ x \notin Below(y)
      BY <1>5
    <3>2. QED
      BY <3>1, <1>5
  <2>2. Below(y) \in SUBSET Nat /\ Below(x) \in SUBSET Nat
    OBVIOUS
  <2>3. <<Below(y), Below(x)>> \in StrictSubsetOrdering(Nat)
    BY <2>1, <2>2, Zenon DEF StrictSubsetOrdering
  <2>4. QED
    BY <2>3, <1>4
<1>6. \A y \in S : x <= y
  BY <1>5
<1>7. QED
  BY <1>6

(* Induction, over a set rather than a predicate. *)
LEMMA SetInduction ==
  ASSUME NEW S, 0 \in S, \A n \in Nat : n \in S => n + 1 \in S
  PROVE  Nat \subseteq S
<1> SUFFICES ASSUME Nat \ S # {}
             PROVE  FALSE
  OBVIOUS
<1> DEFINE T == Nat \ S
<1>1. PICK x \in T : \A y \in T : x <= y
  BY LeastNat
<1>2. x - 1 \in Nat /\ x - 1 \notin T
  BY <1>1
<1> QED
  BY <1>1, <1>2

-------------------------------------------------------------------------------

NodeOver(C) == [id : Nat \ {0}, content : C]
DagOver(C)  == [nodes : Seq(NodeOver(C)), edges : SUBSET (Nat \X Nat), current : Nat]

(* A chain in the order of its nodes, where none repeats its parent. *)
Linear(d) ==
  /\ DistinctIds(d)
  /\ d.edges = {<<d.nodes[i].id, d.nodes[i + 1].id>> : i \in 1 .. Len(d.nodes) - 1}
  /\ d.current = IF d.nodes = << >> THEN NoNode ELSE d.nodes[Len(d.nodes)].id
  /\ \A i \in 1 .. Len(d.nodes) - 1 : d.nodes[i].content # d.nodes[i + 1].content

(* The empty DAG is such a chain. *)
LEMMA EmptyLinear ==
  ASSUME NEW C
  PROVE  EmptyDag \in DagOver(C) /\ Linear(EmptyDag) /\ EmptyDag.nodes = << >>
<1>1. EmptyDag.nodes = << >> /\ EmptyDag.edges = {} /\ EmptyDag.current = NoNode
  BY DEF EmptyDag
<1>2. Len(<< >>) = 0 /\ << >> \in Seq(NodeOver(C)) /\ DOMAIN << >> = {}
  BY EmptySeq
<1>3. EmptyDag \in DagOver(C)
  BY <1>2 DEF EmptyDag, DagOver, NoNode
<1>4. Linear(EmptyDag)
  <2>1. DistinctIds(EmptyDag)
    BY <1>1, <1>2 DEF DistinctIds
  <2>2. 1 .. Len(EmptyDag.nodes) - 1 = {}
    BY <1>1, <1>2
  <2>3. QED
    BY <1>1, <2>1, <2>2 DEF Linear
<1>5. QED
  BY <1>1, <1>3, <1>4

(* The fields of a DAG are what they should be. *)
LEMMA DagTyped ==
  ASSUME NEW C, NEW d \in DagOver(C)
  PROVE  /\ d.nodes \in Seq(NodeOver(C)) /\ Len(d.nodes) \in Nat
         /\ DOMAIN d.nodes = 1 .. Len(d.nodes)
         /\ d.edges \in SUBSET (Nat \X Nat) /\ d.current \in Nat
         /\ d = [nodes |-> d.nodes, edges |-> d.edges, current |-> d.current]
         /\ \A i \in 1 .. Len(d.nodes) : /\ d.nodes[i] \in NodeOver(C)
                                         /\ d.nodes[i].id \in Nat \ {0}
                                         /\ d.nodes[i].content \in C
         /\ d.nodes = << >> <=> Len(d.nodes) = 0
<1>1. d.nodes \in Seq(NodeOver(C)) /\ d.edges \in SUBSET (Nat \X Nat) /\ d.current \in Nat
  BY DEF DagOver
<1>2. d = [nodes |-> d.nodes, edges |-> d.edges, current |-> d.current]
  BY DEF DagOver
<1>3. \A i \in 1 .. Len(d.nodes) : d.nodes[i] \in NodeOver(C)
  BY <1>1, ElementOfSeq
<1>4. \A x \in NodeOver(C) : x.id \in Nat \ {0} /\ x.content \in C
  BY DEF NodeOver
<1>5. QED
  BY <1>1, <1>2, <1>3, <1>4, LenProperties, EmptySeq

(* get_node finds the node of an id. *)
LEMMA GetNodeAt ==
  ASSUME NEW C, NEW d \in DagOver(C), DistinctIds(d), NEW i \in 1 .. Len(d.nodes)
  PROVE  GetNode(d, d.nodes[i].id) = d.nodes[i]
<1> DEFINE here == {j \in DOMAIN d.nodes : d.nodes[j].id = d.nodes[i].id}
<1>1. DOMAIN d.nodes = 1 .. Len(d.nodes)
  BY DagTyped
<1>2. here = {i}
  BY <1>1 DEF DistinctIds
<1>3. (CHOOSE k \in here : \A j \in here : k <= j) = i
  BY <1>2
<1>4. QED
  BY <1>3 DEF GetNode

(* The ids are those of the places. *)
LEMMA IdsAt ==
  ASSUME NEW C, NEW d \in DagOver(C)
  PROVE  /\ Ids(d) = {d.nodes[i].id : i \in 1 .. Len(d.nodes)}
         /\ NoNode \notin Ids(d)
  BY DagTyped DEF Ids, NoNode

(* A chain has a current node when it has nodes, which is the last. *)
LEMMA LinearCurrent ==
  ASSUME NEW C, NEW d \in DagOver(C), Linear(d)
  PROVE  /\ HasCurrent(d) <=> d.nodes # << >>
         /\ HasCurrent(d) <=> d.current # NoNode
         /\ HasCurrent(d) => /\ Len(d.nodes) \in 1 .. Len(d.nodes)
                             /\ CurrentContent(d) = d.nodes[Len(d.nodes)].content
                             /\ CurrentContent(d) \in C
<1>1. CASE d.nodes = << >>
  BY <1>1, IdsAt DEF Linear, HasCurrent
<1>2. CASE d.nodes # << >>
  <2>1. Len(d.nodes) \in 1 .. Len(d.nodes)
    BY <1>2, DagTyped
  <2>2. d.current = d.nodes[Len(d.nodes)].id
    BY <1>2 DEF Linear
  <2>3. d.current \in Ids(d)
    BY <2>1, <2>2, IdsAt
  <2>4. GetNode(d, d.current) = d.nodes[Len(d.nodes)]
    BY <2>1, <2>2, GetNodeAt DEF Linear
  <2>5. QED
    BY <1>2, <2>1, <2>3, <2>4, DagTyped, IdsAt DEF HasCurrent, CurrentContent
<1>3. QED
  BY <1>1, <1>2

(* The parent of a node is the one before it, the child the one after. *)
LEMMA LinearKin ==
  ASSUME NEW C, NEW d \in DagOver(C), Linear(d), NEW i \in 1 .. Len(d.nodes)
  PROVE  /\ ParentsOf(d, d.nodes[i].id) = IF i = 1 THEN {} ELSE {d.nodes[i - 1].id}
         /\ ChildrenOf(d, d.nodes[i].id) =
              IF i = Len(d.nodes) THEN {} ELSE {d.nodes[i + 1].id}
<1> DEFINE n == Len(d.nodes)
           id(j) == d.nodes[j].id
<1>1. n \in Nat /\ DOMAIN d.nodes = 1 .. n
  BY DagTyped
<1>2. \A j, k \in 1 .. n : id(j) = id(k) => j = k
  BY <1>1 DEF Linear, DistinctIds
<1>3. d.edges = {<<id(j), id(j + 1)>> : j \in 1 .. n - 1}
  BY DEF Linear
<1>4. Ids(d) = {id(j) : j \in 1 .. n}
  BY IdsAt
<1> HIDE DEF id, n
<1>5. ASSUME NEW e \in d.edges
      PROVE  \E j \in 1 .. n - 1 : e = <<id(j), id(j + 1)>> /\ e[1] = id(j) /\ e[2] = id(j + 1)
  BY <1>3
<1>6. \A j \in 1 .. n - 1 : <<id(j), id(j + 1)>> \in d.edges
  BY <1>3
<1>7. ParentsOf(d, id(i)) = IF i = 1 THEN {} ELSE {id(i - 1)}
  <2>1. ASSUME NEW x \in ParentsOf(d, id(i)) PROVE i # 1 /\ x = id(i - 1)
    <3>1. PICK e \in d.edges : e[2] = id(i) /\ x = e[1]
      BY DEF ParentsOf
    <3>2. PICK j \in 1 .. n - 1 : e[1] = id(j) /\ e[2] = id(j + 1)
      BY <1>5
    <3>3. j + 1 \in 1 .. n /\ i \in 1 .. n
      BY <1>1 DEF n
    <3>4. i = j + 1
      BY <3>1, <3>2, <3>3, <1>2
    <3>5. QED
      BY <3>1, <3>2, <3>4
  <2>2. ASSUME i # 1 PROVE id(i - 1) \in ParentsOf(d, id(i))
    <3>1. i - 1 \in 1 .. n - 1 /\ (i - 1) + 1 = i
      BY <1>1, <2>2 DEF n
    <3>2. <<id(i - 1), id(i)>> \in d.edges
      BY <1>6, <3>1
    <3>3. id(i - 1) \in Ids(d)
      BY <1>1, <1>4, <3>1
    <3>4. QED
      BY <3>2, <3>3 DEF ParentsOf
  <2>3. QED
    BY <2>1, <2>2
<1>8. ChildrenOf(d, id(i)) = IF i = n THEN {} ELSE {id(i + 1)}
  <2>1. ASSUME NEW x \in ChildrenOf(d, id(i)) PROVE i # n /\ x = id(i + 1)
    <3>1. PICK e \in d.edges : e[1] = id(i) /\ x = e[2]
      BY DEF ChildrenOf
    <3>2. PICK j \in 1 .. n - 1 : e[1] = id(j) /\ e[2] = id(j + 1)
      BY <1>5
    <3>3. j \in 1 .. n /\ i \in 1 .. n
      BY <1>1 DEF n
    <3>4. i = j
      BY <3>1, <3>2, <3>3, <1>2
    <3>5. QED
      BY <1>1, <3>1, <3>2, <3>4
  <2>2. ASSUME i # n PROVE id(i + 1) \in ChildrenOf(d, id(i))
    <3>1. i \in 1 .. n - 1 /\ i + 1 \in 1 .. n
      BY <1>1, <2>2 DEF n
    <3>2. <<id(i), id(i + 1)>> \in d.edges
      BY <1>6, <3>1
    <3>3. id(i + 1) \in Ids(d)
      BY <1>4, <3>1
    <3>4. QED
      BY <3>2, <3>3 DEF ChildrenOf
  <2>3. QED
    BY <2>1, <2>2
<1>9. QED
  BY <1>7, <1>8 DEF id, n

(* The only root is the first node. *)
LEMMA LinearRoots ==
  ASSUME NEW C, NEW d \in DagOver(C), Linear(d), d.nodes # << >>
  PROVE  RootNodes(d) = {d.nodes[1].id}
<1> DEFINE n == Len(d.nodes)
           id(j) == d.nodes[j].id
<1>1. n \in Nat \ {0} /\ DOMAIN d.nodes = 1 .. n
  BY DagTyped
<1>2. \A j, k \in 1 .. n : id(j) = id(k) => j = k
  BY <1>1 DEF Linear, DistinctIds
<1>3. d.edges = {<<id(j), id(j + 1)>> : j \in 1 .. n - 1}
  BY DEF Linear
<1>4. Ids(d) = {id(j) : j \in 1 .. n}
  BY IdsAt
<1> HIDE DEF id, n
<1>5. \A x : x \in {e[2] : e \in d.edges} <=> \E j \in 1 .. n - 1 : x = id(j + 1)
  <2>1. ASSUME NEW j \in 1 .. n - 1 PROVE id(j + 1) \in {e[2] : e \in d.edges}
    <3>1. <<id(j), id(j + 1)>> \in d.edges /\ <<id(j), id(j + 1)>>[2] = id(j + 1)
      BY <1>3
    <3>2. QED
      BY <3>1
  <2>2. ASSUME NEW e \in d.edges PROVE \E j \in 1 .. n - 1 : e[2] = id(j + 1)
    BY <1>3
  <2>3. QED
    BY <2>1, <2>2
<1>6. ASSUME NEW i \in 2 .. n PROVE id(i) \in {e[2] : e \in d.edges}
  <2>1. i - 1 \in 1 .. n - 1 /\ id((i - 1) + 1) = id(i)
    BY <1>1
  <2>2. QED
    BY <2>1, <1>5
<1>7. id(1) \notin {e[2] : e \in d.edges}
  <2>1. \A j \in 1 .. n - 1 : j + 1 \in 1 .. n /\ 1 \in 1 .. n /\ j + 1 # 1
    BY <1>1
  <2>2. QED
    BY <2>1, <1>2, <1>5
<1>8. RootNodes(d) = {id(1)}
  <2>1. \A j \in 1 .. n : j = 1 \/ j \in 2 .. n
    BY <1>1
  <2>2. 1 \in 1 .. n
    BY <1>1
  <2>3. QED
    BY <2>1, <2>2, <1>4, <1>6, <1>7 DEF RootNodes
<1>9. QED
  BY <1>8 DEF id

(* The walk of _walk_parent_chain, step by step. *)
Parent(d, id) == IF id = NoNode \/ ParentsOf(d, id) = {} THEN NoNode
                 ELSE CHOOSE p \in ParentsOf(d, id) : TRUE

IsWalk(u, d) ==
  u = [i \in 1 .. Len(d.nodes) + 1 |-> IF i = 1 THEN d.current ELSE Parent(d, u[i - 1])]

(* The ids of a chain from its end, and then none. *)
Backwards(d) ==
  [i \in 1 .. Len(d.nodes) + 1 |->
     IF i <= Len(d.nodes) THEN d.nodes[Len(d.nodes) + 1 - i].id ELSE NoNode]

(* On a chain the parent of an id in the walk is the next id of the walk.  *)
LEMMA BackwardsStep ==
  ASSUME NEW C, NEW d \in DagOver(C), Linear(d)
  PROVE  /\ Backwards(d)[1] = d.current
         /\ \A i \in 2 .. Len(d.nodes) + 1 :
              Backwards(d)[i] = Parent(d, Backwards(d)[i - 1])
<1> DEFINE n == Len(d.nodes)
<1>1. n \in Nat /\ (d.nodes = << >> <=> n = 0)
  BY DagTyped
<1>2. Backwards(d)[1] = d.current
  BY <1>1 DEF Backwards, Linear
<1>3. ASSUME NEW i \in 2 .. n + 1
      PROVE  Backwards(d)[i] = Parent(d, Backwards(d)[i - 1])
  <2>0. n + 2 - i \in 1 .. n
    BY <1>1
  <2>1. PICK k \in 1 .. n : k = n + 2 - i
    BY <2>0
  <2>2. Backwards(d)[i - 1] = d.nodes[k].id
    <3>1. i - 1 \in 1 .. n + 1 /\ i - 1 <= n /\ n + 1 - (i - 1) = k
      BY <1>1, <2>1
    <3>2. QED
      BY <3>1 DEF Backwards
  <2>3. Backwards(d)[i] = IF k = 1 THEN NoNode ELSE d.nodes[k - 1].id
    <3>1. i \in 1 .. n + 1 /\ (i <= n <=> k # 1) /\ n + 1 - i = k - 1
      BY <1>1, <2>1
    <3>2. QED
      BY <3>1 DEF Backwards
  <2>4. ParentsOf(d, d.nodes[k].id) = IF k = 1 THEN {} ELSE {d.nodes[k - 1].id}
    BY LinearKin
  <2>5. d.nodes[k].id # NoNode
    BY DagTyped DEF NoNode
  <2>6. QED
    BY <2>2, <2>3, <2>4, <2>5 DEF Parent
<1>4. QED
  BY <1>2, <1>3

(* So it is the only walk of the chain. *)
LEMMA WalkIsBackwards ==
  ASSUME NEW C, NEW d \in DagOver(C), Linear(d)
  PROVE  /\ IsWalk(Backwards(d), d)
         /\ \A u : IsWalk(u, d) => u = Backwards(d)
<1> DEFINE n == Len(d.nodes)
           w == Backwards(d)
<1>1. n \in Nat
  BY DagTyped
<1>2. w[1] = d.current /\ \A i \in 2 .. n + 1 : w[i] = Parent(d, w[i - 1])
  BY BackwardsStep
<1>3. w = [i \in 1 .. n + 1 |-> w[i]]
  BY DEF Backwards
<1> HIDE DEF w
<1>4. IsWalk(w, d)
  <2>1. \A i \in 1 .. n + 1 : w[i] = IF i = 1 THEN d.current ELSE Parent(d, w[i - 1])
    BY <1>1, <1>2
  <2>2. w = [i \in 1 .. n + 1 |-> IF i = 1 THEN d.current ELSE Parent(d, w[i - 1])]
    BY <1>3, <2>1
  <2>3. QED
    BY <2>2 DEF IsWalk
<1>5. ASSUME NEW u, IsWalk(u, d) PROVE u = w
  <2>1. u = [i \in 1 .. n + 1 |-> u[i]]
    BY <1>5 DEF IsWalk
  <2>2. \A i \in 1 .. n + 1 : u[i] = IF i = 1 THEN d.current ELSE Parent(d, u[i - 1])
    BY <1>5 DEF IsWalk
  <2> DEFINE S == {m \in Nat : m <= n => u[m + 1] = w[m + 1]}
  <2>3. 0 \in S
    BY <1>1, <1>2, <2>2
  <2>4. ASSUME NEW m \in Nat, m \in S PROVE m + 1 \in S
    <3>1. SUFFICES ASSUME m + 1 <= n PROVE u[m + 2] = w[m + 2]
      OBVIOUS
    <3>2. u[m + 1] = w[m + 1]
      BY <1>1, <2>4, <3>1
    <3>3. m + 2 \in 2 .. n + 1 /\ (m + 2) - 1 = m + 1
      BY <1>1, <3>1
    <3>4. QED
      BY <3>2, <3>3, <2>2, <1>2
  <2> HIDE DEF S
  <2>5. Nat \subseteq S
    BY <2>3, <2>4, SetInduction
  <2>6. \A i \in 1 .. n + 1 : u[i] = w[i]
    <3>1. TAKE i \in 1 .. n + 1
    <3>2. i - 1 \in Nat /\ i - 1 <= n /\ (i - 1) + 1 = i
      BY <1>1
    <3>3. QED
      BY <3>2, <2>5 DEF S
  <2>7. QED
    BY <2>1, <2>6, <1>3
<1>6. QED
  BY <1>4, <1>5 DEF w

(* _walk_parent_chain returns all the ids, the last node's first. *)
LEMMA LinearParentChain ==
  ASSUME NEW C, NEW d \in DagOver(C), Linear(d)
  PROVE  ParentChain(d) =
           [i \in 1 .. Len(d.nodes) |-> d.nodes[Len(d.nodes) + 1 - i].id]
<1> DEFINE n == Len(d.nodes)
           up == CHOOSE u : IsWalk(u, d)
           reached == {i \in 1 .. n + 1 : up[i] # NoNode}
<1>1. n \in Nat
  BY DagTyped
<1>2. ParentChain(d) = [i \in 1 .. Cardinality(reached) |-> up[i]]
  BY Zenon DEF ParentChain, IsWalk, Parent
<1>3. up = Backwards(d)
  <2>1. \E u : IsWalk(u, d)
    BY WalkIsBackwards
  <2>2. IsWalk(up, d)
    BY <2>1
  <2>3. QED
    BY <2>2, WalkIsBackwards
<1> HIDE DEF up
<1>4. \A i \in 1 .. n : up[i] = d.nodes[n + 1 - i].id /\ up[i] # NoNode
  <2>1. TAKE i \in 1 .. n
  <2>2. n + 1 - i \in 1 .. n /\ i \in 1 .. n + 1 /\ i <= n
    BY <1>1
  <2>3. d.nodes[n + 1 - i].id # NoNode
    BY <2>2, DagTyped DEF NoNode
  <2>4. QED
    BY <1>3, <2>2, <2>3 DEF Backwards
<1>5. up[n + 1] = NoNode
  BY <1>1, <1>3 DEF Backwards
<1>6. reached = 1 .. n
  BY <1>1, <1>4, <1>5
<1>7. Cardinality(reached) = n
  <2>1. Cardinality(1 .. n) = n
    BY <1>1, FS_Interval
  <2> HIDE DEF reached
  <2>2. QED
    BY <1>6, <2>1
<1>8. QED
  BY <1>2, <1>4, <1>7

(* Such a DAG has the shape that every writer gives one. *)
LEMMA LinearIsChain ==
  ASSUME NEW C, NEW d \in DagOver(C), Linear(d)
  PROVE  IsChain(d)
<1> DEFINE n == Len(d.nodes)
           id(j) == d.nodes[j].id
<1>1. n \in Nat /\ DOMAIN d.nodes = 1 .. n /\ (d.nodes # << >> => n \in 1 .. n)
  BY DagTyped
<1>2. \A j, k \in 1 .. n : id(j) = id(k) => j = k
  BY <1>1 DEF Linear, DistinctIds
<1>3. d.edges = {<<id(j), id(j + 1)>> : j \in 1 .. n - 1}
  BY DEF Linear
<1>4. Ids(d) = {id(j) : j \in 1 .. n}
  BY IdsAt
<1>5. ASSUME NEW e \in d.edges
      PROVE  \E j \in 1 .. n - 1 : e[1] = id(j) /\ e[2] = id(j + 1)
  BY <1>3
<1>6. \A j \in 1 .. n - 1 : j \in 1 .. n /\ j + 1 \in 1 .. n /\ j # j + 1
  BY <1>1
<1>7. Validated(d)
  <2>1. ASSUME NEW e \in d.edges PROVE e[1] # e[2]
    <3>1. PICK j \in 1 .. n - 1 : e[1] = id(j) /\ e[2] = id(j + 1)
      BY <1>5
    <3> HIDE DEF id
    <3>2. QED
      BY <3>1, <1>2, <1>6
  <2>2. QED
    BY <2>1 DEF Validated, NoSelfLoop, Linear
<1>8. d.nodes # << >> => HasCurrent(d) /\ ChildrenOf(d, d.current) = {}
  <2>1. SUFFICES ASSUME d.nodes # << >>
                 PROVE  HasCurrent(d) /\ ChildrenOf(d, d.current) = {}
    OBVIOUS
  <2>2. d.current = d.nodes[n].id
    BY <2>1 DEF Linear
  <2>3. ChildrenOf(d, d.nodes[n].id) = {}
    BY <1>1, <2>1, LinearKin
  <2>4. QED
    BY <2>1, <2>2, <2>3, LinearCurrent
<1>9. \A e \in d.edges : {e[1], e[2]} \subseteq Ids(d)
  <2>1. TAKE e \in d.edges
  <2>2. PICK j \in 1 .. n - 1 : e[1] = id(j) /\ e[2] = id(j + 1)
    BY <1>5
  <2>3. QED
    BY <2>2, <1>4, <1>6
<1>10. d.nodes # << >> => Cardinality(RootNodes(d)) = 1
  BY LinearRoots, FS_Singleton
<1>11. \A x \in Ids(d) : Cardinality(ParentsOf(d, x)) <= 1
  <2>1. TAKE x \in Ids(d)
  <2>2. PICK j \in 1 .. n : x = id(j)
    BY <1>4
  <2>3. ParentsOf(d, x) = IF j = 1 THEN {} ELSE {d.nodes[j - 1].id}
    BY <2>2, LinearKin
  <2>4. Cardinality(ParentsOf(d, x)) \in {0, 1}
    BY <2>3, FS_EmptySet, FS_Singleton
  <2>5. QED
    BY <2>4
<1>12. Len(ParentChain(d)) = Len(d.nodes)
  <2> DEFINE e(i) == d.nodes[n + 1 - i].id
  <2>1. \A i \in 1 .. n : e(i) \in Nat
    <3>1. TAKE i \in 1 .. n
    <3>2. n + 1 - i \in 1 .. n
      BY <1>1
    <3>3. QED
      BY <3>2, DagTyped
  <2>2. ParentChain(d) = [i \in 1 .. n |-> e(i)]
    BY LinearParentChain
  <2> HIDE DEF e, n
  <2>3. Len([i \in 1 .. n |-> e(i)]) = n
    BY <1>1
  <2>4. QED
    BY <2>2, <2>3 DEF n
<1>13. \A e \in d.edges : GetNode(d, e[1]).content # GetNode(d, e[2]).content
  <2>1. TAKE e \in d.edges
  <2>2. PICK j \in 1 .. n - 1 : e[1] = id(j) /\ e[2] = id(j + 1)
    BY <1>5
  <2>3. GetNode(d, e[1]) = d.nodes[j] /\ GetNode(d, e[2]) = d.nodes[j + 1]
    <3>1. j \in 1 .. n /\ j + 1 \in 1 .. n
      BY <1>1
    <3>2. DistinctIds(d)
      BY DEF Linear
    <3>3. QED
      BY <2>2, <3>1, <3>2, GetNodeAt
  <2>4. d.nodes[j].content # d.nodes[j + 1].content
    BY <2>2 DEF Linear
  <2>5. QED
    BY <2>3, <2>4
<1>14. QED
  BY <1>7, <1>8, <1>9, <1>10, <1>11, <1>12, <1>13 DEF IsChain

(* save_snapshot continues the chain, by a new id and other contents. *)
LEMMA SaveLinear ==
  ASSUME NEW C, NEW d \in DagOver(C), Linear(d),
         NEW c \in C, NEW new \in Nat \ {0}, new \notin Ids(d),
         HasCurrent(d) => CurrentContent(d) # c
  PROVE  /\ SaveSnapshot(d, c, new) \in DagOver(C)
         /\ Linear(SaveSnapshot(d, c, new))
         /\ SaveSnapshot(d, c, new).nodes = Append(d.nodes, [id |-> new, content |-> c])
         /\ Ids(SaveSnapshot(d, c, new)) = Ids(d) \cup {new}
<1> DEFINE n == Len(d.nodes)
           node == [id |-> new, content |-> c]
           s == SaveSnapshot(d, c, new)
           ns == Append(d.nodes, node)
<1>1. /\ n \in Nat /\ DOMAIN d.nodes = 1 .. n /\ (d.nodes = << >> <=> n = 0)
      /\ d.edges \in SUBSET (Nat \X Nat) /\ d.current \in Nat
      /\ \A i \in 1 .. n : d.nodes[i].id \in Nat /\ d.nodes[i].content \in C
  BY DagTyped
<1>2. node \in NodeOver(C) /\ node.id = new /\ node.content = c
  BY DEF NodeOver
<1>3. s.nodes = ns /\ s.current = new
      /\ s.edges = d.edges \cup (IF d.current = NoNode THEN {} ELSE {<<d.current, new>>})
  BY DEF SaveSnapshot
<1>4. /\ ns \in Seq(NodeOver(C)) /\ ns # << >> /\ Len(ns) = n + 1
      /\ \A i \in 1 .. n : ns[i] = d.nodes[i]
      /\ ns[n + 1] = node
  BY <1>2, DagTyped, AppendProperties
<1>5. s \in DagOver(C)
  <2>1. s.edges \in SUBSET (Nat \X Nat)
    BY <1>1, <1>3
  <2>2. s = [nodes |-> s.nodes, edges |-> s.edges, current |-> s.current]
    BY DEF SaveSnapshot
  <2> HIDE DEF ns, node, s
  <2>3. s.nodes \in Seq(NodeOver(C)) /\ s.current \in Nat
    BY <1>3, <1>4
  <2>4. QED
    BY <2>1, <2>2, <2>3 DEF DagOver
<1> HIDE DEF ns, node, s
<1>6. Ids(s) = Ids(d) \cup {new}
  <2>1. Ids(s) = {ns[i].id : i \in 1 .. n + 1}
    BY <1>3, <1>4, <1>5, IdsAt
  <2>2. Ids(d) = {d.nodes[i].id : i \in 1 .. n}
    BY IdsAt
  <2>3. ASSUME NEW i \in 1 .. n + 1 PROVE ns[i].id \in Ids(d) \cup {new}
    <3>1. i \in 1 .. n \/ i = n + 1
      BY <1>1
    <3>2. QED
      BY <2>2, <3>1, <1>2, <1>4
  <2>4. ASSUME NEW i \in 1 .. n PROVE d.nodes[i].id \in Ids(s)
    <3>1. i \in 1 .. n + 1
      BY <1>1
    <3>2. QED
      BY <2>1, <3>1, <1>4
  <2>5. new \in Ids(s)
    <3>1. n + 1 \in 1 .. n + 1
      BY <1>1
    <3>2. QED
      BY <2>1, <3>1, <1>2, <1>4
  <2>6. QED
    BY <2>1, <2>2, <2>3, <2>4, <2>5
<1>7. DistinctIds(s)
  <2>1. DOMAIN s.nodes = 1 .. n + 1
    BY <1>3, <1>4, LenProperties
  <2>2. \A i \in 1 .. n : d.nodes[i].id \in Ids(d)
    BY IdsAt
  <2>3. \A i, j \in 1 .. n : d.nodes[i].id = d.nodes[j].id => i = j
    BY <1>1 DEF Linear, DistinctIds
  <2>4. \A i \in 1 .. n + 1 : ns[i].id = IF i = n + 1 THEN new ELSE d.nodes[i].id
    BY <1>1, <1>2, <1>4
  <2>5. ASSUME NEW i \in 1 .. n + 1, NEW j \in 1 .. n + 1, ns[i].id = ns[j].id
        PROVE  i = j
    <3>1. (i \in 1 .. n \/ i = n + 1) /\ (j \in 1 .. n \/ j = n + 1)
      BY <1>1
    <3>2. i = n + 1 => i \notin 1 .. n
      BY <1>1
    <3>3. QED
      BY <2>2, <2>3, <2>4, <2>5, <3>1, <3>2, <1>1
  <2>6. QED
    BY <1>3, <2>1, <2>5 DEF DistinctIds
<1>8. s.edges = {<<ns[i].id, ns[i + 1].id>> : i \in 1 .. n}
  <2>1. CASE n = 0
    <3>1. d.edges = {}
      BY <2>1 DEF Linear
    <3>2. d.current = NoNode
      BY <1>1, <2>1 DEF Linear
    <3>3. QED
      BY <1>3, <2>1, <3>1, <3>2
  <2>2. CASE n # 0
    <3>1. d.current = d.nodes[n].id /\ d.current # NoNode
      BY <1>1, <2>2, DagTyped DEF Linear, NoNode
    <3>2. s.edges = d.edges \cup {<<d.nodes[n].id, new>>}
      BY <1>3, <3>1
    <3>3. d.edges = {<<d.nodes[i].id, d.nodes[i + 1].id>> : i \in 1 .. n - 1}
      BY DEF Linear
    <3>4. \A i \in 1 .. n - 1 : /\ i \in 1 .. n
                                /\ ns[i].id = d.nodes[i].id
                                /\ ns[i + 1].id = d.nodes[i + 1].id
      <4>1. TAKE i \in 1 .. n - 1
      <4>2. i \in 1 .. n /\ i + 1 \in 1 .. n
        BY <1>1
      <4>3. QED
        BY <4>2, <1>4
    <3>5. n \in 1 .. n /\ ns[n].id = d.nodes[n].id /\ ns[n + 1].id = new
      BY <1>1, <1>2, <1>4, <2>2
    <3> DEFINE later == {<<ns[i].id, ns[i + 1].id>> : i \in 1 .. n}
    <3>6. ASSUME NEW i \in 1 .. n PROVE <<ns[i].id, ns[i + 1].id>> \in s.edges
      <4>1. i \in 1 .. n - 1 \/ i = n
        BY <1>1
      <4>2. QED
        BY <4>1, <3>2, <3>3, <3>4, <3>5
    <3>7. d.edges \subseteq later
      BY <3>3, <3>4
    <3>8. <<d.nodes[n].id, new>> \in later
      BY <3>5
    <3>9. QED
      BY <3>2, <3>6, <3>7, <3>8
  <2>3. QED
    BY <2>1, <2>2
<1>9. \A i \in 1 .. n : ns[i].content # ns[i + 1].content
  <2>1. TAKE i \in 1 .. n
  <2>2. CASE i = n
    <3>1. CurrentContent(d) = d.nodes[n].content /\ HasCurrent(d)
      BY <1>1, <2>2, LinearCurrent
    <3>2. QED
      BY <1>2, <1>4, <2>2, <3>1
  <2>3. CASE i # n
    <3>1. i \in 1 .. n - 1 /\ i + 1 \in 1 .. n
      BY <1>1, <2>3
    <3>2. QED
      BY <1>4, <3>1 DEF Linear
  <2>4. QED
    BY <2>2, <2>3
<1>10. Linear(s)
  <2>1. Len(s.nodes) - 1 = n /\ Len(s.nodes) = n + 1
    BY <1>1, <1>3, <1>4
  <2>2. s.current = IF s.nodes = << >> THEN NoNode ELSE s.nodes[Len(s.nodes)].id
    BY <1>2, <1>3, <1>4, <2>1
  <2>3. QED
    BY <1>3, <1>7, <1>8, <1>9, <2>1, <2>2 DEF Linear
<1>11. QED
  BY <1>3, <1>5, <1>6, <1>10 DEF s, ns, node

(* The nodes that are kept of the first i. *)
KeptStep(g, nodes, drop, i) ==
  CASE i = 0                            -> << >>
    [] i > 0 /\ nodes[i].id \in drop    -> g[i - 1]
    [] OTHER                            -> Append(g[i - 1], nodes[i])

IsKept(g, nodes, drop) == g = [i \in 0 .. Len(nodes) |-> KeptStep(g, nodes, drop, i)]

(* Without the first nodes a sequence is what follows them. *)
LEMMA WithoutTheFirst ==
  ASSUME NEW C, NEW ns \in Seq(NodeOver(C)), NEW m \in 0 .. Len(ns), NEW drop,
         \A i \in 1 .. Len(ns) : ns[i].id \in drop <=> i <= m
  PROVE  Without(ns, drop) = SubSeq(ns, m + 1, Len(ns))
<1> DEFINE n == Len(ns)
           kept == CHOOSE g : IsKept(g, ns, drop)
           w == [i \in 0 .. n |-> SubSeq(ns, m + 1, i)]
<1>1. n \in Nat /\ m \in Nat /\ m <= n
  BY LenProperties
<1>2. Without(ns, drop) = kept[n]
  BY Zenon DEF Without, IsKept, KeptStep
<1>3. \A i \in 0 .. n : i <= m => w[i] = << >>
  <2>1. TAKE i \in 0 .. n
  <2>2. i <= m => SubSeq(ns, m + 1, i) = << >>
    BY <1>1, SubSeqEmpty
  <2>3. QED
    BY <2>2
<1>4. \A i \in 1 .. n : m < i => w[i] = Append(w[i - 1], ns[i])
  <2>1. SUFFICES ASSUME NEW i \in 1 .. n, m < i
                 PROVE  w[i] = Append(w[i - 1], ns[i])
    OBVIOUS
  <2>2. i \in 0 .. n /\ i - 1 \in 0 .. n /\ m + 1 \in 1 .. n /\ i \in m + 1 .. n
    BY <1>1, <2>1
  <2>3. \A j \in 1 .. n : ns[j] \in NodeOver(C)
    BY ElementOfSeq
  <2>4. \A j \in m + 1 .. i - 1 : ns[j] \in NodeOver(C)
    BY <1>1, <2>2, <2>3
  <2>5. SubSeq(ns, m + 1, i - 1) \in Seq(NodeOver(C))
    BY <1>1, <2>4, SubSeqProperties
  <2>6. SubSeq(ns, m + 1, i) = SubSeq(ns, m + 1, i - 1) \o << ns[i] >>
    BY <2>2, SubSeqRecursiveSecond
  <2>7. Append(SubSeq(ns, m + 1, i - 1), ns[i]) = SubSeq(ns, m + 1, i - 1) \o << ns[i] >>
    BY <2>3, <2>5, AppendIsConcat
  <2>8. QED
    BY <2>2, <2>6, <2>7
<1>5. w[n] = SubSeq(ns, m + 1, n)
  BY <1>1
<1>6. w = [i \in 0 .. n |-> w[i]]
  OBVIOUS
<1> HIDE DEF w
<1>7. \A i \in 0 .. n : w[i] = KeptStep(w, ns, drop, i)
  <2>1. TAKE i \in 0 .. n
  <2>2. CASE i = 0
    BY <1>1, <1>3, <2>2 DEF KeptStep
  <2>3. CASE i # 0 /\ i <= m
    <3>1. i \in 1 .. n /\ i > 0 /\ i - 1 \in 0 .. n /\ i - 1 <= m
      BY <1>1, <2>3
    <3>2. w[i] = << >> /\ w[i - 1] = << >>
      BY <1>3, <2>3, <3>1
    <3>3. ns[i].id \in drop
      BY <2>3, <3>1
    <3>4. QED
      BY <2>3, <3>1, <3>2, <3>3 DEF KeptStep
  <2>4. CASE m < i
    <3>1. i \in 1 .. n /\ i # 0
      BY <1>1, <2>4
    <3>2. ns[i].id \notin drop
      BY <1>1, <2>4, <3>1
    <3>3. w[i] = Append(w[i - 1], ns[i])
      BY <1>4, <2>4, <3>1
    <3>4. QED
      BY <3>1, <3>2, <3>3 DEF KeptStep
  <2>5. QED
    BY <1>1, <2>2, <2>3, <2>4
<1>8. IsKept(w, ns, drop)
  <2>1. w = [i \in 0 .. n |-> KeptStep(w, ns, drop, i)]
    BY <1>6, <1>7
  <2>2. QED
    BY <2>1 DEF IsKept
<1>9. IsKept(kept, ns, drop)
  BY <1>8
<1> HIDE DEF kept
<1>10. \A i \in 0 .. n : kept[i] = KeptStep(kept, ns, drop, i)
  <2>1. kept = [i \in 0 .. n |-> KeptStep(kept, ns, drop, i)]
    BY <1>9 DEF IsKept
  <2>2. QED
    BY <2>1, Zenon
<1> DEFINE S == {i \in Nat : i <= n => kept[i] = w[i]}
<1>11. 0 \in S
  BY <1>1, <1>7, <1>10 DEF KeptStep
<1>12. ASSUME NEW i \in Nat, i \in S PROVE i + 1 \in S
  <2>1. SUFFICES ASSUME i + 1 <= n PROVE kept[i + 1] = w[i + 1]
    OBVIOUS
  <2>2. i + 1 \in 0 .. n /\ i + 1 # 0 /\ (i + 1) - 1 = i /\ kept[i] = w[i]
    BY <1>1, <1>12, <2>1
  <2>3. KeptStep(kept, ns, drop, i + 1) = KeptStep(w, ns, drop, i + 1)
    BY <2>2 DEF KeptStep
  <2>4. QED
    BY <1>7, <1>10, <2>2, <2>3
<1> HIDE DEF S
<1>13. n \in S
  BY <1>1, <1>11, <1>12, SetInduction
<1>14. QED
  BY <1>1, <1>2, <1>5, <1>13 DEF S

(* prune_test_results_dag_nodes leaves a chain of the most recent nodes,   *)
(* the same where these are all.                                           *)
LEMMA PruneLinear ==
  ASSUME NEW C, NEW d \in DagOver(C), Linear(d)
  PROVE  /\ Prune(d) \in DagOver(C) /\ Linear(Prune(d))
         /\ Len(Prune(d).nodes) <= KeepLast
         /\ Ids(Prune(d)) \subseteq Ids(d)
         /\ Prune(d).current = d.current
         /\ HasCurrent(Prune(d)) <=> HasCurrent(d)
         /\ HasCurrent(d) => CurrentContent(Prune(d)) = CurrentContent(d)
         /\ Len(d.nodes) <= KeepLast => Prune(d) = d
<1> DEFINE n == Len(d.nodes)
           m == IF n > KeepLast THEN n - KeepLast ELSE 0
           id(j) == d.nodes[j].id
           chain == ParentChain(d)
           drop == {chain[i] : i \in (KeepLast + 1) .. Len(chain)}
           p == Prune(d)
<1>1. n \in Nat /\ DOMAIN d.nodes = 1 .. n /\ (d.nodes = << >> <=> n = 0)
  BY DagTyped
<1>2. KeepLast \in Nat \ {0}
  BY TestResultsAssumption
<1>3. m \in 0 .. n /\ n - m <= KeepLast /\ (n # 0 => n \in m + 1 .. n) /\ (n <= KeepLast => m = 0)
  BY <1>1, <1>2
<1>4. \A j, k \in 1 .. n : id(j) = id(k) => j = k
  BY <1>1 DEF Linear, DistinctIds
<1>5. \A i \in 1 .. n : id(i) \in drop <=> i <= m
  <2>1. Len(chain) = n /\ \A i \in 1 .. n : chain[i] = id(n + 1 - i)
    <3> DEFINE e(i) == d.nodes[n + 1 - i].id
    <3>1. chain = [i \in 1 .. n |-> e(i)]
      BY LinearParentChain
    <3> HIDE DEF e, n, chain
    <3>2. Len([i \in 1 .. n |-> e(i)]) = n
      BY <1>1
    <3>3. Len(chain) = n /\ \A i \in 1 .. n : chain[i] = e(i)
      BY <3>1, <3>2
    <3>4. QED
      BY <3>3 DEF e
  <2> HIDE DEF chain, id, m
  <2>2. SUFFICES ASSUME NEW i \in 1 .. n PROVE id(i) \in drop <=> i <= m
    OBVIOUS
  <2>3. ASSUME i <= m PROVE id(i) \in drop
    <3>1. n + 1 - i \in (KeepLast + 1) .. n /\ n + 1 - i \in 1 .. n
      BY <1>1, <1>2, <2>3 DEF m
    <3>2. n + 1 - (n + 1 - i) = i
      BY <1>1
    <3>3. chain[n + 1 - i] = id(i)
      BY <2>1, <3>1, <3>2
    <3>4. QED
      BY <2>1, <3>1, <3>3
  <2>4. ASSUME id(i) \in drop PROVE i <= m
    <3>1. PICK k \in (KeepLast + 1) .. n : id(i) = chain[k]
      BY <2>1, <2>4
    <3>2. k \in 1 .. n /\ n + 1 - k \in 1 .. n /\ n + 1 - k <= m
      BY <1>1, <1>2 DEF m
    <3>3. id(i) = id(n + 1 - k)
      BY <2>1, <3>1, <3>2
    <3>4. i = n + 1 - k
      BY <1>4, <3>2, <3>3
    <3>5. QED
      BY <3>2, <3>4
  <2>5. QED
    BY <2>3, <2>4
<1>6. /\ p.nodes = Without(d.nodes, drop)
      /\ p.edges = {e \in d.edges : e[1] \notin drop /\ e[2] \notin drop}
      /\ p.current = d.current
      /\ p = [nodes |-> p.nodes, edges |-> p.edges, current |-> p.current]
  BY DEF Prune
<1> HIDE DEF p, drop, chain, m
<1>7. p.nodes = SubSeq(d.nodes, m + 1, n)
  <2>1. d.nodes \in Seq(NodeOver(C))
    BY DagTyped
  <2>2. QED
    BY <1>3, <1>5, <1>6, <2>1, WithoutTheFirst
<1>8. /\ p.nodes \in Seq(NodeOver(C)) /\ Len(p.nodes) = n - m
      /\ DOMAIN p.nodes = 1 .. n - m
      /\ \A i \in 1 .. n - m : p.nodes[i] = d.nodes[m + i] /\ m + i \in 1 .. n
  <2>1. \A i \in m + 1 .. n : d.nodes[i] \in NodeOver(C)
    BY <1>1, <1>3, DagTyped
  <2>2. p.nodes \in Seq(NodeOver(C)) /\ Len(p.nodes) = n - m
        /\ \A i \in 1 .. n - m : p.nodes[i] = d.nodes[m + i]
    <3>1. m + 1 \in Int /\ n \in Int /\ n - (m + 1) + 1 = n - m
      BY <1>1, <1>3
    <3>2. /\ p.nodes \in Seq(NodeOver(C))
          /\ Len(p.nodes) = IF m + 1 <= n THEN n - (m + 1) + 1 ELSE 0
          /\ \A i \in 1 .. n - (m + 1) + 1 : p.nodes[i] = d.nodes[m + 1 + i - 1]
      BY <1>7, <2>1, <3>1, SubSeqProperties
    <3>3. Len(p.nodes) = n - m
      BY <1>1, <1>3, <3>1, <3>2
    <3>4. \A i \in 1 .. n - m : m + 1 + i - 1 = m + i
      BY <1>1, <1>3
    <3>5. QED
      BY <3>1, <3>2, <3>3, <3>4
  <2>3. DOMAIN p.nodes = 1 .. n - m
    BY <2>2, LenProperties
  <2>4. \A i \in 1 .. n - m : m + i \in 1 .. n
    BY <1>1, <1>3
  <2>5. QED
    BY <2>2, <2>3, <2>4
<1>9. p.edges = {<<id(m + i), id(m + i + 1)>> : i \in 1 .. n - m - 1}
  <2> DEFINE later == {<<id(m + i), id(m + i + 1)>> : i \in 1 .. n - m - 1}
  <2>1. d.edges = {<<id(j), id(j + 1)>> : j \in 1 .. n - 1}
    BY DEF Linear
  <2> HIDE DEF id
  <2>2. ASSUME NEW e \in p.edges PROVE e \in later
    <3>1. PICK j \in 1 .. n - 1 : e = <<id(j), id(j + 1)>>
      BY <1>6, <2>1
    <3>2. id(j) \notin drop
      BY <1>6, <3>1
    <3>3. j \in 1 .. n /\ ~(j <= m)
      BY <1>1, <1>5, <3>2
    <3>4. j - m \in 1 .. n - m - 1 /\ m + (j - m) = j /\ m + (j - m) + 1 = j + 1
      BY <1>1, <1>3, <3>3
    <3>5. QED
      BY <3>1, <3>4
  <2>3. ASSUME NEW i \in 1 .. n - m - 1 PROVE <<id(m + i), id(m + i + 1)>> \in p.edges
    <3>1. /\ m + i \in 1 .. n - 1 /\ m + i \in 1 .. n /\ m + i + 1 \in 1 .. n
          /\ ~(m + i <= m) /\ ~(m + i + 1 <= m)
      BY <1>1, <1>3
    <3>2. id(m + i) \notin drop /\ id(m + i + 1) \notin drop
      BY <1>5, <3>1
    <3>3. <<id(m + i), id(m + i + 1)>> \in d.edges
      BY <2>1, <3>1
    <3>4. QED
      BY <1>6, <3>2, <3>3
  <2>4. QED
    BY <2>2, <2>3
<1>10. p \in DagOver(C)
  <2>1. p.edges \in SUBSET (Nat \X Nat) /\ p.current \in Nat
    BY <1>6, DagTyped
  <2>2. QED
    BY <1>6, <1>8, <2>1 DEF DagOver
<1>11. Linear(p)
  <2>1. DistinctIds(p)
    <3>1. SUFFICES ASSUME NEW i \in 1 .. n - m, NEW j \in 1 .. n - m,
                          p.nodes[i].id = p.nodes[j].id
                   PROVE  i = j
      BY <1>8 DEF DistinctIds
    <3>2. m + i \in 1 .. n /\ m + j \in 1 .. n /\ id(m + i) = id(m + j)
      BY <1>8, <3>1
    <3>3. m + i = m + j
      BY <1>4, <3>2
    <3>4. QED
      BY <1>3, <3>3
  <2>2. p.edges = {<<p.nodes[i].id, p.nodes[i + 1].id>> : i \in 1 .. Len(p.nodes) - 1}
    <3>1. \A i \in 1 .. n - m - 1 : p.nodes[i].id = id(m + i) /\ p.nodes[i + 1].id = id(m + i + 1)
      <4>1. TAKE i \in 1 .. n - m - 1
      <4>2. i \in 1 .. n - m /\ i + 1 \in 1 .. n - m /\ m + (i + 1) = m + i + 1
        BY <1>1, <1>3
      <4>3. QED
        BY <1>8, <4>2
    <3>2. Len(p.nodes) - 1 = n - m - 1
      BY <1>8
    <3> HIDE DEF id
    <3>3. {<<id(m + i), id(m + i + 1)>> : i \in 1 .. n - m - 1}
            = {<<p.nodes[i].id, p.nodes[i + 1].id>> : i \in 1 .. n - m - 1}
      BY <3>1
    <3>4. QED
      BY <1>9, <3>2, <3>3
  <2>3. p.current = IF p.nodes = << >> THEN NoNode ELSE p.nodes[Len(p.nodes)].id
    <3>1. p.nodes = << >> <=> Len(p.nodes) = 0
      BY <1>8, EmptySeq
    <3>2. CASE n = 0
      BY <1>1, <1>3, <1>6, <1>8, <3>1, <3>2 DEF Linear
    <3>3. CASE n # 0
      <4>1. n - m \in 1 .. n - m /\ m + (n - m) = n
        BY <1>1, <1>3, <3>3
      <4>2. p.nodes[n - m] = d.nodes[n]
        BY <1>8, <4>1
      <4>3. d.current = d.nodes[n].id
        BY <1>1, <3>3 DEF Linear
      <4>4. n - m # 0
        BY <4>1
      <4>5. p.nodes # << >> /\ p.nodes[Len(p.nodes)] = d.nodes[n]
        BY <1>8, <3>1, <4>2, <4>4
      <4>6. p.current = d.nodes[n].id
        BY <1>6, <4>3
      <4>7. QED
        BY <4>5, <4>6
    <3>4. QED
      BY <3>2, <3>3
  <2>4. \A i \in 1 .. Len(p.nodes) - 1 : p.nodes[i].content # p.nodes[i + 1].content
    <3>1. TAKE i \in 1 .. Len(p.nodes) - 1
    <3>2. /\ i \in 1 .. n - m /\ i + 1 \in 1 .. n - m /\ m + (i + 1) = (m + i) + 1
          /\ m + i \in 1 .. n - 1
      BY <1>1, <1>3, <1>8
    <3>3. p.nodes[i] = d.nodes[m + i] /\ p.nodes[i + 1] = d.nodes[(m + i) + 1]
      BY <1>8, <3>2
    <3>4. QED
      BY <3>2, <3>3 DEF Linear
  <2>5. QED
    BY <2>1, <2>2, <2>3, <2>4 DEF Linear
<1>12. Ids(p) \subseteq Ids(d)
  BY <1>8, <1>10, IdsAt
<1>13. (HasCurrent(p) <=> HasCurrent(d))
       /\ (HasCurrent(d) => CurrentContent(p) = CurrentContent(d))
  <2>1. HasCurrent(p) <=> HasCurrent(d)
    BY <1>6, <1>10, <1>11, LinearCurrent
  <2>2. ASSUME HasCurrent(d) PROVE CurrentContent(p) = CurrentContent(d)
    <3>1. CurrentContent(d) = d.nodes[n].content /\ n # 0
      BY <1>1, <2>2, LinearCurrent
    <3>2. CurrentContent(p) = p.nodes[n - m].content
      BY <1>8, <1>10, <1>11, <2>1, <2>2, LinearCurrent
    <3>3. n - m \in 1 .. n - m /\ m + (n - m) = n
      BY <1>1, <1>3, <3>1
    <3>4. QED
      BY <1>8, <3>1, <3>2, <3>3
  <2>3. QED
    BY <2>1, <2>2
<1>14. n <= KeepLast => p = d
  <2>1. SUFFICES ASSUME n <= KeepLast PROVE p = d
    OBVIOUS
  <2>2. m = 0
    BY <1>3, <2>1
  <2>3. p.nodes = d.nodes
    BY <1>7, <2>2, DagTyped, SubSeqFull
  <2>4. p.edges = d.edges
    BY <1>10, <1>11, <2>3 DEF Linear
  <2>5. QED
    BY <1>6, <2>3, <2>4, DagTyped
<1>15. Len(p.nodes) <= KeepLast
  BY <1>3, <1>8
<1>16. QED
  BY <1>6, <1>10, <1>11, <1>12, <1>13, <1>14, <1>15 DEF p

-------------------------------------------------------------------------------
(* Whatever a producer saw, it reports keys of the project. *)
LEMMA PytestSeesKeys ==
  \A seen \in PytestSees : seen[1] \subseteq Keys /\ seen[2] \subseteq Keys
<1>1. TAKE seen \in PytestSees
<1>2. PICK ran \in SUBSET PytestKeys :
        \E cases \in [ran -> (SUBSET BOOLEAN) \ {{}}] :
          seen = <<{k \in ran : cases[k] = {TRUE}}, {k \in ran : FALSE \in cases[k]}>>
  BY Zenon DEF PytestSees
<1>3. seen[1] \subseteq ran /\ seen[2] \subseteq ran
  <2>1. PICK cases \in [ran -> (SUBSET BOOLEAN) \ {{}}] :
          seen = <<{k \in ran : cases[k] = {TRUE}}, {k \in ran : FALSE \in cases[k]}>>
    BY <1>2
  <2>2. /\ seen[1] = {k \in ran : cases[k] = {TRUE}}
        /\ seen[2] = {k \in ran : FALSE \in cases[k]}
    BY <2>1
  <2>3. QED
    BY <2>2
<1>4. PytestKeys \subseteq Keys
  BY DEF PytestKeys, KeysOfKind
<1>5. QED
  BY <1>3, <1>4

LEMMA CTestSeesKeys ==
  \A seen \in CTestSees : seen[1] \subseteq Keys /\ seen[2] \subseteq Keys
<1> DEFINE Ran(sources) == {k \in CTestKeys : k.ref.path \in sources}
           Seen(sources, rc) == <<{k \in Ran(sources) : rc[k.ref.path] = "0"},
                                  {k \in Ran(sources) : rc[k.ref.path] # "0"}>>
<1>1. TAKE seen \in CTestSees
<1>2. PICK sources \in SUBSET {k.ref.path : k \in CTestKeys} :
        \E rc \in [sources -> ExitStatus] : seen = Seen(sources, rc)
  BY Zenon DEF CTestSees
<1>3. seen[1] \subseteq CTestKeys /\ seen[2] \subseteq CTestKeys
  BY <1>2
<1>4. CTestKeys \subseteq Keys
  BY DEF CTestKeys, KeysOfKind
<1>5. QED
  BY <1>3, <1>4

LEMMA MatrixSeesKeys ==
  \A seen \in MatrixSees : /\ seen[1] \subseteq Keys /\ seen[2] \subseteq Keys
                            /\ seen[1] \cap seen[2] = {}
<1> DEFINE Swept(kernels) == {k \in MatrixKeys : k.env.kernel \in kernels}
           Passed(kernels, built, rc) ==
             {k \in Swept(kernels) : k.env.flags \in built /\ rc[k] = "0"}
           Seen(kernels, built, rc) ==
             <<Passed(kernels, built, rc), Swept(kernels) \ Passed(kernels, built, rc)>>
<1> DEFINE Statuses(kernels) == [Swept(kernels) -> LoadStatus]
           Flags == SUBSET {k.env.flags : k \in MatrixKeys}
           Sweep(kernels) ==
             {Seen(kernels, built, rc) : built \in Flags, rc \in Statuses(kernels)}
           Kernels == SUBSET {k.env.kernel : k \in MatrixKeys}
<1>1. TAKE seen \in MatrixSees
<1>2. PICK kernels \in Kernels : seen \in Sweep(kernels)
  <2>1. MatrixSees = UNION {Sweep(kernels) : kernels \in Kernels}
    BY DEF MatrixSees
  <2> HIDE DEF Sweep
  <2>2. QED
    BY <2>1, Zenon
<1>3. /\ seen[1] \subseteq MatrixKeys /\ seen[2] \subseteq MatrixKeys
      /\ seen[1] \cap seen[2] = {}
  <2> HIDE DEF Statuses, Flags, Seen
  <2>1. PICK built \in Flags, rc \in Statuses(kernels) : seen = Seen(kernels, built, rc)
    BY <1>2
  <2> HIDE DEF Passed
  <2>2. seen[1] = Passed(kernels, built, rc)
        /\ seen[2] = Swept(kernels) \ Passed(kernels, built, rc)
    BY <2>1 DEF Seen
  <2>3. /\ Passed(kernels, built, rc) \subseteq MatrixKeys
        /\ Swept(kernels) \subseteq MatrixKeys
    BY DEF Passed
  <2>4. QED
    BY <2>2, <2>3
<1>4. MatrixKeys \subseteq Keys
  BY DEF MatrixKeys, KeysOfKind
<1>5. QED
  BY <1>3, <1>4

LEMMA AwsSeesKeys ==
  \A seen \in AwsSees : seen[1] \subseteq Keys /\ seen[2] \subseteq Keys
<1> DEFINE all == KeysOfKind("aws-ec2")
           Probed(kernel) == {k \in all : /\ k.env.distro \in DOMAIN kernel
                                          /\ k.env.kernel = kernel[k.env.distro]}
           Kernels == UNION {[distros -> {k.env.kernel : k \in all}] :
                              distros \in SUBSET {k.env.distro : k \in all}}
<1>1. TAKE seen \in AwsSees
<1>2. PICK kernel \in Kernels :
        \E passed \in SUBSET Probed(kernel) : seen = <<passed, Probed(kernel) \ passed>>
  BY Zenon DEF AwsSees
<1>3. seen[1] \subseteq all /\ seen[2] \subseteq all
  BY <1>2
<1>4. all \subseteq Keys
  BY DEF KeysOfKind
<1>5. QED
  BY <1>3, <1>4

LEMMA PerfSeesKeys ==
  \A seen \in PerfSees : seen[1] \subseteq Keys /\ seen[2] \subseteq Keys
  BY DEF PerfSees, KeysOfKind

LEMMA ReportTyped ==
  ASSUME NEW report \in Reports
  PROVE  /\ report.keys \subseteq Keys /\ report.failed \subseteq Keys
         /\ report.purges \in BOOLEAN
         /\ report.purges => report.keys \cap report.failed = {}
<1> DEFINE Report(seen, purges) == [keys |-> seen[1], failed |-> seen[2], purges |-> purges]
           Seen == PytestSees \cup CTestSees \cup AwsSees \cup PerfSees
<1>1. \/ \E seen \in Seen : report = Report(seen, FALSE)
      \/ \E seen \in MatrixSees : report = Report(seen, TRUE)
  BY Zenon DEF Reports
<1>2. CASE \E seen \in Seen : report = Report(seen, FALSE)
  <2>1. PICK seen \in Seen : report = Report(seen, FALSE)
    BY <1>2
  <2>2. seen[1] \subseteq Keys /\ seen[2] \subseteq Keys
    BY PytestSeesKeys, CTestSeesKeys, AwsSeesKeys, PerfSeesKeys
  <2>3. QED
    BY <2>1, <2>2
<1>3. CASE \E seen \in MatrixSees : report = Report(seen, TRUE)
  <2>1. PICK seen \in MatrixSees : report = Report(seen, TRUE)
    BY <1>3
  <2>2. seen[1] \subseteq Keys /\ seen[2] \subseteq Keys /\ seen[1] \cap seen[2] = {}
    BY MatrixSeesKeys
  <2>3. QED
    BY <2>1, <2>2
<1>4. QED
  BY <1>1, <1>2, <1>3

LEMMA BatchTyped ==
  ASSUME NEW b \in Batch
  PROVE  /\ b.keys \subseteq Keys
         /\ b.purges \in BOOLEAN
         /\ b.purges => b.keys \cap b.failed = {}
         /\ b.captured_at \in Times
         /\ ObservationOf(b) \in Observation
<1>1. PICK report \in Emitted, c \in Shas, t \in Times : b = BatchOf(report, c, t)
  BY DEF Batch
<1>2. report \in Reports
  BY DEF Emitted
<1>3. /\ b.keys = report.keys /\ b.failed = report.failed /\ b.purges = report.purges
      /\ b.sha = c /\ b.captured_at = t
  BY <1>1 DEF BatchOf
<1>4. QED
  BY <1>2, <1>3, ReportTyped DEF ObservationOf, Observation

-------------------------------------------------------------------------------
(* What a batch purges of a snapshot, and what it leaves. *)
Purged(b) == IF b.purges THEN b.failed ELSE {}

LEMMA SnapshotIs ==
  \A s : s \in Snapshot <=> /\ s = [k \in DOMAIN s |-> s[k]] /\ DOMAIN s \subseteq Keys
                            /\ \A k \in DOMAIN s : s[k] \in Observation
<1>1. ASSUME NEW s \in Snapshot
      PROVE  /\ s = [k \in DOMAIN s |-> s[k]] /\ DOMAIN s \subseteq Keys
             /\ \A k \in DOMAIN s : s[k] \in Observation
  <2>1. PICK K \in SUBSET Keys : s \in [K -> Observation]
    BY Zenon DEF Snapshot
  <2>2. QED
    BY <2>1
<1>2. ASSUME NEW s, s = [k \in DOMAIN s |-> s[k]], DOMAIN s \subseteq Keys,
             \A k \in DOMAIN s : s[k] \in Observation
      PROVE  s \in Snapshot
  <2>1. s \in [DOMAIN s -> Observation] /\ DOMAIN s \in SUBSET Keys
    BY <1>2
  <2>2. QED
    BY <2>1, Zenon DEF Snapshot
<1>3. QED
  BY <1>1, <1>2

LEMMA AddBatchIs ==
  ASSUME NEW s \in Snapshot, NEW b \in Batch
  PROVE  /\ AddBatch(s, b) \in Snapshot
         /\ DOMAIN AddBatch(s, b) = (DOMAIN s \ Purged(b)) \cup b.keys
         /\ \A k \in b.keys :
              AddBatch(s, b)[k] = IF k \in DOMAIN s /\ s[k].sha = b.sha
                                  THEN s[k] ELSE ObservationOf(b)
         /\ \A k \in DOMAIN s \ (b.keys \cup Purged(b)) : AddBatch(s, b)[k] = s[k]
<1> DEFINE r == PurgeFailed(s, b)
           a == Add(r, b)
<1>1. /\ s = [k \in DOMAIN s |-> s[k]] /\ DOMAIN s \subseteq Keys
      /\ \A k \in DOMAIN s : s[k] \in Observation
  BY SnapshotIs
<1>2. DOMAIN r = DOMAIN s \ Purged(b) /\ \A k \in DOMAIN r : r[k] = s[k]
  BY <1>1, BatchTyped DEF PurgeFailed, Purged, Restrict
<1>3. b.keys \cap Purged(b) = {}
  BY BatchTyped DEF Purged
<1> HIDE DEF r
<1>4. /\ DOMAIN a = DOMAIN r \cup b.keys /\ a = [k \in DOMAIN a |-> a[k]]
      /\ \A k \in DOMAIN a : a[k] = IF k \in b.keys /\ ~(k \in DOMAIN r /\ r[k].sha = b.sha)
                                    THEN ObservationOf(b) ELSE r[k]
  BY DEF Add
<1> HIDE DEF a
<1>5. \A k \in b.keys : a[k] = IF k \in DOMAIN s /\ s[k].sha = b.sha
                               THEN s[k] ELSE ObservationOf(b)
  BY <1>2, <1>3, <1>4
<1>6. \A k \in DOMAIN s \ (b.keys \cup Purged(b)) : a[k] = s[k]
  BY <1>2, <1>4
<1>7. a \in Snapshot
  <2>1. ObservationOf(b) \in Observation /\ b.keys \subseteq Keys
    BY BatchTyped
  <2>2. \A k \in DOMAIN a : a[k] \in Observation
    BY <1>1, <1>2, <1>4, <2>1
  <2>3. DOMAIN a \subseteq Keys
    BY <1>1, <1>2, <1>4, <2>1
  <2>4. QED
    BY <1>4, <2>2, <2>3, SnapshotIs
<1>8. AddBatch(s, b) = a
  BY DEF AddBatch, a, r
<1>9. QED
  BY <1>2, <1>4, <1>5, <1>6, <1>7, <1>8

(* A batch without news is one that adds nothing. *)
LEMMA NothingNewAdded ==
  ASSUME NEW s \in Snapshot, NEW b \in Batch,
         \A k \in b.keys : k \in DOMAIN s /\ s[k].sha = b.sha,
         b.purges => DOMAIN s \cap b.failed = {}
  PROVE  AddBatch(s, b) = s
<1> DEFINE a == AddBatch(s, b)
<1>1. /\ a \in Snapshot /\ DOMAIN a = (DOMAIN s \ Purged(b)) \cup b.keys
      /\ \A k \in b.keys : a[k] = IF k \in DOMAIN s /\ s[k].sha = b.sha
                                  THEN s[k] ELSE ObservationOf(b)
      /\ \A k \in DOMAIN s \ (b.keys \cup Purged(b)) : a[k] = s[k]
  BY AddBatchIs
<1> HIDE DEF a
<1>2. DOMAIN s \cap Purged(b) = {}
  BY DEF Purged
<1>3. DOMAIN a = DOMAIN s
  BY <1>1, <1>2
<1>4. ASSUME NEW k \in DOMAIN s PROVE a[k] = s[k]
  <2>1. CASE k \in b.keys
    BY <1>1, <2>1
  <2>2. CASE k \notin b.keys
    <3>1. k \in DOMAIN s \ (b.keys \cup Purged(b))
      BY <1>2, <2>2
    <3>2. QED
      BY <1>1, <3>1, Zenon
  <2>3. QED
    BY <2>1, <2>2
<1>5. a = [k \in DOMAIN a |-> a[k]] /\ s = [k \in DOMAIN s |-> s[k]]
  BY <1>1, SnapshotIs
<1>6. QED
  BY <1>3, <1>4, <1>5 DEF a
===============================================================================
