-------------------------- MODULE DagTransactionProofs --------------------------
(***************************************************************************)
(* Proofs about dag_transaction and test_results_dag_transaction, for any  *)
(* number of writers, keys, commits and sources, and any length of the     *)
(* history that is kept.                                                   *)
(***************************************************************************)
EXTENDS DagTransaction, TestResultsProofs

Asking  == {"lock", "load", "change", "create", "write", "rename"}
Locking == {"load", "change", "create", "write", "rename", "unlock"}

Files == {NoFile, TornFile} \cup {Whole(d) : d \in Dag}

(* What the file holds, and what a transaction that loads it starts from. *)
Base == IF file = NoFile THEN EmptyDag ELSE file.dag

Types ==
  /\ document \in {"results", "ontology"}
  /\ source \in Sources \cup {NoFile} /\ (document = "ontology" => source \in Sources)
  /\ file \in Files /\ file # TornFile /\ temp \in [Writers -> Files]
  /\ holders \subseteq Writers
  /\ pc \in [Writers -> {"run", "lock", "load", "change", "create", "write",
                         "rename", "unlock", "killed"}]
  /\ input \in [Writers -> Input \cup {NoInput}]
  /\ dag \in [Writers -> Dag]
  /\ clock \in Nat /\ nextId \in Nat \ {0}
  /\ recorded \subseteq Input

(* A chain whose ids make_node_id has returned, no longer than what is kept.*)
Proper(d) ==
  /\ d \in Dag /\ Linear(d)
  /\ \A id \in Ids(d) : id < nextId
  /\ document = "results" => Len(d.nodes) <= KeepLast

(* The lock is held from the load to the unlock, by one writer. *)
OneHolder ==
  /\ \A p \in Writers : p \in holders <=> pc[p] \in Locking
  /\ \A p, q \in holders : p = q

(* A writer has a temporary file only between its creation and its rename. *)
TempsInUse ==
  \A p \in Writers :
    pc[p] \in {"run", "lock", "load", "change", "create", "unlock"} => temp[p] = NoFile

(* What the ontology's history holds, from the first build to the last. *)
Contents(d) == [j \in DOMAIN d.nodes |-> d.nodes[j].content]

(* d is what the transaction of input i made of the file's DAG. *)
Grown(d, i) ==
  /\ Proper(d) /\ HasCurrent(d)
  /\ document = "results" =>
       /\ CurrentContent(d) = AddBatch(CurrentSnapshot(Base), i)
       /\ HasCurrent(Base) => CurrentContent(d) # CurrentContent(Base)
  /\ document = "ontology" =>
       /\ Contents(d) = Append(Contents(Base), i)
       /\ HasCurrent(Base) => CurrentContent(Base) # i

(* The writer that holds the lock works on what the file still holds. *)
UpToDate ==
  \A p \in Writers :
    /\ pc[p] = "change" => dag[p] = Base
    /\ pc[p] \in {"create", "write", "rename"} => Grown(dag[p], input[p])

(* A batch that asks for the lock has not taken effect, and no other has   *)
(* its time of capture.                                                    *)
Unrecorded ==
  document = "results" =>
    /\ \A b \in recorded : b.captured_at <= clock
    /\ \A p \in Writers : pc[p] \in Asking =>
         input[p].captured_at <= clock /\ input[p] \notin recorded
    /\ \A p, q \in Writers :
         pc[p] \in Asking /\ pc[q] \in Asking /\ p # q
           => input[p].captured_at # input[q].captured_at

Pending == \A p \in Writers : pc[p] \in Asking => input[p] \in Input

IInv == /\ Types /\ Proper(Base) /\ OneHolder /\ TempsInUse
        /\ Pending /\ UpToDate /\ Unrecorded

-------------------------------------------------------------------------------
LEMMA DagIs == Dag = DagOver(Content)
  BY DEF Dag, DagOver, Node, NodeOver

(* No file, a torn one and a whole one tell apart. *)
LEMMA FilesApart ==
  /\ NoFile \in Files /\ TornFile \in Files /\ NoFile # TornFile
  /\ \A d : /\ Whole(d) # NoFile /\ Whole(d) # TornFile
            /\ Whole(d).kind = "dag" /\ Whole(d).dag = d
            /\ d \in Dag => Whole(d) \in Files
  /\ \A f \in Files : IsFile(f) /\ (f \notin {NoFile, TornFile} => f.dag \in Dag /\ f = Whole(f.dag))
<1>1. NoFile.kind = "none" /\ TornFile.kind = "torn"
  BY DEF NoFile, TornFile
<1>2. \A d : Whole(d).kind = "dag" /\ Whole(d).dag = d
  BY DEF Whole
<1>3. NoFile # TornFile /\ \A d : Whole(d) # NoFile /\ Whole(d) # TornFile
  BY <1>1, <1>2
<1>4. \A f \in Files : f \in {NoFile, TornFile} \/ \E d \in Dag : f = Whole(d)
  BY DEF Files
<1>5. QED
  BY <1>2, <1>3, <1>4 DEF Files, IsFile

(* Contents never change their kind. *)
LEMMA SameData ==
  ASSUME [Next]_vars
  PROVE  /\ document' = document /\ Content' = Content /\ Input' = Input
         /\ Dag' = Dag /\ Files' = Files
<1>1. document' = document
  BY DEF Next, vars, procVars, Capture, ReadSource, Edit, Lock, Load, Change, Step, Save,
         CreateTemp, WriteTemp, Rename, Fail, Unlock, Kill
<1>2. Content' = Content
  BY <1>1 DEF Content
<1>3. Input' = Input /\ Node' = Node
  BY <1>1, <1>2 DEF Input, Node
<1>4. Dag' = Dag
  BY <1>3 DEF Dag
<1>5. QED
  BY <1>1, <1>2, <1>3, <1>4 DEF Files

LEMMA BaseTyped ==
  ASSUME Types
  PROVE  /\ Base \in Dag
         /\ file = NoFile => Base = EmptyDag
         /\ file # NoFile => file.kind = "dag" /\ file = Whole(file.dag) /\ Base = file.dag
<1>1. EmptyDag \in Dag
  BY EmptyLinear, DagIs
<1>2. QED
  BY <1>1, FilesApart DEF Base, Types

(* The contents of a DAG are a sequence of them. *)
LEMMA ContentsTyped ==
  ASSUME NEW C, NEW d \in DagOver(C)
  PROVE  /\ Contents(d) \in Seq(C) /\ Len(Contents(d)) = Len(d.nodes)
         /\ DOMAIN Contents(d) = 1 .. Len(d.nodes)
         /\ \A i \in 1 .. Len(d.nodes) : Contents(d)[i] = d.nodes[i].content
<1> DEFINE n == Len(d.nodes)
<1>1. n \in Nat /\ DOMAIN d.nodes = 1 .. n /\ \A i \in 1 .. n : d.nodes[i].content \in C
  BY DagTyped
<1>2. Contents(d) = [i \in 1 .. n |-> d.nodes[i].content]
  BY <1>1 DEF Contents
<1>3. Contents(d) \in [1 .. n -> C]
  BY <1>1, <1>2
<1> HIDE DEF n
<1>4. Contents(d) \in Seq(C) /\ Len(Contents(d)) = n
  BY <1>1, <1>3
<1>5. QED
  BY <1>2, <1>4 DEF n

(* A node more, its content more. *)
LEMMA ContentsGrow ==
  ASSUME NEW C, NEW d \in DagOver(C), NEW e \in DagOver(C), NEW node \in NodeOver(C),
         e.nodes = Append(d.nodes, node)
  PROVE  Contents(e) = Append(Contents(d), node.content)
<1> DEFINE n == Len(d.nodes)
<1>1. /\ n \in Nat /\ Len(e.nodes) = n + 1 /\ e.nodes[n + 1] = node
      /\ \A i \in 1 .. n : e.nodes[i] = d.nodes[i]
  BY DagTyped, AppendProperties
<1>2. node.content \in C
  BY DEF NodeOver
<1>3. /\ Contents(d) \in Seq(C) /\ Len(Contents(d)) = n
      /\ \A i \in 1 .. n : Contents(d)[i] = d.nodes[i].content
  BY ContentsTyped
<1>4. /\ Contents(e) \in Seq(C) /\ Len(Contents(e)) = n + 1
      /\ \A i \in 1 .. n + 1 : Contents(e)[i] = e.nodes[i].content
  BY <1>1, ContentsTyped
<1> DEFINE a == Append(Contents(d), node.content)
<1>5. /\ a \in Seq(C) /\ Len(a) = n + 1 /\ a[n + 1] = node.content
      /\ \A i \in 1 .. n : a[i] = Contents(d)[i]
  BY <1>2, <1>3, AppendProperties
<1> HIDE DEF a, n
<1>6. \A i \in 1 .. n + 1 : Contents(e)[i] = a[i]
  <2>1. TAKE i \in 1 .. n + 1
  <2>2. i \in 1 .. n \/ i = n + 1
    BY <1>1
  <2>3. QED
    BY <2>2, <1>1, <1>3, <1>4, <1>5
<1>7. Contents(e) = a
  BY <1>4, <1>5, <1>6, SeqEqual
<1>8. QED
  BY <1>7 DEF a

(* What one reads of the results of a DAG is a snapshot. *)
LEMMA CurrentSnapshotTyped ==
  ASSUME NEW d \in DagOver(Snapshot), Linear(d)
  PROVE  CurrentSnapshot(d) \in Snapshot
<1>1. EmptySnapshot \in Snapshot
  BY SnapshotIs DEF EmptySnapshot
<1>2. QED
  BY <1>1, LinearCurrent DEF CurrentSnapshot

(* A transaction leaves its DAG as it was where its input is no news, and  *)
(* else makes a proper one of it, by the id it is given.                   *)
LEMMA ChangeGrows ==
  ASSUME Types, Proper(Base), NEW i \in Input, NEW d, d = Pruned(Produced(Base, i, nextId))
  PROVE  \/ /\ d = Base /\ HasCurrent(Base)
            /\ document = "results" => AddBatch(CurrentSnapshot(Base), i) = CurrentContent(Base)
            /\ document = "ontology" => CurrentContent(Base) = i
         \/ /\ d # Base
            /\ d \in Dag /\ Linear(d) /\ HasCurrent(d)
            /\ \A id \in Ids(d) : id <= nextId
            /\ document = "results" =>
                 /\ Len(d.nodes) <= KeepLast
                 /\ CurrentContent(d) = AddBatch(CurrentSnapshot(Base), i)
                 /\ HasCurrent(Base) => CurrentContent(d) # CurrentContent(Base)
            /\ document = "ontology" =>
                 /\ Contents(d) = Append(Contents(Base), i)
                 /\ HasCurrent(Base) => CurrentContent(Base) # i
<1> DEFINE c == IF document = "results" THEN AddBatch(CurrentSnapshot(Base), i) ELSE i
           s == SaveSnapshot(Base, c, nextId)
<1>0. /\ Base \in DagOver(Content) /\ Linear(Base) /\ nextId \in Nat \ {0}
      /\ document \in {"results", "ontology"}
  BY BaseTyped, DagIs DEF Types, Proper
<1>1. c \in Content
  <2>1. CASE document = "results"
    <3>1. Content = Snapshot /\ Input = Batch
      BY <2>1 DEF Content, Input
    <3>2. CurrentSnapshot(Base) \in Snapshot
      BY <1>0, <3>1, CurrentSnapshotTyped
    <3>3. QED
      BY <2>1, <3>1, <3>2, AddBatchIs
  <2>2. CASE document = "ontology"
    BY <2>2 DEF Content, Input
  <2>3. QED
    BY <1>0, <2>1, <2>2
<1>2. Produced(Base, i, nextId) = SnapshotIfChanged(Base, c, nextId)
  BY <1>0 DEF Produced, Observe
<1>3. \A x : Pruned(x) = IF document = "results" THEN Prune(x) ELSE x
  BY DEF Pruned
<1> HIDE DEF c
<1>4. document = "results" => Prune(Base) = Base
  BY <1>0, PruneLinear DEF Proper
<1>5. CASE HasCurrent(Base) /\ CurrentContent(Base) = c
  <2>1. d = Base
    BY <1>2, <1>3, <1>4, <1>5 DEF SnapshotIfChanged, SameContent
  <2>2. QED
    BY <1>5, <2>1 DEF c
<1>6. CASE ~(HasCurrent(Base) /\ CurrentContent(Base) = c)
  <2>1. Produced(Base, i, nextId) = s
    BY <1>2, <1>6 DEF SnapshotIfChanged, SameContent
  <2>2. nextId \notin Ids(Base)
    BY <1>0 DEF Proper
  <2>3. /\ s \in DagOver(Content) /\ Linear(s)
        /\ s.nodes = Append(Base.nodes, [id |-> nextId, content |-> c])
        /\ Ids(s) = Ids(Base) \cup {nextId}
    BY <1>0, <1>1, <1>6, <2>2, SaveLinear
  <2>4. s.current = nextId
    BY DEF SaveSnapshot
  <2> DEFINE node == [id |-> nextId, content |-> c]
  <2>5. node \in NodeOver(Content) /\ node.content = c
    BY <1>0, <1>1 DEF NodeOver
  <2> HIDE DEF s, node
  <2>6. HasCurrent(s) /\ CurrentContent(s) = c
    <3> DEFINE n == Len(Base.nodes)
    <3>1. Base.nodes \in Seq(NodeOver(Content)) /\ n \in Nat
      BY <1>0, DagTyped
    <3>2. s.nodes # << >> /\ Len(s.nodes) = n + 1 /\ s.nodes[n + 1] = node
      BY <2>3, <2>5, <3>1, AppendProperties DEF node
    <3>3. QED
      BY <2>3, <2>5, <3>2, LinearCurrent
  <2>7. \A id \in Ids(s) : id <= nextId
    <3>1. \A id \in Ids(Base) : id \in Nat /\ id < nextId
      BY <1>0, DagTyped, IdsAt DEF Proper
    <3>2. QED
      BY <1>0, <2>3, <3>1
  <2>8. s.current # Base.current
    <3>1. HasCurrent(Base) \/ Base.current = NoNode
      BY <1>0, LinearCurrent
    <3>2. QED
      BY <1>0, <2>2, <2>4, <3>1 DEF HasCurrent, NoNode
  <2>9. CASE document = "results"
    <3>1. /\ Prune(s) \in DagOver(Content) /\ Linear(Prune(s))
          /\ Len(Prune(s).nodes) <= KeepLast /\ Ids(Prune(s)) \subseteq Ids(s)
          /\ Prune(s).current = s.current
          /\ HasCurrent(Prune(s)) /\ CurrentContent(Prune(s)) = c
      BY <2>3, <2>6, PruneLinear
    <3>2. d = Prune(s)
      BY <1>3, <2>1, <2>9
    <3>3. d # Base
      BY <2>8, <3>1, <3>2
    <3>4. c = AddBatch(CurrentSnapshot(Base), i) /\ document # "ontology"
      BY <2>9 DEF c
    <3>5. QED
      BY <1>6, <2>7, <2>9, <3>1, <3>2, <3>3, <3>4, DagIs
  <2>10. CASE document = "ontology"
    <3>1. d = s
      BY <1>3, <2>1, <2>10
    <3>2. d # Base
      BY <2>8, <3>1
    <3>3. c = i /\ document # "results"
      BY <2>10 DEF c
    <3>4. Contents(s) = Append(Contents(Base), c)
      BY <1>0, <2>3, <2>5, ContentsGrow DEF node
    <3>5. QED
      BY <1>6, <2>3, <2>6, <2>7, <2>10, <3>1, <3>2, <3>3, <3>4, DagIs
  <2>11. QED
    BY <1>0, <2>9, <2>10
<1>7. QED
  BY <1>5, <1>6

-------------------------------------------------------------------------------
LEMMA InitIInv == Init => IInv
<1> SUFFICES ASSUME Init PROVE IInv
  OBVIOUS
<1>1. EmptyDag \in Dag /\ Linear(EmptyDag) /\ EmptyDag.nodes = << >>
  BY EmptyLinear, DagIs
<1>2. Types
  BY <1>1, FilesApart DEF Init, Types
<1>3. Proper(Base)
  <2>1. Base = EmptyDag
    BY DEF Init, Base
  <2>2. Ids(EmptyDag) = {} /\ Len(EmptyDag.nodes) = 0
    BY <1>1, DagIs, DagTyped, IdsAt
  <2>3. KeepLast \in Nat
    BY TestResultsAssumption
  <2>4. QED
    BY <1>1, <2>1, <2>2, <2>3 DEF Proper
<1>4. OneHolder /\ TempsInUse /\ Pending /\ UpToDate /\ Unrecorded
  BY DEF Init, OneHolder, TempsInUse, Pending, UpToDate, Unrecorded, Asking, Locking
<1>5. QED
  BY <1>2, <1>3, <1>4 DEF IInv

(* What one reads of the file changes with the file, by a rename. *)
LEMMA OnlyRenameWrites ==
  ASSUME Types, [Next]_vars, file' # file
  PROVE  \E p \in Writers : Rename(p) /\ Base' = dag[p]
<1>1. PICK p \in Writers : Rename(p)
  BY DEF Next, vars, procVars, Capture, ReadSource, Edit, Lock, Load, Change, Step, Save,
         CreateTemp, WriteTemp, Fail, Unlock, Kill
<1>2. Base' = dag[p]
  BY <1>1, FilesApart DEF Rename, Base
<1>3. QED
  BY <1>1, <1>2

LEMMA SameBase ==
  ASSUME file' = file
  PROVE  Base' = Base
  BY DEF Base

(* Only a change takes an id. *)
LEMMA IdsGrow ==
  ASSUME Types, [Next]_vars
  PROVE  nextId' \in Nat \ {0} /\ nextId <= nextId'
  BY DEF Types, Next, vars, procVars, Capture, ReadSource, Edit, Lock, Load, Change, Step, Save,
         CreateTemp, WriteTemp, Rename, Fail, Unlock, Kill

(* What is proper stays so. *)
LEMMA StaysProper ==
  ASSUME Types, [Next]_vars, NEW d, Proper(d)
  PROVE  Proper(d)'
<1>1. \A id \in Ids(d) : id \in Nat /\ id < nextId
  BY DagIs, DagTyped, IdsAt DEF Proper
<1>2. \A id \in Ids(d) : id < nextId'
  BY <1>1, IdsGrow DEF Types
<1>3. QED
  BY <1>2, SameData DEF Proper

LEMMA TypesStep ==
  ASSUME Types, Proper(Base), Pending, UpToDate, [Next]_vars
  PROVE  Types'
<1>1. document' = document /\ Input' = Input /\ Dag' = Dag /\ Files' = Files
  BY SameData
<1>2. source' \in Sources \cup {NoFile} /\ (document' = "ontology" => source' \in Sources)
  <2>1. source' = source \/ (document = "ontology" /\ source' \in Sources)
    BY DEF Next, vars, procVars, Capture, ReadSource, Edit, Lock, Load, Change, Step, Save,
           CreateTemp, WriteTemp, Rename, Fail, Unlock, Kill
  <2>2. QED
    BY <1>1, <2>1 DEF Types
<1>3. file' \in Files /\ file' # TornFile
  <2>1. CASE file' = file
    BY <2>1 DEF Types
  <2>2. CASE file' # file
    <3>1. PICK p \in Writers : Rename(p)
      BY <2>2, OnlyRenameWrites
    <3>2. file' = Whole(dag[p]) /\ dag[p] \in Dag
      BY <3>1 DEF Rename, Types
    <3>3. QED
      BY <3>2, FilesApart
  <2>3. QED
    BY <2>1, <2>2
<1>4. temp' \in [Writers -> Files]
  <2>1. temp' = temp \/ \E p \in Writers, f \in Files : temp' = [temp EXCEPT ![p] = f]
    <3>1. ASSUME NEW p \in Writers PROVE Whole(dag[p]) \in Files
      BY FilesApart DEF Types
    <3>2. QED
      BY <3>1, FilesApart
         DEF Next, vars, procVars, Capture, ReadSource, Edit, Lock, Load, Change, Step, Save,
             CreateTemp, WriteTemp, Rename, Fail, Unlock, Kill
  <2>2. QED
    BY <2>1 DEF Types
<1>5. holders' \subseteq Writers
  BY DEF Types, Next, vars, procVars, Capture, ReadSource, Edit, Lock, Load, Change, Step, Save,
         CreateTemp, WriteTemp, Rename, Fail, Unlock, Kill
<1>6. pc' \in [Writers -> {"run", "lock", "load", "change", "create", "write",
                           "rename", "unlock", "killed"}]
  BY DEF Types, Next, vars, procVars, Capture, ReadSource, Edit, Lock, Load, Change, Step, Save,
         CreateTemp, WriteTemp, Rename, Fail, Unlock, Kill, Goto
<1>7. input' \in [Writers -> Input \cup {NoInput}]
  <2>1. input' = input \/ \E p \in Writers, i \in Input \cup {NoInput} :
                            input' = [input EXCEPT ![p] = i]
    <3>1. document = "results" => Input = Batch
      BY DEF Input
    <3>2. document = "ontology" => OntologyOf(source) \in Input
      BY DEF Types, Input, Content
    <3>3. document # "results" \/ document # "ontology"
      OBVIOUS
    <3>4. QED
      BY <3>1, <3>2
         DEF Next, vars, procVars, Capture, ReadSource, Edit, Lock, Load, Change, Step, Save,
             CreateTemp, WriteTemp, Rename, Fail, Unlock, Kill, Forget
  <2>2. QED
    BY <2>1 DEF Types
<1>8. dag' \in [Writers -> Dag]
  <2>1. dag' = dag \/ \E p \in Writers, d \in Dag : dag' = [dag EXCEPT ![p] = d]
    <3>1. CASE \E p \in Writers : Change(p)
      <4>1. PICK p \in Writers : Change(p)
        BY <3>1
      <4> DEFINE d == Pruned(Produced(dag[p], input[p], nextId))
      <4>2. pc[p] = "change" /\ (dag' = dag \/ dag' = [dag EXCEPT ![p] = d])
        BY <4>1 DEF Change
      <4>3. dag[p] = Base /\ input[p] \in Input
        BY <4>2 DEF UpToDate, Pending, Asking
      <4>4. d \in Dag
        BY <4>3, BaseTyped, ChangeGrows
      <4> HIDE DEF d
      <4>5. QED
        BY <4>2, <4>4
    <3>2. CASE \E p \in Writers : Load(p)
      <4>1. PICK p \in Writers : Load(p)
        BY <3>2
      <4>2. dag' = [dag EXCEPT ![p] = Base]
        BY <4>1 DEF Load, Base
      <4>3. QED
        BY <4>2, BaseTyped
    <3>3. CASE ~(\E p \in Writers : Change(p) \/ Load(p))
      <4>1. EmptyDag \in Dag
        BY EmptyLinear, DagIs
      <4>2. QED
        BY <3>3, <4>1
           DEF Next, vars, procVars, Capture, ReadSource, Edit, Lock, Step, Save,
               CreateTemp, WriteTemp, Rename, Fail, Unlock, Kill, Forget
    <3>4. QED
      BY <3>1, <3>2, <3>3
  <2>2. QED
    BY <2>1 DEF Types
<1>9. clock' \in Nat
  BY DEF Types, Next, vars, procVars, Capture, ReadSource, Edit, Lock, Load, Change, Step, Save,
         CreateTemp, WriteTemp, Rename, Fail, Unlock, Kill
<1>10. recorded' \subseteq Input
  <2>1. recorded' = recorded
        \/ \E p \in Writers : pc[p] \in Asking /\ recorded' = recorded \cup {input[p]}
    BY DEF Next, vars, procVars, Capture, ReadSource, Edit, Lock, Load, Change, Step, Save,
           CreateTemp, WriteTemp, Rename, Fail, Unlock, Kill, Goto, Asking
  <2>2. QED
    BY <2>1 DEF Types, Pending
<1>11. QED
  BY <1>1, <1>2, <1>3, <1>4, <1>5, <1>6, <1>7, <1>8, <1>9, <1>10, IdsGrow DEF Types

LEMMA BaseStaysProper ==
  ASSUME Types, Proper(Base), UpToDate, [Next]_vars
  PROVE  Proper(Base)'
<1>1. PICK d : d = Base' /\ Proper(d)
  <2>1. CASE file' = file
    BY <2>1, SameBase
  <2>2. CASE file' # file
    <3>1. PICK p \in Writers : Rename(p) /\ Base' = dag[p]
      BY <2>2, OnlyRenameWrites
    <3>2. pc[p] = "rename"
      BY <3>1 DEF Rename, Goto
    <3>3. QED
      BY <3>1, <3>2 DEF UpToDate, Grown
  <2>3. QED
    BY <2>1, <2>2
<1>2. Proper(d)'
  BY <1>1, StaysProper
<1>3. QED
  BY <1>1, <1>2 DEF Proper

(* Where a writer's step leads from, and to; the others stay. *)
LEMMA OneMoves ==
  ASSUME Types, [Next]_vars
  PROVE  \/ pc' = pc
         \/ \E p \in Writers : /\ \A q \in Writers \ {p} : pc'[q] = pc[q]
                               /\ pc'[p] # pc[p]
<1>1. pc' = pc \/ \E p \in Writers : \E to : pc' = [pc EXCEPT ![p] = to]
  BY DEF Next, vars, procVars, Capture, ReadSource, Edit, Lock, Load, Change, Step, Save,
         CreateTemp, WriteTemp, Rename, Fail, Unlock, Kill, Goto
<1>2. QED
  BY <1>1 DEF Types

LEMMA OneHolderStep ==
  ASSUME Types, OneHolder, [Next]_vars
  PROVE  OneHolder'
<1>1. CASE pc' = pc /\ holders' = holders
  BY <1>1 DEF OneHolder
<1>2. CASE \E p \in Writers : Lock(p)
  <2>1. PICK p \in Writers : Lock(p)
    BY <1>2
  <2>2. holders = {} /\ holders' = {p} /\ pc[p] = "lock" /\ pc' = [pc EXCEPT ![p] = "load"]
    BY <2>1 DEF Lock, Goto
  <2>3. QED
    BY <2>2 DEF OneHolder, Types, Locking
<1>3. CASE \E p \in Writers : Unlock(p) \/ Kill(p)
  <2>1. PICK p \in Writers : Unlock(p) \/ Kill(p)
    BY <1>3
  <2>2. holders' = holders \ {p} /\ \E to \in {"run", "killed"} : pc' = [pc EXCEPT ![p] = to]
    BY <2>1 DEF Unlock, Kill, Goto
  <2>3. QED
    BY <2>2 DEF OneHolder, Types, Locking
<1>4. CASE \E p \in Writers : Capture(p) \/ ReadSource(p) \/ Load(p) \/ Change(p) \/ Save(p) \/ Fail(p)
  <2>1. PICK p \in Writers : Capture(p) \/ ReadSource(p) \/ Load(p) \/ Change(p) \/ Save(p) \/ Fail(p)
    BY <1>4
  <2>2. holders' = holders
    BY <2>1 DEF Capture, ReadSource, Load, Change, Save, CreateTemp, WriteTemp, Rename, Fail
  <2>3. \E to : pc' = [pc EXCEPT ![p] = to] /\ (to \in Locking <=> pc[p] \in Locking)
    BY <2>1 DEF Capture, ReadSource, Load, Change, Save, CreateTemp, WriteTemp, Rename, Fail,
                Goto, Locking
  <2>4. \A q \in Writers : pc'[q] \in Locking <=> pc[q] \in Locking
    BY <2>3 DEF Types
  <2>5. QED
    BY <2>2, <2>4 DEF OneHolder
<1>5. QED
  BY <1>1, <1>2, <1>3, <1>4 DEF Next, Step, Edit, vars, procVars

LEMMA TempsInUseStep ==
  ASSUME Types, TempsInUse, [Next]_vars
  PROVE  TempsInUse'
<1>1. CASE pc' = pc /\ temp' = temp
  BY <1>1 DEF TempsInUse
<1>2. CASE \E p \in Writers : Capture(p) \/ ReadSource(p) \/ Lock(p) \/ Load(p) \/ Change(p)
                              \/ Unlock(p) \/ Kill(p)
  <2>1. PICK p \in Writers : Capture(p) \/ ReadSource(p) \/ Lock(p) \/ Load(p) \/ Change(p)
                             \/ Unlock(p) \/ Kill(p)
    BY <1>2
  <2>2. temp' = temp
    BY <2>1 DEF Capture, ReadSource, Lock, Load, Change, Unlock, Kill
  <2>3. \E to : /\ pc' = [pc EXCEPT ![p] = to]
                /\ to = "killed"
                   \/ pc[p] \in {"run", "lock", "load", "change", "create", "unlock"}
    BY <2>1 DEF Capture, ReadSource, Lock, Load, Change, Unlock, Kill, Goto
  <2>4. QED
    BY <2>2, <2>3 DEF TempsInUse, Types
<1>3. CASE \E p \in Writers : CreateTemp(p) \/ WriteTemp(p)
  <2>1. PICK p \in Writers : CreateTemp(p) \/ WriteTemp(p)
    BY <1>3
  <2>2. \E to \in {"write", "rename"} : pc' = [pc EXCEPT ![p] = to]
    BY <2>1 DEF CreateTemp, WriteTemp, Goto
  <2>3. \E f : temp' = [temp EXCEPT ![p] = f]
    BY <2>1 DEF CreateTemp, WriteTemp
  <2>4. QED
    BY <2>2, <2>3 DEF TempsInUse, Types
<1>4. CASE \E p \in Writers : Rename(p) \/ Fail(p)
  <2>1. PICK p \in Writers : Rename(p) \/ Fail(p)
    BY <1>4
  <2>2. pc' = [pc EXCEPT ![p] = "unlock"] /\ temp' = [temp EXCEPT ![p] = NoFile]
    BY <2>1 DEF Rename, Fail, Goto
  <2>3. QED
    BY <2>2 DEF TempsInUse, Types
<1>5. QED
  BY <1>1, <1>2, <1>3, <1>4 DEF Next, Step, Save, Edit, vars, procVars

(* Who asks had an input, and keeps it. *)
LEMMA InputsKept ==
  ASSUME Types, [Next]_vars, NEW p \in Writers, pc'[p] \in Asking
  PROVE  \/ pc[p] \in Asking /\ input'[p] = input[p]
         \/ pc[p] = "run" /\ (Capture(p) \/ ReadSource(p))
<1>1. CASE UNCHANGED <<pc, input>>
  BY <1>1
<1>2. CASE \E q \in Writers : Capture(q) \/ ReadSource(q)
  <2>1. PICK q \in Writers : Capture(q) \/ ReadSource(q)
    BY <1>2
  <2>2. pc[q] = "run" /\ pc' = [pc EXCEPT ![q] = "lock"] /\ \E i : input' = [input EXCEPT ![q] = i]
    BY <2>1 DEF Capture, ReadSource, Goto
  <2>3. QED
    BY <2>1, <2>2 DEF Types
<1>3. CASE \E q \in Writers : Lock(q) \/ Load(q) \/ Change(q) \/ Save(q) \/ Fail(q)
  <2>1. PICK q \in Writers : Lock(q) \/ Load(q) \/ Change(q) \/ Save(q) \/ Fail(q)
    BY <1>3
  <2>2. pc[q] \in Asking /\ (\E to : pc' = [pc EXCEPT ![q] = to]) /\ input' = input
    BY <2>1 DEF Lock, Load, Change, Save, CreateTemp, WriteTemp, Rename, Fail, Goto, Asking
  <2>3. QED
    BY <2>2 DEF Types
<1>4. CASE \E q \in Writers : Unlock(q) \/ Kill(q)
  <2>1. PICK q \in Writers : Unlock(q) \/ Kill(q)
    BY <1>4
  <2>2. (\E to \in {"run", "killed"} : pc' = [pc EXCEPT ![q] = to])
        /\ input' = [input EXCEPT ![q] = NoInput]
    BY <2>1 DEF Unlock, Kill, Goto, Forget
  <2>3. QED
    BY <2>2 DEF Types, Asking
<1>5. QED
  BY <1>1, <1>2, <1>3, <1>4 DEF Next, Step, Edit, vars, procVars

LEMMA PendingStep ==
  ASSUME Types, Pending, [Next]_vars
  PROVE  Pending'
<1> SUFFICES ASSUME NEW p \in Writers, pc'[p] \in Asking PROVE input'[p] \in Input
  BY SameData DEF Pending
<1>1. CASE pc[p] \in Asking /\ input'[p] = input[p]
  BY <1>1 DEF Pending
<1>2. CASE Capture(p)
  <2>1. PICK b \in Batch : input' = [input EXCEPT ![p] = b]
    BY <1>2 DEF Capture
  <2>2. Input = Batch
    BY <1>2 DEF Capture, Input
  <2>3. QED
    BY <2>1, <2>2 DEF Types
<1>3. CASE ReadSource(p)
  <2>1. input' = [input EXCEPT ![p] = OntologyOf(source)] /\ document = "ontology"
    BY <1>3 DEF ReadSource
  <2>2. OntologyOf(source) \in Input
    BY <2>1 DEF Types, Input, Content
  <2>3. QED
    BY <2>1, <2>2 DEF Types
<1>4. QED
  BY <1>1, <1>2, <1>3, InputsKept

(* No step of another writer touches the transaction of the lock's holder. *)
LEMMA TransactionKept ==
  ASSUME Types, OneHolder, [Next]_vars,
         NEW p \in Writers, pc'[p] \in {"change", "create", "write", "rename"}
  PROVE  /\ file' = file
         /\ \/ Load(p) /\ pc'[p] = "change" /\ dag'[p] = Base
            \/ Change(p) /\ pc[p] = "change" /\ pc'[p] = "create"
            \/ /\ dag'[p] = dag[p] /\ input'[p] = input[p]
               /\ \/ pc'[p] = pc[p]
                  \/ {pc[p], pc'[p]} \subseteq {"create", "write", "rename"}
<1>1. CASE UNCHANGED <<pc, input, dag, file>>
  BY <1>1
<1>2. CASE Load(p)
  <2>1. pc' = [pc EXCEPT ![p] = "change"] /\ dag' = [dag EXCEPT ![p] = Base] /\ file' = file
    BY <1>2 DEF Load, Goto, Base
  <2>2. QED
    BY <1>2, <2>1 DEF Types
<1>3. CASE Change(p)
  <2>1. pc[p] = "change" /\ file' = file
        /\ (pc' = [pc EXCEPT ![p] = "unlock"] \/ pc' = [pc EXCEPT ![p] = "create"])
    BY <1>3 DEF Change, Goto
  <2>2. QED
    BY <1>3, <2>1 DEF Types
<1>4. CASE CreateTemp(p) \/ WriteTemp(p)
  <2>1. /\ pc[p] \in {"create", "write"} /\ UNCHANGED <<input, dag, file>>
        /\ \E to \in {"write", "rename"} : pc' = [pc EXCEPT ![p] = to]
    BY <1>4 DEF CreateTemp, WriteTemp, Goto
  <2>2. QED
    BY <2>1 DEF Types
<1>5. CASE Capture(p) \/ ReadSource(p) \/ Lock(p) \/ Rename(p) \/ Fail(p) \/ Unlock(p) \/ Kill(p)
  <2>1. \E to \in {"run", "lock", "load", "unlock", "killed"} : pc' = [pc EXCEPT ![p] = to]
    BY <1>5 DEF Capture, ReadSource, Lock, Rename, Fail, Unlock, Kill, Goto
  <2>2. QED
    BY <2>1 DEF Types
<1>6. ASSUME NEW q \in Writers, q # p, Capture(q) \/ ReadSource(q) \/ Step(q) \/ Kill(q)
      PROVE  pc'[p] = pc[p] /\ dag'[p] = dag[p] /\ input'[p] = input[p] /\ file' = file
  <2>1. \E to : pc' = [pc EXCEPT ![q] = to]
    BY <1>6 DEF Capture, ReadSource, Lock, Load, Change, Step, Save, CreateTemp, WriteTemp,
                Rename, Fail, Unlock, Kill, Goto
  <2>2. dag' = dag \/ \E d : dag' = [dag EXCEPT ![q] = d]
    BY <1>6 DEF Capture, ReadSource, Lock, Load, Change, Step, Save, CreateTemp, WriteTemp,
                Rename, Fail, Unlock, Kill, Forget
  <2>3. input' = input \/ \E i : input' = [input EXCEPT ![q] = i]
    BY <1>6 DEF Capture, ReadSource, Lock, Load, Change, Step, Save, CreateTemp, WriteTemp,
                Rename, Fail, Unlock, Kill, Forget
  <2>4. file' = file \/ pc[q] = "rename"
    BY <1>6 DEF Capture, ReadSource, Lock, Load, Change, Step, Save, CreateTemp, WriteTemp,
                Rename, Fail, Unlock, Kill, Goto
  <2>5. pc'[p] = pc[p] /\ dag'[p] = dag[p] /\ input'[p] = input[p]
    BY <1>6, <2>1, <2>2, <2>3 DEF Types
  <2>6. pc[q] # "rename"
    BY <1>6, <2>5 DEF OneHolder, Locking
  <2>7. QED
    BY <2>4, <2>5, <2>6
<1>7. CASE Next
  <2>1. Edit \/ \E q \in Writers : Capture(q) \/ ReadSource(q) \/ Step(q) \/ Kill(q)
    BY <1>7 DEF Next
  <2>2. CASE Edit
    BY <1>1, <2>2 DEF Edit, procVars
  <2>3. ASSUME NEW q \in Writers, Capture(q) \/ ReadSource(q) \/ Step(q) \/ Kill(q), q = p
        PROVE  \/ Load(p) \/ Change(p) \/ CreateTemp(p) \/ WriteTemp(p)
               \/ Capture(p) \/ ReadSource(p) \/ Lock(p) \/ Rename(p) \/ Fail(p) \/ Unlock(p)
               \/ Kill(p)
    BY <2>3 DEF Step, Save
  <2>4. QED
    BY <2>1, <2>2, <2>3, <1>2, <1>3, <1>4, <1>5, <1>6
<1>8. QED
  BY <1>1, <1>7 DEF vars, procVars

LEMMA GrownStays ==
  ASSUME Types, [Next]_vars, file' = file, NEW d, NEW i, Grown(d, i)
  PROVE  Grown(d, i)'
<1>1. Proper(d)'
  BY StaysProper DEF Grown
<1>2. Base' = Base
  BY SameBase
<1>3. QED
  BY <1>1, <1>2, SameData DEF Grown

LEMMA UpToDateStep ==
  ASSUME Types, Proper(Base), OneHolder, Pending, UpToDate, [Next]_vars
  PROVE  UpToDate'
<1> SUFFICES ASSUME NEW p \in Writers, pc'[p] \in {"change", "create", "write", "rename"}
             PROVE  /\ pc'[p] = "change" => dag'[p] = Base'
                    /\ pc'[p] \in {"create", "write", "rename"} => Grown(dag[p], input[p])'
  BY DEF UpToDate
<1>1. file' = file /\ Base' = Base
  BY TransactionKept, SameBase
<1>2. CASE Load(p) /\ pc'[p] = "change" /\ dag'[p] = Base
  BY <1>1, <1>2
<1>3. CASE Change(p) /\ pc[p] = "change" /\ pc'[p] = "create"
  <2>1. PICK d : d = Pruned(Produced(dag[p], input[p], nextId))
    OBVIOUS
  <2>2. /\ d # dag[p] /\ dag' = [dag EXCEPT ![p] = d] /\ nextId' = nextId + 1 /\ input' = input
    <3>1. d = dag[p] => pc' = [pc EXCEPT ![p] = "unlock"]
      BY <1>3, <2>1 DEF Change, Goto
    <3>2. d # dag[p]
      BY <1>3, <3>1 DEF Types
    <3>3. QED
      BY <1>3, <2>1, <3>2 DEF Change
  <2>3. dag[p] = Base /\ input[p] \in Input
    BY <1>3 DEF UpToDate, Pending, Asking
  <2>4. PICK i : i = input[p]
    OBVIOUS
  <2>5. /\ d \in Dag /\ Linear(d) /\ HasCurrent(d)
        /\ \A id \in Ids(d) : id <= nextId
        /\ document = "results" =>
             /\ Len(d.nodes) <= KeepLast
             /\ CurrentContent(d) = AddBatch(CurrentSnapshot(Base), i)
             /\ HasCurrent(Base) => CurrentContent(d) # CurrentContent(Base)
        /\ document = "ontology" =>
             /\ Contents(d) = Append(Contents(Base), i)
             /\ HasCurrent(Base) => CurrentContent(Base) # i
    BY <2>1, <2>2, <2>3, <2>4, ChangeGrows
  <2>6. \A id \in Ids(d) : id < nextId'
    <3>1. \A id \in Ids(d) : id \in Nat
      BY <2>5, DagIs, DagTyped, IdsAt
    <3>2. QED
      BY <2>2, <2>5, <3>1 DEF Types
  <2>7. Proper(d)'
    BY <2>5, <2>6, SameData DEF Proper
  <2>8. Grown(d, i)'
    BY <1>1, <2>5, <2>7, SameData DEF Grown
  <2>9. dag'[p] = d /\ input'[p] = i
    BY <2>2, <2>4 DEF Types
  <2>10. Grown(dag[p], input[p])'
    BY <2>8, <2>9 DEF Grown, Proper
  <2>11. QED
    BY <1>3, <2>10
<1>4. CASE /\ dag'[p] = dag[p] /\ input'[p] = input[p]
           /\ \/ pc'[p] = pc[p]
              \/ {pc[p], pc'[p]} \subseteq {"create", "write", "rename"}
  <2>1. CASE pc'[p] = "change"
    BY <1>1, <1>4, <2>1 DEF UpToDate
  <2>2. CASE pc'[p] \in {"create", "write", "rename"}
    <3>1. PICK d, i : d = dag[p] /\ i = input[p]
      OBVIOUS
    <3>2. Grown(d, i)
      BY <1>4, <2>2, <3>1 DEF UpToDate
    <3>3. Grown(d, i)'
      BY <1>1, <3>2, GrownStays
    <3>4. Grown(dag[p], input[p])'
      BY <1>4, <3>1, <3>3 DEF Grown, Proper
    <3>5. QED
      BY <2>2, <3>4
  <2>3. QED
    BY <2>1, <2>2
<1>5. QED
  BY <1>2, <1>3, <1>4, TransactionKept

(* A batch takes effect as its writer stops to ask. *)
LEMMA RecordedGrows ==
  ASSUME Types, [Next]_vars
  PROVE  \/ recorded' = recorded
         \/ \E p \in Writers : /\ pc[p] \in Asking /\ pc'[p] \notin Asking
                               /\ recorded' = recorded \cup {input[p]} /\ clock' = clock
<1>1. CASE \E p \in Writers : Change(p) \/ Rename(p)
  <2>1. PICK p \in Writers : Change(p) \/ Rename(p)
    BY <1>1
  <2>2. \/ recorded' = recorded
        \/ /\ pc[p] \in Asking /\ pc' = [pc EXCEPT ![p] = "unlock"]
           /\ recorded' = recorded \cup {input[p]} /\ clock' = clock
    BY <2>1 DEF Change, Rename, Goto, Asking
  <2>3. QED
    BY <2>2 DEF Types, Asking
<1>2. QED
  BY <1>1 DEF Next, vars, procVars, Capture, ReadSource, Edit, Lock, Load, Step, Save,
              CreateTemp, WriteTemp, Fail, Unlock, Kill

LEMMA UnrecordedStep ==
  ASSUME Types, Pending, Unrecorded, [Next]_vars
  PROVE  Unrecorded'
<1> SUFFICES ASSUME document = "results" PROVE Unrecorded'
  BY SameData DEF Unrecorded
<1>1. \A b \in Batch : b.captured_at \in Nat
  BY BatchTyped, TestResultsAssumption
<1>2. Input = Batch
  BY DEF Input
<1>3. /\ clock \in Nat /\ \A b \in recorded : b.captured_at \in Nat /\ b.captured_at <= clock
      /\ \A p \in Writers : pc[p] \in Asking =>
           /\ input[p].captured_at \in Nat /\ input[p].captured_at <= clock
           /\ input[p] \notin recorded
      /\ \A p, q \in Writers : pc[p] \in Asking /\ pc[q] \in Asking /\ p # q
                                 => input[p].captured_at # input[q].captured_at
  BY <1>1, <1>2 DEF Types, Pending, Unrecorded
<1>4. CASE \E p \in Writers : Capture(p)
  <2>1. PICK p \in Writers : Capture(p)
    BY <1>4
  <2>2. PICK b \in Batch : b.captured_at = clock + 1 /\ input' = [input EXCEPT ![p] = b]
    BY <2>1 DEF Capture
  <2>3. clock' = clock + 1 /\ recorded' = recorded /\ pc' = [pc EXCEPT ![p] = "lock"]
    BY <2>1 DEF Capture, Goto
  <2>4. /\ input'[p].captured_at = clock + 1
        /\ \A q \in Writers \ {p} : input'[q] = input[q] /\ pc'[q] = pc[q]
    BY <2>2, <2>3 DEF Types
  <2>5. \A x \in recorded' : x.captured_at <= clock'
    BY <1>3, <2>3
  <2>6. \A q \in Writers : pc'[q] \in Asking =>
          input'[q].captured_at <= clock' /\ input'[q] \notin recorded'
    <3>1. SUFFICES ASSUME NEW q \in Writers, pc'[q] \in Asking
                   PROVE  input'[q].captured_at <= clock' /\ input'[q] \notin recorded'
      OBVIOUS
    <3>2. CASE q = p
      BY <1>3, <2>3, <2>4, <3>2
    <3>3. CASE q # p
      BY <1>3, <2>3, <2>4, <3>1, <3>3
    <3>4. QED
      BY <3>2, <3>3
  <2>7. \A q, r \in Writers : pc'[q] \in Asking /\ pc'[r] \in Asking /\ q # r
          => input'[q].captured_at # input'[r].captured_at
    <3>1. \A q \in Writers \ {p} : pc'[q] \in Asking => input'[q].captured_at < clock + 1
      BY <1>3, <2>4
    <3>2. QED
      BY <1>3, <2>4, <3>1
  <2>8. QED
    BY <2>5, <2>6, <2>7 DEF Unrecorded
<1>5. CASE ~\E p \in Writers : Capture(p)
  <2>1. \A p \in Writers : pc'[p] \in Asking => pc[p] \in Asking /\ input'[p] = input[p]
    BY <1>5, InputsKept DEF ReadSource
  <2>2. clock' = clock
    BY <1>5 DEF Next, vars, procVars, ReadSource, Edit, Lock, Load, Change, Step, Save,
                CreateTemp, WriteTemp, Rename, Fail, Unlock, Kill
  <2>3. CASE recorded' = recorded
    BY <1>3, <2>1, <2>2, <2>3 DEF Unrecorded
  <2>4. CASE \E p \in Writers : /\ pc[p] \in Asking /\ pc'[p] \notin Asking
                                /\ recorded' = recorded \cup {input[p]} /\ clock' = clock
    <3>1. PICK p \in Writers : /\ pc[p] \in Asking /\ pc'[p] \notin Asking
                               /\ recorded' = recorded \cup {input[p]} /\ clock' = clock
      BY <2>4
    <3>2. \A x \in recorded' : x.captured_at <= clock'
      BY <1>3, <3>1
    <3>3. \A q \in Writers : pc'[q] \in Asking =>
            input'[q].captured_at <= clock' /\ input'[q] \notin recorded'
      <4>1. SUFFICES ASSUME NEW q \in Writers, pc'[q] \in Asking
                     PROVE  input'[q].captured_at <= clock' /\ input'[q] \notin recorded'
        OBVIOUS
      <4>2. q # p /\ pc[q] \in Asking /\ input'[q] = input[q]
        BY <2>1, <3>1, <4>1
      <4>3. input[q] # input[p] /\ input[q] \notin recorded /\ input[q].captured_at <= clock
        BY <1>3, <3>1, <4>2
      <4>4. QED
        BY <2>2, <3>1, <4>2, <4>3
    <3>4. QED
      BY <1>3, <2>1, <3>2, <3>3 DEF Unrecorded
  <2>5. QED
    BY <2>3, <2>4, RecordedGrows
<1>6. QED
  BY <1>4, <1>5

(* Every state of a run has the invariant: the file is a chain, one writer *)
(* at a time works on what it holds, and no batch takes effect twice.      *)
THEOREM TransactionInvariant == Spec => []IInv
<1>1. IInv /\ [Next]_vars => IInv'
  <2> SUFFICES ASSUME IInv, [Next]_vars PROVE IInv'
    OBVIOUS
  <2>1. /\ Types /\ Proper(Base) /\ OneHolder /\ TempsInUse
        /\ Pending /\ UpToDate /\ Unrecorded
    BY DEF IInv
  <2>2. Types'
    BY <2>1, TypesStep
  <2>3. Proper(Base)'
    BY <2>1, BaseStaysProper
  <2>4. OneHolder' /\ TempsInUse' /\ Pending'
    BY <2>1, OneHolderStep, TempsInUseStep, PendingStep
  <2>5. UpToDate' /\ Unrecorded'
    BY <2>1, UpToDateStep, UnrecordedStep
  <2>6. QED
    BY <2>2, <2>3, <2>4, <2>5 DEF IInv
<1>2. QED
  BY <1>1, InitIInv, PTL DEF Spec

LEMMA IInvTypes == IInv => TypeOK
<1> SUFFICES ASSUME IInv PROVE TypeOK
  OBVIOUS
<1>1. Types /\ OneHolder
  BY DEF IInv
<1>2. IsFile(file) /\ \A p \in Writers : IsFile(temp[p])
  BY <1>1, FilesApart DEF Types
<1>3. Cardinality(holders) <= 1
  <2>1. CASE holders = {}
    BY <2>1, FS_EmptySet
  <2>2. CASE holders # {}
    <3>1. PICK p \in holders : holders = {p}
      BY <1>1, <2>2 DEF OneHolder
    <3>2. Cardinality({p}) = 1
      BY FS_Singleton
    <3>3. QED
      BY <3>1, <3>2
  <2>3. QED
    BY <2>1, <2>2
<1>4. QED
  BY <1>1, <1>2, <1>3 DEF Types, TypeOK

(* The variables keep their types, and one process at most has the lock.   *)
THEOREM TransactionTypeCorrect == Spec => []TypeOK
  BY TransactionInvariant, IInvTypes, PTL

(* A reader without the lock finds no file or a whole chain, and of test   *)
(* results none that is too long.                                          *)
THEOREM ReadersSeeWholeDags == Spec => []ReaderSeesWholeDag
<1>1. IInv => ReaderSeesWholeDag
  <2> SUFFICES ASSUME IInv, file # NoFile
               PROVE  /\ file.kind = "dag" /\ IsChain(file.dag)
                      /\ document = "results" => Len(file.dag.nodes) <= KeepLast
    BY DEF ReaderSeesWholeDag
  <2>1. Base = file.dag /\ file.kind = "dag" /\ Proper(Base)
    BY BaseTyped DEF IInv
  <2>2. IsChain(file.dag)
    BY <2>1, DagIs, LinearIsChain DEF Proper
  <2>3. QED
    BY <2>1, <2>2 DEF Proper
<1>2. QED
  BY <1>1, TransactionInvariant, PTL

(* A writer that is done has no temporary file, failed or not. *)
THEOREM NoTempFilesLeft == Spec => []TempFilesRemoved
<1>1. IInv => TempFilesRemoved
  BY DEF IInv, TempsInUse, TempFilesRemoved
<1>2. QED
  BY <1>1, TransactionInvariant, PTL

(* A write of the file brings news. *)
LEMMA WriteBringsNews ==
  ASSUME IInv, [Next]_vars, NEW p \in Writers, file # NoFile, file' # file, pc'[p] # pc[p]
  PROVE  IsNews(input[p], file.dag)
<1>1. Types /\ Proper(Base) /\ UpToDate /\ Pending /\ Base = file.dag
  BY BaseTyped DEF IInv
<1>2. PICK q \in Writers : Rename(q)
  BY <1>1, OnlyRenameWrites
<1>3. p = q /\ pc[p] = "rename"
  BY <1>1, <1>2 DEF Rename, Goto, Types
<1>4. PICK d, i : d = dag[p] /\ i = input[p] /\ Grown(d, i)
  BY <1>1, <1>3 DEF UpToDate
<1>5. i \in Input
  BY <1>1, <1>3, <1>4 DEF Pending, Asking
<1>6. SUFFICES ASSUME ~IsNews(i, Base) PROVE FALSE
  BY <1>1, <1>4
<1>7. HasCurrent(Base)
  BY <1>6 DEF IsNews
<1>8. CASE document = "ontology"
  BY <1>4, <1>6, <1>7, <1>8 DEF IsNews, Grown
<1>9. CASE document = "results"
  <2>1. Content = Snapshot /\ Input = Batch
    BY <1>9 DEF Content, Input
  <2>2. PICK now : now = CurrentContent(Base) /\ now = CurrentSnapshot(Base) /\ now \in Snapshot
    BY <1>1, <1>7, <2>1, DagIs, LinearCurrent DEF CurrentSnapshot, Proper
  <2>3. /\ \A k \in i.keys : k \in DOMAIN now /\ now[k].sha = i.sha
        /\ ~(i.purges /\ DOMAIN now \cap i.failed # {})
    BY <1>6, <1>7, <1>9, <2>2 DEF IsNews
  <2>4. AddBatch(now, i) = now
    BY <1>5, <2>1, <2>2, <2>3, NothingNewAdded
  <2>5. CurrentContent(d) = AddBatch(now, i) /\ CurrentContent(d) # now
    BY <1>4, <1>7, <1>9, <2>2 DEF Grown
  <2>6. QED
    BY <2>4, <2>5
<1>10. QED
  BY <1>1, <1>8, <1>9 DEF Types

(* To observe or build again what is there does not touch the file. *)
THEOREM RerunsAreNoOps == Spec => RerunIsNoOp
<1>1. IInv /\ [Next]_vars =>
        [\A p \in Writers : file # NoFile /\ file' # file /\ pc'[p] # pc[p]
                              => IsNews(input[p], file.dag)]_vars
  BY WriteBringsNews
<1>2. QED
  BY <1>1, TransactionInvariant, PTL DEF Spec, RerunIsNoOp

-------------------------------------------------------------------------------
(* The ledger's current value, in terms of the DAG that a transaction loads.*)
LEMMA LedgeredIs ==
  ASSUME Types, Proper(Base)
  PROVE  /\ document = "results" => Ledgered = CurrentSnapshot(Base)
         /\ document = "ontology" => Ledgered = Contents(Base)
<1>1. EmptyDag \in Dag /\ Linear(EmptyDag) /\ EmptyDag.nodes = << >>
  BY EmptyLinear, DagIs
<1>2. CurrentSnapshot(EmptyDag) = EmptySnapshot
  BY <1>1, DagIs, LinearCurrent DEF CurrentSnapshot
<1>3. Contents(EmptyDag) = << >>
  <2>1. Contents(EmptyDag) \in Seq(Content) /\ Len(Contents(EmptyDag)) = Len(<< >>)
    BY <1>1, DagIs, ContentsTyped
  <2>2. QED
    BY <2>1, EmptySeq
<1>4. CASE file = NoFile
  BY <1>2, <1>3, <1>4, BaseTyped DEF Ledgered
<1>5. CASE file # NoFile
  BY <1>5, BaseTyped DEF Ledgered, Contents
<1>6. QED
  BY <1>4, <1>5

(* The ledger's data are those of the transactions. *)
LEMMA LedgerData ==
  /\ L!EmptySnapshot = EmptySnapshot
  /\ L!Batch = Batch
  /\ \A b : L!ObservationOf(b) = ObservationOf(b)
<1>1. L!PytestSees = PytestSees
  BY DEF PytestSees, L!PytestSees, PytestKeys, L!PytestKeys, KeysOfKind, L!KeysOfKind
<1>2. L!CTestSees = CTestSees
  BY DEF CTestSees, L!CTestSees, CTestKeys, L!CTestKeys, KeysOfKind, L!KeysOfKind,
         ExitStatus, L!ExitStatus
<1>3. L!MatrixSees = MatrixSees
  BY DEF MatrixSees, L!MatrixSees, MatrixKeys, L!MatrixKeys, KeysOfKind, L!KeysOfKind,
         ExitStatus, L!ExitStatus, LoadStatus, L!LoadStatus
<1>4. L!AwsSees = AwsSees
  BY DEF AwsSees, L!AwsSees, KeysOfKind, L!KeysOfKind
<1>5. L!PerfSees = PerfSees
  BY DEF PerfSees, L!PerfSees, KeysOfKind, L!KeysOfKind
<1>6. L!Reports = Reports
  BY <1>1, <1>2, <1>3, <1>4, <1>5 DEF Reports, L!Reports
<1>7. L!Emitted = Emitted
  BY <1>6 DEF Emitted, L!Emitted, IsEmitted, L!IsEmitted
<1>8. \A report, c, t : L!BatchOf(report, c, t) = BatchOf(report, c, t)
  BY DEF BatchOf, L!BatchOf
<1>9. L!Batch = Batch
  BY <1>7, <1>8 DEF Batch, L!Batch
<1>10. QED
  BY <1>9 DEF EmptySnapshot, L!EmptySnapshot, ObservationOf, L!ObservationOf

LEMMA InitLedger == Init => L!LedgerInit
<1> SUFFICES ASSUME Init PROVE L!LedgerInit
  OBVIOUS
<1>1. document \in {"results", "ontology"} /\ file = NoFile /\ recorded = {}
  BY DEF Init
<1>2. Ledgered = IF document = "results" THEN EmptySnapshot ELSE << >>
  BY <1>1 DEF Ledgered
<1>3. QED
  BY <1>1, <1>2, LedgerData DEF L!LedgerInit

(* A batch that takes effect is a record of the ledger. *)
LEMMA RecordStep ==
  ASSUME IInv, NEW b \in Batch, document = "results", document' = document,
         b \notin recorded, recorded' = recorded \cup {b},
         Ledgered' = AddBatch(Ledgered, b)
  PROVE  L!LedgerNext
<1>1. Types /\ Proper(Base)
  BY DEF IInv
<1>2. Content = Snapshot
  BY DEF Content
<1>3. PICK s : s = Ledgered /\ s \in Snapshot
  BY <1>1, <1>2, LedgeredIs, BaseTyped, DagIs, CurrentSnapshotTyped DEF Proper
<1> DEFINE t == AddBatch(s, b)
<1>4. Ledgered' = t
  BY <1>3
<1>5. /\ DOMAIN t = (DOMAIN s \ Purged(b)) \cup b.keys
      /\ \A k \in b.keys : t[k] = IF k \in DOMAIN s /\ s[k].sha = b.sha
                                  THEN s[k] ELSE ObservationOf(b)
      /\ \A k \in DOMAIN s \ (b.keys \cup Purged(b)) : t[k] = s[k]
  BY <1>3, AddBatchIs
<1> HIDE DEF t
<1>6. L!Record(b)
  BY <1>3, <1>4, <1>5, LedgerData DEF L!Record, Purged
<1>7. b \in recorded' \ recorded /\ b \in L!Batch
  BY LedgerData
<1>8. QED
  BY <1>6, <1>7, Zenon DEF L!LedgerNext

(* A build that takes effect is one of the ledger's. *)
LEMMA BuildStep ==
  ASSUME IInv, NEW i \in Input, document = "ontology", document' = document,
         recorded' = recorded \cup {i},
         \/ Ledgered' = Ledgered /\ HasCurrent(Base) /\ CurrentContent(Base) = i
         \/ Ledgered' = Append(Ledgered, i) /\ (HasCurrent(Base) => CurrentContent(Base) # i)
  PROVE  L!LedgerNext
<1>1. Types /\ Proper(Base)
  BY DEF IInv
<1>2. Ledgered = Contents(Base)
  BY <1>1, LedgeredIs
<1>3. Base \in DagOver(Content) /\ Linear(Base)
  BY <1>1, BaseTyped, DagIs DEF Proper
<1>4. Ledgered # << >> <=> HasCurrent(Base)
  BY <1>2, <1>3, ContentsTyped, LinearCurrent, DagTyped, EmptySeq
<1>5. HasCurrent(Base) => Last(Ledgered) = CurrentContent(Base)
  <2>1. Len(Ledgered) = Len(Base.nodes)
        /\ \A j \in 1 .. Len(Base.nodes) : Ledgered[j] = Base.nodes[j].content
    BY <1>2, <1>3, ContentsTyped
  <2>2. QED
    BY <1>3, <2>1, LinearCurrent DEF Last
<1>6. L!Build(i)
  BY <1>4, <1>5 DEF L!Build, Last, L!Last
<1>7. QED
  BY <1>6 DEF L!LedgerNext

LEMMA LedgerStep ==
  ASSUME IInv, [Next]_vars
  PROVE  [L!LedgerNext]_(L!ledgerVars)
<1>1. Types /\ Proper(Base) /\ Pending /\ UpToDate /\ Unrecorded /\ document' = document
  BY SameData DEF IInv
<1>2. file' = file => Ledgered' = Ledgered
  BY <1>1 DEF Ledgered
<1>3. CASE recorded' = recorded /\ file' = file
  BY <1>1, <1>2, <1>3 DEF L!ledgerVars
<1>4. ASSUME NEW p \in Writers, pc[p] \in Asking
      PROVE  input[p] \in Input /\ (document = "results" => input[p] \notin recorded /\ Input = Batch)
  BY <1>1, <1>4 DEF Pending, Unrecorded, Input
<1>5. CASE \E p \in Writers : Change(p)
  <2>1. PICK p \in Writers : Change(p)
    BY <1>5
  <2>2. PICK i, d : i = input[p] /\ d = Pruned(Produced(dag[p], input[p], nextId))
    OBVIOUS
  <2>3. pc[p] = "change" /\ file' = file
        /\ (recorded' = recorded \/ (d = dag[p] /\ recorded' = recorded \cup {i}))
    BY <2>1, <2>2 DEF Change
  <2>4. dag[p] = Base /\ i \in Input /\ (document = "results" => i \notin recorded /\ Input = Batch)
    BY <1>1, <1>4, <2>2, <2>3 DEF UpToDate, Asking
  <2>5. CASE d = dag[p] /\ recorded' = recorded \cup {i}
    <3>1. /\ HasCurrent(Base)
          /\ document = "results" => AddBatch(CurrentSnapshot(Base), i) = CurrentContent(Base)
          /\ document = "ontology" => CurrentContent(Base) = i
      BY <1>1, <2>2, <2>4, <2>5, ChangeGrows
    <3>2. CASE document = "results"
      <4>1. Ledgered' = AddBatch(Ledgered, i)
        BY <1>1, <1>2, <2>3, <3>1, <3>2, LedgeredIs DEF CurrentSnapshot
      <4>2. QED
        BY <1>1, <2>4, <2>5, <3>2, <4>1, RecordStep
    <3>3. CASE document = "ontology"
      BY <1>1, <1>2, <2>3, <2>4, <2>5, <3>1, <3>3, BuildStep
    <3>4. QED
      BY <1>1, <3>2, <3>3 DEF Types
  <2>6. QED
    BY <1>3, <2>3, <2>5
<1>6. CASE \E p \in Writers : Rename(p)
  <2>1. PICK p \in Writers : Rename(p)
    BY <1>6
  <2>2. PICK i, d : i = input[p] /\ d = dag[p]
    OBVIOUS
  <2>3. pc[p] = "rename" /\ file' = Whole(d) /\ recorded' = recorded \cup {i}
    BY <2>1, <2>2 DEF Rename, Goto
  <2>4. /\ Grown(d, i) /\ i \in Input
        /\ document = "results" => i \notin recorded /\ Input = Batch
    BY <1>1, <1>4, <2>2, <2>3 DEF UpToDate, Asking
  <2>5. Ledgered' = IF document = "results" THEN CurrentSnapshot(d) ELSE Contents(d)
    BY <1>1, <2>3, FilesApart DEF Ledgered, Contents, Types
  <2>6. CASE document = "results"
    <3>1. Ledgered' = AddBatch(Ledgered, i)
      BY <1>1, <2>4, <2>5, <2>6, LedgeredIs DEF Grown, CurrentSnapshot
    <3>2. QED
      BY <1>1, <2>3, <2>4, <2>6, <3>1, RecordStep
  <2>7. CASE document = "ontology"
    <3>1. Ledgered' = Append(Ledgered, i) /\ (HasCurrent(Base) => CurrentContent(Base) # i)
      BY <1>1, <2>4, <2>5, <2>7, LedgeredIs DEF Grown
    <3>2. QED
      BY <1>1, <2>3, <2>4, <2>7, <3>1, BuildStep
  <2>8. QED
    BY <1>1, <2>6, <2>7 DEF Types
<1>7. CASE ~\E p \in Writers : Change(p) \/ Rename(p)
  <2>1. recorded' = recorded /\ file' = file
    BY <1>7 DEF Next, vars, procVars, Capture, ReadSource, Edit, Lock, Load, Step, Save,
                CreateTemp, WriteTemp, Fail, Unlock, Kill
  <2>2. QED
    BY <1>3, <2>1
<1>8. QED
  BY <1>5, <1>6, <1>7

(* The transactions implement the ledger: no writer undoes another's work. *)
THEOREM TransactionsImplementLedger == Spec => ImplementsLedger
<1>1. IInv /\ [Next]_vars => [L!LedgerNext]_(L!ledgerVars)
  BY LedgerStep
<1>2. QED
  BY <1>1, InitLedger, TransactionInvariant, PTL DEF Spec, ImplementsLedger, L!LedgerSpec
===============================================================================
