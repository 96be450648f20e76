------------------------------- MODULE VersionDag -------------------------------
(***************************************************************************)
(* The version DAG that OntologyDAG and TestResultsDAG of models.py both   *)
(* are, and what dag.py does to either: nodes that carry contents, edges   *)
(* from a node to the one made from it, and the current node.              *)
(*                                                                         *)
(* Node ids are numbers here, 0 for none; make_node_id never repeats one.  *)
(* Labels, times of creation and the decisions on edges are left out.      *)
(***************************************************************************)
EXTENDS Integers, Sequences, FiniteSets, SequencesExt

NoNode   == 0
EmptyDag == [nodes |-> << >>, edges |-> {}, current |-> NoNode]

Ids(dag) == {dag.nodes[i].id : i \in DOMAIN dag.nodes}

(* get_node: the first of that id. *)
GetNode(dag, id) ==
  LET here == {i \in DOMAIN dag.nodes : dag.nodes[i].id = id}
  IN  dag.nodes[CHOOSE i \in here : \A j \in here : i <= j]

HasCurrent(dag)     == dag.current \in Ids(dag)
CurrentContent(dag) == GetNode(dag, dag.current).content

(* children_of, parents_of and root_nodes, as sets of ids. *)
ChildrenOf(dag, id) == {e[2] : e \in {d \in dag.edges : d[1] = id}} \cap Ids(dag)
ParentsOf(dag, id)  == {e[1] : e \in {d \in dag.edges : d[2] = id}} \cap Ids(dag)
RootNodes(dag)      == Ids(dag) \ {e[2] : e \in dag.edges}

(* _reject_duplicate_node_ids and _reject_self_loop, by which from_json    *)
(* refuses a file.                                                         *)
DistinctIds(dag) ==
  \A i, j \in DOMAIN dag.nodes : dag.nodes[i].id = dag.nodes[j].id => i = j
NoSelfLoop(dag)  == \A e \in dag.edges : e[1] # e[2]
Validated(dag)   == DistinctIds(dag) /\ NoSelfLoop(dag)

(* save_snapshot, save_test_results_snapshot: a node after the current one.*)
SaveSnapshot(dag, content, id) ==
  [nodes   |-> Append(dag.nodes, [id |-> id, content |-> content]),
   edges   |-> dag.edges \cup
                 (IF dag.current = NoNode THEN {} ELSE {<<dag.current, id>>}),
   current |-> id]

(* Contents are compared by hashes, of ontologies with their lists in      *)
(* order, of snapshots with their results sorted.  Here the former are     *)
(* sequences and the latter sets, which are equal where the hashes are.    *)
SameContent(x, y) == x = y

(* snapshot_if_changed, snapshot_test_results_if_changed: nothing where    *)
(* the current node has equal contents.                                    *)
SnapshotIfChanged(dag, content, id) ==
  IF HasCurrent(dag) /\ SameContent(CurrentContent(dag), content)
  THEN dag ELSE SaveSnapshot(dag, content, id)

(* _walk_parent_chain: the current node, its parent, and so on. *)
ParentChain(dag) ==
  LET parent(id) == IF id = NoNode \/ ParentsOf(dag, id) = {} THEN NoNode
                    ELSE CHOOSE p \in ParentsOf(dag, id) : TRUE
      up[i \in 1 .. Len(dag.nodes) + 1] ==
        IF i = 1 THEN dag.current ELSE parent(up[i - 1])
      reached == {i \in 1 .. Len(dag.nodes) + 1 : up[i] # NoNode}
  IN  [i \in 1 .. Cardinality(reached) |-> up[i]]

-------------------------------------------------------------------------------
(***************************************************************************)
(* The shape every writer of this repository gives a DAG: one chain from   *)
(* its root to the current node, where no node repeats its parent.         *)
(***************************************************************************)
IsChain(dag) ==
  /\ Validated(dag)
  /\ dag.nodes # << >> => HasCurrent(dag) /\ ChildrenOf(dag, dag.current) = {}
  /\ \A e \in dag.edges : {e[1], e[2]} \subseteq Ids(dag)
  /\ dag.nodes # << >> => Cardinality(RootNodes(dag)) = 1
  /\ \A id \in Ids(dag) : Cardinality(ParentsOf(dag, id)) <= 1
  /\ Len(ParentChain(dag)) = Len(dag.nodes)
  /\ \A e \in dag.edges : GetNode(dag, e[1]).content # GetNode(dag, e[2]).content
===============================================================================
