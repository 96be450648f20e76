------------------------------- MODULE TestResults ------------------------------
(***************************************************************************)
(* The data of the test-results DAG (dag.py, models.py): snapshots of      *)
(* observations, the nodes that carry them, and what one producer does to  *)
(* the DAG while it holds it.  The only outcome stored is "pass".          *)
(***************************************************************************)
EXTENDS VersionDag, Producers

CONSTANTS Shas,         \* commits
          Times,        \* times of capture
          KeepLast      \* _DEFAULT_KEEP_LAST_K

ASSUME TestResultsAssumption == KeepLast \in Nat \ {0} /\ Times \subseteq Nat

(* A snapshot has at most one observation of each key. *)
Observation   == [sha : Shas, captured_at : Times]
Snapshot      == UNION {[K -> Observation] : K \in SUBSET Keys}
EmptySnapshot == [k \in {} |-> {}]

(* What a run of a producer hands over, all of it seen at one commit. *)
Emitted == {report \in Reports : IsEmitted(report)}
BatchOf(report, c, t) ==
  [keys |-> report.keys, failed |-> report.failed, purges |-> report.purges,
   sha |-> c, captured_at |-> t]
Batch   == {BatchOf(report, c, t) : report \in Emitted, c \in Shas, t \in Times}

ObservationOf(b) == [sha |-> b.sha, captured_at |-> b.captured_at]

(* Mutant: an observation replaces an identical one. *)
Add_Refreshing(s, b) ==
  [k \in DOMAIN s \cup b.keys |-> IF k \in b.keys THEN ObservationOf(b) ELSE s[k]]

(* prune_and_add_result for each result of a batch: an observation at the  *)
(* commit already recorded leaves the record as it is.                     *)
Add(s, b) ==
  [k \in DOMAIN s \cup b.keys |->
     IF k \in b.keys /\ ~(k \in DOMAIN s /\ s[k].sha = b.sha)
     THEN ObservationOf(b) ELSE s[k]]

(* Mutant: a pass outlives the failure that contradicts it. *)
PurgeFailed_Never(s, b) == s

(* _purge_stale_for_failed_envs. *)
PurgeFailed(s, b) == IF b.purges THEN Restrict(s, DOMAIN s \ b.failed) ELSE s

AddBatch(s, b) == Add(PurgeFailed(s, b), b)

-------------------------------------------------------------------------------
CurrentSnapshot(dag) == IF HasCurrent(dag) THEN CurrentContent(dag) ELSE EmptySnapshot

(* The nodes whose ids are not in drop, in the same order. *)
Without(nodes, drop) ==
  LET kept[i \in 0 .. Len(nodes)] ==
        CASE i = 0                     -> << >>
          [] i > 0 /\ nodes[i].id \in drop -> kept[i - 1]
          [] OTHER                     -> Append(kept[i - 1], nodes[i])
  IN  kept[Len(nodes)]

(* Mutant: an edge goes when both its ends do. *)
Prune_EdgeKept(dag) ==
  LET chain == ParentChain(dag)
      drop  == {chain[i] : i \in (KeepLast + 1) .. Len(chain)}
  IN  [dag EXCEPT !.nodes = Without(@, drop),
                  !.edges = {e \in @ : e[1] \notin drop \/ e[2] \notin drop}]

(* prune_test_results_dag_nodes: the ancestors after the most recent ones  *)
(* go, with every edge that touches one.                                   *)
Prune(dag) ==
  LET chain == ParentChain(dag)
      drop  == {chain[i] : i \in (KeepLast + 1) .. Len(chain)}
  IN  [nodes   |-> Without(dag.nodes, drop),
       edges   |-> {e \in dag.edges : e[1] \notin drop /\ e[2] \notin drop},
       current |-> dag.current]

(* What a producer does to the DAG with its batch before it prunes. *)
Observe(dag, b, id) ==
  SnapshotIfChanged(dag, AddBatch(CurrentSnapshot(dag), b), id)
===============================================================================
