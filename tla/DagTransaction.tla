----------------------------- MODULE DagTransaction -----------------------------
(***************************************************************************)
(* Processes that write one DAG file, each through dag_transaction or      *)
(* test_results_dag_transaction, which do the same: an advisory lock on a  *)
(* file beside it, load, change, and where that changed anything a         *)
(* temporary file and a rename.  The file is that of the test results,     *)
(* written by producers, or that of the ontology, written by builds from a *)
(* YAML source that is edited meanwhile.  A process runs again and again.  *)
(* A step may raise an exception, a process may be killed between any two  *)
(* steps, and the audit reads the file without the lock.                   *)
(*                                                                         *)
(* The kernel gives the lock back when its holder dies, and a rename is    *)
(* atomic; both are assumed of the operating system.                       *)
(***************************************************************************)
EXTENDS TestResults

CONSTANTS Writers,    \* the processes
          Sources     \* bound: what the YAML source may hold

NoFile   == [kind |-> "none"]
TornFile == [kind |-> "torn"]      \* a file not written, or in part
Whole(d) == [kind |-> "dag", dag |-> d]

VARIABLES
  document,   \* "results" or "ontology": what the file holds
  source,     \* the YAML source
  file,       \* the DAG file
  temp,       \* temp[p]: p's temporary file
  holders,    \* the processes that hold the lock
  pc,
  input,      \* input[p]: what p observed or read, before it asks for the lock
  dag,        \* dag[p]: the DAG of p's transaction
  clock,      \* the time of the last capture or build; its bound is that of Times
  nextId,     \* the next id make_node_id returns
  recorded    \* history: the inputs whose transaction took effect

procVars == <<temp, holders, pc, input, dag>>
vars     == <<document, source, file, procVars, clock, nextId, recorded>>

NoInput == [keys |-> {}]

Init ==
  /\ document \in {"results", "ontology"}
  /\ source \in (IF document = "ontology" THEN Sources ELSE {NoFile})
  /\ file = NoFile
  /\ temp = [p \in Writers |-> NoFile]
  /\ holders = {}
  /\ pc = [p \in Writers |-> "run"]
  /\ input = [p \in Writers |-> NoInput]
  /\ dag = [p \in Writers |-> EmptyDag]
  /\ clock = 0 /\ nextId = 1
  /\ recorded = {}

(* The variables of a transaction that is over, or of a dead process. *)
Forget(p) ==
  /\ input' = [input EXCEPT ![p] = NoInput]
  /\ dag' = [dag EXCEPT ![p] = EmptyDag]

Goto(p, from, to) == pc[p] = from /\ pc' = [pc EXCEPT ![p] = to]

-------------------------------------------------------------------------------
(* The tests have run: head_sha and captured_at are read, without a lock.  *)
(* Where there is no commit a producer writes nothing.                     *)
Capture(p) ==
  /\ document = "results"
  /\ Goto(p, "run", "lock")
  /\ clock' = clock + 1
  /\ \E b \in Batch : b.captured_at = clock' /\ input' = [input EXCEPT ![p] = b]
  /\ UNCHANGED <<document, source, file, temp, holders, dag, nextId, recorded>>

(* build: the source is read and validated, without a lock. *)
ReadSource(p) ==
  /\ document = "ontology"
  /\ BuildsFromYaml(source)
  /\ Goto(p, "run", "lock")
  /\ clock + 1 \in Times /\ clock' = clock + 1
  /\ input' = [input EXCEPT ![p] = OntologyOf(source)]
  /\ UNCHANGED <<document, source, file, temp, holders, dag, nextId, recorded>>

(* The author of the ontology, who takes no lock either. *)
Edit ==
  /\ document = "ontology"
  /\ source' \in Sources \ {source}
  /\ UNCHANGED <<document, file, procVars, clock, nextId, recorded>>

(* Mutant: LOCK_SH. *)
Lock_Shared(p) ==
  /\ Goto(p, "lock", "load")
  /\ holders' = holders \cup {p}
  /\ UNCHANGED <<document, source, file, temp, input, dag, clock, nextId, recorded>>

(* flock(LOCK_EX). *)
Lock(p) ==
  /\ Goto(p, "lock", "load")
  /\ holders = {}
  /\ holders' = {p}
  /\ UNCHANGED <<document, source, file, temp, input, dag, clock, nextId, recorded>>

(* load_dag, load_test_results_dag: no file is an empty DAG; what from_json*)
(* refuses raises an exception, a Fail.                                    *)
Load(p) ==
  /\ file = NoFile \/ (file.kind = "dag" /\ Validated(file.dag))
  /\ Goto(p, "load", "change")
  /\ dag' = [dag EXCEPT ![p] = IF file = NoFile THEN EmptyDag ELSE file.dag]
  /\ UNCHANGED <<document, source, file, temp, holders, input, clock, nextId, recorded>>

(* The body of a producer's transaction, and of a build's: no build prunes.*)
Produced(d, i, id) ==
  IF document = "results" THEN Observe(d, i, id) ELSE SnapshotIfChanged(d, i, id)

Pruned(d) == IF document = "results" THEN Prune(d) ELSE d

(* A transaction that leaves its DAG as it was does not save it. *)
Change(p) ==
  /\ pc[p] = "change"
  /\ \E produced \in {Produced(dag[p], input[p], nextId)} :
     \E pruned \in {Pruned(produced)} :
       IF pruned = dag[p]
       THEN /\ Goto(p, "change", "unlock")
            /\ recorded' = recorded \cup {input[p]}
            /\ UNCHANGED <<dag, nextId>>
       ELSE /\ Goto(p, "change", "create")
            /\ dag' = [dag EXCEPT ![p] = pruned]
            /\ nextId' = nextId + 1
            /\ UNCHANGED recorded
  /\ UNCHANGED <<document, source, file, temp, holders, input, clock>>

(* save_dag, save_test_results_dag. *)
CreateTemp(p) ==
  /\ Goto(p, "create", "write")
  /\ temp' = [temp EXCEPT ![p] = TornFile]
  /\ UNCHANGED <<document, source, file, holders, input, dag, clock, nextId, recorded>>

WriteTemp(p) ==
  /\ Goto(p, "write", "rename")
  /\ temp' = [temp EXCEPT ![p] = Whole(dag[p])]
  /\ UNCHANGED <<document, source, file, holders, input, dag, clock, nextId, recorded>>

Rename(p) ==
  /\ Goto(p, "rename", "unlock")
  /\ file' = Whole(dag[p])
  /\ temp' = [temp EXCEPT ![p] = NoFile]
  /\ recorded' = recorded \cup {input[p]}
  /\ UNCHANGED <<document, source, holders, input, dag, clock, nextId>>

Save(p) == CreateTemp(p) \/ WriteTemp(p) \/ Rename(p)

(* Mutants: the temporary file stays; the lock stays, for want of finally. *)
Fail_NoCleanup(p) ==
  /\ pc[p] \in {"load", "change", "create", "write", "rename"}
  /\ pc' = [pc EXCEPT ![p] = "unlock"]
  /\ UNCHANGED <<document, source, file, temp, holders, input, dag, clock, nextId, recorded>>

Fail_NoFinally(p) ==
  /\ pc[p] \in {"load", "change", "create", "write", "rename"}
  /\ pc' = [pc EXCEPT ![p] = "run"]
  /\ temp' = [temp EXCEPT ![p] = NoFile]
  /\ UNCHANGED <<document, source, file, holders, input, dag, clock, nextId, recorded>>

(* An exception: the temporary file is removed and the lock given back;    *)
(* a producer prints the traceback and goes on, a build ends.              *)
Fail(p) ==
  /\ pc[p] \in {"load", "change", "create", "write", "rename"}
  /\ pc' = [pc EXCEPT ![p] = "unlock"]
  /\ temp' = [temp EXCEPT ![p] = NoFile]
  /\ UNCHANGED <<document, source, file, holders, input, dag, clock, nextId, recorded>>

Unlock(p) ==
  /\ Goto(p, "unlock", "run")
  /\ holders' = holders \ {p}
  /\ Forget(p)
  /\ UNCHANGED <<document, source, file, temp, clock, nextId, recorded>>

(* SIGKILL: what is in the temporary file stays. *)
Kill(p) ==
  /\ pc[p] \notin {"run", "killed"}
  /\ pc' = [pc EXCEPT ![p] = "killed"]
  /\ holders' = holders \ {p}
  /\ Forget(p)
  /\ UNCHANGED <<document, source, file, temp, clock, nextId, recorded>>

Step(p) == Lock(p) \/ Load(p) \/ Change(p) \/ Save(p) \/ Fail(p) \/ Unlock(p)

Next == Edit \/ \E p \in Writers : Capture(p) \/ ReadSource(p) \/ Step(p) \/ Kill(p)

(* A process that can take a step of its transaction is scheduled; nothing *)
(* obliges a run to begin or a kill to come.                               *)
Spec == Init /\ [][Next]_vars /\ \A p \in Writers : WF_vars(Step(p))

-------------------------------------------------------------------------------
Content == IF document = "results" THEN Snapshot ELSE {OntologyOf(y) : y \in Sources}
Input   == IF document = "results" THEN Batch ELSE Content
Node    == [id : Nat \ {0}, content : Content]
Dag     == [nodes : Seq(Node), edges : SUBSET (Nat \X Nat), current : Nat]

IsFile(f) == f \in {NoFile, TornFile} \/ (f.kind = "dag" /\ f.dag \in Dag)

TypeOK ==
  /\ document \in {"results", "ontology"} /\ source \in Sources \cup {NoFile}
  /\ IsFile(file) /\ \A p \in Writers : IsFile(temp[p])
  /\ holders \subseteq Writers /\ Cardinality(holders) <= 1
  /\ pc \in [Writers -> {"run", "lock", "load", "change", "create", "write",
                         "rename", "unlock", "killed"}]
  /\ input \in [Writers -> Input \cup {NoInput}]
  /\ dag \in [Writers -> Dag]
  /\ clock \in Nat /\ nextId \in Nat \ {0}
  /\ recorded \subseteq Input

(***************************************************************************)
(* What the audit reads without the lock is no file or a whole DAG, one    *)
(* chain that ends in the current node and, of test results, no longer than*)
(* the history that is kept, whichever steps of whichever writers it fell  *)
(* between and whoever was killed; so is what the next writer loads.       *)
(***************************************************************************)
ReaderSeesWholeDag ==
  file # NoFile =>
    /\ file.kind = "dag" /\ IsChain(file.dag)
    /\ document = "results" => Len(file.dag.nodes) <= KeepLast

(***************************************************************************)
(* A writer that has finished leaves no temporary file, even where its     *)
(* save failed halfway: only a killed one does.                            *)
(***************************************************************************)
TempFilesRemoved ==
  \A p \in Writers : pc[p] = "run" => temp[p] = NoFile

(***************************************************************************)
(* Observing or building again what is recorded does not touch the file: a *)
(* batch whose keys are all recorded at its commit, and whose failures are *)
(* not, or an ontology that is the current one, adds no node (the docstring*)
(* of prune_and_add_result: no node every push; that of dag_transaction on *)
(* what it does not save).                                                 *)
(***************************************************************************)
IsNews(i, d) ==
  LET now == CurrentContent(d) IN
  \/ ~HasCurrent(d)
  \/ document = "ontology" /\ i # now
  \/ /\ document = "results"
     /\ \/ \E k \in i.keys : k \notin DOMAIN now \/ now[k].sha # i.sha
        \/ i.purges /\ DOMAIN now \cap i.failed # {}

RerunIsNoOp ==
  [][ \A p \in Writers :
        file # NoFile /\ file' # file /\ pc'[p] # pc[p] => IsNews(input[p], file.dag) ]_vars

(***************************************************************************)
(* A writer that asks for the lock finishes its transaction unless it is   *)
(* killed: nobody leaves the lock behind, by an exception or by dying.     *)
(***************************************************************************)
EveryoneFinishes ==
  \A p \in Writers : pc[p] = "lock" ~> pc[p] \in {"run", "killed"}

(***************************************************************************)
(* The file, the lock and the rename implement the ledger: each batch that *)
(* takes effect is added to the snapshot of that moment, and each build to *)
(* the history of the ontology, so no writer undoes what another has done  *)
(* (the contract of dag_transaction: no lost updates).                     *)
(***************************************************************************)
Ledgered ==
  CASE document = "results"  -> IF file = NoFile THEN EmptySnapshot
                                ELSE CurrentSnapshot(file.dag)
    [] document = "ontology" -> IF file = NoFile THEN << >>
                                ELSE [i \in DOMAIN file.dag.nodes |->
                                        file.dag.nodes[i].content]

L == INSTANCE Ledger WITH current <- Ledgered

ImplementsLedger == L!LedgerSpec
===============================================================================
