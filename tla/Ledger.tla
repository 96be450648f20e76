--------------------------------- MODULE Ledger ---------------------------------
(***************************************************************************)
(* What a DAG file promises those who write it, without files, locks or    *)
(* ids.  Of test results: one snapshot of observations, to which a         *)
(* producer's batch is added in one step, onto what is there then, or not  *)
(* at all.  Of the ontology: every ontology that was built, in the order   *)
(* of their builds.                                                        *)
(***************************************************************************)
EXTENDS TestResults

VARIABLES
  document,   \* "results" or "ontology"
  current,    \* the snapshot, or the history of the ontology
  recorded    \* the batches and the ontologies that are in

ledgerVars == <<document, current, recorded>>

LedgerInit ==
  /\ document \in {"results", "ontology"}
  /\ current = IF document = "results" THEN EmptySnapshot ELSE << >>
  /\ recorded = {}

(* No batch twice: the time of its capture tells it from every other. *)
Record(b) ==
  /\ document = "results" /\ b \notin recorded
  /\ recorded' = recorded \cup {b}
  /\ LET purged == IF b.purges THEN b.failed ELSE {} IN
     /\ DOMAIN current' = (DOMAIN current \ purged) \cup b.keys
     /\ \A k \in b.keys :
          current'[k] = IF k \in DOMAIN current /\ current[k].sha = b.sha
                        THEN current[k] ELSE ObservationOf(b)
     /\ \A k \in DOMAIN current \ (b.keys \cup purged) : current'[k] = current[k]
  /\ UNCHANGED document

(* The history changes only at its end, and not where it ends so already.  *)
Build(ontology) ==
  /\ document = "ontology"
  /\ recorded' = recorded \cup {ontology}
  /\ current' = IF current # << >> /\ Last(current) = ontology
                THEN current ELSE Append(current, ontology)
  /\ UNCHANGED document

LedgerNext ==
  \/ \E b \in recorded' \ recorded : b \in Batch /\ Record(b)
  \/ \E ontology \in recorded' : Build(ontology)

LedgerSpec == LedgerInit /\ [][LedgerNext]_ledgerVars
===============================================================================
