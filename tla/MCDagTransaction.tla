----------------------------- MODULE MCDagTransaction ---------------------------
EXTENDS DagTransaction

Env(kind, kernel, flags) ==
  [kind |-> kind, kernel |-> kernel, distro |-> "", arch |-> "", flags |-> flags]

(* A C test, and a BPF object on one kernel. *)
MCKeys ==
  {[ref |-> [path |-> "unit", sep |-> ":", symbol |-> "test"], env |-> Env("host", "", {})]}
  \cup {[ref |-> [path |-> "load", sep |-> "", symbol |-> ""],
         env |-> Env("vmtest", "v6.12", {variant})] : variant \in Tags}

MCShas  == {1, 2}
MCTimes == 1 .. 3

(* Two ontologies, one with a verdict twice, an empty file and a list. *)
Red       == [name |-> "red", status |-> "spec", has_rationale |-> TRUE,
              implementation |-> {}, verification |-> {}, environments |-> {}]
Plain     == [EmptyOntology EXCEPT !.verdict = <<Red>>]
Log       == [EmptyOntology EXCEPT !.representations = <<[space |-> "log", order |-> 1]>>]
Twice     == [EmptyOntology EXCEPT !.verdict = <<Red, Red>>]
MCSources ==
  {[root |-> "mapping", data |-> data] : data \in {Plain, Log, Twice}}
  \cup {[root |-> root, data |-> EmptyOntology] : root \in {"empty", "other"}}
===============================================================================
