--------------------------------- MODULE MCAudit --------------------------------
EXTENDS Audit

Env(kind, kernel) ==
  [kind |-> kind, kernel |-> kernel, distro |-> "", arch |-> "", flags |-> {}]

Unit     == [path |-> "test", sep |-> ":", symbol |-> "unit"]
Code     == [path |-> "code", sep |-> "", symbol |-> ""]
Overhead == Code      \* bound: the script that measures it is the code's file

MCKeys == {[ref |-> Unit, env |-> Env("host", "")],
           [ref |-> Overhead, env |-> Env("host-perf", "6")]}

(* Only an edit removes the test. *)
MCDefining == [s \in Symbols |-> Versions]
Symmetry   == Permutations(Versions)

(* A unit test of the code. *)
Tested == [name |-> "tested", status |-> "tested", has_rationale |-> FALSE,
           implementation |-> {Code}, verification |-> {Unit},
           environments |-> {Env("host", "")}]

(* Its overhead, on any kernel. *)
Budget(status, direction) ==
  [name |-> "budget", status |-> status, has_rationale |-> FALSE,
   implementation |-> {Code}, verification |-> {Overhead},
   environments |-> {Env("host-perf", "")},
   metric |-> "ns", direction |-> direction, budget |-> 1]

Of(claim) == [EmptyOntology EXCEPT !.signal = <<claim>>]

MCOntologies ==
  {[EmptyOntology EXCEPT !.domain = <<Tested>>, !.perf = <<Budget("tested", "max")>>],
   [EmptyOntology EXCEPT !.perf = <<Budget("implemented", "min")>>],
   Of([Tested EXCEPT !.verification = {}]),
   Of([Tested EXCEPT !.verification = {[path |-> "test", sep |-> "::", symbol |-> ""]}]),
   Of([Tested EXCEPT !.status = "deviation"])}

JustTested == {Of(Tested)}

(* Branches, merged or not. *)
MCShapes == {<< << >>, <<1>>, <<1>>, <<2, 3>> >>}

MCShas     == 1 .. 4
MCTimes    == 1 .. 2
MCMeasured == [t \in Times |-> [ns |-> 3 - t]]
===============================================================================
