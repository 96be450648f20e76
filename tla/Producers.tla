-------------------------------- MODULE Producers -------------------------------
(***************************************************************************)
(* What each producer of test results makes of what it saw: pytest's       *)
(* plugin (conftest.py), the C tests, the matrix of kernels and BPF        *)
(* objects, the probe of AWS instances, the measurement of the BPF         *)
(* programs' overhead.  What it saw is a pair, the keys that passed and    *)
(* those that failed; only the matrix purges what was recorded of the      *)
(* latter before.                                                          *)
(*                                                                         *)
(* A key is a reference to a test with the environment it ran in.  Keys    *)
(* that no claim of the ontology asks for are left out.                    *)
(***************************************************************************)
EXTENDS Ontology

CONSTANT Keys       \* (verification_ref, environment.natural_key())

ASSUME KeysAssumption ==
  \A k \in Keys : k.ref \in Ref /\ ~IsBlank(k.ref) /\ IsEnvironment(k.env)

(* The ways in which a process ends, as the producers read them. *)
ExitStatus == {"0", "non-zero", "124 timed out", "127 missing"}

KeysOfKind(kind) == {k \in Keys : k.env.kind = kind}

(* The keys of kind "host": a C test is path:function, a test of Python    *)
(* path::function.                                                         *)
CTestKeys  == {k \in KeysOfKind("host") : k.ref.sep = ":"}
PytestKeys == {k \in KeysOfKind("host") : k.ref.sep = "::"}

(* A BPF object on a kernel image: it is loaded or not, in time or not.    *)
MatrixKeys == KeysOfKind("vmtest")
LoadStatus == ExitStatus \ {"127 missing"}

(* pytest_runtest_makereport, pytest_sessionfinish: a test of several      *)
(* cases passes where each case that ran did.                              *)
PytestSees ==
  UNION {{<<{k \in ran : cases[k] = {TRUE}}, {k \in ran : FALSE \in cases[k]}>> :
            cases \in [ran -> (SUBSET BOOLEAN) \ {{}}]} :
         ran \in SUBSET PytestKeys}

(* _run_binary, _build_results: a source's binary passes or fails with all *)
(* the functions that the source defines.                                  *)
CTestSees ==
  UNION {LET ran == {k \in CTestKeys : k.ref.path \in sources} IN
         {<<{k \in ran : rc[k.ref.path] = "0"}, {k \in ran : rc[k.ref.path] # "0"}>> :
            rc \in [sources -> ExitStatus]} :
         sources \in SUBSET {k.ref.path : k \in CTestKeys}}

(* _build_results: every kernel image with every variant; an object that   *)
(* was not built counts as rejected by every kernel.                       *)
MatrixSees ==
  LET all == MatrixKeys IN
  UNION {LET swept == {k \in all : k.env.kernel \in kernels} IN
         {LET passed == {k \in swept : k.env.flags \in built /\ rc[k] = "0"}
          IN  <<passed, swept \ passed>> :
            built \in SUBSET {k.env.flags : k \in all},
            rc \in [swept -> LoadStatus]} :
         kernels \in SUBSET {k.env.kernel : k \in all}}

(* _parse_meta, _parse_verdict: a directory for each distribution, whose   *)
(* kernel is in its meta.txt, and is "" without one; a verdict passes that *)
(* is there, can be read and is 0.                                         *)
AwsSees ==
  LET all == KeysOfKind("aws-ec2") IN
  UNION {LET probed == {k \in all : /\ k.env.distro \in DOMAIN kernel
                                    /\ k.env.kernel = kernel[k.env.distro]} IN
         {<<passed, probed \ passed>> : passed \in SUBSET probed} :
         kernel \in UNION {[distros -> {k.env.kernel : k \in all}] :
                           distros \in SUBSET {k.env.distro : k \in all}}}

(* _build_result: one measurement; without metrics there is none. *)
PerfSees == {<<{k}, {}>> : k \in KeysOfKind("host-perf")}

(* Of what failed nothing is recorded; who saw nothing reports nothing. *)
Reports ==
  {[keys |-> seen[1], failed |-> seen[2], purges |-> FALSE] :
     seen \in (PytestSees \cup CTestSees \cup AwsSees \cup PerfSees) \ {<<{}, {}>>}}
  \cup
  {[keys |-> seen[1], failed |-> seen[2], purges |-> TRUE] :
     seen \in MatrixSees \ {<<{}, {}>>}}

(* Without a pass there is no transaction, but for the matrix.  *)
IsEmitted(report) == report.keys # {} \/ report.purges
===============================================================================
