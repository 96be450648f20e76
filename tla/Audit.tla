---------------------------------- MODULE Audit ---------------------------------
(***************************************************************************)
(* The ontology audit as the pre-push gate and others run it               *)
(* (audit_ontology): references against the working tree, statuses against *)
(* references (D009), freshness of the recorded passes against the history *)
(* of commits (D015), budgets against the recorded measurements (D017), and*)
(* the exit code.  Around it a developer who moves through a history with  *)
(* branches and merges, also while tests run, and producers that record    *)
(* what they saw; the transaction of a producer is one step here, as module*)
(* DagTransaction shows it to be.                                          *)
(*                                                                         *)
(* The commits of a behaviour are there from the start, for only those     *)
(* that HEAD descends from play a part: to commit, to pull or to merge is  *)
(* to move HEAD.  The audit changes nothing, so that it is an operator of  *)
(* the ontology, the working tree and its flags, which the properties take *)
(* as they may come.  A call of git that fails is left out: each helper    *)
(* then gives the answer that adds a gap.                                  *)
(***************************************************************************)
EXTENDS TestResults

CONSTANTS
  Versions,           \* the contents a file may have where it is committed
  Edits,              \* and in the working tree alone
  Defining,           \* Defining[s]: the contents that define the symbol s
  Absent,             \* no file
  Late,               \* files the first commit may lack
  Ontologies,         \* bound: what the ontology may claim
  Measured,           \* Measured[t]: what a measurement at time t gives
  Shapes              \* the shapes of history: each commit's parents

NoCommit == 0
Tree     == [Paths -> Versions \cup {Absent}]
WorkTree == [Paths -> Versions \cup Edits \cup {Absent}]

ASSUME AuditAssumption ==
  /\ \A k \in Keys : k.ref.path \in Paths
  /\ Absent \notin Versions \cup Edits
  /\ Defining \in [Symbols -> SUBSET (Versions \cup Edits)]
  /\ \A ontology \in Ontologies : ModelValidate(ontology)
  /\ << >> \notin Shapes /\ Shapes \subseteq Seq(Seq(Nat))
  /\ \A s \in Shapes : \A i \in DOMAIN s :
       /\ i \in Shas /\ s[i] \in Seq(1 .. i - 1) /\ Len(s[i]) <= 2
       /\ i > 1 => s[i] # << >>

VARIABLES
  parents,    \* the shape of the history
  trees,      \* trees[c], the files of commit c
  head,       \* HEAD
  session,    \* the run of the tests that is under way, or what failed in
              \* the last one
  current,    \* the current snapshot of the test-results DAG
  ranOn,      \* history: ranOn[k], the commit whose tree the recorded pass
              \* of k ran on, or NoCommit if that tree was never committed
  clock       \* the time of the last capture; its bound is that of Times

history  == <<parents, trees>>
testVars == <<session, current, ranOn, clock>>
vars     == <<history, head, testVars>>

-------------------------------------------------------------------------------
(* git, which is not part of the repository. *)
Ancestors(c) ==
  LET anc[i \in DOMAIN parents] == {i} \cup UNION {anc[p] : p \in ToSet(parents[i])}
  IN  anc[c]

IsAncestor(a, c) == a \in Ancestors(c)

(* git log -1 HEAD -- f follows the first parent with the same contents.   *)
LastTouchFile(f) ==
  LET touch[i \in DOMAIN parents] ==
        LET same == {n \in DOMAIN parents[i] : trees[parents[i][n]][f] = trees[i][f]}
        IN  IF same # {} THEN touch[parents[i][Min(same)]]
            ELSE IF parents[i] = << >> /\ trees[i][f] = Absent THEN NoCommit ELSE i
  IN  touch[head]

(* What a merge makes of a file: with both sides changed, anything.        *)
ThreeWay(base, ours, theirs) ==
  CASE ours = theirs -> {ours}
    [] ours = base   -> {theirs}
    [] theirs = base -> {ours}
    [] OTHER         -> Versions

(* The trees that commit c may have after its parents; no file is removed. *)
MayFollow(c) ==
  LET p == parents[c] IN
  CASE p = << >> -> \A f \in Paths : trees[c][f] = Absent => f \in Late
    [] Len(p) = 1 -> /\ trees[c] # trees[p[1]]
                     /\ \A f \in Paths : trees[c][f] = Absent => trees[p[1]][f] = Absent
    [] OTHER ->
         LET common == Ancestors(p[1]) \cap Ancestors(p[2])
             base   == CHOOSE b \in common : common \subseteq Ancestors(b)
         IN  \A f \in Paths :
               trees[c][f] \in ThreeWay(trees[base][f], trees[p[1]][f], trees[p[2]][f])

Idle(failed) == [pc |-> "idle", failed |-> failed]

Init ==
  /\ parents \in Shapes
  /\ trees \in [DOMAIN parents -> Tree]
  /\ \A c \in DOMAIN parents : MayFollow(c)
  /\ head = 1
  /\ session = Idle({}) /\ current = EmptySnapshot /\ ranOn = EmptySnapshot
  /\ clock = 0

(* A commit, a merge, a pull, another branch. *)
MoveHead ==
  /\ head' \in DOMAIN parents \ {head}
  /\ UNCHANGED <<history, testVars>>

(* The tests run on what is checked out or on edits that are not committed.*)
StartRun ==
  /\ session.pc = "idle"
  /\ \E ran \in {head, NoCommit} :
       session' = [pc |-> "running", sha |-> head, ran |-> ran]
  /\ UNCHANGED <<history, head, current, ranOn, clock>>

(* resolve_ref, of a parsed reference: is the file there, does it define   *)
(* the symbol?                                                             *)
ResolveRef(ref, work) ==
  IF work[ref.path] = Absent THEN "file_missing"
  ELSE IF ref.sep = "" \/ work[ref.path] \in Defining[ref.symbol] THEN "ok"
  ELSE "symbol_missing"

(* What is not there does not pass. *)
MayReport(report, ran) ==
  ran # NoCommit => \A k \in report.keys : ResolveRef(k.ref, trees[ran]) = "ok"

(* Mutant: a producer that finds no commit records its passes all the same.*)
RecordRun_NoHead ==
  /\ session.pc = "running"
  /\ clock + 1 \in Times /\ clock' = clock + 1
  /\ \E report \in Reports :
       /\ MayReport(report, session.ran)
       /\ current' = AddBatch(current, BatchOf(report, NoCommit, clock'))
       /\ ranOn' = [k \in DOMAIN current' |-> session.ran]
       /\ session' = Idle(report.failed)
  /\ UNCHANGED <<history, head>>

(* The C tests and the matrix read HEAD before the tests, pytest, the probe*)
(* and the measurement after.                                              *)
RecordRun ==
  /\ session.pc = "running"
  /\ clock + 1 \in Times /\ clock' = clock + 1
  /\ \E report \in Reports, sha \in {session.sha, head} :
       /\ MayReport(report, session.ran)
       /\ LET b == BatchOf(report, sha, clock') IN
          /\ current' = AddBatch(current, b)
          /\ ranOn' = [k \in DOMAIN current' |->
                         IF current'[k] = ObservationOf(b) THEN session.ran ELSE ranOn[k]]
       /\ session' = Idle(report.failed)
  /\ UNCHANGED <<history, head>>

-------------------------------------------------------------------------------
(* The rows of the ontology, in no order.  *)
Claims(ontology) ==
  ToSet(ontology.domain) \cup ToSet(ontology.perf)
    \cup ToSet(ontology.signal) \cup ToSet(ontology.verdict)

RefsOf(claim) == claim.implementation \cup claim.verification

(* Mutant: a tested claim may name no test. *)
CheckStatusRefsConsistency_Tested(claim) ==
  /\ claim.status = "implemented" => claim.implementation # {} /\ claim.verification # {}
  /\ claim.status = "deviation"   => claim.has_rationale

(* check_status_refs_consistency. *)
CheckStatusRefsConsistency(claim) ==
  /\ claim.status = "tested"      => claim.verification # {}
  /\ claim.status = "implemented" => claim.implementation # {} /\ claim.verification # {}
  /\ claim.status = "deviation"   => claim.has_rationale

(* _build_row: blank references are skipped, one that cannot be parsed     *)
(* raises an exception, see ToolingError.                                  *)
RowHasGap(claim, work) ==
  \/ ~CheckStatusRefsConsistency(claim)
  \/ \E ref \in RefsOf(claim) : ~IsBlank(ref) /\ ResolveRef(ref, work) # "ok"

-------------------------------------------------------------------------------
Matching(ref, env) == {k \in DOMAIN current : k.ref = ref /\ EnvMatches(k.env, env)}

(* _claim_files. *)
FilesOf(claim) == {ref.path : ref \in {r \in RefsOf(claim) : ParsesRef(r)}}

(* Mutant: strictly after. *)
IsAtOrAfter_Strict(sha, reference) ==
  sha # reference /\ IsAncestor(sha, head) /\ IsAncestor(reference, sha)

IsAtOrAfter(sha, reference) ==
  IsAncestor(sha, head) /\ IsAncestor(reference, sha)

(* Mutant: after the last change of some file. *)
IsFreshResult_Some(sha, touches) ==
  IsAncestor(sha, head) /\ \E t \in touches : IsAtOrAfter(sha, t)

(* _is_fresh_result: after the last change of every file. *)
IsFreshResult(sha, touches) ==
  IsAncestor(sha, head) /\ \A t \in touches : IsAtOrAfter(sha, t)

(* _classify_no_match. *)
ClassifyNoMatch(ref) ==
  IF \E k \in DOMAIN current : k.ref = ref THEN "runner_forgot"
                                            ELSE "env_never_exercised"

(* _check_one_pair: the modes of the issues of one reference in one        *)
(* environment.                                                            *)
CheckOnePair(ref, env, touches) ==
  IF Matching(ref, env) = {} THEN {ClassifyNoMatch(ref)}
  ELSE IF \E k \in Matching(ref, env) : IsFreshResult(current[k].sha, touches)
       THEN {} ELSE {"stale_result"}

(* _resolve_last_touches; NoCommit stands for the files not resolved. *)
LastTouches(claim) == {LastTouchFile(f) : f \in FilesOf(claim)}

(* check_claim_freshness. *)
CheckClaimFreshness(claim) ==
  LET touches == LastTouches(claim) IN
  UNION {IF NoCommit \in touches THEN {"untracked_file"} ELSE CheckOnePair(ref, env, touches) :
           ref \in IF claim.status = "tested" THEN claim.verification ELSE {},
           env \in claim.environments}

(* The modes that count; bootstrap lets those of a missing record pass. *)
GatingModes(flags) ==
  {"stale_result", "untracked_file"}
    \cup (IF flags.bootstrap THEN {} ELSE {"runner_forgot", "env_never_exercised"})

-------------------------------------------------------------------------------
DirectionSatisfied(measured, budget, direction) ==
  CASE direction = "max"   -> measured <= budget
    [] direction = "min"   -> measured >= budget
    [] direction = "equal" -> measured = budget

(* _latest_matching_result, of those that measure the metric at all. *)
Measuring(claim, env) ==
  {k \in DOMAIN current : /\ k.env.kind = "host-perf" /\ EnvMatches(k.env, env)
                          /\ claim.metric \in DOMAIN Measured[current[k].captured_at]}

LatestMeasurement(claim, env) ==
  LET times == {current[k].captured_at : k \in Measuring(claim, env)}
  IN  Measured[CHOOSE t \in times : \A u \in times : u <= t][claim.metric]

(* check_perf_budget. *)
CheckPerfBudget(claim) ==
  UNION {IF Measuring(claim, env) = {} THEN {"no_measurement"}
         ELSE IF DirectionSatisfied(LatestMeasurement(claim, env), claim.budget, claim.direction)
         THEN {} ELSE {"budget_violated"} :
         env \in IF claim.status \in {"implemented", "tested"}
                 THEN claim.environments ELSE {}}

-------------------------------------------------------------------------------
(* run_audit: the static pass, of the tree that is checked out, and the two*)
(* that its flags ask for.                                                 *)
StaticGap(ontology, work) == \E claim \in Claims(ontology) : RowHasGap(claim, work)

FreshnessIssues(ontology) == UNION {CheckClaimFreshness(claim) : claim \in Claims(ontology)}

BudgetIssues(ontology) == UNION {CheckPerfBudget(claim) : claim \in ToSet(ontology.perf)}

DynamicGap(ontology, flags) ==
  \/ flags.budgets /\ BudgetIssues(ontology) # {}
  \/ flags.freshness /\ FreshnessIssues(ontology) \cap GatingModes(flags) # {}

ToolingError(ontology) ==
  \E claim \in Claims(ontology) : \E ref \in RefsOf(claim) : ~IsBlank(ref) /\ ~ParsesRef(ref)

HasAnyGap(ontology, work, flags) ==
  StaticGap(ontology, work) \/ DynamicGap(ontology, flags)

(* main, with --exit-nonzero-on-gap.  No ontology is one without claims. *)
ExitCode(ontology, work, flags) ==
  IF ToolingError(ontology) THEN 2
  ELSE IF HasAnyGap(ontology, work, flags) THEN 1 ELSE 0

(* The Makefile's gate-ontology, and the same while producers were missing.*)
GateFlags      == [freshness |-> TRUE, budgets |-> TRUE, bootstrap |-> FALSE]
BootstrapFlags == [GateFlags EXCEPT !.bootstrap = TRUE]

-------------------------------------------------------------------------------
Next == MoveHead \/ StartRun \/ RecordRun

Spec == Init /\ [][Next]_vars

-------------------------------------------------------------------------------
TypeOK ==
  /\ parents \in Shapes /\ trees \in [DOMAIN parents -> Tree]
  /\ head \in DOMAIN parents
  /\ \/ session.pc = "idle" /\ session.failed \subseteq Keys
     \/ /\ session.pc = "running"
        /\ session.sha \in DOMAIN parents /\ session.ran \in DOMAIN parents \cup {NoCommit}
  /\ current \in Snapshot
  /\ ranOn \in [DOMAIN current -> {NoCommit} \cup DOMAIN parents]
  /\ clock \in Nat

Pairs(ontology) ==
  UNION {{[claim |-> c, ref |-> r, env |-> e] : r \in c.verification, e \in c.environments} :
         c \in {c \in Claims(ontology) : c.status = "tested"}}

(* The audit does not know of a run under way: the properties below are of *)
(* the states without one, where the DAG and HEAD take the same values.    *)

(* A record says what it seems to: its tests ran on the tree of the commit *)
(* it names, and no merge has come after that commit.                      *)
RanOnItsCommit(k) ==
  /\ ranOn[k] # NoCommit
  /\ trees[ranOn[k]] = trees[current[k].sha]

NoMergeSince(k) ==
  \A m \in Ancestors(head) \ Ancestors(current[k].sha) :
    Len(parents[m]) <= 1

(***************************************************************************)
(* Where the gate lets a push through, each test of a tested claim has     *)
(* passed, in each environment the claim expects, on the contents that the *)
(* claim's files have at HEAD: whatever was edited, committed, abandoned   *)
(* on a branch or overwritten by an older pass in between.  With the       *)
(* bootstrap flag it is so for those that have a record at all.            *)
(*                                                                         *)
(* This needs records that say what they seem to.  The rule of D015 cannot *)
(* see that tests ran on edits that were never committed, that a commit    *)
(* was made while they ran, or, as last_touch_file follows only one parent *)
(* of a merge, that a merged branch changed a file and changed it back.    *)
(***************************************************************************)
GateMeansTested ==
  session.pc = "idle" /\ (\A k \in DOMAIN current : RanOnItsCommit(k) /\ NoMergeSince(k)) =>
     \A ontology \in Ontologies :
       LET issues == FreshnessIssues(ontology) IN
       \A flags \in {GateFlags, BootstrapFlags} :
         issues \cap GatingModes(flags) = {} =>
         \A p \in Pairs(ontology) :
           \/ flags.bootstrap /\ Matching(p.ref, p.env) = {}
           \/ \E k \in Matching(p.ref, p.env) :
                \A f \in FilesOf(p.claim) : trees[ranOn[k]][f] = trees[head][f]

(***************************************************************************)
(* Running everything once at HEAD clears the gate: with what the claims   *)
(* name checked out and committed, a pass recorded at HEAD for each test in*)
(* each expected environment and measurements within their budgets, nothing*)
(* is reported, whatever the history that led there.                       *)
(***************************************************************************)
RunAtHeadClears ==
  \A ontology \in Ontologies :
    /\ session.pc = "idle"
    /\ ~ToolingError(ontology) /\ ~StaticGap(ontology, trees[head])
    /\ \A p \in Pairs(ontology) : \E k \in Matching(p.ref, p.env) : current[k].sha = head
    /\ BudgetIssues(ontology) = {}
    => ExitCode(ontology, trees[head], GateFlags) = 0

(***************************************************************************)
(* No claim passes the gate for want of evidence (D009: a tested claim     *)
(* without evidence is a lie): each tested claim names a test, each test it*)
(* names is defined in the working tree, and where the claim expects any   *)
(* environment each has a record that HEAD descends from.                  *)
(***************************************************************************)
TestedClaimsHaveEvidence ==
  \A ontology \in Ontologies :
    session.pc = "idle" /\ ~ToolingError(ontology) /\ ~DynamicGap(ontology, GateFlags) =>
      \A claim \in {c \in Claims(ontology) : c.status = "tested"} :
      \A work \in {w \in WorkTree : ~StaticGap(ontology, w)} :
        /\ claim.verification # {}
        /\ \A ref \in claim.verification :
             \/ IsBlank(ref) /\ claim.environments = {}
             \/ /\ ResolveRef(ref, work) = "ok"
                /\ \A env \in claim.environments :
                     \E k \in Matching(ref, env) : IsAncestor(current[k].sha, head)

(***************************************************************************)
(* What the C tests' producer says of a binary that fails: its references  *)
(* become gaps of the audit.  Nothing removes the pass recorded before.    *)
(***************************************************************************)
FailingBinaryIsReported ==
  \A ontology \in Ontologies : \A p \in Pairs(ontology) :
    session.pc = "idle" /\ Matching(p.ref, p.env) \cap CTestKeys \cap session.failed # {} =>
      ExitCode(ontology, trees[head], GateFlags) # 0
===============================================================================
