# iomoments: a TLA+ model

iomoments measures block-I/O latencies with two BPF programs, keeps their first four moments and
their largest values per CPU, drains both periodically into a ring of windows, and reports moments
with a verdict on whether they can be trusted. Beside the tool the repository has an ontology of what
it claims, built from YAML into a DAG file, Python producers that record test results in another, an
audit that holds the claims against the code and the results, and an oracle that ports the moments to
Python for the calibration. Paths below are relative to the
repository; its C sources are in `src/`, its Python in `tooling/`.

## The system

| Component | State | Operations | What makes it correct |
|---|---|---|---|
| BPF programs (`src/iomoments.bpf.c`) | start time per request pointer; per-CPU summary, reservoir; a switch; a ring buffer | `iomoments_rq_issue`, `iomoments_rq_complete` | a sample is the time since that request's own issue; one per issue; no leaked entry |
| moment arithmetic (`src/pebay_bpf.h`, `src/u128.h`) | `n`, `m1_fp`, `m2`, `m3`, `m4` in fixed width | `iomoments_summary_bpf_update`, `_merge`, 128-bit operations | the truncated moments stay moments; no carry, sign or digit is lost |
| top-K reservoir (`src/iomoments_topk.h`) | `samples`, `count`, `min_idx` | insert, merge | the K greatest of what went in |
| drain (`src/iomoments.c` 355-474) | copies of both maps | look up, merge, zero | nothing lost or twice but what the race explains |
| drain loop (`src/iomoments.c` 476-548) | ring, next wakeup, `stop_flag` | test, sleep, drain, final drain | room in the ring, ordered windows, the loop ends |
| life cycle (`src/iomoments.c` 938-1113) | object, links, ring, dump | every step of `main` and its failure | released on every path; status 0 means a report |
| raw dump (`src/iomoments.c` 120-228) | file, counters | enable, poll, tear down | the file agrees with the report but for the ends of the run, short writes and what a full ring buffer refused |
| reference moments (`src/pebay.h`) | `n`, `m1` ... `m4` as doubles | update, merge | merged equals streamed |
| Level 2, spectral sweep, verdict (`src/iomoments_level2.h`, `_spectral.h`, `_verdict.h`) | ring, statistics, signals | twelve evaluators | the verdict is its worst signal; GREEN is earned; hidden periods are flagged |
| DAG files (`tooling/src/iomoments_ontology/dag.py`, `models.py`) | two JSON files, each with a lock file and temporary files | lock, load, change, save, prune | nothing recorded is lost, never a torn file, one chain |
| ontology and its build (`models.py`, `types.py`, `build.py`) | a YAML source | validate, append where changed | what is built is valid; its history is kept |
| producers (`conftest.py`, `tooling/*_producer.py`) | what a run saw | one transaction each | a re-run changes nothing; a failed load takes its old pass with it |
| audit (`tooling/src/audit_ontology`) | none | reads ontology, snapshot, working tree, git | a claim passes only if its tests did, on its files as they are |
| oracle (`tooling/src/iomoments_oracle`) | `Summary` objects, updated in place | update, merge, readouts | the same moments as `src/pebay.h` |
| scripts, packaging, hooks | - | - | - |

How they interact: the block layer calls the BPF programs on any CPU at any time; userspace reads
and zeroes their per-CPU maps by system calls with nothing to synchronise the two sides; a signal
handler sets a flag; the ring of windows goes from the loop to the analysis when the loop is over.
Producers, builds and audits are processes that share the DAG files; writers take a lock, readers do
not. The developer edits the tree, the source and the history under all of them.

Hard to test here: updates that overlap a copy or a zeroing; the two maps drained at different
moments; request pointers that are reused, reissued and completed in parts; signals between a test
and a sleep; errors at each step of `main`; truncation and overflow that depend on the order of
samples; writers that die halfway; HEAD that moves while tests run; passes that are older, or of
another branch, than what they are taken for. `PROJECT.json` lists each with its line.

## Modules

| Module | Models | Correspondence |
|---|---|---|
| `TopK` | `iomoments_topk.h` | a reservoir is the array, `count` and `min_idx`; `Insert` is the whole function |
| `TopKPipeline` (extends `TopK`) | a latency's way from a CPU's reservoir through the drain's copy, merge and reset into a window and from all windows into the Hill estimator's reservoir | one action per loop iteration of the merges, so completions come between; lookup and reset of a CPU are one step each |
| `Drain` | the race of `drain_and_reset_*` with the programs | a word holds the set of samples it accounts for; a program loads and stores each word once, in any order; the kernel copies and zeroes CPU by CPU and word by word |
| `ReqTracker` | the two programs and the hash map of start times | a request is issued, reissued, completed in parts; the map may be full; the kernel may skip a run of a program |
| `DrainLoop` | `run_drain_loop`, `stop_handler` | one action per statement that can be interrupted; the clock moves between any two. It has no specification of its own: `Lifecycle` composes it |
| `Lifecycle` (extends `DrainLoop`) | `main`, composed with the loop it calls | one action per step, one per way it fails; while `main` is in `run_drain_loop` it takes the loop's steps, and clock and signals go on all the time |
| `RawDump` | the dump from attach to tear-down | two steps per completion (summary, ring buffer), drains and polls between; the result of `bpf_ringbuf_output` is ignored as in the code, so a refused sample changes no state but a history variable |
| `PebayBpf` (extends `Moments`, `U128`) | `iomoments_summary_bpf_update`, `_merge` | the same terms with the same truncations, over words whose width is a constant, the double words as integers modulo theirs; beside it the reference of `pebay.h` and the oracle over the same samples |
| `Oracle` | `iomoments_oracle` | objects in a heap, the assignments of `update` one after the other on what the ones before left, `merge` of any two objects or of one with itself |
| `U128` | `u128.h` | each operation on two words of two limbs, the search of `u64_clz` by its six tests; it has no state |
| `Rational`, `Moments` | `pebay.h` over exact fractions | a summary is a record, `SummaryUpdate` and `SummaryMerge` are the functions |
| `Analysis`, `Verdict` (extend `Moments`) | Level 2, spectral sweep, verdict | one action for Level 2, one per point of the sweep, one per evaluator |
| `VersionDag` | the DAG that both files hold (`models.py`, `dag.py`) | nodes with ids, edges, the current id; what `from_json` refuses; append, the chain of parents |
| `Ontology` | `models.py`, `types.py`, `build.py`, `parser.py`, `env_match.py` | claims with references, environments and status; what the validators accept; what a YAML source becomes |
| `Producers` (extends `Ontology`) | the five producers | what each makes of the ways its tests end: the keys that passed, those that failed, whether it purges |
| `TestResults` (extends `VersionDag`, `Producers`) | contents of the results file | `Add`, `PurgeFailed`, `Prune` are the functions of `dag.py` and of the matrix |
| `DagTransaction` (extends `TestResults`) | both transactions with their writers | one action per step that can fail or be cut off; `Kill` between any two; a behaviour is about one of the two files |
| `Audit` (extends `TestResults`) | the audit with its flags, the history of commits, the developer who moves HEAD, the runs that record passes | one operator per function of `resolver.py`, `consistency.py`, `freshness.py`, `perf_budget.py`, `git_helpers.py` and per pass of `audit.py`; a run is two steps, so HEAD moves while tests run; a producer's transaction is one step |
| `Ledger` | abstract specification of `DagTransaction` | a batch is in, in one step, or not at all; the ontologies in the order of their builds |
| `TopKPipelineProofs`, `DrainProofs`, `LifecycleProofs`, `TestResultsProofs`, `DagTransactionProofs`, `AuditProofs` | theorems about the module each is named for and those it extends | see Proofs |
| `CaptureProofs` | theorems about `ReqTracker` and `RawDump` | see Proofs |
| `MomentsProofs` | theorems about `PebayBpf`, `U128` and `Verdict` | see Proofs |

`MC*` modules give constants their values for TLC. A definition `X_Word` with the comment "Mutant"
is `X` with a plausible mistake; nothing uses it, it is there to see that a property notices.

What is abstracted: samples are identities or small numbers; doubles are exact fractions (rounding
is left out); `exp(-log2(r)^2/2)` is compared through equivalent bounds on `r`; texts, printing and
argument parsing are left out. In `Verdict` the six signals that need m3, m4 or the reservoir have
open bands: at most one of them is not GREEN at a time, each with every status it can give. They
are guarded exactly as in the code for want of data or of the fourth moment.

## Runs

Deadlock is not checked: a run of the tool, a call or a set of producers ends. That they end where
they should is stated as a property (`RunEnds`, `EveryoneFinishes`).

| Run | Bounds | Shows |
|---|---|---|
| `MCTopKPipeline` | K = 2, 2 CPUs, values 1..3, 4 samples, 2 windows | `ReservoirsExact`: every reservoir on the way holds the K greatest of its samples, ties included; `HillSeesKLargest`: so does the estimator's, over all samples not lost to the reset |
| `MCDrain` | 2 CPUs, 2 samples, a summary of 2 words and a reservoir of 1, 2 windows | `CleanWindowsExact`: a window no update overlapped is exact; `QuietDrainRepairs`: an overlap's damage is gone after one quiet drain |
| `MCCapture` | 3 requests, 2 entries, clock to 5, saturation at 3; 3 samples on 2 CPUs, room for 2, 2 drains | of `ReqTracker`: `LatencyIsOwn`, `OneSamplePerIssue`, `EntriesInFlight`; of `RawDump`: `ReportIsDumpedOrLost`: a sample of the report is in the file once, counted in a short write, or one of three kinds that nothing counts, and both counters are right; `OnlyLastWindowIsMissing`: a report with status 0 lacks nothing that a periodic drain found |
| `MCLifecycle` | 2 programs, every failure; 1 or 2 s of 4 units, windows of 1, 2, 3 and 5 units, clock to 11 | `EverythingReleased`, `StatusTellsReport`; `WindowsKeptInOrder`, `StopWithinWindow`; `RunEnds` |
| `MCPebayBpf` | streams of up to 5 values below 8, eighths of a ns, m2 in [-64, 63], m3 and m4 in [-4096, 4095]; limbs of 3 bits: all operands of a division and of a product of words, of the others all low words, and high words at the ends of the signed and unsigned ranges | `MeanWithinSamples`, `M2WithinSpread`, `SumsAccurate`, of a streamed summary and of one merged from two parts: the mean stays between the samples, m2 within their spread, each sum of powers near the true one; `MeanAccurate`: n samples cost the mean (n - 1) / 2 of its units at most; `MomentsExact`: the reference, streamed or merged from two parts split anywhere, is the two-pass definition; `OracleAgrees`: so is the oracle, readouts included, and merging an object with itself doubles it; `DoubleWordsExact`: the 128-bit operations are those of integers modulo the width |
| `MCVerdict` | periodic rings of up to 16 windows, irregular ones of up to 9 | `OverallIsWorst`, `GreenIsEarned`, `HiddenPeriodFlagged` |
| `MCDagTransaction` | 2 writers that run again, 3 transactions in all; of results 2 keys, one of them purged by its producer, 2 commits, 2 nodes kept; of the ontology 5 sources, 2 of them refused | `ReaderSeesWholeDag`, `TempFilesRemoved`, `RerunIsNoOp`, `ImplementsLedger`, `EveryoneFinishes` |
| `MCAudit` | 4 commits in a diamond, 2 files of 2 contents and one in the working tree only (one file may come late), 5 ontologies, 2 runs | `GateMeansTested`: with no gap, every test of a tested claim has passed on the contents its claim's files have at HEAD; `TestedClaimsHaveEvidence`: no tested claim passes without a test that exists and a record that HEAD descends from; `RunAtHeadClears`: a run of everything at HEAD leaves no gap |

`MCCapture` explores its two modules one at a time: they share nothing but that a sample taken is a
completion begun, and in `RawDump` a completion may begin whenever it likes, so their product would
have every pair of their states and show no more.

Why the bounds are enough for the cases that matter: K = 2 has a reservoir that is filled, is full
and displaces, and a minimum that moves; two CPUs and two windows have every first, middle and last
step of the loops; the words of `PebayBpf` are so narrow that m2 and the products beneath m3 and m4 do leave them,
which the properties exclude by stating their window; limbs of three bits need both corrections of Knuth's
estimate and the last three tests of `u64_clz` (a property over all operands, asked once, in the initial state of `MCPebayBpf`); windows of 3 and 5 units neither divide the duration nor fit in it; three
transactions of two producers overtake each other, fail and are killed in every order; with 2 nodes
kept pruning happens and the chain keeps an edge.

In `MCAudit` a diamond (two branches of one commit and their merge) has every assignment of two
contents to two files, among them lines of commits, as HEAD need not go through the merge; two runs
are enough for a pass to be overwritten by one of an older commit or of another branch, or to outlive
a failure. The ontologies are one with a tested claim and a tested budget, one with an implemented
budget in the other direction, and three with what the static pass is for: no test, a blank test, a
deviation without a rationale.

### Where code and comments differ

Four runs check a statement of the repository and find it violated.

| Run | Statement | What happens |
|---|---|---|
| `MCDrainLoses` | `src/iomoments.c` 60-70: what races with the drain is lost, a few samples | an update that loaded before the zeroing stores after it, and the samples of the window come again |
| `MCRawDumpOverflow` | `src/iomoments.c` 125-126: the overflow of the ring buffer is tracked by libbpf and surfaced by `ring_buffer__free` | the completion program ignores that `bpf_ringbuf_output` failed (its own comment, `src/iomoments.bpf.c` 222-224, says silently dropped) and the end of the run prints two counters of what userspace saw; a sample of the report is missing in the dump and no number tells |
| `MCPebayBpfBounds` | `src/pebay_bpf.h` 173-175: 128-bit intermediates stay in bounds | a stall after some fast completions overflows the fourth moment; compiled, 20 samples of 100000 and one of 2147483647 give 1.29e36 for 1.75e37 |
| `MCAuditFailing` | `tooling/c_test_producer.py` 11-15: the references of a binary that fails become gaps of the audit | nothing removes the pass recorded before; where its files have not changed since, the gate still exits 0 |

The models follow the code, not the comment, in these places, too; no run is spent on them:

* `src/iomoments_level2.h` 53-55: a window's reservoir is that of its summary's window. The maps are
  drained one after the other; a completion between the two drains is in neighbouring windows.
* `src/iomoments_level2.h` 50-52: `end_ts_ns` is the time the drain finished. It is the scheduled
  wakeup, but for the last window.
* `src/iomoments.c` 817: `--duration` is the observation window. The loop ends up to a window early
  where the window does not divide it.
* `src/iomoments.c` 832: every latency is in the dump. Not those between the attach and the switch.
* `src/iomoments.c` 476-482: `run_drain_loop` returns `SIZE_MAX` on a hard error. Not where the final
  drain fails: its window, of which the summaries may have been reset already, is left out and the
  others are reported with status 0. `OnlyLastWindowIsMissing` says that no other window may be.
* `src/pebay_bpf.h` 67-68: the mean agrees to about one unit in the last place and converges to
  bit-exact. Every quotient may lose almost a unit, and what is lost does not go away: `MeanAccurate`
  states the bound that holds, (n - 1) / 2 units, which is little (a nanosecond after 2^33 samples)
  but grows.
* `src/pebay_bpf.h` 69-70: at most 1 ns^2 per sample is lost of the variance. The loss grows with the
  deviation: `SumsAccurate` has it below the spread per sample, for m3 and m4 below its square and
  its cube, as long as the samples are no more than the units of the mean. For a spread of a few
  ns that is more than the moment itself: 38 samples of 0 and 2 ns in some order leave m4 = -63. A
  merged m2 can exceed a quarter of the squared spread per sample, as it is made from means rounded
  down to whole ns.
* `tests/c/test_pebay_bpf.c` 157-160: the mean of a merged summary is off by half a ns. Both
  means are rounded down to whole ns first and their weighted mean once more: by almost 2 ns.
* `src/iomoments_verdict.h` 219: no variance means a constant stream. 0 and 1 ns have m2 = 0.
* `src/iomoments_level2.h` 116-117: a variance ratio of 2 flags yellow, one of 4 amber. The
  thresholds 0.5 and 0.1 give GREEN and YELLOW.
* `src/iomoments_level2.h` 138: Pearson form. The code's quotient can exceed 1 for short rings.
* `DECISIONS.md` (D015): a claim is tested if a pass is at or after its files' last change. The gate
  cannot see that the pass was on edits never committed, that HEAD moved while the tests ran
  (`conftest.py` reads it when the session ends, `c_test_producer.py` before the tests), or that a
  merged branch changed a file and changed it back (`git log -1 HEAD -- f` follows the parent that
  has the same contents). `GateMeansTested` excludes these three; drop a premise and TLC finds it
  violated.
* `perf_budget.py`: the latest measurement is compared. Measuring again at the same commit keeps the
  first record (`dag.py` 459), so it is the first at that commit.
* `dag.py` 432: the latest passing observation is kept. The last to get the lock wins, whenever it
  captured; and a run on an older checkout replaces the pass of a newer one.
* `tooling/aws_tracer_producer.py`: a verdict that fails keeps its old pass, as in the C tests. The
  result files it reads may be old; they are recorded at the commit checked out now, as its docstring
  admits (so is the summary `perf_producer.py` reads). "Exit 0 always", but `emit` catches nothing.
* `tooling/vmtest_matrix_producer.py`: an object that was not built counts as one every kernel
  rejected, and purges what was recorded, though records of what was not tested are said to stay.
* `tooling/c_test_producer.py` 9-10: every function a source defines passed. One that `main` does
  not call is recorded as passed, too.
* `audit_ontology/cli.py`: a bad path of a DAG is a tooling error, 2. A DAG that is not there is an
  empty one, and without claims there is no gap: 0.
* `audit_ontology/freshness.py`: a reference is looked up as it is spelt, so `path:name` and
  `path::name` are different tests; claims that are `implemented` and environments that are none are
  never asked for a pass, and a reference that is blank counts as one in `consistency.py`.
* The static pass reads the working tree, the freshness pass HEAD. A push with uncommitted edits is
  judged by two trees.
* `build.py` 103: the source is read before the lock. Of two builds the one that waited appends what
  it read earlier, the older source, after the newer. The ledger allows it.
* `build.py`: an empty source is an ontology without claims, not an error.

## Fairness

`Lifecycle`: the clock runs and the process is scheduled (weak fairness of `Clock` and of `Run`, the
steps of `main` and of the loop). Nothing obliges a signal to come or a sleep to fail, so neither is
fair.

`DagTransaction`: a writer within its transaction is scheduled (weak fairness of `Step` per
writer). Nothing obliges a run to begin or a kill to come. `flock` promises no order, so a
writer could in principle be overtaken for ever by others; it is not here because the number of
transactions is bounded (`Times`), as it is in a session of tests. What `EveryoneFinishes` rules out
is a lock nobody gives back.

## Proofs

All theorems are about the specifications as they are, for every value of the constants that the
named assumptions admit; TLC evaluates these assumptions in the runs. Each invariant below named
`IInv` was first checked by TLC on the run's instance, then proved inductive with one lemma per
action.

### Top-K: `TopKPipelineProofs`

The first part proves about the operators of `TopK`, for every K > 0 and every reservoir of any
naturals, that `Insert` keeps a well-formed reservoir well formed and counts as it should: of the
samples at least v, it holds as many as were fed, up to K. From there, with `KAssumption` and
`PipelineAssumption`:

* `InductiveInvariant`: `Spec => []IInv`.
* `TypeCorrect`: `Spec => []TypeOK`.
* `KLargestKept`: `Spec => []ReservoirsExact`.
* `SamplesConserved`: what was sampled is in the CPUs' reservoirs, in the windows, in the merge under
  way or among what was lost (it completed between a CPU's lookup and its reset, which zeroed it
  unread), and nowhere twice.
* `HillReadsKLargest` (`HillSeesKLargest`), from the two before.

`ReservoirsExact` alone is not inductive: a merge stops between two samples, when the destination
holds the K greatest of what it had and of a prefix of its source. `IInv` says that (`HalfMerged`),
that the source is itself sound while it is read, and that `min_idx` is a least slot when the
reservoir is full. `StartMerge`, `StepMerge` and `EndMerge` are used for the drain and for the
verdict. `HillSeesKLargest` is about sums over all CPUs; `Conserved` is a balance of sums over
CPUs and windows (`ConservedAt`), which a lookup moves from one sum into another and a merge only
within the window.

### Timestamps: `CaptureProofs`

For every set of requests, capacity and saturation limit, from
`TrackerAssumption` alone, all that `MCCapture` checks of `ReqTracker`: `TypeCorrect`, `NoEntryLeftBehind`
(`EntriesInFlight`), `LatencyIsOwnHolds` and `OneSampleHolds`. What makes them inductive is
`EntryIsOwn`: an entry of a request in flight is the time of that request's last issue, which the
program saw and has not sampled. It survives a full map because a failed update leaves no entry,
and a reused pointer because `BPF_ANY` replaces what a skipped completion left behind; and
`NoEntryBeforeAttach` gives that a request issued before the attach has none.

### Drain: `DrainProofs`

For every number of CPUs, any fields and any windows (`DrainAssumption`), all that `MCDrain` checks:
`DrainTypeCorrect`, `DrainCleanWindowsExact` and `QuietDrainRepairsCells`. A clean window is a
statement about the past; `IInv` says of each word at each moment of the drain what it accounts for:

* `Settled`: a value no overlap has touched holds, in every word, what completed since the last
  zeroing, and a word loaded and not yet stored was right when it was loaded;
* `GapIsQuiet`: between copy and zeroing of a CPU a program inside an update is an overlap;
* `ZeroedStaysZero`: what a quiet drain has zeroed, word by word, stays so until it is done. This is
  what repairs: the words need not have been right before;
* `CopiesRight`: the words copied so far are those of the value as it was.

### Life cycle: `LifecycleProofs`

The first part has a lemma per statement of `run_drain_loop`, the second composes
them with `main`, for every duration, window, clock and number of programs (`LoopAssumption`,
`LifecycleAssumption`):

* `RingNeverFull` (`WindowsKeptInOrder`): the invariant counts the windows by the schedule,
  `next_wakeup = start + count * window`, one window more once the loop has stepped it; as the loop
  goes on only within the duration, `count` never exceeds the quotient `ring_capacity` is made
  from (`QuotientBounds`). TLC sees a few pairs of duration and window; the remainder of one by the
  other is arbitrary here.
* `StopsInTime` (`StopWithinWindow`): the wakeup armed is at most a window ahead of the clock, and
  a drain after the signal leads to the test that ends the loop.
* `ReleasedOnce` (`EverythingReleased`): what is held is a function of the place in `main` and of
  `--dump-raw` (`HeldAt`), so each failure's list of releases is neither short nor long.
* `StatusIsTrue` (`StatusTellsReport`): `Told` says what `main` knows at each place of the object
  it loaded and of how the loop ended.
* `TypeCorrect`.

### Raw dump: `CaptureProofs`

For any samples, CPUs, drains and room in the ring buffer (`RawDumpAssumption`), both properties of
`RawDump` that `MCCapture` checks, from one invariant (`DumpInvariant`):

* `Placed`: a sample that began is half done, refused, early, lost in a short write, or kept (in the
  buffer or the file), and what is kept is none of the others;
* `Counted`: no sample is kept twice, for the kept ones are as many as the two sequences are long, and
  each counter is the number of the samples it stands for;
* `Ends`: once the residual poll has begun, what the report has and the file has not is in the buffer
  that is polled, or of the kinds above. `ReportIsDumped` (`ReportIsDumpedOrLost`) is this and the
  counts at the end of a run;
* `Stored`: while no hard error is known, what periodic drains found is in the report, which is
  `OnlyLastWindowLost` (`OnlyLastWindowIsMissing`).

### BPF moments: `MomentsProofs`

For words of any width, any scale of the mean, any latencies below `Limit` and any number of samples,
from `PebayAssumption` (the words hold a latency in fixed point):

* `SummaryKeepsWidths` (`SummaryTyped`), `MeanStaysWithin` (`MeanWithinSamples`), `MeanStaysAccurate`
  (`MeanAccurate`), `M2StaysWithin` (`M2WithinSpread`).

`BpfInv` (`BpfInvariant`) is the link from behaviours to streams: the summary is what `Updated` makes,
one after the other, of the samples since the last reset (`StreamedBpf`). What that is, is proved by
induction along the stream, for a function that is a loop (`LoopInduction`, `LoopExists`; the
recursive functions of the model are total because the loop is). One step of the update keeps
`Within` the bounds (`UpdatedWithin`): a quotient truncated towards zero moves the mean towards the
sample and never past it, so the deviations before and after have one sign, their product is not
negative and at most the square of the spread, and no word wraps. A merge starts from two streams that
are within bounds (`PartsAre`), and its own term is at most a quarter of a square per sample
(`MergedIs`, as the product of two counts is at most a quarter of the square of their sum). `CountsFit`
is the premise for a merge: its products of counts, and of a count and a mean, are signed words, which
they are for up to 2^32 samples. Within `MeanAccurate` the loss is counted per quotient.

### 128-bit arithmetic: `MomentsProofs`

`ArithmeticIsExact` is `ArithmeticExact` for limbs of 1 to 32 bits (`BitsAssumption`; the code has 32,
and wider words would need a seventh test in `u64_clz`) and all operands,
`DoubleWordsAreExact` the same as an invariant of `BpfSpec`. Sums, negations and products are shown by
what a pattern of two words stands for, the integers that differ by a multiple of its width (`Stands`):
each operation stands for the operation on integers, whatever carries it drops (`AddIs`, `SubIs`,
`NegateIs`, `ProductOfWords`), and of the integers one pattern stands for all have the same `Pattern`
(`StandsAlone`). `EdgesAssumption` says only that `Edges` are words.

A division is Knuth's Algorithm D with two limbs. Each of the six tests of `u64_clz` halves the number
of bits that may still be clear at the top (`ShiftOutIs`), so that the last leaves none (`ClzIs`).
`NormalizedIs`: the divisor is shifted until its top bit is set, the dividend with it, and nothing is
shifted out. `DigitIs`: an estimate is too big, in the sense of the loop's test, exactly when its product by the divisor exceeds the
dividend; the first one is not below the digit and at most two above it, because the top bit is set;
and a loop that stops for a remainder of a limb or more stops at the digit. So two
corrections suffice, which the comment in the source takes from the book. `DigitsAre` and `InnerIs`
put the digits together; the subtraction between them, which wraps, returns a number below the
divisor.

The prover knows nothing of powers with a variable exponent. That 2^(n + 1) is twice 2^n is derived
from the library's theorem on the number of subsets, as those of 1 .. n + 1 are two copies of those of
1 .. n (`PowerDoubles`).

### Verdict: `MomentsProofs`

For any rings of windows, thresholds and bound of the sweep, with room for as many signals as there
are evaluators (`VerdictAssumption`; the code has room for just these twelve), all that `MCVerdict`
checks: `VerdictTyped`, `VerdictIsWorst` (`OverallIsWorst`), `VerdictGreenIsEarned` (`GreenIsEarned`)
and `VerdictFlagsPeriod` (`HiddenPeriodFlagged`). `IInv` (`VerdictInvariant`) says

* `Computed`: what Level 2 left is what it computes from the ring;
* `Doubling`: the first three points are of the sizes 1, 2 and 4, and the size that comes next is known
  up to there;
* `Swept`: every point is what the sweep computes of its size, the point marked as the least has a
  ratio of 0 if any has, and evaluation starts only when the sweep cannot go on;
* `Signalled`, `Worst`: the report has the signal of every evaluator that has run and speaks, and no
  other, and `overall` is their greatest.

That every fraction has a positive denominator needs Euclid's algorithm (`GcdWith`) to return a
positive common divisor, by induction over its second argument. `HiddenPeriodFlagged` is not a matter
of sums of products, as it first seems: where windows repeat every 2 or 4, the virtual windows of that
size are equal one by one (`Block`), so their means are pooled from equal means, the variance of the
means is 0 and so is the ratio, whatever the windows hold; what remains is that the sweep reaches that
size and takes a ratio of 0 for the least.

### DAG files: `TestResultsProofs`, `DagTransactionProofs`

`TestResultsProofs` has the facts about `VersionDag` and `TestResults` for histories of any length.
Every DAG the code makes is `Linear`: nodes in order of their parents, an edge per neighbour, the
last one current. On such a DAG the walk along parents is the nodes backwards (`LinearParentChain`),
so `from_json` finds one chain (`LinearIsChain`), an append keeps it (`SaveLinear`), and pruning keeps
its last `KeepLast` nodes and the edges between them (`PruneLinear`). What the producers report is a
batch (`ReportTyped`), and to add what is there changes nothing (`NothingNewAdded`).

`DagTransactionProofs` then proves, for any writers, keys, commits, sources and `KeepLast` > 0
(`TestResultsAssumption`, `KeysAssumption`), all safety properties of `MCDagTransaction`:

* `TransactionTypeCorrect`, `ReadersSeeWholeDags`, `NoTempFilesLeft`, and the action property
  `RerunsAreNoOps` (`RerunIsNoOp`).
* `TransactionsImplementLedger` (`ImplementsLedger`): initial states map to initial states, and each
  step to one of `Ledger` or to none. Only the rename is a step of the ledger. That it is the step of
  *its* batch on what the ledger holds is `UpToDate` in `IInv`: who has the lock works on what the
  file holds, which needs that nobody else renames (`OneHolder`). `Unrecorded` says that a batch takes
  effect once.

### Audit: `AuditProofs`

For every set of histories (commits with at most two parents, each after its parents), contents,
files, ontologies and keys, from `AuditAssumption`, `KeysAssumption` and `TestResultsAssumption`,
all that `MCAudit` checks: `AuditTypeCorrect`, `GateIsSound` (`GateMeansTested`), `RunClearsTheGate`
(`RunAtHeadClears`) and `NoLieIsTested` (`TestedClaimsHaveEvidence`).

`TypeOK` is inductive as it stands, and what the three properties say follows from it by facts about
histories, for the audit keeps no state. `Ancestors` and `LastTouchFile` are
recursive functions over the commits; that they are total (`AncExists`, `TouchExists`) and what they
give is proved by induction over the commits. `SameSinceTouch` is the heart of it: from the last touch
of a file up to HEAD along a line of first and only parents the contents are the same, so a
pass at or after the touch was on the contents of HEAD. This is where the premise `NoMergeSince` of
`GateMeansTested` is needed: `git log -1 HEAD -- f` follows the parent of a merge that has the same
contents, and the commit tested may lie on the other side.

The proof also found a flaw of an earlier form of the model: the guards of three CASEs in `Audit`
overlapped, and TLC takes the first that is true where TLA+ takes any. They are IFs now, in the order
of the code.

### With TLC only

* Liveness (`RunEnds`, `EveryoneFinishes`): out of the prover's reach.
* `SumsAccurate`: it compares m2, m3 and m4 with sums of powers of fractions; to follow what each
  truncation of the update costs one of them takes products of four and more factors and the laws of
  fractions in lowest terms, which the solver does not have.
* `MomentsExact`, `OracleAgrees`: identities between polynomials of degree four in fractions, folded
  over the samples; out of reach for the same reason.
* The four statements that are refuted are, of course, not proved.

The induction theorems of the library take an operator as their parameter, which the provers cannot
instantiate; where an induction is needed it is over a set of naturals (`SetInduction`: a set that
has 0 and with each number the next has all of them). The lemma is in
each of `TopKPipelineProofs`, `TestResultsProofs` and `MomentsProofs`, which share no module.

## Not modelled

* Report printing (`src/iomoments.c`, `audit_ontology/formatter.py`) and argument parsing: no state
  that a later step reads, but for the exit statuses, which are modelled.
* `s128_to_double` and all rounding of doubles: the moments of `Moments` and `Oracle` are exact, so
  what cancellation does to them in double precision is out of reach.
* The kernel, libbpf, git, the file system and the tests themselves: external. A crash of the machine
  is not modelled: `save_test_results_dag` does not sync its temporary file before the rename, and
  what is left then is the file system's choice.
* Calls of git that fail: each helper then gives the answer that adds a gap.
* Labels, texts of decisions, recipes: no operation depends on them.
* Shell scripts, `Makefile` but for the flags of the gate, packaging and hooks: linear sequences of
  external commands.

## Plan

The modules above are written in this order: what a latency becomes (`TopK`, `TopKPipeline`,
`Drain`, `ReqTracker`), the process around it (`DrainLoop`, `Lifecycle`, `RawDump`), arithmetic
(`Moments`, `PebayBpf`, `U128`), judgement (`Analysis`, `Verdict`), records
(`VersionDag`, `Ontology`, `Producers`, `TestResults`, `DagTransaction`, `Ledger`, `Audit`), the
oracle (`Oracle`). To come, most important first:

1. Theorems: `SumsAccurate` for m2 alone; the laws of fractions in lowest terms, as a first step to
   `MomentsExact`.
2. A composition of `ReqTracker`, `TopKPipeline` and `DrainLoop`: from issue to report.
3. The statuses that the six open evaluators of `Verdict` give, as functions of the moments.
