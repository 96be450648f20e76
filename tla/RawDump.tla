-------------------------------- MODULE RawDump -------------------------------
(***************************************************************************)
(* The raw-sample dump of --dump-raw-samples: the completion program feeds *)
(* its summary and then, where iomoments_config[0] is set, a ring buffer;  *)
(* userspace polls the buffer after each drain of the summaries and writes *)
(* what it finds to a file.  The programs are attached before the switch   *)
(* is set; a full buffer, a short write and the end of the run lose        *)
(* samples on the one path and not on the other.                           *)
(*                                                                         *)
(* A drain is one step here (its race is module Drain); a completion is    *)
(* two, one for each path, so that drains and polls fall between them.     *)
(***************************************************************************)
EXTENDS Naturals, Sequences, FiniteSets

CONSTANTS Samples,     \* identities of the completions of a behaviour
          Running,     \* CPUs: how many completions may overlap
          Capacity,    \* samples iomoments_raw_samples has room for
          MaxDrains    \* bound: periodic drains

ASSUME RawDumpAssumption ==
  /\ Running \in Nat \ {0}
  /\ Capacity \in Nat
  /\ MaxDrains \in Nat

VARIABLES
  pc,            \* what main is about to do
  config,        \* iomoments_config[0]
  summary,       \* samples in the per-CPU summaries
  report,        \* samples in the windows stored
  halfDone,      \* completions between their summary and their output
  buffer,        \* iomoments_raw_samples
  polling,       \* whether a poll of the buffer is under way
  file,          \* the samples written to the file
  samples_written, samples_lost,
  hardError,     \* whether run_drain_loop returned SIZE_MAX
  drains,        \* periodic drains so far
  started,       \* history: completions begun
  early,         \* history: those that found the switch off
  overflowed,    \* history: those the full buffer refused
  unwritten,     \* history: those of the short writes
  late,          \* history: those half done at the residual poll
  drained        \* history: those a periodic drain found in the summaries

userVars == <<pc, config, report, polling, file, samples_written, samples_lost,
              hardError, drains, drained, unwritten>>
dumpVars == <<userVars, summary, halfDone, buffer, started, early, overflowed,
              late>>

loopVars == <<polling, hardError, drains, drained>>
fileVars == <<file, samples_written, samples_lost, unwritten>>

Elements(s) == {s[i] : i \in 1 .. Len(s)}

DumpInit ==
  /\ pc = "attach" /\ config = FALSE
  /\ summary = {} /\ report = {} /\ halfDone = {}
  /\ buffer = << >> /\ polling = FALSE /\ file = << >>
  /\ samples_written = 0 /\ samples_lost = 0 /\ drains = 0
  /\ hardError = FALSE /\ drained = {} /\ unwritten = {}
  /\ started = {} /\ early = {} /\ overflowed = {} /\ late = {}

Attached == pc # "attach" /\ pc # "done"

-------------------------------------------------------------------------------
(* iomoments_rq_complete: iomoments_summary_bpf_update. *)
UpdateSummary(k) ==
  /\ Attached
  /\ k \notin started
  /\ Cardinality(halfDone) < Running
  /\ started' = started \cup {k}
  /\ summary' = summary \cup {k}
  /\ halfDone' = halfDone \cup {k}
  /\ UNCHANGED <<userVars, buffer, early, overflowed, late>>

(* iomoments_rq_complete: bpf_ringbuf_output.  Nothing looks at what it    *)
(* returns, so that a refusal leaves no trace but in the history.          *)
OutputSample(k) ==
  /\ Attached
  /\ k \in halfDone
  /\ halfDone' = halfDone \ {k}
  /\ IF ~config
     THEN early' = early \cup {k} /\ UNCHANGED <<buffer, overflowed>>
     ELSE /\ UNCHANGED early
          /\ IF Len(buffer) < Capacity
             THEN buffer' = Append(buffer, k) /\ UNCHANGED overflowed
             ELSE overflowed' = overflowed \cup {k} /\ UNCHANGED buffer
  /\ UNCHANGED <<userVars, summary, started, late>>

DumpAttach ==
  /\ pc = "attach"
  /\ pc' = "enable"
  /\ UNCHANGED <<config, report, loopVars, fileVars>>
  /\ UNCHANGED <<summary, halfDone, buffer, started, early, overflowed, late>>

(* raw_dump_setup sets the switch, long after the programs are attached. *)
Enable ==
  /\ pc = "enable"
  /\ pc' = "loop" /\ config' = TRUE
  /\ UNCHANGED <<report, loopVars, fileVars>>
  /\ UNCHANGED <<summary, halfDone, buffer, started, early, overflowed, late>>

TakeWindow == report' = report \cup summary /\ summary' = {}

(* A periodic drain, and the poll after it starts. *)
Drain ==
  /\ pc = "loop" /\ ~polling
  /\ drains < MaxDrains
  /\ drains' = drains + 1
  /\ TakeWindow /\ drained' = drained \cup summary
  /\ polling' = TRUE
  /\ UNCHANGED <<pc, config, hardError, fileVars>>
  /\ UNCHANGED <<halfDone, buffer, started, early, overflowed, late>>

(* handle_raw_sample; fwrite may fall short. *)
HandleRawSample ==
  /\ polling /\ buffer # << >>
  /\ buffer' = Tail(buffer)
  /\ \/ /\ file' = Append(file, Head(buffer))
        /\ samples_written' = samples_written + 1
        /\ UNCHANGED <<samples_lost, unwritten>>
     \/ /\ samples_lost' = samples_lost + 1
        /\ unwritten' = unwritten \cup {Head(buffer)}
        /\ UNCHANGED <<file, samples_written>>
  /\ UNCHANGED <<pc, config, report, loopVars, summary, halfDone>>
  /\ UNCHANGED <<started, early, overflowed, late>>

(* ring_buffer__poll returns once it has caught up with the producers. *)
EndPoll ==
  /\ polling /\ buffer = << >>
  /\ polling' = FALSE
  /\ UNCHANGED <<pc, config, report, hardError, drains, drained, fileVars>>
  /\ UNCHANGED <<summary, halfDone, buffer, started, early, overflowed, late>>

(* A drain fails at the summaries, or after it has reset them. *)
LoseWindow == summary' \in {summary, {}}

(* Mutant: the failure is ignored, as that of the final drain is. *)
DrainFails_Ignored ==
  /\ pc = "loop" /\ ~polling
  /\ drains < MaxDrains
  /\ drains' = drains + 1
  /\ LoseWindow /\ drained' = drained \cup summary
  /\ polling' = TRUE
  /\ UNCHANGED <<pc, config, report, hardError, fileVars>>
  /\ UNCHANGED <<halfDone, buffer, started, early, overflowed, late>>

(* A periodic drain fails: run_drain_loop returns SIZE_MAX from there,     *)
(* with no final drain and no residual poll, and main prints no report.    *)
DrainFails ==
  /\ pc = "loop" /\ ~polling
  /\ LoseWindow /\ drained' = drained \cup summary
  /\ hardError' = TRUE /\ report' = {}
  /\ pc' = "teardown"
  /\ UNCHANGED <<config, polling, drains, fileVars>>
  /\ UNCHANGED <<halfDone, buffer, started, early, overflowed, late>>

(* The loop ends.  Where the final drain fails its window is not stored,   *)
(* and that is all: the other windows are reported, with status 0.         *)
FinalDrain ==
  /\ pc = "loop" /\ ~polling
  /\ TakeWindow \/ (LoseWindow /\ UNCHANGED report)
  /\ pc' = "final"
  /\ UNCHANGED <<config, loopVars, fileVars>>
  /\ UNCHANGED <<halfDone, buffer, started, early, overflowed, late>>

(* Mutant: the residual is left in the buffer. *)
ResidualPoll_Skipped ==
  /\ pc = "final"
  /\ pc' = "teardown"
  /\ late' = halfDone
  /\ UNCHANGED <<config, report, loopVars, fileVars>>
  /\ UNCHANGED <<summary, halfDone, buffer, started, early, overflowed>>

ResidualPoll ==
  /\ pc = "final"
  /\ pc' = "teardown"
  /\ polling' = TRUE
  /\ late' = halfDone
  /\ UNCHANGED <<config, report, hardError, drains, drained, fileVars>>
  /\ UNCHANGED <<summary, halfDone, buffer, started, early, overflowed>>

(* raw_dump_teardown prints the two counters; ring_buffer__free tells      *)
(* nothing.  The exit detaches the programs.                               *)
Teardown ==
  /\ pc = "teardown" /\ ~polling
  /\ pc' = "done"
  /\ UNCHANGED <<config, report, loopVars, fileVars>>
  /\ UNCHANGED <<summary, halfDone, buffer, started, early, overflowed, late>>

DumpNext ==
  \/ \E k \in Samples : UpdateSummary(k) \/ OutputSample(k)
  \/ DumpAttach \/ Enable \/ Drain \/ HandleRawSample \/ EndPoll \/ DrainFails
  \/ FinalDrain \/ ResidualPoll \/ Teardown

DumpSpec == DumpInit /\ [][DumpNext]_dumpVars

-------------------------------------------------------------------------------
(***************************************************************************)
(* When a run is over, each sample of its report is in the file, or was    *)
(* counted as lost in a short write, or is one of three kinds that nothing *)
(* counts: it completed before the switch was set, was still half done     *)
(* when the residual poll began, or came when the buffer was full.  Of     *)
(* the first two the counters are right, and no sample is both or twice.   *)
(***************************************************************************)
ReportIsDumpedOrLost ==
  pc = "done" =>
    /\ report \subseteq UNION {Elements(file), unwritten, early, late, overflowed}
    /\ samples_written = Cardinality(Elements(file)) /\ Len(file) = samples_written
    /\ samples_lost = Cardinality(unwritten)
    /\ Elements(file) \cap UNION {unwritten, early, overflowed} = {}

(***************************************************************************)
(* What a report lacks without a word, with exit status 0, is of the last  *)
(* window: where a drain before that failed, halfway or at once, there is  *)
(* no report, so one that is printed has every sample that a periodic      *)
(* drain found, even if the final drain fails.                             *)
(***************************************************************************)
OnlyLastWindowIsMissing ==
  pc = "done" /\ ~hardError => drained \subseteq report

(***************************************************************************)
(* The comment on iomoments_raw_dump says of a full buffer: "The           *)
(* ringbuf-side overflow is tracked by libbpf internally and surfaced via  *)
(* ring_buffer__free's epilogue".  Then what a run prints at its end, the  *)
(* two counters, would be enough for the samples of its report that were   *)
(* put out after the switch and before the residual poll.                  *)
(***************************************************************************)
OverflowIsSurfaced ==
  pc = "done" /\ ~hardError =>
    Cardinality(report \ (early \cup late)) <= samples_written + samples_lost
===============================================================================
