----------------------------- MODULE TopKPipeline -----------------------------
(***************************************************************************)
(* The path of a latency from a completion to the Hill estimator.  Each    *)
(* CPU's completion program inserts into that CPU's reservoir; userspace   *)
(* periodically copies every CPU's reservoir, merges the copies into the   *)
(* window's reservoir, zeroes the map and stores the window; at verdict    *)
(* time every stored window is merged into one global reservoir.           *)
(*                                                                         *)
(* The per-CPU copy and the per-CPU zeroing are steps of their own, so     *)
(* completions fall between them; a completion that lands after its CPU    *)
(* was copied and before it is zeroed is lost, as the header comment of    *)
(* iomoments.c says.  That a copy may also overlap one running insert is   *)
(* the subject of module Drain.                                            *)
(***************************************************************************)
EXTENDS TopK, Sequences

CONSTANTS NCPU,         \* libbpf_num_possible_cpus()
          Values,       \* the latencies completions can have
          MaxSamples,   \* bound: completions in a behaviour
          MaxWindows    \* bound: windows the ring has room for

ASSUME PipelineAssumption ==
  /\ NCPU \in Nat \ {0}
  /\ Values \subseteq Nat
  /\ MaxSamples \in Nat
  /\ MaxWindows \in Nat

CPUs == 0 .. (NCPU - 1)

VARIABLES
  cpu,        \* cpu[p]: the value of iomoments_topk_map on CPU p
  snap,       \* percpu_values, the copy userspace took
  out,        \* the window's merged reservoir
  ring,       \* the topk fields of the stored windows
  global,     \* the verdict's merged reservoir
  pc,         \* what userspace is doing
  idx,        \* outer loop index: a CPU, or a window at verdict time
  slot,       \* inner loop index of iomoments_topk_merge
  completed   \* bound counter: completions so far

(***************************************************************************)
(* History: fedX[v] counts the samples of at least v that went into X.     *)
(* The code keeps none of it; it is what the reservoirs are judged by.     *)
(***************************************************************************)
VARIABLES fedCpu, fedSnap, fedOut, fedRing, fedGlobal, lost, total

codeVars == <<cpu, snap, out, ring, global, pc, idx, slot, completed>>
fedVars  == <<fedCpu, fedSnap, fedOut, fedRing, fedGlobal, lost, total>>
vars     == <<codeVars, fedVars>>

Tally      == [Values -> Nat]
None       == [v \in Values |-> 0]
Bump(f, x) == [v \in Values |-> f[v] + IF x >= v THEN 1 ELSE 0]
Plus(f, g) == [v \in Values |-> f[v] + g[v]]
Less(f, g) == [v \in Values |-> f[v] - g[v]]

Init ==
  /\ cpu = [p \in CPUs |-> Zero]
  /\ snap = [p \in CPUs |-> Zero]
  /\ out = Zero
  /\ ring = << >>
  /\ global = Zero
  /\ pc = "lookup" /\ idx = 0 /\ slot = 0
  /\ completed = 0
  /\ fedCpu = [p \in CPUs |-> None]
  /\ fedSnap = [p \in CPUs |-> None]
  /\ fedOut = None /\ fedRing = << >> /\ fedGlobal = None
  /\ lost = None /\ total = None

-------------------------------------------------------------------------------
(* iomoments_rq_complete on CPU p measured latency x. *)
Complete(p, x) ==
  /\ completed < MaxSamples
  /\ completed' = completed + 1
  /\ cpu' = [cpu EXCEPT ![p] = Insert(@, x)]
  /\ fedCpu' = [fedCpu EXCEPT ![p] = Bump(@, x)]
  /\ total' = Bump(total, x)
  /\ UNCHANGED <<snap, out, ring, global, pc, idx, slot>>
  /\ UNCHANGED <<fedSnap, fedOut, fedRing, fedGlobal, lost>>

(* bpf_map_lookup_elem copies the CPUs' values one after the other. *)
Lookup ==
  /\ pc = "lookup"
  /\ Len(ring) < MaxWindows
  /\ snap' = [snap EXCEPT ![idx] = cpu[idx]]
  /\ fedSnap' = [fedSnap EXCEPT ![idx] = fedCpu[idx]]
  /\ IF idx + 1 < NCPU
     THEN idx' = idx + 1 /\ UNCHANGED <<pc, out, fedOut>>
     ELSE idx' = 0 /\ pc' = "merge" /\ out' = Zero /\ fedOut' = None
  /\ UNCHANGED <<cpu, ring, global, slot, completed>>
  /\ UNCHANGED <<fedCpu, fedRing, fedGlobal, lost, total>>

(* One iteration of the loop of iomoments_topk_merge(out, &snap[idx]). *)
MergeSample ==
  /\ pc = "merge"
  /\ slot < snap[idx].count
  /\ out' = Insert(out, snap[idx].samples[slot])
  /\ slot' = slot + 1
  /\ UNCHANGED <<cpu, snap, ring, global, pc, idx, completed, fedVars>>

(* Mutant: the last CPU is not merged. *)
MergeNext_SkipsLast ==
  /\ pc = "merge"
  /\ slot >= snap[idx].count
  /\ slot' = 0
  /\ fedOut' = Plus(fedOut, fedSnap[idx])
  /\ IF idx + 2 < NCPU THEN idx' = idx + 1 /\ UNCHANGED pc
                       ELSE idx' = 0 /\ pc' = "reset"
  /\ UNCHANGED <<cpu, snap, out, ring, global, completed>>
  /\ UNCHANGED <<fedCpu, fedSnap, fedRing, fedGlobal, lost, total>>

(* The loop ends; drain_and_reset_topk turns to the next CPU. *)
MergeNext ==
  /\ pc = "merge"
  /\ slot >= snap[idx].count
  /\ slot' = 0
  /\ fedOut' = Plus(fedOut, fedSnap[idx])
  /\ IF idx + 1 < NCPU THEN idx' = idx + 1 /\ UNCHANGED pc
                       ELSE idx' = 0 /\ pc' = "reset"
  /\ UNCHANGED <<cpu, snap, out, ring, global, completed>>
  /\ UNCHANGED <<fedCpu, fedSnap, fedRing, fedGlobal, lost, total>>

(* bpf_map_update_elem zeroes the CPUs' values; then the window is stored. *)
Reset ==
  /\ pc = "reset"
  /\ cpu' = [cpu EXCEPT ![idx] = Zero]
  /\ lost' = Plus(lost, Less(fedCpu[idx], fedSnap[idx]))
  /\ fedCpu' = [fedCpu EXCEPT ![idx] = None]
  /\ IF idx + 1 < NCPU
     THEN idx' = idx + 1 /\ UNCHANGED <<pc, ring, fedRing>>
     ELSE /\ idx' = 0 /\ pc' = "lookup"
          /\ ring' = Append(ring, out)
          /\ fedRing' = Append(fedRing, fedOut)
  /\ UNCHANGED <<snap, out, global, slot, completed>>
  /\ UNCHANGED <<fedSnap, fedOut, fedGlobal, total>>

(* A failing map call of a periodic drain: main frees the ring and exits. *)
DrainFails ==
  /\ pc \in {"lookup", "reset"} /\ idx = 0
  /\ pc' = "failed"
  /\ UNCHANGED <<cpu, snap, out, ring, global, idx, slot, completed, fedVars>>

(* iomoments_verdict_compute starts on the ring.  The last drain was a     *)
(* drain like the others, or one of its map calls failed: its window is    *)
(* not stored, and run_drain_loop ignores the failure.                     *)
StartVerdict ==
  /\ pc \in {"lookup", "reset"} /\ idx = 0
  /\ pc' = "verdict"
  /\ global' = Zero /\ fedGlobal' = None
  /\ UNCHANGED <<cpu, snap, out, ring, idx, slot, completed>>
  /\ UNCHANGED <<fedCpu, fedSnap, fedOut, fedRing, lost, total>>

(* One iteration of iomoments_topk_merge(&global_topk, &windows[idx].topk). *)
VerdictSample ==
  /\ pc = "verdict" /\ idx < Len(ring)
  /\ slot < ring[idx + 1].count
  /\ global' = Insert(global, ring[idx + 1].samples[slot])
  /\ slot' = slot + 1
  /\ UNCHANGED <<cpu, snap, out, ring, pc, idx, completed, fedVars>>

VerdictNext ==
  /\ pc = "verdict" /\ idx < Len(ring)
  /\ slot >= ring[idx + 1].count
  /\ slot' = 0
  /\ idx' = idx + 1
  /\ fedGlobal' = Plus(fedGlobal, fedRing[idx + 1])
  /\ UNCHANGED <<cpu, snap, out, ring, global, pc, completed>>
  /\ UNCHANGED <<fedCpu, fedSnap, fedOut, fedRing, lost, total>>

VerdictDone ==
  /\ pc = "verdict" /\ idx = Len(ring)
  /\ pc' = "done"
  /\ UNCHANGED <<cpu, snap, out, ring, global, idx, slot, completed, fedVars>>

Userspace ==
  \/ Lookup \/ MergeSample \/ MergeNext \/ Reset \/ DrainFails
  \/ StartVerdict \/ VerdictSample \/ VerdictNext \/ VerdictDone

Next ==
  \/ \E p \in CPUs, x \in Values : Complete(p, x)
  \/ Userspace

Spec == Init /\ [][Next]_vars

-------------------------------------------------------------------------------
TypeOK ==
  /\ cpu \in [CPUs -> Reservoir]
  /\ snap \in [CPUs -> Reservoir]
  /\ out \in Reservoir
  /\ ring \in Seq(Reservoir)
  /\ global \in Reservoir
  /\ pc \in {"lookup", "merge", "reset", "verdict", "done", "failed"}
  /\ idx \in Nat
  /\ slot \in Nat
  /\ completed \in Nat
  /\ fedCpu \in [CPUs -> Tally]
  /\ fedSnap \in [CPUs -> Tally]
  /\ fedOut \in Tally
  /\ fedRing \in Seq(Tally)
  /\ fedGlobal \in Tally
  /\ lost \in [Values -> Int]
  /\ total \in Tally

(* Reservoir t holds exactly the K largest of the samples f counts. *)
Exact(t, f) == \A v \in Values : CountAtLeast(t, v) = Lesser(K, f[v])

(***************************************************************************)
(* Every reservoir at rest holds exactly the K largest samples that went   *)
(* into it, duplicates included, whatever was merged in between: the       *)
(* per-CPU maps after each insert, the stored windows (merged from         *)
(* reservoirs that had already dropped samples) and the global reservoir   *)
(* the Hill estimator reads (iomoments_topk_insert, iomoments_topk_merge). *)
(***************************************************************************)
ReservoirsExact ==
  /\ \A p \in CPUs : Exact(cpu[p], fedCpu[p])
  /\ \A w \in 1 .. Len(ring) : Exact(ring[w], fedRing[w])
  /\ pc = "done" => Exact(global, fedGlobal)

(* The sum over the CPUs of one threshold's tally. *)
SumFed[n \in 0 .. NCPU] ==
  [v \in Values |-> IF n = 0 THEN 0 ELSE SumFed[n - 1][v] + fedCpu[n - 1][v]]

(***************************************************************************)
(* End to end: what the Hill estimator reads is the K largest of all the   *)
(* completions, without those a drain lost and those not drained yet.  A   *)
(* CPU skipped by a drain, merged twice, or a window merged twice breaks   *)
(* it, and so does a reservoir that dropped the wrong sample.              *)
(***************************************************************************)
HillSeesKLargest ==
  pc = "done" =>
    \A v \in Values :
      CountAtLeast(global, v) =
        Lesser(K, total[v] - lost[v] - SumFed[NCPU][v])
===============================================================================
