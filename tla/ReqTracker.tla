------------------------------- MODULE ReqTracker -----------------------------
(***************************************************************************)
(* How a latency is measured: the two BPF programs of iomoments.bpf.c and  *)
(* the HASH map of issue timestamps between them.  The block layer reuses  *)
(* request pointers, reissues a request without completing it (a requeue), *)
(* completes one in several parts (block_rq_complete fires for each), and  *)
(* has requests in flight when the programs attach.  The map holds         *)
(* MaxEntries keys; an update of a new key beyond that fails, and the      *)
(* program ignores the failure.                                            *)
(*                                                                         *)
(* A program run on one request does not overlap another on the same       *)
(* request (the block layer serialises a request's issue and completion),  *)
(* and runs on other requests touch other keys; so each run is one action. *)
(***************************************************************************)
EXTENDS Integers, FiniteSets

CONSTANTS Reqs,         \* request pointers
          MaxEntries,   \* max_entries of iomoments_req_start
          Limit,        \* 2^31, the saturation limit in ns
          MaxTime,      \* bound: the clock's last value
          MayMiss       \* whether the kernel may skip a run of the
                        \* completion program (its recursion guard)

ASSUME TrackerAssumption ==
  /\ MaxEntries \in Nat
  /\ Limit \in Nat \ {0, 1}
  /\ MaxTime \in Nat
  /\ MayMiss \in BOOLEAN

NoEntry == -1

VARIABLES
  now,        \* bpf_ktime_get_ns()
  attached,   \* whether the programs are attached
  start,      \* iomoments_req_start: the value at each key, or NoEntry
  latency     \* the sample the last step fed to the summary, or 0

(***************************************************************************)
(* The requests as the block layer knows them: when each was last issued   *)
(* (NoEntry while it is not in flight), whether that issue was seen by the *)
(* program, whether it was sampled already, and whether a run of the       *)
(* completion program was skipped since.  who is the request of latency.   *)
(***************************************************************************)
VARIABLES issuedAt, seen, sampled, missed, who

progVars == <<attached, start, latency>>
vars     == <<now, progVars, issuedAt, seen, sampled, missed, who>>

Init ==
  /\ now = 0
  /\ attached = FALSE
  /\ start = [r \in Reqs |-> NoEntry]
  /\ latency = 0
  /\ issuedAt = [r \in Reqs |-> NoEntry]
  /\ seen = [r \in Reqs |-> FALSE]
  /\ sampled = [r \in Reqs |-> FALSE]
  /\ missed = [r \in Reqs |-> FALSE]
  /\ who \in Reqs

Entries     == {r \in Reqs : start[r] # NoEntry}
InFlight(r) == issuedAt[r] # NoEntry

Tick ==
  /\ now < MaxTime
  /\ now' = now + 1
  /\ latency' = 0
  /\ UNCHANGED <<attached, start, issuedAt, seen, sampled, missed, who>>

Attach ==
  /\ ~attached
  /\ attached' = TRUE
  /\ latency' = 0
  /\ UNCHANGED <<now, start, issuedAt, seen, sampled, missed, who>>

(* Mutant: BPF_NOEXIST. *)
UpdateElem_NoExist(r, ts) ==
  IF r \notin Entries /\ Cardinality(Entries) < MaxEntries
  THEN start' = [start EXCEPT ![r] = ts]
  ELSE UNCHANGED start

(* bpf_map_update_elem(..., BPF_ANY) of a HASH: an existing key is always  *)
(* replaced, a new one needs a free entry.                                 *)
UpdateElem(r, ts) ==
  IF r \in Entries \/ Cardinality(Entries) < MaxEntries
  THEN start' = [start EXCEPT ![r] = ts]
  ELSE UNCHANGED start

(* A request is issued, or reissued after a requeue: iomoments_rq_issue. *)
Issue(r) ==
  /\ IF attached THEN UpdateElem(r, now) ELSE UNCHANGED start
  /\ issuedAt' = [issuedAt EXCEPT ![r] = now]
  /\ seen' = [seen EXCEPT ![r] = attached]
  /\ sampled' = [sampled EXCEPT ![r] = FALSE]
  /\ missed' = [missed EXCEPT ![r] = FALSE]
  /\ latency' = 0
  /\ UNCHANGED <<now, attached, who>>

(* Mutant: the limit itself is let through. *)
Saturate_OffByOne(ns) == IF ns > Limit THEN Limit - 1 ELSE ns

Saturate(ns) == IF ns >= Limit THEN Limit - 1 ELSE ns

(* Mutant: the entry is not deleted. *)
RunComplete_NoDelete(r) ==
  /\ who' = r
  /\ IF start[r] = NoEntry \/ now <= start[r]
     THEN latency' = 0 /\ UNCHANGED sampled
     ELSE /\ latency' = Saturate(now - start[r])
          /\ sampled' = [sampled EXCEPT ![r] = TRUE]
  /\ UNCHANGED <<start, missed>>

(* Mutant: the glitch test returns before the delete. *)
RunComplete_GlitchFirst(r) ==
  /\ who' = r
  /\ IF start[r] = NoEntry \/ now <= start[r]
     THEN latency' = 0 /\ UNCHANGED <<start, sampled>>
     ELSE /\ start' = [start EXCEPT ![r] = NoEntry]
          /\ latency' = Saturate(now - start[r])
          /\ sampled' = [sampled EXCEPT ![r] = TRUE]
  /\ UNCHANGED missed

(* What iomoments_rq_complete does for request r.  A sample is measured    *)
(* when the map has the request and the clock has moved.                   *)
RunComplete(r) ==
  /\ who' = r
  /\ IF start[r] = NoEntry
     THEN latency' = 0 /\ UNCHANGED <<start, sampled>>
     ELSE /\ start' = [start EXCEPT ![r] = NoEntry]
          /\ IF now <= start[r]
             THEN latency' = 0 /\ UNCHANGED sampled
             ELSE /\ latency' = Saturate(now - start[r])
                  /\ sampled' = [sampled EXCEPT ![r] = TRUE]
  /\ UNCHANGED missed

SkipComplete(r) ==
  /\ MayMiss
  /\ missed' = [missed EXCEPT ![r] = TRUE]
  /\ latency' = 0
  /\ UNCHANGED <<start, sampled, who>>

(* block_rq_complete fires for r; last tells whether all of it is done. *)
Complete(r, last) ==
  /\ InFlight(r)
  /\ IF attached
     THEN RunComplete(r) \/ SkipComplete(r)
     ELSE latency' = 0 /\ UNCHANGED <<start, sampled, missed, who>>
  /\ issuedAt' = IF last THEN [issuedAt EXCEPT ![r] = NoEntry] ELSE issuedAt
  /\ UNCHANGED <<now, attached, seen>>

Next ==
  \/ Tick
  \/ Attach
  \/ \E r \in Reqs : Issue(r)
  \/ \E r \in Reqs, last \in BOOLEAN : Complete(r, last)

Spec == Init /\ [][Next]_vars

-------------------------------------------------------------------------------
Time == Nat \cup {NoEntry}

TypeOK ==
  /\ now \in Nat
  /\ attached \in BOOLEAN
  /\ start \in [Reqs -> Time]
  /\ latency \in 0 .. (Limit - 1)
  /\ issuedAt \in [Reqs -> Time]
  /\ seen \in [Reqs -> BOOLEAN]
  /\ sampled \in [Reqs -> BOOLEAN]
  /\ missed \in [Reqs -> BOOLEAN]
  /\ who \in Reqs

(***************************************************************************)
(* The comment on iomoments_req_start promises that under overflow a       *)
(* sample is dropped "rather than producing wrong latency": a sample is    *)
(* always the time since its own request's last issue, up to saturation -  *)
(* not since an earlier use of the same pointer whose entry was left       *)
(* behind, and not for a request issued before the programs attached.      *)
(***************************************************************************)
LatencyIsOwn ==
  [][ \A r \in Reqs :
        latency' # 0 /\ who' = r =>
          /\ InFlight(r) /\ seen[r]
          /\ latency' = Saturate(now - issuedAt[r]) ]_vars

(* One issue gives at most one sample, in however many parts it completes. *)
OneSamplePerIssue ==
  [][ \A r \in Reqs : latency' # 0 /\ who' = r => ~sampled[r] ]_vars

(* An entry belongs to a request in flight, unless a completion was        *)
(* skipped: the map does not fill up with entries nobody will remove.      *)
EntriesInFlight ==
  \A r \in Entries : InFlight(r) \/ missed[r]
===============================================================================
