------------------------------ MODULE CaptureProofs ----------------------------
(***************************************************************************)
(* Proofs about how a latency is captured by the BPF programs and leaves   *)
(* them: module ReqTracker, for any set of requests, any capacity of the   *)
(* map, any saturation limit above 1 and whether or not runs of the        *)
(* completion program can be skipped; module RawDump, for any number of    *)
(* samples and CPUs, any size of the ring buffer and any number of drains. *)
(***************************************************************************)
EXTENDS ReqTracker, RawDump, SequenceTheorems, FiniteSetTheorems, TLAPS

(***************************************************************************)
(* The inductive invariant.  An entry that belongs to a request in flight  *)
(* is the time of that request's last issue, which the program saw and has *)
(* not sampled; so whatever the completion program finds for a request     *)
(* that completes is that request's own.  Before the programs attach there *)
(* is no entry, which is why an issue they did not see leaves none behind. *)
(***************************************************************************)
EntryIsOwn ==
  \A r \in Reqs :
    start[r] # NoEntry /\ InFlight(r) =>
      seen[r] /\ ~sampled[r] /\ start[r] = issuedAt[r]

NoEntryBeforeAttach == attached \/ \A r \in Reqs : start[r] = NoEntry

IInv == TypeOK /\ EntriesInFlight /\ EntryIsOwn /\ NoEntryBeforeAttach

(* A latency is below the limit and positive: it fits the sample's width. *)
LEMMA SaturateBounded ==
  ASSUME NEW ns \in Nat, ns > 0
  PROVE  Saturate(ns) \in 1 .. (Limit - 1)
BY TrackerAssumption DEF Saturate

LEMMA InitIInv == Init => IInv
<1> SUFFICES ASSUME Init
             PROVE  IInv
  OBVIOUS
<1>1. TypeOK
  <2>1. NoEntry \in Time /\ 0 \in 0 .. (Limit - 1) /\ now \in Nat
    BY TrackerAssumption DEF Init, Time
  <2>2. start \in [Reqs -> Time] /\ issuedAt \in [Reqs -> Time]
    BY <2>1 DEF Init
  <2>3. /\ seen \in [Reqs -> BOOLEAN] /\ sampled \in [Reqs -> BOOLEAN]
        /\ missed \in [Reqs -> BOOLEAN] /\ attached \in BOOLEAN
    BY Zenon DEF Init
  <2> QED
    BY <2>1, <2>2, <2>3 DEF Init, TypeOK
<1>2. \A r \in Reqs : start[r] = NoEntry
  BY DEF Init
<1> QED
  BY <1>1, <1>2 DEF IInv, EntriesInFlight, EntryIsOwn, NoEntryBeforeAttach,
                    Entries

(* An update touches the key it is given and no other. *)
LEMMA UpdateElemResult ==
  ASSUME NEW r \in Reqs, NEW ts \in Nat,
         start \in [Reqs -> Time], UpdateElem(r, ts)
  PROVE  /\ start' \in [Reqs -> Time]
         /\ \A q \in Reqs : q # r => start'[q] = start[q]
         /\ start'[r] = ts \/ (start'[r] = NoEntry /\ start[r] = NoEntry)
<1>1. ts \in Time
  BY DEF Time
<1>2. CASE start' = [start EXCEPT ![r] = ts]
  BY <1>1, <1>2
<1>3. CASE r \notin Entries /\ UNCHANGED start
  BY <1>3 DEF Entries
<1> QED
  BY <1>2, <1>3 DEF UpdateElem

LEMMA IssueIInv ==
  ASSUME IInv, NEW r \in Reqs, Issue(r)
  PROVE  IInv'
<1> USE DEF IInv
<1>1. now \in Nat /\ now \in Time /\ TRUE \in BOOLEAN /\ now # NoEntry
  BY DEF TypeOK, Time, NoEntry
<1>2. /\ start' \in [Reqs -> Time]
      /\ \A q \in Reqs : q # r => start'[q] = start[q]
      /\ (start'[r] = now /\ attached) \/ start'[r] = NoEntry
  <2>1. CASE attached
    BY <2>1, <1>1, UpdateElemResult DEF Issue, TypeOK
  <2>2. CASE ~attached
    BY <2>2 DEF Issue, TypeOK, NoEntryBeforeAttach
  <2> QED
    BY <2>1, <2>2
<1>3. TypeOK'
  <2>1. /\ seen' \in [Reqs -> BOOLEAN] /\ sampled' \in [Reqs -> BOOLEAN]
        /\ missed' \in [Reqs -> BOOLEAN] /\ attached' \in BOOLEAN
    BY Zenon DEF Issue, TypeOK
  <2>2. now' \in Nat /\ latency' \in 0 .. (Limit - 1) /\ who' \in Reqs
    BY TrackerAssumption DEF Issue, TypeOK
  <2>3. issuedAt' \in [Reqs -> Time]
    BY <1>1 DEF Issue, TypeOK
  <2> QED
    BY <1>2, <2>1, <2>2, <2>3 DEF TypeOK
<1>4. issuedAt'[r] = now /\ seen'[r] = attached /\ sampled'[r] = FALSE
  BY DEF Issue, TypeOK
<1>5. \A q \in Reqs : q # r =>
        /\ issuedAt'[q] = issuedAt[q] /\ seen'[q] = seen[q]
        /\ sampled'[q] = sampled[q] /\ missed'[q] = missed[q]
  BY DEF Issue, TypeOK
<1>6. EntriesInFlight'
  BY <1>1, <1>2, <1>4, <1>5 DEF EntriesInFlight, Entries, InFlight
<1>7. EntryIsOwn'
  BY <1>1, <1>2, <1>4, <1>5 DEF EntryIsOwn, InFlight
<1>8. NoEntryBeforeAttach'
  BY <1>2 DEF NoEntryBeforeAttach, Issue
<1> QED
  BY <1>3, <1>6, <1>7, <1>8

(* What a completion may do: the entry stays or goes, a sample is taken    *)
(* only when it goes, and other requests are not touched.                  *)
LEMMA CompleteResult ==
  ASSUME IInv, NEW r \in Reqs, NEW last \in BOOLEAN, Complete(r, last)
  PROVE  /\ start' \in [Reqs -> Time]
         /\ \A q \in Reqs : q # r =>
              start'[q] = start[q] /\ sampled'[q] = sampled[q]
                                   /\ missed'[q] = missed[q]
         /\ start'[r] \in {start[r], NoEntry}
         /\ start'[r] # NoEntry => sampled'[r] = sampled[r] /\ missed'[r]
         /\ sampled' \in [Reqs -> BOOLEAN]
         /\ missed' \in [Reqs -> BOOLEAN]
         /\ latency' \in 0 .. (Limit - 1)
         /\ who' \in Reqs
<1> USE DEF IInv
<1>1. NoEntry \in Time /\ 0 \in 0 .. (Limit - 1)
  BY TrackerAssumption DEF Time
<1>2. CASE attached /\ RunComplete(r)
  <2>1. CASE start[r] = NoEntry
    BY <1>1, <1>2, <2>1 DEF RunComplete, TypeOK
  <2>2. CASE start[r] # NoEntry /\ now <= start[r]
    BY <1>1, <1>2, <2>2 DEF RunComplete, TypeOK
  <2>3. CASE start[r] # NoEntry /\ ~(now <= start[r])
    <3>1. now \in Nat /\ start[r] \in Nat
      BY <2>3 DEF TypeOK, Time
    <3>2. now - start[r] \in Nat /\ now - start[r] > 0
      BY <2>3, <3>1
    <3>3. latency' \in 1 .. (Limit - 1)
      BY <1>2, <2>3, <3>2, SaturateBounded DEF RunComplete
    <3>4. latency' \in 0 .. (Limit - 1)
      BY <3>3, TrackerAssumption
    <3> QED
      BY <1>1, <1>2, <2>3, <3>4 DEF RunComplete, TypeOK
  <2> QED
    BY <2>1, <2>2, <2>3
<1>3. CASE attached /\ SkipComplete(r)
  BY <1>1, <1>3 DEF SkipComplete, TypeOK
<1>4. CASE ~attached
  BY <1>1, <1>4 DEF Complete, TypeOK, NoEntryBeforeAttach
<1> QED
  BY <1>2, <1>3, <1>4 DEF Complete

LEMMA CompleteIInv ==
  ASSUME IInv, NEW r \in Reqs, NEW last \in BOOLEAN, Complete(r, last)
  PROVE  IInv'
<1> USE DEF IInv
<1>1. /\ issuedAt' \in [Reqs -> Time]
      /\ issuedAt'[r] \in {issuedAt[r], NoEntry}
      /\ \A q \in Reqs : q # r => issuedAt'[q] = issuedAt[q]
  BY DEF Complete, TypeOK, Time
<1>2. UNCHANGED <<now, attached, seen>>
  BY DEF Complete
<1>3. TypeOK'
  BY <1>1, <1>2, CompleteResult DEF TypeOK
<1>4. EntriesInFlight'
  BY <1>1, CompleteResult DEF EntriesInFlight, Entries, InFlight
<1>5. EntryIsOwn'
  BY <1>1, <1>2, CompleteResult DEF EntryIsOwn, InFlight
<1>6. NoEntryBeforeAttach'
  BY <1>2, CompleteResult DEF NoEntryBeforeAttach
<1> QED
  BY <1>3, <1>4, <1>5, <1>6

LEMMA NextIInv == IInv /\ [Next]_vars => IInv'
<1> SUFFICES ASSUME IInv, [Next]_vars
             PROVE  IInv'
  OBVIOUS
<1>1. CASE Tick
  BY <1>1, TrackerAssumption
     DEF Tick, IInv, TypeOK, EntriesInFlight, EntryIsOwn,
         NoEntryBeforeAttach, Entries, InFlight
<1>2. CASE Attach
  BY <1>2, TrackerAssumption
     DEF Attach, IInv, TypeOK, EntriesInFlight, EntryIsOwn,
         NoEntryBeforeAttach, Entries, InFlight
<1>3. CASE \E r \in Reqs : Issue(r)
  BY <1>3, IssueIInv
<1>4. CASE \E r \in Reqs, last \in BOOLEAN : Complete(r, last)
  BY <1>4, CompleteIInv
<1>5. CASE UNCHANGED vars
  BY <1>5 DEF vars, progVars, IInv, TypeOK, EntriesInFlight, EntryIsOwn,
              NoEntryBeforeAttach, Entries, InFlight
<1> QED
  BY <1>1, <1>2, <1>3, <1>4, <1>5 DEF Next

LEMMA SpecIInv == Spec => []IInv
BY InitIInv, NextIInv, PTL DEF Spec

(* The variables of the two programs and of the block layer keep their     *)
(* types; a sample is below the saturation limit.                          *)
THEOREM TypeCorrect == Spec => []TypeOK
<1>1. IInv => TypeOK
  BY DEF IInv
<1> QED
  BY <1>1, SpecIInv, PTL

(* An entry of the timestamp map belongs to a request in flight, unless a  *)
(* run of iomoments_rq_complete was skipped for it.                        *)
THEOREM NoEntryLeftBehind == Spec => []EntriesInFlight
<1>1. IInv => EntriesInFlight
  BY DEF IInv
<1> QED
  BY <1>1, SpecIInv, PTL

(* Only a completion of r that finds r's entry takes a sample of r. *)
LEMMA SampleOfACompletion ==
  ASSUME IInv, [Next]_vars, NEW r \in Reqs, ~ UNCHANGED vars,
         latency' # 0, who' = r
  PROVE  /\ InFlight(r) /\ start[r] # NoEntry
         /\ latency' = Saturate(now - start[r])
<1>1. ~Tick /\ ~Attach /\ \A q \in Reqs : ~Issue(q)
  BY DEF Tick, Attach, Issue
<1>2. PICK q \in Reqs, last \in BOOLEAN : Complete(q, last)
  BY <1>1 DEF Next
<1>3. RunComplete(q)
  BY <1>2 DEF Complete, SkipComplete
<1>4. q = r
  BY <1>3 DEF RunComplete
<1> QED
  BY <1>2, <1>3, <1>4 DEF Complete, RunComplete

(* A sample is the time since its own request's last issue, never since an *)
(* earlier use of the pointer, whatever the map dropped when it was full.  *)
THEOREM LatencyIsOwnHolds == Spec => LatencyIsOwn
<1>1. IInv /\ [Next]_vars =>
        [ \A r \in Reqs :
            latency' # 0 /\ who' = r =>
              /\ InFlight(r) /\ seen[r]
              /\ latency' = Saturate(now - issuedAt[r]) ]_vars
  BY SampleOfACompletion DEF IInv, EntryIsOwn
<1> QED
  BY <1>1, SpecIInv, PTL DEF Spec, LatencyIsOwn

(* However many parts a request completes in, an issue of it is sampled at *)
(* most once.                                                              *)
THEOREM OneSampleHolds == Spec => OneSamplePerIssue
<1>1. IInv /\ [Next]_vars =>
        [ \A r \in Reqs : latency' # 0 /\ who' = r => ~sampled[r] ]_vars
  BY SampleOfACompletion DEF IInv, EntryIsOwn
<1> QED
  BY <1>1, SpecIInv, PTL DEF Spec, OneSamplePerIssue

-------------------------------------------------------------------------------
(***************************************************************************)
(* The raw-sample dump.  Placed has each sample that began in one place;   *)
(* Ends says from the residual poll on where those of the report are, and  *)
(* Stored what run_drain_loop has of the windows.                          *)
(***************************************************************************)
Kept == Elements(file) \cup Elements(buffer)

Types ==
  /\ pc \in {"attach", "enable", "loop", "final", "teardown", "done"}
  /\ polling \in BOOLEAN
  /\ buffer \in Seq(Samples) /\ file \in Seq(Samples)
  /\ IsFiniteSet(started)

Placed ==
  /\ started = UNION {halfDone, early, overflowed, unwritten, Kept}
  /\ halfDone \cap UNION {early, overflowed, unwritten, Kept} = {}
  /\ Kept \cap UNION {early, overflowed, unwritten} = {}

(* No sample is twice in the file, in the buffer or in both, and the       *)
(* counters are those of what was written and what was not.                *)
Counted ==
  /\ Cardinality(Kept) = Len(file) + Len(buffer)
  /\ samples_written = Len(file)
  /\ samples_lost = Cardinality(unwritten)

Stored ==
  /\ summary \cup report \subseteq started
  /\ ~hardError => drained \subseteq report

(* From the residual poll on what the report has is in the file, was lost, *)
(* is at one of the ends, or where the poll still finds it.                *)
Polled == IF polling THEN Elements(buffer) ELSE {}
Ends   ==
  /\ pc = "done" => ~polling
  /\ pc \in {"teardown", "done"} =>
       report \subseteq UNION {Elements(file), unwritten, overflowed, early, late, Polled}

DumpInv == Types /\ Placed /\ Counted /\ Stored /\ Ends

-------------------------------------------------------------------------------
(* The elements of a sequence are no more than its length. *)
LEMMA ElementsCounted ==
  ASSUME NEW S, NEW s \in Seq(S)
  PROVE  /\ IsFiniteSet(Elements(s)) /\ Cardinality(Elements(s)) \in Nat
         /\ Cardinality(Elements(s)) <= Len(s)
<1> DEFINE n == Len(s)
           f == [i \in 1 .. n |-> s[i]]
<1>1. n \in Nat
  BY LenProperties
<1>2. f \in Surjection(1 .. n, Elements(s))
  BY DEF Surjection, Elements
<1>3. IsFiniteSet(1 .. n) /\ Cardinality(1 .. n) = n
  BY <1>1, FS_Interval
<1> HIDE DEF f
<1>4. IsFiniteSet(Elements(s)) /\ Cardinality(Elements(s)) <= n
  BY <1>2, <1>3, FS_Surjection
<1>5. QED
  BY <1>4, FS_CardinalityType

(* What the operations on a sequence do to its elements. *)
LEMMA ElementsOf ==
  ASSUME NEW S, NEW s \in Seq(S)
  PROVE  /\ s = << >> => Elements(s) = {}
         /\ \A x \in S : Elements(Append(s, x)) = Elements(s) \cup {x}
         /\ s # << >> => Elements(s) = {Head(s)} \cup Elements(Tail(s))
         /\ \A t \in Seq(S) : Elements(s \o t) = Elements(s) \cup Elements(t)
<1> DEFINE n == Len(s)
<1>1. n \in Nat
  BY LenProperties
<1>2. ASSUME s = << >> PROVE Elements(s) = {}
  BY <1>2, EmptySeq DEF Elements
<1>3. ASSUME NEW x \in S PROVE Elements(Append(s, x)) = Elements(s) \cup {x}
  <2> DEFINE t == Append(s, x)
  <2>1. Len(t) = n + 1 /\ (\A i \in 1 .. n : t[i] = s[i]) /\ t[n + 1] = x
    BY AppendProperties
  <2> HIDE DEF t
  <2>2. \A i : i \in 1 .. n + 1 <=> i \in 1 .. n \/ i = n + 1
    BY <1>1
  <2>3. {t[i] : i \in 1 .. n + 1} = {s[i] : i \in 1 .. n} \cup {x}
    <3> HIDE DEF n
    <3>1. QED
      BY <2>1, <2>2
  <2>4. QED
    BY <2>1, <2>3 DEF Elements, t
<1>4. ASSUME s # << >> PROVE Elements(s) = {Head(s)} \cup Elements(Tail(s))
  <2> DEFINE t == Tail(s)
  <2>1. Len(t) = n - 1 /\ \A i \in 1 .. n - 1 : t[i] = s[i + 1]
    BY <1>4, HeadTailProperties
  <2>2. Head(s) = s[1] /\ n # 0
    BY <1>4, EmptySeq
  <2> HIDE DEF t
  <2>3. ASSUME NEW i \in 1 .. n PROVE s[i] = s[1] \/ \E j \in 1 .. n - 1 : s[i] = t[j]
    <3>1. CASE i = 1
      BY <3>1
    <3>2. CASE i # 1
      <4>1. i - 1 \in 1 .. n - 1 /\ (i - 1) + 1 = i
        BY <1>1, <3>2
      <4>2. QED
        BY <2>1, <4>1
    <3>3. QED
      BY <3>1, <3>2
  <2>4. /\ 1 \in 1 .. n
        /\ \A j \in 1 .. n - 1 : j + 1 \in 1 .. n
    BY <1>1, <2>2
  <2>5. {s[i] : i \in 1 .. n} = {s[1]} \cup {t[j] : j \in 1 .. n - 1}
    <3> HIDE DEF n
    <3>1. \A j \in 1 .. n - 1 : \E i \in 1 .. n : s[i] = t[j]
      BY <2>1, <2>4
    <3>2. QED
      BY <2>3, <2>4, <3>1
  <2>6. QED
    BY <2>1, <2>2, <2>5 DEF Elements, t
<1>5. ASSUME NEW t \in Seq(S) PROVE Elements(s \o t) = Elements(s) \cup Elements(t)
  <2> DEFINE m == Len(t)
             u == s \o t
  <2>1. m \in Nat
    BY LenProperties
  <2>2. Len(u) = n + m /\ \A i \in 1 .. n + m : u[i] = IF i <= n THEN s[i] ELSE t[i - n]
    BY ConcatProperties
  <2> HIDE DEF u, n, m
  <2>3. ASSUME NEW i \in 1 .. n PROVE i \in 1 .. n + m /\ u[i] = s[i]
    BY <1>1, <2>1, <2>2
  <2>4. ASSUME NEW j \in 1 .. m PROVE n + j \in 1 .. n + m /\ u[n + j] = t[j]
    <3>1. n + j \in 1 .. n + m /\ ~(n + j <= n) /\ (n + j) - n = j
      BY <1>1, <2>1
    <3>2. QED
      BY <2>2, <3>1
  <2>5. ASSUME NEW i \in 1 .. n + m
        PROVE  (\E k \in 1 .. n : u[i] = s[k]) \/ (\E j \in 1 .. m : u[i] = t[j])
    <3>1. CASE i <= n
      <4>1. i \in 1 .. n
        BY <1>1, <2>1, <3>1
      <4>2. QED
        BY <2>3, <4>1
    <3>2. CASE ~(i <= n)
      <4>1. i - n \in 1 .. m
        BY <1>1, <2>1, <3>2
      <4>2. u[i] = t[i - n]
        BY <2>2, <3>2
      <4>3. QED
        BY <4>1, <4>2
    <3>3. QED
      BY <3>1, <3>2
  <2>6. {u[i] : i \in 1 .. n + m} = {s[i] : i \in 1 .. n} \cup {t[j] : j \in 1 .. m}
    <3>1. ASSUME NEW x \in {u[i] : i \in 1 .. n + m}
          PROVE  x \in {s[i] : i \in 1 .. n} \cup {t[j] : j \in 1 .. m}
      BY <2>5
    <3>2. ASSUME NEW x \in {s[i] : i \in 1 .. n} \cup {t[j] : j \in 1 .. m}
          PROVE  x \in {u[i] : i \in 1 .. n + m}
      BY <2>3, <2>4
    <3>3. QED
      BY <3>1, <3>2
  <2>7. QED
    BY <2>2, <2>6 DEF Elements, u, n, m
<1>6. QED
  BY <1>2, <1>3, <1>4, <1>5

(* What is counted can be. *)
LEMMA Countable ==
  ASSUME Types, Placed
  PROVE  /\ Len(buffer) \in Nat /\ Len(file) \in Nat
         /\ IsFiniteSet(unwritten) /\ Cardinality(unwritten) \in Nat
         /\ IsFiniteSet(Kept) /\ Cardinality(Kept) \in Nat
<1>1. unwritten \in SUBSET started /\ Kept \in SUBSET started /\ IsFiniteSet(started)
  BY DEF Types, Placed
<1>2. \A X \in {unwritten, Kept} : IsFiniteSet(X) /\ Cardinality(X) \in Nat
  BY <1>1, FS_Subset, FS_CardinalityType
<1>3. QED
  BY <1>2, LenProperties DEF Types

(* A completion at its summary: it begins, and is in the current window.   *)
LEMMA UpdateSummaryStep ==
  ASSUME DumpInv, NEW k \in Samples, UpdateSummary(k)
  PROVE  DumpInv'
<1>1. /\ UNCHANGED <<userVars, buffer, early, overflowed, late>> /\ Kept' = Kept
      /\ k \notin started /\ started' = started \cup {k}
      /\ halfDone' = halfDone \cup {k} /\ summary' = summary \cup {k}
  BY DEF UpdateSummary, Kept, userVars
<1>2. Types'
  BY <1>1, FS_AddElement DEF DumpInv, Types, userVars
<1>3. Placed'
  <2>1. k \notin UNION {halfDone, early, overflowed, unwritten, Kept}
    BY <1>1 DEF DumpInv, Placed
  <2>2. UNCHANGED <<early, overflowed, unwritten>>
    BY <1>1 DEF userVars
  <2>3. QED
    BY <1>1, <2>1, <2>2 DEF DumpInv, Placed
<1>4. Counted' /\ Stored'
  BY <1>1 DEF DumpInv, Counted, Stored, userVars
<1>5. Ends'
  BY <1>1 DEF DumpInv, Ends, Polled, userVars
<1>6. QED
  BY <1>2, <1>3, <1>4, <1>5 DEF DumpInv

(* A completion at its output: ignored, refused or in the buffer.          *)
LEMMA OutputSampleStep ==
  ASSUME DumpInv, NEW k \in Samples, OutputSample(k)
  PROVE  DumpInv'
<1>1. /\ UNCHANGED userVars /\ UNCHANGED <<summary, started, late>>
      /\ k \in halfDone /\ halfDone' = halfDone \ {k}
  BY DEF OutputSample
<1>2. /\ pc' = pc /\ report' = report /\ polling' = polling /\ file' = file
      /\ samples_written' = samples_written /\ samples_lost' = samples_lost
      /\ hardError' = hardError /\ drained' = drained /\ unwritten' = unwritten
  BY <1>1 DEF userVars
<1>3. k \notin UNION {early, overflowed, unwritten, Kept}
  BY <1>1 DEF DumpInv, Placed
<1>4. Stored'
  BY <1>1, <1>2 DEF DumpInv, Stored
<1>5. CASE early' = early \cup {k} /\ buffer' = buffer /\ overflowed' = overflowed
  <2>1. Kept' = Kept
    BY <1>2, <1>5 DEF Kept
  <2>2. Types' /\ Counted'
    BY <1>1, <1>2, <1>5, <2>1 DEF DumpInv, Types, Counted
  <2>3. Placed'
    BY <1>1, <1>2, <1>3, <1>5, <2>1 DEF DumpInv, Placed
  <2>4. Ends'
    BY <1>1, <1>2, <1>5 DEF DumpInv, Ends, Polled
  <2>5. QED
    BY <1>4, <2>2, <2>3, <2>4 DEF DumpInv
<1>6. CASE overflowed' = overflowed \cup {k} /\ buffer' = buffer /\ early' = early
  <2>1. Kept' = Kept
    BY <1>2, <1>6 DEF Kept
  <2>2. Types' /\ Counted'
    BY <1>1, <1>2, <1>6, <2>1 DEF DumpInv, Types, Counted
  <2>3. Placed'
    BY <1>1, <1>2, <1>3, <1>6, <2>1 DEF DumpInv, Placed
  <2>4. Ends'
    BY <1>1, <1>2, <1>6 DEF DumpInv, Ends, Polled
  <2>5. QED
    BY <1>4, <2>2, <2>3, <2>4 DEF DumpInv
<1>7. CASE buffer' = Append(buffer, k) /\ early' = early /\ overflowed' = overflowed
  <2>1. /\ buffer' \in Seq(Samples) /\ Len(buffer') = Len(buffer) + 1
        /\ Elements(buffer') = Elements(buffer) \cup {k}
    BY <1>7, AppendProperties, ElementsOf DEF DumpInv, Types
  <2>2. Kept' = Kept \cup {k}
    BY <1>2, <2>1 DEF Kept
  <2>3. Cardinality(Kept') = Cardinality(Kept) + 1
    BY <1>3, <2>2, Countable, FS_AddElement DEF DumpInv
  <2>4. Types'
    BY <1>1, <1>2, <2>1 DEF DumpInv, Types
  <2>5. Counted'
    BY <1>2, <2>1, <2>3, Countable DEF DumpInv, Counted
  <2>6. Placed'
    BY <1>1, <1>2, <1>3, <1>7, <2>2 DEF DumpInv, Placed
  <2>7. Ends'
    BY <1>1, <1>2, <1>7, <2>1 DEF DumpInv, Ends, Polled
  <2>8. QED
    BY <1>4, <2>4, <2>5, <2>6, <2>7 DEF DumpInv
<1>8. QED
  BY <1>5, <1>6, <1>7 DEF OutputSample

(* What a poll takes out of the buffer is not in it again, nor in the file. *)
LEMMA HeadIsOnce ==
  ASSUME DumpInv, buffer # << >>
  PROVE  /\ Head(buffer) \in Samples /\ Tail(buffer) \in Seq(Samples)
         /\ Len(Tail(buffer)) = Len(buffer) - 1 /\ Len(Tail(buffer)) \in Nat
         /\ Elements(buffer) = {Head(buffer)} \cup Elements(Tail(buffer))
         /\ Head(buffer) \notin Elements(file) \cup Elements(Tail(buffer))
<1> DEFINE h == Head(buffer)
           t == Tail(buffer)
           F == Elements(file)
           T == Elements(t)
<1>1. h \in Samples /\ t \in Seq(Samples) /\ Len(t) = Len(buffer) - 1 /\ Len(t) \in Nat
  BY HeadTailProperties, LenProperties DEF DumpInv, Types
<1>2. Elements(buffer) = {h} \cup T
  BY ElementsOf DEF DumpInv, Types
<1>3. /\ IsFiniteSet(F) /\ Cardinality(F) \in Nat /\ Cardinality(F) <= Len(file)
      /\ IsFiniteSet(T) /\ Cardinality(T) \in Nat /\ Cardinality(T) <= Len(t)
  BY <1>1, ElementsCounted DEF DumpInv, Types
<1>4. Cardinality(Kept) = Len(file) + Len(buffer) /\ Len(file) \in Nat /\ Len(buffer) \in Nat
  BY Countable DEF DumpInv, Counted
<1> HIDE DEF F, T, h, t
<1>5. Cardinality(F \cup T) <= Cardinality(F) + Cardinality(T)
  <2>1. Cardinality(F \cap T) \in Nat
    <3>1. F \cap T \in SUBSET F
      OBVIOUS
    <3>2. QED
      BY <1>3, <3>1, FS_Subset, FS_CardinalityType
  <2>2. Cardinality(F \cup T) = Cardinality(F) + Cardinality(T) - Cardinality(F \cap T)
    BY <1>3, FS_Union
  <2>3. QED
    BY <1>3, <2>1, <2>2
<1>6. h \notin F \cup T
  <2>1. SUFFICES ASSUME h \in F \cup T PROVE FALSE
    OBVIOUS
  <2>2. Kept = F \cup T
    BY <1>2, <2>1 DEF Kept, F
  <2>3. QED
    BY <1>1, <1>3, <1>4, <1>5, <2>2
<1>7. QED
  BY <1>1, <1>2, <1>6 DEF F, T, h, t

(* The callback of a poll: a sample goes to the file, or a short write     *)
(* loses it.                                                               *)
LEMMA HandleRawSampleStep ==
  ASSUME DumpInv, HandleRawSample
  PROVE  DumpInv'
<1>1. /\ polling /\ buffer # << >> /\ buffer' = Tail(buffer)
      /\ pc' = pc /\ polling' = polling /\ report' = report /\ summary' = summary
      /\ halfDone' = halfDone /\ started' = started /\ early' = early
      /\ overflowed' = overflowed /\ late' = late
      /\ hardError' = hardError /\ drained' = drained
  BY DEF HandleRawSample, loopVars
<1> DEFINE h == Head(buffer)
           F == Elements(file)
           T == Elements(Tail(buffer))
<1>2. /\ h \in Samples /\ buffer' \in Seq(Samples) /\ Len(buffer') = Len(buffer) - 1
      /\ Len(buffer') \in Nat /\ Elements(buffer) = {h} \cup T /\ h \notin F \cup T
      /\ Elements(buffer') = T
  BY <1>1, HeadIsOnce
<1>3. Kept = UNION {F, T, {h}}
  BY <1>2 DEF Kept
<1>4. Stored'
  BY <1>1 DEF DumpInv, Stored
<1> HIDE DEF h, T
<1>5. CASE /\ file' = Append(file, h) /\ samples_written' = samples_written + 1
           /\ samples_lost' = samples_lost /\ unwritten' = unwritten
  <2>1. file' \in Seq(Samples) /\ Len(file') = Len(file) + 1 /\ Elements(file') = F \cup {h}
    BY <1>2, <1>5, AppendProperties, ElementsOf DEF DumpInv, Types
  <2>2. Kept' = Kept
    BY <1>2, <1>3, <2>1 DEF Kept
  <2>3. Types'
    BY <1>1, <1>2, <2>1 DEF DumpInv, Types
  <2>4. Placed'
    BY <1>1, <1>5, <2>2 DEF DumpInv, Placed
  <2>5. Counted'
    BY <1>2, <1>5, <2>1, <2>2, Countable DEF DumpInv, Counted
  <2>6. Ends'
    BY <1>1, <1>2, <1>5, <2>1 DEF DumpInv, Ends, Polled
  <2>7. QED
    BY <1>4, <2>3, <2>4, <2>5, <2>6 DEF DumpInv
<1>6. CASE /\ samples_lost' = samples_lost + 1 /\ unwritten' = unwritten \cup {h}
           /\ file' = file /\ samples_written' = samples_written
  <2>1. Kept' = F \cup T /\ Kept = Kept' \cup {h} /\ h \notin Kept'
    BY <1>2, <1>3, <1>6 DEF Kept
  <2>2. Cardinality(Kept) = Cardinality(Kept') + 1 /\ Cardinality(Kept') \in Nat
    <3>1. Kept' \in SUBSET Kept
      BY <2>1
    <3>2. IsFiniteSet(Kept') /\ Cardinality(Kept') \in Nat
      BY <3>1, Countable, FS_Subset, FS_CardinalityType DEF DumpInv
    <3>3. QED
      BY <2>1, <3>2, FS_AddElement
  <2>3. h \in Kept /\ h \notin UNION {halfDone, early, overflowed, unwritten}
    BY <2>1 DEF DumpInv, Placed
  <2>4. Cardinality(unwritten') = Cardinality(unwritten) + 1
    BY <1>6, <2>3, Countable, FS_AddElement DEF DumpInv
  <2>5. Types'
    BY <1>1, <1>2, <1>6 DEF DumpInv, Types
  <2>6. Placed'
    BY <1>1, <1>6, <2>1, <2>3 DEF DumpInv, Placed
  <2>7. Counted'
    BY <1>2, <1>6, <2>2, <2>4, Countable DEF DumpInv, Counted
  <2>8. Ends'
    BY <1>1, <1>2, <1>6 DEF DumpInv, Ends, Polled
  <2>9. QED
    BY <1>4, <2>5, <2>6, <2>7, <2>8 DEF DumpInv
<1>7. QED
  BY <1>5, <1>6 DEF HandleRawSample, h

(* The other steps leave the samples of the dump where they are.           *)
LEMMA OtherSteps ==
  ASSUME DumpInv,
         DumpAttach \/ Enable \/ Drain \/ EndPoll \/ DrainFails \/ FinalDrain
           \/ ResidualPoll \/ Teardown \/ UNCHANGED dumpVars
  PROVE  DumpInv'
<1> USE DEF loopVars, fileVars
<1>1. /\ UNCHANGED <<buffer, file, samples_written, samples_lost, unwritten>>
      /\ UNCHANGED <<halfDone, started, early, overflowed>>
  BY DEF DumpAttach, Enable, Drain, EndPoll, DrainFails, FinalDrain, ResidualPoll, Teardown,
         dumpVars, userVars
<1>2. Kept' = Kept
  BY <1>1 DEF Kept
<1>3. Placed' /\ Counted'
  BY <1>1, <1>2 DEF DumpInv, Placed, Counted
<1>4. Types'
  BY <1>1 DEF DumpInv, Types, DumpAttach, Enable, Drain, EndPoll, DrainFails, FinalDrain,
              ResidualPoll, Teardown, dumpVars, userVars
<1>5. Stored'
  BY <1>1 DEF DumpInv, Stored, DumpAttach, Enable, Drain, EndPoll, DrainFails, FinalDrain,
              ResidualPoll, Teardown, TakeWindow, LoseWindow, dumpVars, userVars
<1>6. Ends'
  <2>1. CASE DumpAttach \/ Enable \/ Drain \/ FinalDrain
    <3>1. pc' \notin {"teardown", "done"}
      BY <2>1 DEF DumpAttach, Enable, Drain, FinalDrain
    <3>2. QED
      BY <3>1 DEF Ends
  <2>2. CASE EndPoll
    <3>1. Elements(buffer) = {}
      BY <2>2, ElementsOf DEF EndPoll, DumpInv, Types
    <3>2. QED
      BY <1>1, <2>2, <3>1 DEF EndPoll, DumpInv, Ends, Polled
  <2>3. CASE DrainFails
    BY <2>3 DEF DrainFails, Ends
  <2>4. CASE ResidualPoll
    <3>1. pc' = "teardown" /\ polling' = TRUE /\ late' = halfDone /\ report' = report
      BY <2>4 DEF ResidualPoll
    <3>2. report \subseteq UNION {Elements(file), unwritten, overflowed, early, halfDone,
                                 Elements(buffer)}
      BY DEF DumpInv, Stored, Placed, Kept
    <3>3. QED
      BY <1>1, <3>1, <3>2 DEF Ends, Polled
  <2>5. CASE Teardown
    BY <1>1, <2>5 DEF Teardown, DumpInv, Ends, Polled
  <2>6. CASE UNCHANGED dumpVars
    BY <2>6 DEF dumpVars, userVars, DumpInv, Ends, Polled
  <2>7. QED
    BY <2>1, <2>2, <2>3, <2>4, <2>5, <2>6
<1>7. QED
  BY <1>3, <1>4, <1>5, <1>6 DEF DumpInv

(* Where the samples of the dump and of the report are, all along a run.   *)
THEOREM DumpInvariant == DumpSpec => []DumpInv
<1>1. DumpInit => DumpInv
  <2>1. SUFFICES ASSUME DumpInit PROVE DumpInv
    OBVIOUS
  <2>2. Elements(<< >>) = {} /\ << >> \in Seq(Samples) /\ Len(<< >>) = 0
    BY EmptySeq, ElementsOf
  <2>3. Kept = {}
    BY <2>1, <2>2 DEF DumpInit, Kept
  <2>4. IsFiniteSet({}) /\ Cardinality({}) = 0
    BY FS_EmptySet
  <2>5. Types /\ Placed
    BY <2>1, <2>2, <2>3, <2>4 DEF DumpInit, Types, Placed
  <2>6. Counted
    BY <2>1, <2>2, <2>3, <2>4 DEF DumpInit, Counted
  <2>7. Stored /\ Ends
    BY <2>1 DEF DumpInit, Stored, Ends
  <2>8. QED
    BY <2>5, <2>6, <2>7 DEF DumpInv
<1>2. DumpInv /\ [DumpNext]_dumpVars => DumpInv'
  BY UpdateSummaryStep, OutputSampleStep, HandleRawSampleStep, OtherSteps DEF DumpNext
<1>3. QED
  BY <1>1, <1>2, PTL DEF DumpSpec

(* Whenever completions, drains, polls and failures fall, a sample of the  *)
(* report is in the file, counted as lost, at one of the ends of the run,  *)
(* or was refused by the full ring buffer; the two counters printed are    *)
(* right.                                                                  *)
THEOREM ReportIsDumped == DumpSpec => []ReportIsDumpedOrLost
<1>1. DumpInv => ReportIsDumpedOrLost
  <2>1. SUFFICES ASSUME DumpInv, pc = "done" PROVE ReportIsDumpedOrLost
    BY DEF ReportIsDumpedOrLost
  <2>2. report \subseteq UNION {Elements(file), unwritten, early, late, overflowed}
    BY <2>1 DEF DumpInv, Ends, Polled
  <2>3. samples_written = Len(file) /\ samples_lost = Cardinality(unwritten)
    BY <2>1 DEF DumpInv, Counted
  <2>4. Elements(file) \cap UNION {unwritten, early, overflowed} = {}
    BY <2>1 DEF DumpInv, Placed, Kept
  <2>5. Cardinality(Elements(file)) = Len(file)
    <3> DEFINE F == Elements(file)
               T == Elements(buffer)
    <3>1. /\ IsFiniteSet(F) /\ Cardinality(F) \in Nat /\ Cardinality(F) <= Len(file)
          /\ IsFiniteSet(T) /\ Cardinality(T) \in Nat /\ Cardinality(T) <= Len(buffer)
      BY <2>1, ElementsCounted DEF DumpInv, Types
    <3>2. /\ Cardinality(F \cup T) = Len(file) + Len(buffer)
          /\ Len(file) \in Nat /\ Len(buffer) \in Nat
      BY <2>1, Countable DEF DumpInv, Counted, Kept
    <3> HIDE DEF F, T
    <3>3. Cardinality(F \cap T) \in Nat
      <4>1. F \cap T \in SUBSET F
        OBVIOUS
      <4>2. QED
        BY <3>1, <4>1, FS_Subset, FS_CardinalityType
    <3>4. Cardinality(F \cup T) = Cardinality(F) + Cardinality(T) - Cardinality(F \cap T)
      BY <3>1, FS_Union
    <3>5. Cardinality(F) = Len(file)
      BY <3>1, <3>2, <3>3, <3>4
    <3>6. QED
      BY <3>5 DEF F
  <2>6. QED
    BY <2>2, <2>3, <2>4, <2>5 DEF ReportIsDumpedOrLost
<1>2. QED
  BY <1>1, DumpInvariant, PTL

(* A report that is printed has every sample a periodic drain found,       *)
(* whichever drains fail: what it lacks is of the last window.             *)
THEOREM OnlyLastWindowLost == DumpSpec => []OnlyLastWindowIsMissing
<1>1. DumpInv => OnlyLastWindowIsMissing
  BY DEF DumpInv, Stored, OnlyLastWindowIsMissing
<1>2. QED
  BY <1>1, DumpInvariant, PTL
===============================================================================
