--------------------------------- MODULE Drain --------------------------------
(***************************************************************************)
(* The race between the completion programs and the drain of the per-CPU   *)
(* maps, at the granularity of the machine words both sides move.          *)
(*                                                                         *)
(* On each CPU the completion program updates its own per-CPU summary and  *)
(* then its top-K reservoir with plain loads and stores; the compiler may  *)
(* keep a field in a register and store it late, so each word is loaded    *)
(* once and stored once, in any order.  Userspace copies a map CPU by CPU  *)
(* and word by word (bpf_map_lookup_elem), then zeroes it CPU by CPU and   *)
(* word by word (bpf_map_update_elem), first the summary, then the top-K.  *)
(* Nothing synchronises the two sides.                                     *)
(*                                                                         *)
(* A word's content is abstracted to the set of samples it accounts for:   *)
(* n counts them, m2 sums over them.  Two words of one summary that hold   *)
(* different sets are a torn summary, a sample found in two windows is     *)
(* counted twice.                                                          *)
(***************************************************************************)
EXTENDS Integers, Sequences

CONSTANTS NCPU,            \* libbpf_num_possible_cpus()
          Samples,         \* identities of the completions of a behaviour
          SummaryWords,    \* the fields of struct iomoments_summary_bpf
          TopkWords,       \* the fields of struct iomoments_topk
          MaxWindows       \* bound: drains in a behaviour

ASSUME DrainAssumption ==
  /\ NCPU \in Nat \ {0}
  /\ SummaryWords # {} /\ TopkWords # {}
  /\ SummaryWords \cap TopkWords = {}
  /\ MaxWindows \in Nat

CPUs     == 0 .. (NCPU - 1)
Maps     == {"summary", "topk"}
Words(m) == IF m = "summary" THEN SummaryWords ELSE TopkWords
AllWords == SummaryWords \cup TopkWords

VARIABLES
  cell,       \* cell[c][w]: the samples word w of CPU c's values accounts for
  upd,        \* upd[c]: the map CPU c's program is updating, or "none"
  sample,     \* sample[c]: the latency it is adding, as a set
  reg,        \* reg[c][w]: the value of w it loaded
  loaded,     \* loaded[c]: the words it has loaded
  stored,     \* stored[c]: the words it has stored
  started,    \* the samples completions have used so far
  dpc,        \* what the drain is doing: "idle", "copy" or "zero"
  dmap,       \* the map it drains
  dcpu,       \* the CPU it is at
  dtodo,      \* the words of that CPU it has still to move
  copy,       \* copy[c][w]: percpu_values, the copies of both maps
  windows     \* the windows stored so far

(***************************************************************************)
(* History, per map and CPU: the samples whose update completed since the  *)
(* last zeroing; whether an update overlapped the present drain of that    *)
(* CPU; whether one overlapped the last.  expect and clean are what the    *)
(* window being built will be judged by.                                   *)
(***************************************************************************)
VARIABLES since, overlap, suspect, expect, clean

progVars  == <<cell, upd, sample, reg, loaded, stored, started>>
drainVars == <<dpc, dmap, dcpu, dtodo, copy, windows>>
histVars  == <<since, overlap, suspect, expect, clean>>
vars      == <<progVars, drainVars, histVars>>

NoWords   == [w \in AllWords |-> {}]
PerMap(v) == [m \in Maps |-> [c \in CPUs |-> v]]

Init ==
  /\ cell = [c \in CPUs |-> NoWords]
  /\ upd = [c \in CPUs |-> "none"]
  /\ sample = [c \in CPUs |-> {}]
  /\ reg = [c \in CPUs |-> NoWords]
  /\ loaded = [c \in CPUs |-> {}]
  /\ stored = [c \in CPUs |-> {}]
  /\ started = {}
  /\ dpc = "idle" /\ dmap = "summary" /\ dcpu = 0 /\ dtodo = {}
  /\ copy = [c \in CPUs |-> NoWords]
  /\ windows = << >>
  /\ since = PerMap({}) /\ overlap = PerMap(FALSE) /\ suspect = PerMap(FALSE)
  /\ expect = PerMap({}) /\ clean = PerMap(FALSE)

-------------------------------------------------------------------------------
(* CPU c's value of map m has been read, in part or whole, and is not yet  *)
(* wholly zeroed: what is stored into it now may be lost, or be half seen. *)
InGap(m, c) ==
  /\ dmap = m
  /\ \/ dpc = "copy" /\ (c < dcpu \/ (c = dcpu /\ dtodo # Words(m)))
     \/ dpc = "zero" /\ c >= dcpu

(* A step of CPU c's program inside the gap of the map it works on. *)
NoteOverlap(c) ==
  overlap' = [m \in Maps |-> [d \in CPUs |->
                overlap[m][d] \/ (/\ d = c
                                  /\ m \in {upd[c], upd'[c]}
                                  /\ InGap(m, c))]]

(* iomoments_rq_complete has latency k and calls summary_bpf_update. *)
BeginUpdate(c, k) ==
  /\ upd[c] = "none"
  /\ k \notin started
  /\ started' = started \cup {k}
  /\ sample' = [sample EXCEPT ![c] = {k}]
  /\ upd' = [upd EXCEPT ![c] = "summary"]
  /\ NoteOverlap(c)
  /\ UNCHANGED <<cell, reg, loaded, stored, drainVars>>
  /\ UNCHANGED <<since, suspect, expect, clean>>

Load(c, w) ==
  /\ upd[c] # "none"
  /\ w \in Words(upd[c]) \ loaded[c]
  /\ reg' = [reg EXCEPT ![c][w] = cell[c][w]]
  /\ loaded' = [loaded EXCEPT ![c] = @ \cup {w}]
  /\ UNCHANGED upd
  /\ NoteOverlap(c)
  /\ UNCHANGED <<cell, sample, stored, started, drainVars>>
  /\ UNCHANGED <<since, suspect, expect, clean>>

(* What follows the last store to a map: the summary is updated, on to     *)
(* topk_insert; the top-K is, return.                                      *)
EndUpdate(c) ==
  /\ upd' = [upd EXCEPT ![c] = IF @ = "summary" THEN "topk" ELSE "none"]
  /\ loaded' = [loaded EXCEPT ![c] = {}]
  /\ stored' = [stored EXCEPT ![c] = {}]
  /\ reg' = [reg EXCEPT ![c] = NoWords]
  /\ since' = [since EXCEPT ![upd[c]][c] = @ \cup sample[c]]

Store(c, w) ==
  /\ upd[c] # "none"
  /\ w \in loaded[c] \ stored[c]
  /\ cell' = [cell EXCEPT ![c][w] = reg[c][w] \cup sample[c]]
  /\ IF stored[c] \cup {w} = Words(upd[c])
     THEN EndUpdate(c)
     ELSE /\ stored' = [stored EXCEPT ![c] = @ \cup {w}]
          /\ UNCHANGED <<upd, reg, loaded, since>>
  /\ NoteOverlap(c)
  /\ UNCHANGED <<sample, started, drainVars>>
  /\ UNCHANGED <<suspect, expect, clean>>

-------------------------------------------------------------------------------
(* drain_one_window begins with the summary map. *)
StartDrain ==
  /\ dpc = "idle"
  /\ Len(windows) < MaxWindows
  /\ dpc' = "copy" /\ dmap' = "summary" /\ dcpu' = 0
  /\ dtodo' = Words("summary")
  /\ copy' = [c \in CPUs |-> NoWords]
  /\ UNCHANGED <<windows, progVars, histVars>>

(* Mutant: one CPU too many is copied. *)
AdvanceCopy_OneMore(left) ==
  IF left # {}
  THEN dtodo' = left /\ UNCHANGED <<dpc, dcpu>>
  ELSE /\ dtodo' = Words(dmap)
       /\ IF dcpu + 1 <= NCPU THEN dcpu' = dcpu + 1 /\ UNCHANGED dpc
                              ELSE dcpu' = 0 /\ dpc' = "zero"

(* Where the copying goes on after a word: next word, next CPU, zeroing. *)
AdvanceCopy(left) ==
  IF left # {}
  THEN dtodo' = left /\ UNCHANGED <<dpc, dcpu>>
  ELSE /\ dtodo' = Words(dmap)
       /\ IF dcpu + 1 < NCPU THEN dcpu' = dcpu + 1 /\ UNCHANGED dpc
                             ELSE dcpu' = 0 /\ dpc' = "zero"

CopyWord(w) ==
  /\ dpc = "copy" /\ w \in dtodo
  /\ copy' = [copy EXCEPT ![dcpu][w] = cell[dcpu][w]]
  /\ overlap' = IF dtodo = Words(dmap)
                THEN [overlap EXCEPT ![dmap][dcpu] = (upd[dcpu] = dmap)]
                ELSE overlap
  /\ AdvanceCopy(dtodo \ {w})
  /\ UNCHANGED <<dmap, windows, progVars, since, suspect, expect, clean>>

(* CPU dcpu is wholly zeroed: close its part of the window. *)
CloseCpu ==
  /\ suspect' = [suspect EXCEPT ![dmap][dcpu] = overlap[dmap][dcpu]]
  /\ clean' = [clean EXCEPT ![dmap][dcpu] =
                 ~overlap[dmap][dcpu] /\ ~suspect[dmap][dcpu]]
  /\ expect' = [expect EXCEPT ![dmap][dcpu] = since[dmap][dcpu]]
  /\ since' = [since EXCEPT ![dmap][dcpu] = {}]

(* After the last CPU: the top-K map after the summary, or the window is   *)
(* complete and the caller stores it in the ring.                          *)
CloseMap ==
  IF dmap = "summary"
  THEN /\ dmap' = "topk" /\ dpc' = "copy" /\ dtodo' = TopkWords
       /\ UNCHANGED windows
  ELSE /\ dpc' = "idle" /\ dtodo' = {} /\ UNCHANGED dmap
       /\ windows' = Append(windows, [got |-> copy, expect |-> expect',
                                      clean |-> clean'])

(* Mutant: percpu_values is written back without the memset. *)
ResetValue_NoMemset(c, w) == copy[c][w]

(* percpu_values after the memset, which the update writes back. *)
ResetValue(c, w) == {}

ZeroWord(w) ==
  /\ dpc = "zero" /\ w \in dtodo
  /\ cell' = [cell EXCEPT ![dcpu][w] = ResetValue(dcpu, w)]
  /\ IF dtodo # {w}
     THEN /\ dtodo' = dtodo \ {w}
          /\ UNCHANGED <<dpc, dmap, dcpu, windows>>
          /\ UNCHANGED <<since, suspect, expect, clean>>
     ELSE /\ CloseCpu
          /\ IF dcpu + 1 < NCPU
             THEN /\ dcpu' = dcpu + 1 /\ dtodo' = Words(dmap)
                  /\ UNCHANGED <<dpc, dmap, windows>>
             ELSE dcpu' = 0 /\ CloseMap
  /\ UNCHANGED <<upd, sample, reg, loaded, stored, started, copy, overlap>>

Program(c) ==
  \/ \E k \in Samples : BeginUpdate(c, k)
  \/ \E w \in AllWords : Load(c, w)
  \/ \E w \in AllWords : Store(c, w)

Userspace ==
  \/ StartDrain
  \/ \E w \in AllWords : CopyWord(w)
  \/ \E w \in AllWords : ZeroWord(w)

Next == (\E c \in CPUs : Program(c)) \/ Userspace

Spec == Init /\ [][Next]_vars

-------------------------------------------------------------------------------
Cells == [CPUs -> [AllWords -> SUBSET Samples]]
Window == [got    : Cells,
           expect : [Maps -> [CPUs -> SUBSET Samples]],
           clean  : [Maps -> [CPUs -> BOOLEAN]]]

TypeOK ==
  /\ cell \in Cells /\ reg \in Cells /\ copy \in Cells
  /\ upd \in [CPUs -> Maps \cup {"none"}]
  /\ sample \in [CPUs -> SUBSET Samples]
  /\ loaded \in [CPUs -> SUBSET AllWords]
  /\ stored \in [CPUs -> SUBSET AllWords]
  /\ started \subseteq Samples
  /\ dpc \in {"idle", "copy", "zero"} /\ dmap \in Maps
  /\ dcpu \in CPUs /\ dtodo \subseteq Words(dmap)
  /\ windows \in Seq(Window)
  /\ since \in [Maps -> [CPUs -> SUBSET Samples]]
  /\ expect \in [Maps -> [CPUs -> SUBSET Samples]]
  /\ overlap \in [Maps -> [CPUs -> BOOLEAN]]
  /\ suspect \in [Maps -> [CPUs -> BOOLEAN]]
  /\ clean \in [Maps -> [CPUs -> BOOLEAN]]

(***************************************************************************)
(* Where no update of CPU c's value overlapped this drain of it or the     *)
(* previous one, the stored window accounts, in every word, for exactly    *)
(* the samples that completed on c between the two: the drain itself       *)
(* neither loses nor duplicates nor tears (drain_and_reset_summaries,      *)
(* drain_and_reset_topk).                                                  *)
(***************************************************************************)
CleanWindowsExact ==
  \A i \in 1 .. Len(windows), m \in Maps, c \in CPUs :
    windows[i].clean[m][c] =>
      \A w \in Words(m) : windows[i].got[c][w] = windows[i].expect[m][c]

(***************************************************************************)
(* Whatever an overlap did to a CPU's value - words torn apart, samples    *)
(* resurrected after the zeroing - one drain of it without an overlap      *)
(* repairs it: from then on, whenever the program is not inside an update, *)
(* all words account for the same samples, those completed since.          *)
(***************************************************************************)
QuietDrainRepairs ==
  \A m \in Maps, c \in CPUs :
    ~suspect[m][c] /\ upd[c] # m /\ ~InGap(m, c) =>
      \A w \in Words(m) : cell[c][w] = since[m][c]

-------------------------------------------------------------------------------
(***************************************************************************)
(* What the "Drain race" comment of iomoments.c (lines 60-70) says of the  *)
(* race: samples that fire between the read and the zeroing are            *)
(* overwritten; the only effect is a loss.  Then no sample may be found in *)
(* two windows.                                                            *)
(***************************************************************************)
RaceOnlyLoses ==
  \A i, j \in 1 .. Len(windows), c \in CPUs, w \in SummaryWords :
    i # j => windows[i].got[c][w] \cap windows[j].got[c][w] = {}
===============================================================================
