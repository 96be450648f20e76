------------------------------- MODULE Lifecycle ------------------------------
(***************************************************************************)
(* main of iomoments.c: the order in which the process acquires the BPF    *)
(* object, the ring of windows and the raw dump, every way in which a step *)
(* can fail, and what it has released and returns on each.  While it is in *)
(* the drain loop, it takes the steps of module DrainLoop; the clock runs  *)
(* and signals come all the time.  The links of attached programs are left *)
(* to the kernel's cleanup at process exit.                                *)
(***************************************************************************)
EXTENDS DrainLoop

CONSTANT Programs        \* how many programs the ELF has

ASSUME LifecycleAssumption == Programs \in Nat \ {0}

Resources == {"object", "ring", "file", "consumer"}

(* What bpf_object__load may fail with; "0" stands for an object that was  *)
(* not found or could not be opened, for which load_errno_out stays 0.     *)
LoadErrors         == {"E2BIG", "EINVAL", "EPERM", "0"}
VerifierRejections == {"E2BIG", "EINVAL"}

VARIABLES
  pc,
  dumpRaw,       \* args.dump_raw_path is set
  object,        \* the variant of obj, or "none"
  loaded_order,
  attached,      \* how many programs are attached
  config,        \* iomoments_config[0]
  raw_dump,      \* the file raw_dump holds
  held,          \* how many of each resource are acquired and not released
  overReleased,  \* history: something was released that was not held
  tried,         \* history: the variants tried and how each attempt ended
  report,        \* the moment order the report was computed for
  status         \* the exit status

mainVars == <<pc, dumpRaw, object, loaded_order, attached, config, raw_dump,
              held, overReleased, tried, report, status>>
vars     == <<mainVars, timeVars>>

Init ==
  /\ LoopInit
  /\ pc = "parse" /\ dumpRaw = FALSE
  /\ object = "none" /\ loaded_order = "k4" /\ attached = 0
  /\ config = FALSE /\ raw_dump = "none"
  /\ held = [r \in Resources |-> 0] /\ overReleased = FALSE
  /\ tried = {} /\ report = "none" /\ status = 0

Keep == UNCHANGED <<held, overReleased>>

Acquire(r) == held' = [held EXCEPT ![r] = @ + 1] /\ UNCHANGED overReleased

(* Releases of what is not held are noted, not prevented. *)
Release(R) ==
  /\ held' = [r \in Resources |->
                IF r \in R /\ held[r] > 0 THEN held[r] - 1 ELSE held[r]]
  /\ overReleased' = (overReleased \/ \E r \in R : held[r] = 0)

Exit(code) == pc' = "exited" /\ status' = code
Goto(l)    == pc' = l /\ UNCHANGED status

-------------------------------------------------------------------------------
ParseArgs ==
  /\ pc = "parse"
  /\ \/ Exit(0) /\ UNCHANGED dumpRaw                    \* --help
     \/ Exit(2) /\ UNCHANGED dumpRaw                    \* a bad argument
     \/ Goto("loadK4") /\ dumpRaw' \in BOOLEAN
  /\ UNCHANGED <<object, loaded_order, attached, config, raw_dump>>
  /\ UNCHANGED <<held, overReleased, tried, report>>

(* iomoments_open_load: an object that opens and does not load is closed.  *)
LoadSucceeds(variant) ==
  /\ Acquire("object")
  /\ object' = variant
  /\ tried' = tried \cup {<<variant, "ok">>}

LoadFails(variant, error) ==
  /\ Keep
  /\ UNCHANGED object
  /\ tried' = tried \cup {<<variant, error>>}

LoadK4 ==
  /\ pc = "loadK4"
  /\ \/ LoadSucceeds("k4") /\ Goto("attach")
     \/ \E e \in LoadErrors :
          /\ LoadFails("k4", e)
          /\ IF e \in VerifierRejections THEN Goto("loadK3") ELSE Exit(4)
  /\ UNCHANGED <<dumpRaw, loaded_order, attached, config, raw_dump, report>>

LoadK3 ==
  /\ pc = "loadK3"
  /\ \/ LoadSucceeds("k3") /\ loaded_order' = "k3" /\ Goto("attach")
     \/ \E e \in LoadErrors :
          LoadFails("k3", e) /\ UNCHANGED loaded_order /\ Exit(4)
  /\ UNCHANGED <<dumpRaw, attached, config, raw_dump, report>>

(* A step fails with this status after releasing R; the object is closed.  *)
FailAfter(R, code) == Release(R) /\ object' = "none" /\ Exit(code)

(* Mutant: one iteration too many. *)
AttachProgram_OneMore ==
  /\ pc = "attach" /\ attached <= Programs
  /\ \/ attached' = attached + 1 /\ Keep /\ UNCHANGED <<object, pc, status>>
     \/ FailAfter({"object"}, 5) /\ UNCHANGED attached
  /\ UNCHANGED <<dumpRaw, loaded_order, config, raw_dump, tried, report>>

(* One iteration of bpf_object__for_each_program. *)
AttachProgram ==
  /\ pc = "attach" /\ attached < Programs
  /\ \/ attached' = attached + 1 /\ Keep /\ UNCHANGED <<object, pc, status>>
     \/ FailAfter({"object"}, 5) /\ UNCHANGED attached
  /\ UNCHANGED <<dumpRaw, loaded_order, config, raw_dump, tried, report>>

(* The two maps, the number of CPUs, the ring of windows. *)
FindMapsAndCpus ==
  /\ pc = "attach" /\ attached = Programs
  /\ \/ Keep /\ UNCHANGED object /\ Goto("ring")
     \/ FailAfter({"object"}, 6)       \* a map is missing
     \/ FailAfter({"object"}, 7)       \* libbpf_num_possible_cpus
  /\ UNCHANGED <<dumpRaw, loaded_order, attached, config, raw_dump, tried, report>>

AllocateRing ==
  /\ pc = "ring"
  /\ \/ /\ Acquire("ring") /\ UNCHANGED object
        /\ Goto(IF dumpRaw THEN "rawOpen" ELSE "loop")
     \/ FailAfter({"object"}, 7)
  /\ UNCHANGED <<dumpRaw, loaded_order, attached, config, raw_dump, tried, report>>

(* raw_dump_setup: the file. *)
RawOpen ==
  /\ pc = "rawOpen"
  /\ \/ /\ Acquire("file") /\ raw_dump' = "file"
        /\ UNCHANGED object /\ Goto("rawConfig")
     \/ FailAfter({"ring", "object"}, 9) /\ UNCHANGED raw_dump
  /\ UNCHANGED <<dumpRaw, loaded_order, attached, config, tried, report>>

(* Mutant: main does not free the ring. *)
RawFails_RingKept == FailAfter({"file", "object"}, 9) /\ raw_dump' = "none"

(* raw_dump_setup closes the file and forgets it; main frees the rest.     *)
RawFails ==
  FailAfter({"file", "ring", "object"}, 9) /\ raw_dump' = "none"

(* raw_dump_setup: the maps of the dump, and its switch. *)
RawConfig ==
  /\ pc = "rawConfig"
  /\ \/ config' = TRUE /\ Keep /\ UNCHANGED <<object, raw_dump>> /\ Goto("rawRing")
     \/ RawFails /\ UNCHANGED config
  /\ UNCHANGED <<dumpRaw, loaded_order, attached, tried, report>>

(* raw_dump_setup: the consumer of the ring buffer. *)
RawRing ==
  /\ pc = "rawRing"
  /\ \/ Acquire("consumer") /\ UNCHANGED <<object, raw_dump>> /\ Goto("loop")
     \/ RawFails
  /\ UNCHANGED <<dumpRaw, loaded_order, attached, config, tried, report>>

(* raw_dump_teardown(raw_rb, &raw_dump) frees what there is of the dump;   *)
(* then the ring is freed and the object closed.                           *)
TearDown(code) ==
  /\ FailAfter({r \in {"consumer"} : dumpRaw}
                 \cup {r \in {"file"} : raw_dump = "file"}
                 \cup {"ring", "object"}, code)
  /\ raw_dump' = "none"

(* Mutant: the failure is not told. *)
DrainLoopFails_Silent ==
  /\ pc = "loop" /\ lpc = "failed"
  /\ TearDown(0)
  /\ UNCHANGED <<dumpRaw, loaded_order, attached, config, tried, report>>

(* SIZE_MAX from run_drain_loop. *)
DrainLoopFails ==
  /\ pc = "loop" /\ lpc = "failed"
  /\ TearDown(8)
  /\ UNCHANGED <<dumpRaw, loaded_order, attached, config, tried, report>>

(* Aggregation, Level 2, the spectral sweep, the verdict and the report.   *)
Report ==
  /\ pc = "loop" /\ lpc = "done"
  /\ report' = loaded_order
  /\ Goto("cleanup")
  /\ Keep
  /\ UNCHANGED <<dumpRaw, object, loaded_order, attached, config, raw_dump, tried>>

Cleanup ==
  /\ pc = "cleanup"
  /\ TearDown(0)
  /\ UNCHANGED <<dumpRaw, loaded_order, attached, config, tried, report>>

MainStep ==
  \/ ParseArgs \/ LoadK4 \/ LoadK3 \/ AttachProgram \/ FindMapsAndCpus
  \/ AllocateRing \/ RawOpen \/ RawConfig \/ RawRing
  \/ DrainLoopFails \/ Report \/ Cleanup

(* The handler is installed once the arguments are parsed. *)
HandleSignal == pc \notin {"parse", "exited"} /\ Signal

Run == \/ MainStep /\ UNCHANGED timeVars
       \/ pc = "loop" /\ LoopStep /\ UNCHANGED mainVars

Clock == Tick /\ UNCHANGED mainVars

Next ==
  \/ Run \/ Clock
  \/ pc = "loop" /\ SleepError /\ UNCHANGED mainVars
  \/ HandleSignal /\ UNCHANGED mainVars

(***************************************************************************)
(* The kernel schedules the process and the clock runs.  Nothing obliges a *)
(* signal to come or a sleep to fail.                                      *)
(***************************************************************************)
Spec == Init /\ [][Next]_vars /\ WF_vars(Run) /\ WF_vars(Clock)

-------------------------------------------------------------------------------
TypeOK ==
  /\ LoopTypeOK
  /\ pc \in {"parse", "loadK4", "loadK3", "attach", "ring", "rawOpen",
             "rawConfig", "rawRing", "loop", "cleanup", "exited"}
  /\ dumpRaw \in BOOLEAN /\ config \in BOOLEAN /\ overReleased \in BOOLEAN
  /\ object \in {"none", "k4", "k3"} /\ loaded_order \in {"k4", "k3"}
  /\ attached \in 0 .. Programs
  /\ raw_dump \in {"none", "file"}
  /\ held \in [Resources -> 0 .. 1]
  /\ tried \subseteq {"k4", "k3"} \X (LoadErrors \cup {"ok"})
  /\ report \in {"none", "k4", "k3"}
  /\ status \in 0 .. 9

(***************************************************************************)
(* Whatever fails, main has released exactly once what it acquired when it *)
(* returns: nothing twice, nothing never.                                  *)
(***************************************************************************)
EverythingReleased ==
  /\ ~overReleased
  /\ pc = "exited" => \A r \in Resources : held[r] = 0

(***************************************************************************)
(* Status 0 from a run that loaded a program means a report was printed,   *)
(* and a printed report means status 0.  That holds for a run cut short by *)
(* a signal, too: it reports what it has.  And the report is for the       *)
(* moment order of the program that really ran, for one for k4 over a k3   *)
(* object would judge m4 = 0 as if measured; k3 runs only where the        *)
(* verifier itself refused k4.                                             *)
(***************************************************************************)
StatusTellsReport ==
  /\ pc = "exited" =>
       /\ report # "none" => status = 0
       /\ status = 0 /\ tried # {} => report # "none" /\ attached = Programs
       /\ lpc = "done" => report # "none"
  /\ report # "none" =>
       /\ <<report, "ok">> \in tried
       /\ report = "k3" => \E e \in VerifierRejections : <<"k4", e>> \in tried

(* Every run ends, whatever fails, whenever a signal comes or none does,   *)
(* and however late the process wakes.                                     *)
RunEnds == <>(pc = "exited")
===============================================================================
