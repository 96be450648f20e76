------------------------------- MODULE DrainLoop ------------------------------
(***************************************************************************)
(* run_drain_loop of iomoments.c and its signal handler: the absolute-time *)
(* wakeups, the ways out of the loop, the ring of windows and the final    *)
(* drain.  Time passes between any two steps, a drain may take longer than *)
(* a window, and SIGINT or SIGTERM may come at any moment, in particular   *)
(* between the test of stop_flag and the sleep.                            *)
(*                                                                         *)
(* Time is counted in units of which a second has UnitsPerSecond; --window *)
(* is a number of units (the code's unit is the millisecond).              *)
(***************************************************************************)
EXTENDS Integers, Sequences

CONSTANTS UnitsPerSecond,   \* 1000 in the code
          Durations,        \* values of --duration, in seconds
          Windows,          \* values of --window, in units
          MaxTime           \* bound: the clock's last value

ASSUME LoopAssumption ==
  /\ UnitsPerSecond \in Nat \ {0}
  /\ Durations \subseteq Nat \ {0}
  /\ Windows \subseteq Nat \ {0}
  /\ MaxTime \in Nat

VARIABLES
  duration, window,  \* the command line
  now,               \* CLOCK_MONOTONIC
  start,             \* start_ts
  next_wakeup,
  stop_flag,
  ring,              \* end_ts_ns of the windows stored; its length is count
  lpc,               \* where run_drain_loop is
  stoppedAt,         \* history: when the first signal came
  lateDrains         \* history: periodic drains since that signal

loopVars == <<duration, window, start, next_wakeup, ring>>
history  == <<stoppedAt, lateDrains>>
timeVars == <<loopVars, now, stop_flag, lpc, history>>

total_ns      == duration * UnitsPerSecond

(* Mutant: room for the periodic windows only. *)
ring_capacity_NoSlack == (duration * UnitsPerSecond) \div window

ring_capacity == (duration * UnitsPerSecond) \div window + 4
count         == Len(ring)

LoopInit ==
  /\ duration \in Durations /\ window \in Windows
  /\ now = 0 /\ start = 0 /\ next_wakeup = 0
  /\ stop_flag = FALSE
  /\ ring = << >>
  /\ lpc = "start"
  /\ stoppedAt = 0 /\ lateDrains = 0

-------------------------------------------------------------------------------
(* Time passes between any two steps.  It is counted from just before the  *)
(* loop reads its start time, so that the bound always lets a sleep end.   *)
Tick ==
  /\ lpc # "start"
  /\ now < MaxTime
  /\ now' = now + 1
  /\ UNCHANGED <<loopVars, stop_flag, lpc, history>>

(* stop_handler.  A signal during the sleep makes it return EINTR, unless  *)
(* the sleep was over and about to return by itself.                       *)
Signal ==
  /\ stop_flag' = TRUE
  /\ stoppedAt' = IF stop_flag THEN stoppedAt ELSE now
  /\ \/ lpc' = IF lpc = "sleep" THEN "final" ELSE lpc
     \/ lpc = "sleep" /\ now >= next_wakeup /\ lpc' = lpc
  /\ UNCHANGED <<loopVars, now, lateDrains>>

(* The clock is read; where it cannot be, the loop returns SIZE_MAX. *)
Start ==
  /\ lpc = "start"
  /\ \/ start' = now /\ next_wakeup' = now /\ lpc' = "test"
     \/ lpc' = "failed" /\ UNCHANGED <<start, next_wakeup>>
  /\ UNCHANGED <<duration, window, ring, now, stop_flag, history>>

(* Mutant: the loop does not look at stop_flag. *)
Test_IgnoresStop ==
  /\ lpc = "test"
  /\ next_wakeup' = next_wakeup + window
  /\ lpc' = IF next_wakeup' - start > total_ns THEN "final" ELSE "armed"
  /\ UNCHANGED <<duration, window, start, ring, now, stop_flag, history>>

(* Mutant: the loop does not look at the duration. *)
Test_IgnoresDuration ==
  /\ lpc = "test"
  /\ IF stop_flag
     THEN lpc' = "final" /\ UNCHANGED next_wakeup
     ELSE next_wakeup' = next_wakeup + window /\ lpc' = "armed"
  /\ UNCHANGED <<duration, window, start, ring, now, stop_flag, history>>

(* The loop's condition, the next wakeup and the end of the duration. *)
Test ==
  /\ lpc = "test"
  /\ IF stop_flag
     THEN lpc' = "final" /\ UNCHANGED next_wakeup
     ELSE /\ next_wakeup' = next_wakeup + window
          /\ lpc' = IF next_wakeup' - start > total_ns THEN "final" ELSE "armed"
  /\ UNCHANGED <<duration, window, start, ring, now, stop_flag, history>>

(* clock_nanosleep is entered. *)
Sleep ==
  /\ lpc = "armed"
  /\ lpc' = "sleep"
  /\ UNCHANGED <<loopVars, now, stop_flag, history>>

Wake ==
  /\ lpc = "sleep"
  /\ now >= next_wakeup
  /\ lpc' = "drain"
  /\ UNCHANGED <<loopVars, now, stop_flag, history>>

SleepError ==
  /\ lpc = "sleep"
  /\ lpc' = "final"
  /\ UNCHANGED <<loopVars, now, stop_flag, history>>

StoreWindow(end_ts) == ring' = Append(ring, end_ts)

(* The periodic drain: a failing one ends the run. *)
DrainWindow ==
  /\ lpc = "drain"
  /\ lateDrains' = IF stop_flag THEN lateDrains + 1 ELSE lateDrains
  /\ \/ count < ring_capacity /\ StoreWindow(next_wakeup) /\ lpc' = "test"
     \/ count < ring_capacity /\ lpc' = "failed" /\ UNCHANGED ring
     \/ ~(count < ring_capacity) /\ lpc' = "test" /\ UNCHANGED ring
  /\ UNCHANGED <<duration, window, start, next_wakeup, now, stop_flag>>
  /\ UNCHANGED stoppedAt

(* The drain after the loop: a failing one is ignored. *)
FinalDrain ==
  /\ lpc = "final"
  /\ \/ count < ring_capacity /\ StoreWindow(now)
     \/ UNCHANGED ring
  /\ lpc' = "done"
  /\ UNCHANGED <<duration, window, start, next_wakeup, now, stop_flag>>
  /\ UNCHANGED history

(* The statements of the loop; the sleep's error is told apart, since      *)
(* nothing obliges it to happen.                                           *)
LoopStep == Start \/ Test \/ Sleep \/ Wake \/ DrainWindow \/ FinalDrain

-------------------------------------------------------------------------------
LoopTypeOK ==
  /\ duration \in Durations /\ window \in Windows
  /\ now \in Nat /\ start \in Nat /\ next_wakeup \in Nat
  /\ stop_flag \in BOOLEAN
  /\ ring \in Seq(Nat)
  /\ lpc \in {"start", "test", "armed", "sleep", "drain", "final", "done", "failed"}
  /\ stoppedAt \in Nat /\ lateDrains \in Nat

(***************************************************************************)
(* The ring allocated up front has room for every window, the final one    *)
(* included: the tests of count against ring_capacity never turn a drain   *)
(* away, whatever the rounding of duration by window.  And the windows in  *)
(* it are in the order of their end times, none later than the clock: the  *)
(* final drain's timestamp, taken from the clock, is not before the last   *)
(* periodic one's, taken from the schedule, even if drains fall behind.    *)
(***************************************************************************)
WindowsKeptInOrder ==
  /\ lpc \in {"drain", "final"} => count < ring_capacity
  /\ \A i \in 1 .. count : ring[i] <= now
  /\ \A i \in 1 .. count - 1 :
       \/ ring[i] < ring[i + 1]
       \/ i + 1 = count /\ lpc = "done" /\ ring[i] = ring[i + 1]

(***************************************************************************)
(* A signal that comes between the test of stop_flag and the sleep does    *)
(* not interrupt the sleep; the run still ends within one window of it and *)
(* drains at most once more before the final drain.                        *)
(***************************************************************************)
StopWithinWindow ==
  stop_flag =>
    /\ lateDrains <= 1
    /\ lpc \in {"armed", "sleep"} => next_wakeup <= stoppedAt + window
===============================================================================
