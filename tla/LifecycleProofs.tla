---------------------------- MODULE LifecycleProofs ----------------------------
(***************************************************************************)
(* Proofs about main of iomoments.c with its drain loop, for every         *)
(* command line, clock, number of programs and way of failing.             *)
(***************************************************************************)
EXTENDS Lifecycle, TLAPS

-------------------------------------------------------------------------------
(***************************************************************************)
(* The statements of run_drain_loop, whatever the duration, the window and *)
(* the clock and the remainder of the one by the other: each of them keeps *)
(* the schedule, the ring and the stop within their bounds.                *)
(***************************************************************************)
(* The next wakeup counts the windows stored, one ahead once the loop has  *)
(* stepped it; the loop goes on only within the duration.                  *)
OnSchedule ==
  /\ start <= now
  /\ lpc # "done" => count * window <= total_ns
  /\ lpc = "start" => count = 0
  /\ lpc = "test" => next_wakeup = start + count * window /\ next_wakeup <= now
  /\ lpc \in {"armed", "sleep", "drain"} =>
       /\ next_wakeup = start + count * window + window
       /\ next_wakeup - start <= total_ns
  /\ lpc = "drain" => next_wakeup <= now

(* The windows' end times grow, and stay behind the clock and the wakeup. *)
InOrder ==
  /\ \A i \in 1 .. count : ring[i] <= now
  /\ lpc = "test" => \A i \in 1 .. count : ring[i] <= next_wakeup
  /\ lpc \in {"armed", "sleep", "drain"} =>
       \A i \in 1 .. count : ring[i] < next_wakeup
  /\ \A i \in 1 .. count - 1 :
       \/ ring[i] < ring[i + 1]
       \/ i + 1 = count /\ lpc = "done" /\ ring[i] = ring[i + 1]

(* The wakeup armed is at most a window ahead, and a drain after the       *)
(* signal leads to the test that ends the loop.                            *)
Stopping ==
  /\ lpc \in {"armed", "sleep"} => next_wakeup <= now + window
  /\ stop_flag /\ lpc \in {"armed", "sleep"} => next_wakeup <= stoppedAt + window
  /\ lateDrains <= 1
  /\ lateDrains > 0 => stop_flag /\ lpc \in {"test", "final", "done", "failed"}

LoopIInv == LoopTypeOK /\ OnSchedule /\ InOrder /\ Stopping

-------------------------------------------------------------------------------
(* The sizes the ring is computed from. *)
LEMMA Sizes ==
  ASSUME LoopTypeOK
  PROVE  /\ duration \in Nat /\ window \in Nat /\ window > 0
         /\ total_ns \in Nat /\ count \in Nat /\ count * window \in Nat
<1>1. /\ duration \in Nat /\ window \in Nat /\ window > 0 /\ count \in Nat
      /\ UnitsPerSecond \in Nat
  BY LoopAssumption DEF LoopTypeOK, count
<1>2. \A m, n \in Nat : m * n \in Nat
  OBVIOUS
<1> QED
  BY <1>1, <1>2 DEF total_ns

(* Windows that fit the duration fit its quotient by the window. *)
LEMMA QuotientBounds ==
  ASSUME NEW c \in Nat, NEW w \in Nat, w > 0, NEW t \in Nat, c * w <= t
  PROVE  t \div w \in Nat /\ c <= t \div w
<1>1. t \div w \in Nat /\ t % w \in Nat /\ t % w < w /\ t = (w * (t \div w)) + (t % w)
  BY SMTT(60)
<1> DEFINE q == t \div w
<1>2. ASSUME c > q PROVE FALSE
  <2>1. c >= q + 1 /\ q \in Nat
    BY <1>1, <1>2
  <2>2. PICK d \in Nat : c = (q + 1) + d
    BY <2>1, c - (q + 1) \in Nat
  <2> HIDE DEF q
  <2>3. c * w = w * q + w + d * w /\ d * w \in Nat /\ w * q \in Nat
    BY <2>1, <2>2, SMTT(60)
  <2>4. t = (w * q) + (t % w)
    BY <1>1 DEF q
  <2> QED
    BY <1>1, <2>3, <2>4
<1> QED
  BY <1>1, <1>2

(* The ring always has room for one more window. *)
LEMMA RingHasRoom ==
  ASSUME LoopTypeOK, OnSchedule, lpc # "done"
  PROVE  count < ring_capacity
<1>1. count <= total_ns \div window /\ total_ns \div window \in Nat
  BY Sizes, QuotientBounds DEF OnSchedule
<1>2. ring_capacity = total_ns \div window + 4
  BY DEF ring_capacity, total_ns
<1> QED
  BY <1>1, <1>2, Sizes

LEMMA LoopInitIInv == LoopInit => LoopIInv
<1> SUFFICES ASSUME LoopInit
             PROVE  LoopIInv
  OBVIOUS
<1>1. LoopTypeOK
  <2>1. << >> \in Seq(Nat) /\ 0 \in Nat /\ FALSE \in BOOLEAN
    OBVIOUS
  <2> QED
    BY <2>1 DEF LoopInit, LoopTypeOK
<1>2. count = 0
  BY DEF LoopInit, count
<1>3. 0 * window = 0
  BY <1>1, Sizes
<1>4. OnSchedule
  BY <1>1, <1>2, <1>3, Sizes DEF LoopInit, OnSchedule
<1>5. InOrder /\ Stopping
  BY <1>2 DEF LoopInit, InOrder, Stopping
<1> QED
  BY <1>1, <1>4, <1>5 DEF LoopIInv

-------------------------------------------------------------------------------
(* What holds while the command line and the ring do not change. *)
LEMMA SameSizes ==
  ASSUME UNCHANGED <<duration, window, ring>>
  PROVE  total_ns' = total_ns /\ count' = count
BY DEF total_ns, count

LEMMA TickIInv == LoopIInv /\ Tick => LoopIInv'
<1> SUFFICES ASSUME LoopIInv, Tick
             PROVE  LoopIInv'
  OBVIOUS
<1>1. UNCHANGED <<loopVars, stop_flag, lpc, history>> /\ now' = now + 1
  BY DEF Tick
<1>2. LoopTypeOK'
  BY <1>1 DEF LoopIInv, LoopTypeOK, loopVars, history
<1>3. total_ns' = total_ns /\ count' = count
  BY <1>1, SameSizes DEF loopVars
<1>4. now \in Nat /\ start \in Nat /\ next_wakeup \in Nat /\ stoppedAt \in Nat
  BY DEF LoopIInv, LoopTypeOK
<1>5. \A i \in 1 .. count : ring[i] \in Nat
  BY DEF LoopIInv, LoopTypeOK, count
<1>6. OnSchedule'
  BY <1>1, <1>3, <1>4 DEF LoopIInv, OnSchedule, loopVars
<1>7. InOrder'
  BY <1>1, <1>3, <1>4, <1>5 DEF LoopIInv, InOrder, loopVars
<1>8. Stopping'
  BY <1>1, <1>4, Sizes DEF LoopIInv, Stopping, loopVars, history
<1> QED
  BY <1>2, <1>6, <1>7, <1>8 DEF LoopIInv

LEMMA SignalIInv == LoopIInv /\ Signal => LoopIInv'
<1> SUFFICES ASSUME LoopIInv, Signal
             PROVE  LoopIInv'
  OBVIOUS
<1>1. UNCHANGED <<loopVars, now, lateDrains>> /\ stop_flag' = TRUE
  BY DEF Signal
<1>2. lpc' = lpc \/ (lpc = "sleep" /\ lpc' = "final")
  BY DEF Signal
<1>3. stoppedAt' = now \/ (stop_flag /\ stoppedAt' = stoppedAt)
  BY DEF Signal
<1>4. LoopTypeOK'
  BY <1>1, <1>2, <1>3 DEF LoopIInv, LoopTypeOK, loopVars
<1>5. total_ns' = total_ns /\ count' = count
  BY <1>1, SameSizes DEF loopVars
<1>6. OnSchedule'
  BY <1>1, <1>2, <1>5 DEF LoopIInv, OnSchedule, loopVars
<1>7. InOrder'
  BY <1>1, <1>2, <1>5 DEF LoopIInv, InOrder, loopVars
<1>8. Stopping'
  BY <1>1, <1>2, <1>3 DEF LoopIInv, Stopping, loopVars
<1> QED
  BY <1>4, <1>6, <1>7, <1>8 DEF LoopIInv

(* Steps of the loop that leave the wakeup and the ring alone. *)
LEMMA QuietStepIInv ==
  ASSUME LoopIInv, Sleep \/ Wake \/ SleepError
  PROVE  LoopIInv'
<1>1. UNCHANGED <<loopVars, now, stop_flag, history>>
  BY DEF Sleep, Wake, SleepError
<1>2. \/ lpc = "armed" /\ lpc' = "sleep"
      \/ lpc = "sleep" /\ lpc' = "drain" /\ next_wakeup <= now
      \/ lpc = "sleep" /\ lpc' = "final"
  BY DEF Sleep, Wake, SleepError, LoopIInv, LoopTypeOK
<1>3. LoopTypeOK'
  BY <1>1, <1>2 DEF LoopIInv, LoopTypeOK, loopVars, history
<1>4. total_ns' = total_ns /\ count' = count
  BY <1>1, SameSizes DEF loopVars
<1>5. OnSchedule'
  BY <1>1, <1>2, <1>4 DEF LoopIInv, OnSchedule, loopVars
<1>6. InOrder'
  BY <1>1, <1>2, <1>4 DEF LoopIInv, InOrder, loopVars
<1>7. Stopping'
  BY <1>1, <1>2 DEF LoopIInv, Stopping, loopVars, history
<1> QED
  BY <1>3, <1>5, <1>6, <1>7 DEF LoopIInv

LEMMA StartIInv == LoopIInv /\ Start => LoopIInv'
<1> SUFFICES ASSUME LoopIInv, Start
             PROVE  LoopIInv'
  OBVIOUS
<1>1. /\ UNCHANGED <<duration, window, ring, now, stop_flag, history>>
      /\ lpc = "start"
      /\ \/ lpc' = "test" /\ start' = now /\ next_wakeup' = now
         \/ lpc' = "failed" /\ UNCHANGED <<start, next_wakeup>>
  BY DEF Start
<1>2. LoopTypeOK'
  BY <1>1 DEF LoopIInv, LoopTypeOK, history
<1>3. total_ns' = total_ns /\ count' = count /\ count = 0
  BY <1>1, SameSizes DEF LoopIInv, OnSchedule
<1>4. 0 * window = 0 /\ 0 <= total_ns
  BY Sizes DEF LoopIInv
<1>5. now \in Nat
  BY DEF LoopIInv, LoopTypeOK
<1>6. OnSchedule'
  BY <1>1, <1>3, <1>4, <1>5 DEF LoopIInv, OnSchedule
<1>7. InOrder'
  BY <1>1, <1>3 DEF LoopIInv, InOrder
<1>8. Stopping'
  BY <1>1 DEF LoopIInv, Stopping, history
<1> QED
  BY <1>2, <1>6, <1>7, <1>8 DEF LoopIInv

LEMMA TestIInv == LoopIInv /\ Test => LoopIInv'
<1> SUFFICES ASSUME LoopIInv, Test
             PROVE  LoopIInv'
  OBVIOUS
<1>1. /\ UNCHANGED <<duration, window, start, ring, now, stop_flag, history>>
      /\ lpc = "test"
      /\ \/ stop_flag /\ lpc' = "final" /\ next_wakeup' = next_wakeup
         \/ /\ ~stop_flag /\ next_wakeup' = next_wakeup + window
            /\ \/ lpc' = "final"
               \/ lpc' = "armed" /\ next_wakeup' - start <= total_ns
  <2>1. CASE stop_flag
    BY <2>1 DEF Test
  <2>2. CASE ~stop_flag
    <3>1. CASE next_wakeup' - start > total_ns
      BY <2>2, <3>1 DEF Test
    <3>2. CASE ~(next_wakeup' - start > total_ns)
      <4>1. next_wakeup' = next_wakeup + window
        BY <2>2 DEF Test
      <4>2. next_wakeup' - start <= total_ns
        BY <3>2, <4>1, Sizes DEF LoopIInv, LoopTypeOK
      <4> QED
        BY <2>2, <3>2, <4>2 DEF Test
    <3> QED
      BY <3>1, <3>2
  <2> QED
    BY <2>1, <2>2
<1>2. window \in Nat /\ window > 0 /\ count * window \in Nat
  BY Sizes DEF LoopIInv
<1>3. now \in Nat /\ start \in Nat /\ next_wakeup \in Nat
  BY DEF LoopIInv, LoopTypeOK
<1>4. LoopTypeOK'
  BY <1>1, <1>2 DEF LoopIInv, LoopTypeOK, history
<1>5. total_ns' = total_ns /\ count' = count
  BY <1>1, SameSizes
<1>6. OnSchedule'
  BY <1>1, <1>2, <1>3, <1>5 DEF LoopIInv, OnSchedule
<1>7. \A i \in 1 .. count : ring[i] \in Nat
  BY DEF LoopIInv, LoopTypeOK, count
<1>8. InOrder'
  BY <1>1, <1>2, <1>3, <1>5, <1>7 DEF LoopIInv, InOrder
<1>9. Stopping'
  BY <1>1, <1>2, <1>3 DEF LoopIInv, OnSchedule, Stopping, history
<1> QED
  BY <1>4, <1>6, <1>8, <1>9 DEF LoopIInv

(* A window is stored after the others. *)
LEMMA StoreWindowResult ==
  ASSUME LoopTypeOK, NEW end_ts \in Nat, StoreWindow(end_ts)
  PROVE  /\ ring' \in Seq(Nat) /\ count' = count + 1
         /\ \A i \in 1 .. count : ring'[i] = ring[i] /\ ring[i] \in Nat
         /\ ring'[count + 1] = end_ts
BY DEF LoopTypeOK, StoreWindow, count

LEMMA DrainWindowIInv == LoopIInv /\ DrainWindow => LoopIInv'
<1> SUFFICES ASSUME LoopIInv, DrainWindow
             PROVE  LoopIInv'
  OBVIOUS
<1> USE DEF LoopIInv
<1>1. /\ UNCHANGED <<duration, window, start, next_wakeup, now>>
      /\ UNCHANGED <<stop_flag, stoppedAt>>
      /\ lpc = "drain"
      /\ lateDrains' = IF stop_flag THEN lateDrains + 1 ELSE lateDrains
  BY DEF DrainWindow
<1>2. /\ window \in Nat /\ window > 0 /\ count \in Nat /\ count * window \in Nat
      /\ now \in Nat /\ start \in Nat /\ next_wakeup \in Nat /\ total_ns \in Nat
  BY Sizes DEF LoopTypeOK
<1>3. lateDrains = 0 /\ lateDrains' \in {0, 1} /\ (lateDrains' > 0 => stop_flag)
  BY <1>1 DEF Stopping, LoopTypeOK
<1>4. CASE StoreWindow(next_wakeup) /\ lpc' = "test"
  <2>1. /\ ring' \in Seq(Nat) /\ count' = count + 1
        /\ \A i \in 1 .. count : ring'[i] = ring[i] /\ ring[i] \in Nat
        /\ ring'[count + 1] = next_wakeup
    BY <1>2, <1>4, StoreWindowResult
  <2>2. (count + 1) * window = count * window + window
    BY <1>2
  <2>3. total_ns' = total_ns
    BY <1>1 DEF total_ns
  <2>4. LoopTypeOK'
    BY <1>1, <1>3, <1>4, <2>1 DEF LoopTypeOK
  <2>5. count' * window' = count * window + window
    BY <1>1, <2>1, <2>2
  <2>6. OnSchedule'
    BY <1>1, <1>2, <1>4, <2>3, <2>5 DEF OnSchedule
  <2>7. \A i \in 1 .. count' : i \in 1 .. count \/ i = count + 1
    BY <1>2, <2>1
  <2>8. \A i \in 1 .. count' : ring'[i] <= next_wakeup /\ ring'[i] <= now
    <3>1. next_wakeup <= now
      BY <1>1 DEF OnSchedule
    <3>2. \A i \in 1 .. count : ring'[i] <= now /\ ring'[i] < next_wakeup
      BY <1>1, <2>1 DEF InOrder
    <3>3. TAKE i \in 1 .. count'
    <3>4. CASE i \in 1 .. count
      BY <1>2, <2>1, <3>2, <3>4
    <3>5. CASE i = count + 1
      BY <1>2, <2>1, <3>1, <3>5
    <3> QED
      BY <2>7, <3>4, <3>5
  <2>9. \A i \in 1 .. count' - 1 : ring'[i] < ring'[i + 1]
    <3>1. TAKE i \in 1 .. count' - 1
    <3>2. CASE i = count
      <4>1. i \in 1 .. count
        BY <1>2, <2>1, <3>2
      <4>2. ring[i] < next_wakeup
        BY <1>1, <4>1 DEF InOrder
      <4> QED
        BY <2>1, <3>2, <4>1, <4>2
    <3>3. CASE i # count
      <4>1. i \in 1 .. count - 1 /\ i \in 1 .. count /\ i + 1 \in 1 .. count
        BY <1>2, <2>1, <3>3
      <4> QED
        BY <1>1, <2>1, <4>1 DEF InOrder
    <3> QED
      BY <3>2, <3>3
  <2>10. InOrder'
    BY <1>1, <1>4, <2>8, <2>9 DEF InOrder
  <2>11. Stopping'
    BY <1>1, <1>3, <1>4 DEF Stopping
  <2> QED
    BY <2>4, <2>6, <2>10, <2>11
<1>5. CASE lpc' = "failed" /\ UNCHANGED ring
  <2>1. total_ns' = total_ns /\ count' = count
    BY <1>1, <1>5, SameSizes
  <2>2. LoopTypeOK'
    BY <1>1, <1>3, <1>5 DEF LoopTypeOK
  <2>3. OnSchedule' /\ InOrder'
    BY <1>1, <1>5, <2>1 DEF OnSchedule, InOrder
  <2>4. Stopping'
    BY <1>1, <1>3, <1>5 DEF Stopping
  <2> QED
    BY <2>2, <2>3, <2>4
<1> QED
  BY <1>4, <1>5, RingHasRoom DEF DrainWindow

LEMMA FinalDrainIInv == LoopIInv /\ FinalDrain => LoopIInv'
<1> SUFFICES ASSUME LoopIInv, FinalDrain
             PROVE  LoopIInv'
  OBVIOUS
<1> USE DEF LoopIInv
<1>1. /\ UNCHANGED <<duration, window, start, next_wakeup, now, stop_flag, history>>
      /\ lpc = "final" /\ lpc' = "done"
      /\ StoreWindow(now) \/ UNCHANGED ring
  BY DEF FinalDrain
<1>2. /\ count \in Nat /\ now \in Nat /\ \A i \in 1 .. count : ring[i] <= now
      /\ \A i \in 1 .. count - 1 : ring[i] < ring[i + 1]
  BY <1>1, Sizes DEF InOrder, LoopTypeOK
<1>3. OnSchedule'
  BY <1>1 DEF OnSchedule
<1>4. Stopping'
  BY <1>1 DEF Stopping, history
<1>5. CASE StoreWindow(now)
  <2>1. /\ ring' \in Seq(Nat) /\ count' = count + 1
        /\ \A i \in 1 .. count : ring'[i] = ring[i] /\ ring[i] \in Nat
        /\ ring'[count + 1] = now
    BY <1>2, <1>5, StoreWindowResult
  <2>2. LoopTypeOK'
    BY <1>1, <2>1 DEF LoopTypeOK, history
  <2>3. \A i \in 1 .. count' : ring'[i] <= now
    <3>1. TAKE i \in 1 .. count'
    <3>2. CASE i = count + 1
      BY <1>2, <2>1, <3>2
    <3>3. CASE i # count + 1
      <4>1. i \in 1 .. count
        BY <1>2, <2>1, <3>3
      <4> QED
        BY <1>2, <2>1, <4>1
    <3> QED
      BY <3>2, <3>3
  <2>4. \A i \in 1 .. count' - 1 :
          ring'[i] < ring'[i + 1] \/ (i + 1 = count' /\ ring'[i] = ring'[i + 1])
    <3>1. TAKE i \in 1 .. count' - 1
    <3>2. CASE i = count
      <4>1. count \in 1 .. count
        BY <1>2, <2>1, <3>2
      <4>2. ring'[count] \in Nat /\ ring'[count] <= now
        BY <1>2, <2>1, <4>1
      <4>3. ring'[count + 1] = now /\ i + 1 = count'
        BY <2>1, <3>2
      <4>4. ring'[count] < now \/ ring'[count] = now
        BY <1>2, <4>2
      <4> QED
        BY <3>2, <4>3, <4>4
    <3>3. CASE i # count
      <4>1. i \in 1 .. count - 1 /\ i \in 1 .. count /\ i + 1 \in 1 .. count
        BY <1>2, <2>1, <3>3
      <4> QED
        BY <1>2, <2>1, <4>1
    <3> QED
      BY <3>2, <3>3
  <2>5. InOrder'
    BY <1>1, <2>3, <2>4 DEF InOrder
  <2> QED
    BY <1>3, <1>4, <2>2, <2>5
<1>6. CASE UNCHANGED ring
  <2>1. count' = count
    BY <1>6 DEF count
  <2>2. LoopTypeOK'
    BY <1>1, <1>6 DEF LoopTypeOK, history
  <2>3. InOrder'
    BY <1>1, <1>2, <1>6, <2>1 DEF InOrder
  <2> QED
    BY <1>3, <1>4, <2>2, <2>3
<1> QED
  BY <1>1, <1>5, <1>6

-------------------------------------------------------------------------------
(* Every statement of the loop keeps its invariant. *)
LEMMA LoopStepIInv == LoopIInv /\ LoopStep => LoopIInv'
BY StartIInv, TestIInv, QuietStepIInv, DrainWindowIInv, FinalDrainIInv
   DEF LoopStep

(* What the invariant is for. *)
LEMMA LoopIInvImplies == LoopIInv => WindowsKeptInOrder /\ StopWithinWindow
<1> SUFFICES ASSUME LoopIInv
             PROVE  WindowsKeptInOrder /\ StopWithinWindow
  OBVIOUS
<1>1. WindowsKeptInOrder
  BY RingHasRoom DEF LoopIInv, InOrder, WindowsKeptInOrder
<1>2. StopWithinWindow
  BY DEF LoopIInv, Stopping, StopWithinWindow
<1> QED
  BY <1>1, <1>2

-------------------------------------------------------------------------------
(* main around the loop. *)
RingPlaces   == {"rawOpen", "rawConfig", "rawRing", "loop", "cleanup"}
ObjectPlaces == {"attach", "ring"} \cup RingPlaces
LoopPlaces   == {"loop", "cleanup"}

(* What main holds at each of its places, with or without a raw dump. *)
HeldAt(place, raw) ==
  {r \in Resources :
     \/ r = "object" /\ place \in ObjectPlaces
     \/ r = "ring" /\ place \in RingPlaces
     \/ r = "file" /\ (place \in {"rawConfig", "rawRing"} \/ (raw /\ place \in LoopPlaces))
     \/ r = "consumer" /\ raw /\ place \in LoopPlaces}

Holding(R) == [r \in Resources |-> IF r \in R THEN 1 ELSE 0]

(* The resources are a function of the place, and raw_dump tells of the    *)
(* file: so each failure's list of releases is neither short nor long.     *)
HeldByPlace ==
  /\ overReleased = FALSE
  /\ held = Holding(HeldAt(pc, dumpRaw))
  /\ raw_dump = "file" <=> "file" \in HeldAt(pc, dumpRaw)
  /\ pc \in {"rawOpen", "rawConfig", "rawRing"} => dumpRaw

K3IsJustified ==
  \E e \in VerifierRejections : <<"k4", e>> \in tried

(* What main knows at each place of the object it loaded and of the loop.  *)
Told ==
  /\ pc \in {"parse", "loadK4"} => tried = {}
  /\ pc \in {"parse", "loadK4", "loadK3"} => loaded_order = "k4"
  /\ pc = "loadK3" => K3IsJustified
  /\ pc \in ObjectPlaces =>
       /\ <<loaded_order, "ok">> \in tried
       /\ loaded_order = "k3" => K3IsJustified
  /\ pc \in {"ring"} \cup RingPlaces => attached = Programs
  /\ pc \notin {"cleanup", "exited"} => report = "none"
  /\ pc = "cleanup" => report = loaded_order /\ lpc = "done"
  /\ pc # "exited" => status = 0
  /\ pc \notin {"loop", "cleanup", "exited"} => lpc = "start"
  /\ pc # "loop" => lpc \in {"start", "done", "failed"}

IInv == TypeOK /\ LoopIInv /\ HeldByPlace /\ Told /\ StatusTellsReport

-------------------------------------------------------------------------------
(* Releasing exactly what is held leaves nothing. *)
LEMMA ReleaseHeld ==
  ASSUME NEW R, R \subseteq Resources, held = Holding(R), overReleased = FALSE, Release(R)
  PROVE  held' = Holding({}) /\ overReleased' = FALSE
<1>1. \A r \in R : held[r] = 1
  BY DEF Holding
<1>2. \A r \in Resources : r \notin R => held[r] = 0
  BY DEF Holding
<1>3. held' = [r \in Resources |-> 0]
  BY <1>1, <1>2 DEF Release
<1>4. overReleased' = FALSE
  <2>1. ~ \E r \in R : held[r] = 0
    BY <1>1
  <2> QED
    BY <2>1, Zenon DEF Release
<1> QED
  BY <1>3, <1>4 DEF Holding

(* Acquiring what is not held adds it. *)
LEMMA AcquireNew ==
  ASSUME NEW R, NEW r \in Resources, r \notin R,
         held = Holding(R), overReleased = FALSE, Acquire(r)
  PROVE  held' = Holding(R \cup {r}) /\ overReleased' = FALSE
<1>1. held' = [held EXCEPT ![r] = held[r] + 1] /\ overReleased' = FALSE
  BY DEF Acquire
<1>2. held[r] = 0
  BY DEF Holding
<1>3. \A q \in Resources : held'[q] = IF q \in R \cup {r} THEN 1 ELSE 0
  BY <1>1, <1>2 DEF Holding
<1> QED
  BY <1>1, <1>3 DEF Holding

LEMMA HoldingType == \A R : Holding(R) \in [Resources -> 0 .. 1]
BY DEF Holding

LEMMA InitIInv == Init => IInv
<1> SUFFICES ASSUME Init
             PROVE  IInv
  OBVIOUS
<1>1. LoopIInv
  BY LoopInitIInv DEF Init
<1>2. TypeOK
  <2>1. held \in [Resources -> 0 .. 1]
    BY DEF Init
  <2>2. dumpRaw \in BOOLEAN /\ config \in BOOLEAN /\ overReleased \in BOOLEAN
    BY Zenon DEF Init
  <2>3. attached \in 0 .. Programs /\ status \in 0 .. 9
    BY LifecycleAssumption DEF Init
  <2>4. /\ pc = "parse" /\ object = "none" /\ loaded_order = "k4"
        /\ raw_dump = "none" /\ tried = {} /\ report = "none"
    BY DEF Init
  <2> QED
    BY <1>1, <2>1, <2>2, <2>3, <2>4 DEF TypeOK, LoopIInv
<1>3. HeldByPlace
  <2>1. HeldAt(pc, dumpRaw) = {}
    BY DEF Init, HeldAt, ObjectPlaces, RingPlaces, LoopPlaces
  <2> QED
    BY <2>1 DEF Init, HeldByPlace, Holding
<1>4. Told /\ StatusTellsReport
  BY DEF Init, LoopInit, Told, StatusTellsReport, ObjectPlaces, RingPlaces
<1> QED
  BY <1>1, <1>2, <1>3, <1>4 DEF IInv

-------------------------------------------------------------------------------
(* A step of main leaves the loop's state alone. *)
LEMMA LoopUnchanged ==
  ASSUME LoopIInv, UNCHANGED timeVars
  PROVE  LoopIInv' /\ lpc' = lpc
<1>1. /\ UNCHANGED <<duration, window, start, next_wakeup, ring>>
      /\ UNCHANGED <<now, stop_flag, lpc, stoppedAt, lateDrains>>
  BY DEF timeVars, loopVars, history
<1>2. total_ns' = total_ns /\ count' = count
  BY <1>1, SameSizes
<1>3. LoopTypeOK'
  BY <1>1 DEF LoopIInv, LoopTypeOK
<1>4. OnSchedule' /\ InOrder' /\ Stopping'
  BY <1>1, <1>2 DEF LoopIInv, OnSchedule, InOrder, Stopping
<1> QED
  BY <1>1, <1>3, <1>4 DEF LoopIInv

(* What the places hold. *)
LEMMA Places ==
  ASSUME NEW raw
  PROVE  /\ \A p \in {"parse", "loadK4", "loadK3", "exited"} : HeldAt(p, raw) = {}
         /\ HeldAt("attach", raw) = {"object"}
         /\ HeldAt("ring", raw) = {"object"}
         /\ HeldAt("rawOpen", raw) = {"object", "ring"}
         /\ HeldAt("rawConfig", raw) = {"object", "ring", "file"}
         /\ HeldAt("rawRing", raw) = {"object", "ring", "file"}
         /\ \A p \in LoopPlaces :
              HeldAt(p, raw) = {"object", "ring"} \cup
                                 {r \in {"file", "consumer"} : raw}
BY DEF HeldAt, Resources, ObjectPlaces, RingPlaces, LoopPlaces

(* A failure that releases all there is keeps the account. *)
LEMMA FailReleases ==
  ASSUME HeldByPlace, NEW R, R = HeldAt(pc, dumpRaw), NEW code,
         FailAfter(R, code), raw_dump' = "none"
  PROVE  HeldByPlace' /\ pc' = "exited" /\ status' = code /\ object' = "none"
<1>1. Release(R) /\ pc' = "exited" /\ status' = code /\ object' = "none"
  BY DEF FailAfter, Exit
<1>2. R \subseteq Resources
  BY DEF HeldAt
<1>3. held' = Holding({}) /\ overReleased' = FALSE
  BY <1>1, <1>2, ReleaseHeld DEF HeldByPlace
<1>4. HeldAt(pc', dumpRaw') = {}
  BY <1>1, Places
<1> QED
  BY <1>1, <1>3, <1>4 DEF HeldByPlace

(* The account is kept by a step between places that hold the same. *)
LEMMA KeepHolds ==
  ASSUME HeldByPlace, Keep, UNCHANGED raw_dump,
         HeldAt(pc', dumpRaw') = HeldAt(pc, dumpRaw),
         pc' \in {"rawOpen", "rawConfig", "rawRing"} => dumpRaw'
  PROVE  HeldByPlace'
BY DEF Keep, HeldByPlace

(* The account is kept by a step that acquires what the next place has.    *)
LEMMA AcquireHolds ==
  ASSUME HeldByPlace, NEW r \in Resources, Acquire(r),
         r \notin HeldAt(pc, dumpRaw),
         HeldAt(pc', dumpRaw') = HeldAt(pc, dumpRaw) \cup {r},
         raw_dump' = "file" <=> "file" \in HeldAt(pc', dumpRaw'),
         pc' \in {"rawOpen", "rawConfig", "rawRing"} => dumpRaw'
  PROVE  HeldByPlace'
<1>1. held' = Holding(HeldAt(pc', dumpRaw')) /\ overReleased' = FALSE
  BY AcquireNew DEF HeldByPlace
<1> QED
  BY <1>1 DEF HeldByPlace

LEMMA HeldType ==
  ASSUME HeldByPlace'
  PROVE  held' \in [Resources -> 0 .. 1] /\ overReleased' \in BOOLEAN
BY HoldingType DEF HeldByPlace

(* The type invariant in parts: the loop's, the attempts to load, the rest. *)
MainTypeOK ==
  /\ pc \in {"parse", "loadK4", "loadK3", "attach", "ring", "rawOpen",
             "rawConfig", "rawRing", "loop", "cleanup", "exited"}
  /\ dumpRaw \in BOOLEAN /\ config \in BOOLEAN /\ overReleased \in BOOLEAN
  /\ object \in {"none", "k4", "k3"} /\ loaded_order \in {"k4", "k3"}
  /\ attached \in 0 .. Programs
  /\ raw_dump \in {"none", "file"}
  /\ held \in [Resources -> 0 .. 1]
  /\ report \in {"none", "k4", "k3"}
  /\ status \in 0 .. 9

TriedTypeOK == tried \subseteq {"k4", "k3"} \X (LoadErrors \cup {"ok"})

LEMMA TypeOKParts ==
  /\ TypeOK <=> LoopTypeOK /\ MainTypeOK /\ TriedTypeOK
  /\ TypeOK' <=> LoopTypeOK' /\ MainTypeOK' /\ TriedTypeOK'
BY DEF TypeOK, MainTypeOK, TriedTypeOK

(* What is recorded of an attempt to load. *)
LEMMA TriedGrows ==
  ASSUME TypeOK, NEW v \in {"k4", "k3"}, NEW e \in LoadErrors \cup {"ok"},
         tried' = tried \cup {<<v, e>>}
  PROVE  TriedTypeOK'
BY DEF TypeOK, TriedTypeOK

(* The statuses of main are among those of its type. *)
LEMMA Statuses == {0, 2, 4, 5, 6, 7, 8, 9} \subseteq 0 .. 9
OBVIOUS

-------------------------------------------------------------------------------
LEMMA ParseArgsIInv == IInv /\ ParseArgs /\ UNCHANGED timeVars => IInv'
<1> SUFFICES ASSUME IInv, ParseArgs, UNCHANGED timeVars
             PROVE  IInv'
  OBVIOUS
<1> USE DEF IInv
<1>1. LoopIInv' /\ lpc' = lpc
  BY LoopUnchanged
<1>2. /\ pc = "parse"
      /\ \/ pc' = "exited" /\ status' \in {0, 2} /\ dumpRaw' = dumpRaw
         \/ pc' = "loadK4" /\ status' = status /\ dumpRaw' \in BOOLEAN
      /\ UNCHANGED <<object, loaded_order, attached, config, raw_dump>>
      /\ UNCHANGED <<held, overReleased, tried, report>>
  BY DEF ParseArgs, Exit, Goto
<1>3. HeldByPlace'
  <2>1. HeldAt(pc, dumpRaw) = {} /\ HeldAt(pc', dumpRaw') = {}
    BY <1>2, Places
  <2> QED
    BY <1>2, <2>1, KeepHolds DEF Keep
<1>4. TypeOK'
  BY <1>1, <1>2, <1>3, HeldType, Statuses DEF TypeOK, LoopIInv
<1>5. Told' /\ StatusTellsReport'
  BY <1>1, <1>2 DEF Told, StatusTellsReport, ObjectPlaces, RingPlaces
<1> QED
  BY <1>1, <1>3, <1>4, <1>5

LEMMA LoadK4IInv == IInv /\ LoadK4 /\ UNCHANGED timeVars => IInv'
<1> SUFFICES ASSUME IInv, LoadK4, UNCHANGED timeVars
             PROVE  IInv'
  OBVIOUS
<1> USE DEF IInv
<1>1. LoopIInv' /\ lpc' = lpc
  BY LoopUnchanged
<1>2. /\ pc = "loadK4"
      /\ UNCHANGED <<dumpRaw, loaded_order, attached, config, raw_dump, report>>
  BY DEF LoadK4
<1>3. CASE LoadSucceeds("k4") /\ Goto("attach")
  <2>1. /\ pc' = "attach" /\ status' = status /\ Acquire("object")
        /\ object' = "k4" /\ tried' = tried \cup {<<"k4", "ok">>}
    BY <1>3 DEF LoadSucceeds, Goto
  <2>2. HeldByPlace'
    <3>1. HeldAt(pc, dumpRaw) = {} /\ HeldAt(pc', dumpRaw') = {"object"}
      BY <1>2, <2>1, Places
    <3>2. raw_dump' = "file" <=> "file" \in HeldAt(pc', dumpRaw')
      BY <1>2, <3>1 DEF HeldByPlace
    <3> QED
      BY <2>1, <3>1, <3>2, AcquireHolds DEF Resources
  <2>3. TypeOK'
    <3>1. TriedTypeOK'
      BY <2>1, TriedGrows
    <3>2. MainTypeOK'
      BY <1>1, <1>2, <2>1, <2>2, HeldType, TypeOKParts DEF MainTypeOK
    <3>3. LoopTypeOK'
      BY <1>1 DEF LoopIInv
    <3> QED
      BY <3>1, <3>2, <3>3, TypeOKParts
  <2>4. Told' /\ StatusTellsReport'
    BY <1>1, <1>2, <2>1 DEF Told, StatusTellsReport, ObjectPlaces, RingPlaces
  <2> QED
    BY <1>1, <2>2, <2>3, <2>4
<1>4. ASSUME NEW e \in LoadErrors, LoadFails("k4", e),
             IF e \in VerifierRejections THEN Goto("loadK3") ELSE Exit(4)
      PROVE  IInv'
  <2>1. /\ Keep /\ object' = object /\ tried' = tried \cup {<<"k4", e>>}
        /\ \/ pc' = "loadK3" /\ status' = status /\ e \in VerifierRejections
           \/ pc' = "exited" /\ status' = 4
    BY <1>4 DEF LoadFails, Goto, Exit
  <2>2. HeldByPlace'
    BY <1>2, <2>1, Places, KeepHolds
  <2>3. TypeOK'
    <3>1. TriedTypeOK'
      BY <2>1, TriedGrows, <1>4
    <3>2. MainTypeOK'
      BY <1>1, <1>2, <2>1, <2>2, HeldType, Statuses, TypeOKParts DEF MainTypeOK
    <3>3. LoopTypeOK'
      BY <1>1 DEF LoopIInv
    <3> QED
      BY <3>1, <3>2, <3>3, TypeOKParts
  <2>4. Told' /\ StatusTellsReport'
    BY <1>1, <1>2, <2>1
       DEF Told, StatusTellsReport, K3IsJustified, ObjectPlaces, RingPlaces
  <2> QED
    BY <1>1, <2>2, <2>3, <2>4
<1> QED
  BY <1>3, <1>4 DEF LoadK4

LEMMA LoadK3IInv == IInv /\ LoadK3 /\ UNCHANGED timeVars => IInv'
<1> SUFFICES ASSUME IInv, LoadK3, UNCHANGED timeVars
             PROVE  IInv'
  OBVIOUS
<1> USE DEF IInv
<1>1. LoopIInv' /\ lpc' = lpc
  BY LoopUnchanged
<1>2. /\ pc = "loadK3"
      /\ UNCHANGED <<dumpRaw, attached, config, raw_dump, report>>
  BY DEF LoadK3
<1>3. CASE LoadSucceeds("k3") /\ loaded_order' = "k3" /\ Goto("attach")
  <2>1. /\ pc' = "attach" /\ status' = status /\ Acquire("object")
        /\ object' = "k3" /\ loaded_order' = "k3"
        /\ tried' = tried \cup {<<"k3", "ok">>}
    BY <1>3 DEF LoadSucceeds, Goto
  <2>2. HeldByPlace'
    <3>1. HeldAt(pc, dumpRaw) = {} /\ HeldAt(pc', dumpRaw') = {"object"}
      BY <1>2, <2>1, Places
    <3>2. raw_dump' = "file" <=> "file" \in HeldAt(pc', dumpRaw')
      BY <1>2, <3>1 DEF HeldByPlace
    <3> QED
      BY <2>1, <3>1, <3>2, AcquireHolds DEF Resources
  <2>3. TypeOK'
    <3>1. TriedTypeOK'
      BY <2>1, TriedGrows
    <3>2. MainTypeOK'
      BY <1>1, <1>2, <2>1, <2>2, HeldType, TypeOKParts DEF MainTypeOK
    <3>3. LoopTypeOK'
      BY <1>1 DEF LoopIInv
    <3> QED
      BY <3>1, <3>2, <3>3, TypeOKParts
  <2>4. Told' /\ StatusTellsReport'
    BY <1>1, <1>2, <2>1
       DEF Told, StatusTellsReport, K3IsJustified, ObjectPlaces, RingPlaces
  <2> QED
    BY <1>1, <2>2, <2>3, <2>4
<1>4. ASSUME NEW e \in LoadErrors, LoadFails("k3", e),
             UNCHANGED loaded_order, Exit(4)
      PROVE  IInv'
  <2>1. /\ Keep /\ object' = object /\ tried' = tried \cup {<<"k3", e>>}
        /\ pc' = "exited" /\ status' = 4
    BY <1>4 DEF LoadFails, Exit
  <2>2. HeldByPlace'
    BY <1>2, <2>1, Places, KeepHolds
  <2>3. TypeOK'
    <3>1. TriedTypeOK'
      BY <2>1, TriedGrows, <1>4
    <3>2. MainTypeOK'
      BY <1>1, <1>2, <1>4, <2>1, <2>2, HeldType, Statuses, TypeOKParts DEF MainTypeOK
    <3>3. LoopTypeOK'
      BY <1>1 DEF LoopIInv
    <3> QED
      BY <3>1, <3>2, <3>3, TypeOKParts
  <2>4. Told' /\ StatusTellsReport'
    BY <1>1, <1>2, <2>1 DEF Told, StatusTellsReport, ObjectPlaces, RingPlaces
  <2> QED
    BY <1>1, <2>2, <2>3, <2>4
<1> QED
  BY <1>3, <1>4 DEF LoadK3

(* Every failure after the object is loaded: all is released, nothing is   *)
(* reported and the status says so.                                        *)
LEMMA FailIInv ==
  ASSUME IInv, UNCHANGED timeVars, pc \in ObjectPlaces, pc # "cleanup",
         lpc \in {"start", "failed"},
         NEW R, R = HeldAt(pc, dumpRaw),
         NEW code \in {5, 6, 7, 8, 9}, FailAfter(R, code), raw_dump' = "none",
         UNCHANGED <<dumpRaw, loaded_order, tried, report>>,
         attached' = attached, config' \in BOOLEAN
  PROVE  IInv'
<1> USE DEF IInv
<1>1. LoopIInv' /\ lpc' = lpc
  BY LoopUnchanged
<1>2. HeldByPlace' /\ pc' = "exited" /\ status' = code /\ object' = "none"
  BY FailReleases
<1>3. MainTypeOK'
  BY <1>2, HeldType, TypeOKParts, Statuses DEF MainTypeOK
<1>4. TypeOK'
  BY <1>1, <1>3, TypeOKParts DEF LoopIInv, TriedTypeOK
<1>5. Told' /\ StatusTellsReport'
  BY <1>1, <1>2 DEF Told, StatusTellsReport, ObjectPlaces, RingPlaces
<1> QED
  BY <1>1, <1>2, <1>4, <1>5

LEMMA AttachProgramIInv == IInv /\ AttachProgram /\ UNCHANGED timeVars => IInv'
<1> SUFFICES ASSUME IInv, AttachProgram, UNCHANGED timeVars
             PROVE  IInv'
  OBVIOUS
<1> USE DEF IInv
<1>1. LoopIInv' /\ lpc' = lpc
  BY LoopUnchanged
<1>2. /\ pc = "attach" /\ attached < Programs /\ HeldAt(pc, dumpRaw) = {"object"}
      /\ UNCHANGED <<dumpRaw, loaded_order, config, raw_dump, tried, report>>
  BY Places DEF AttachProgram
<1>3. lpc = "start" /\ raw_dump = "none" /\ attached \in Nat /\ config \in BOOLEAN
  BY <1>2, TypeOKParts DEF Told, HeldByPlace, MainTypeOK
<1>4. CASE attached' = attached + 1 /\ Keep /\ UNCHANGED <<object, pc, status>>
  <2>1. HeldByPlace'
    BY <1>2, <1>4, KeepHolds
  <2>2. attached' \in 0 .. Programs
    BY <1>2, <1>3, <1>4, LifecycleAssumption
  <2>3. MainTypeOK'
    BY <1>2, <1>4, <2>1, <2>2, HeldType, TypeOKParts DEF MainTypeOK
  <2>4. TypeOK'
    BY <1>1, <1>2, <2>3, TypeOKParts DEF LoopIInv, TriedTypeOK
  <2>5. Told' /\ StatusTellsReport'
    BY <1>1, <1>2, <1>4
       DEF Told, StatusTellsReport, K3IsJustified, ObjectPlaces, RingPlaces
  <2> QED
    BY <1>1, <2>1, <2>4, <2>5
<1>5. CASE FailAfter({"object"}, 5) /\ UNCHANGED attached
  BY <1>2, <1>3, <1>5, FailIInv DEF ObjectPlaces
<1> QED
  BY <1>4, <1>5 DEF AttachProgram

LEMMA FindMapsAndCpusIInv == IInv /\ FindMapsAndCpus /\ UNCHANGED timeVars => IInv'
<1> SUFFICES ASSUME IInv, FindMapsAndCpus, UNCHANGED timeVars
             PROVE  IInv'
  OBVIOUS
<1> USE DEF IInv
<1>1. LoopIInv' /\ lpc' = lpc
  BY LoopUnchanged
<1>2. /\ pc = "attach" /\ attached = Programs /\ HeldAt(pc, dumpRaw) = {"object"}
      /\ UNCHANGED <<dumpRaw, loaded_order, attached, config, raw_dump>>
      /\ UNCHANGED <<tried, report>>
  BY Places DEF FindMapsAndCpus
<1>3. lpc = "start" /\ raw_dump = "none" /\ config \in BOOLEAN
  BY <1>2, TypeOKParts DEF Told, HeldByPlace, MainTypeOK
<1>4. CASE Keep /\ UNCHANGED object /\ Goto("ring")
  <2>1. pc' = "ring" /\ status' = status
    BY <1>4 DEF Goto
  <2>2. HeldByPlace'
    BY <1>2, <1>4, <2>1, Places, KeepHolds
  <2>3. MainTypeOK'
    BY <1>2, <1>4, <2>1, <2>2, HeldType, TypeOKParts DEF MainTypeOK
  <2>4. TypeOK'
    BY <1>1, <1>2, <2>3, TypeOKParts DEF LoopIInv, TriedTypeOK
  <2>5. Told' /\ StatusTellsReport'
    BY <1>1, <1>2, <1>4, <2>1
       DEF Told, StatusTellsReport, K3IsJustified, ObjectPlaces, RingPlaces
  <2> QED
    BY <1>1, <2>2, <2>4, <2>5
<1>5. CASE FailAfter({"object"}, 6) \/ FailAfter({"object"}, 7)
  BY <1>2, <1>3, <1>5, FailIInv DEF ObjectPlaces
<1> QED
  BY <1>4, <1>5 DEF FindMapsAndCpus

LEMMA AllocateRingIInv == IInv /\ AllocateRing /\ UNCHANGED timeVars => IInv'
<1> SUFFICES ASSUME IInv, AllocateRing, UNCHANGED timeVars
             PROVE  IInv'
  OBVIOUS
<1> USE DEF IInv
<1>1. LoopIInv' /\ lpc' = lpc
  BY LoopUnchanged
<1>2. /\ pc = "ring" /\ HeldAt(pc, dumpRaw) = {"object"}
      /\ UNCHANGED <<dumpRaw, loaded_order, attached, config, raw_dump>>
      /\ UNCHANGED <<tried, report>>
  BY Places DEF AllocateRing
<1>3. lpc = "start" /\ raw_dump = "none" /\ config \in BOOLEAN
  BY <1>2, TypeOKParts DEF Told, HeldByPlace, MainTypeOK
<1>4. CASE Acquire("ring") /\ UNCHANGED object
           /\ Goto(IF dumpRaw THEN "rawOpen" ELSE "loop")
  <2>1. /\ status' = status
        /\ \/ pc' = "rawOpen" /\ dumpRaw
           \/ pc' = "loop" /\ ~dumpRaw
    BY <1>4 DEF Goto
  <2>2. HeldAt(pc', dumpRaw') = {"object", "ring"}
    BY <1>2, <2>1 DEF HeldAt, Resources, ObjectPlaces, RingPlaces, LoopPlaces
  <2>3. HeldByPlace'
    BY <1>2, <1>3, <1>4, <2>1, <2>2, AcquireHolds DEF Resources
  <2>4. MainTypeOK'
    BY <1>2, <1>4, <2>1, <2>3, HeldType, TypeOKParts DEF MainTypeOK
  <2>5. TypeOK'
    BY <1>1, <1>2, <2>4, TypeOKParts DEF LoopIInv, TriedTypeOK
  <2>6. Told' /\ StatusTellsReport'
    BY <1>1, <1>2, <1>4, <2>1
       DEF Told, StatusTellsReport, K3IsJustified, ObjectPlaces, RingPlaces
  <2> QED
    BY <1>1, <2>3, <2>5, <2>6
<1>5. CASE FailAfter({"object"}, 7)
  BY <1>2, <1>3, <1>5, FailIInv DEF ObjectPlaces
<1> QED
  BY <1>4, <1>5 DEF AllocateRing

LEMMA RawOpenIInv == IInv /\ RawOpen /\ UNCHANGED timeVars => IInv'
<1> SUFFICES ASSUME IInv, RawOpen, UNCHANGED timeVars
             PROVE  IInv'
  OBVIOUS
<1> USE DEF IInv
<1>1. LoopIInv' /\ lpc' = lpc
  BY LoopUnchanged
<1>2. /\ pc = "rawOpen" /\ HeldAt(pc, dumpRaw) = {"object", "ring"}
      /\ UNCHANGED <<dumpRaw, loaded_order, attached, config, tried, report>>
  BY Places DEF RawOpen
<1>3. lpc = "start" /\ raw_dump = "none" /\ dumpRaw /\ config \in BOOLEAN
  BY <1>2, TypeOKParts DEF Told, HeldByPlace, MainTypeOK
<1>4. CASE /\ Acquire("file") /\ raw_dump' = "file"
           /\ UNCHANGED object /\ Goto("rawConfig")
  <2>1. pc' = "rawConfig" /\ status' = status
    BY <1>4 DEF Goto
  <2>2. HeldAt(pc', dumpRaw') = {"object", "ring", "file"}
    BY <2>1, Places
  <2>3. HeldByPlace'
    BY <1>2, <1>3, <1>4, <2>1, <2>2, AcquireHolds DEF Resources
  <2>4. MainTypeOK'
    BY <1>2, <1>4, <2>1, <2>3, HeldType, TypeOKParts DEF MainTypeOK
  <2>5. TypeOK'
    BY <1>1, <1>2, <2>4, TypeOKParts DEF LoopIInv, TriedTypeOK
  <2>6. Told' /\ StatusTellsReport'
    BY <1>1, <1>2, <1>4, <2>1
       DEF Told, StatusTellsReport, K3IsJustified, ObjectPlaces, RingPlaces
  <2> QED
    BY <1>1, <2>3, <2>5, <2>6
<1>5. CASE FailAfter({"ring", "object"}, 9) /\ UNCHANGED raw_dump
  <2>1. {"ring", "object"} = HeldAt(pc, dumpRaw)
    BY <1>2
  <2> QED
    BY <1>2, <1>3, <1>5, <2>1, FailIInv DEF ObjectPlaces, RingPlaces
<1> QED
  BY <1>4, <1>5 DEF RawOpen

(* raw_dump_setup fails once the file is open. *)
LEMMA RawFailsIInv ==
  ASSUME IInv, UNCHANGED timeVars, pc \in {"rawConfig", "rawRing"}, RawFails,
         UNCHANGED <<dumpRaw, loaded_order, attached, tried, report>>,
         UNCHANGED config
  PROVE  IInv'
<1>1. {"file", "ring", "object"} = HeldAt(pc, dumpRaw)
  BY Places
<1>2. lpc = "start" /\ config \in BOOLEAN
  BY TypeOKParts DEF IInv, Told, MainTypeOK
<1> QED
  BY <1>1, <1>2, FailIInv DEF RawFails, ObjectPlaces, RingPlaces

LEMMA RawConfigIInv == IInv /\ RawConfig /\ UNCHANGED timeVars => IInv'
<1> SUFFICES ASSUME IInv, RawConfig, UNCHANGED timeVars
             PROVE  IInv'
  OBVIOUS
<1> USE DEF IInv
<1>1. LoopIInv' /\ lpc' = lpc
  BY LoopUnchanged
<1>2. /\ pc = "rawConfig"
      /\ UNCHANGED <<dumpRaw, loaded_order, attached, tried, report>>
  BY DEF RawConfig
<1>3. CASE /\ config' = TRUE /\ Keep /\ UNCHANGED <<object, raw_dump>>
           /\ Goto("rawRing")
  <2>1. pc' = "rawRing" /\ status' = status
    BY <1>3 DEF Goto
  <2>2. HeldByPlace'
    BY <1>2, <1>3, <2>1, Places, KeepHolds DEF HeldByPlace
  <2>3. MainTypeOK'
    BY <1>2, <1>3, <2>1, <2>2, HeldType, TypeOKParts DEF MainTypeOK
  <2>4. TypeOK'
    BY <1>1, <1>2, <2>3, TypeOKParts DEF LoopIInv, TriedTypeOK
  <2>5. Told' /\ StatusTellsReport'
    BY <1>1, <1>2, <1>3, <2>1
       DEF Told, StatusTellsReport, K3IsJustified, ObjectPlaces, RingPlaces
  <2> QED
    BY <1>1, <2>2, <2>4, <2>5
<1>4. CASE RawFails /\ UNCHANGED config
  BY <1>2, <1>4, RawFailsIInv
<1> QED
  BY <1>3, <1>4 DEF RawConfig

LEMMA RawRingIInv == IInv /\ RawRing /\ UNCHANGED timeVars => IInv'
<1> SUFFICES ASSUME IInv, RawRing, UNCHANGED timeVars
             PROVE  IInv'
  OBVIOUS
<1> USE DEF IInv
<1>1. LoopIInv' /\ lpc' = lpc
  BY LoopUnchanged
<1>2. /\ pc = "rawRing" /\ HeldAt(pc, dumpRaw) = {"object", "ring", "file"}
      /\ UNCHANGED <<dumpRaw, loaded_order, attached, config, tried, report>>
  BY Places DEF RawRing
<1>3. CASE Acquire("consumer") /\ UNCHANGED <<object, raw_dump>> /\ Goto("loop")
  <2>1. pc' = "loop" /\ status' = status /\ dumpRaw
    BY <1>2, <1>3 DEF Goto, HeldByPlace
  <2>2. HeldAt(pc', dumpRaw') = {"object", "ring", "file", "consumer"}
    BY <1>2, <2>1 DEF HeldAt, Resources, ObjectPlaces, RingPlaces, LoopPlaces
  <2>3. HeldByPlace'
    <3>1. raw_dump' = "file"
      BY <1>2, <1>3 DEF HeldByPlace
    <3> QED
      BY <1>2, <1>3, <2>1, <2>2, <3>1, AcquireHolds DEF Resources
  <2>4. MainTypeOK'
    BY <1>2, <1>3, <2>1, <2>3, HeldType, TypeOKParts DEF MainTypeOK
  <2>5. TypeOK'
    BY <1>1, <1>2, <2>4, TypeOKParts DEF LoopIInv, TriedTypeOK
  <2>6. Told' /\ StatusTellsReport'
    BY <1>1, <1>2, <1>3, <2>1
       DEF Told, StatusTellsReport, K3IsJustified, ObjectPlaces, RingPlaces
  <2> QED
    BY <1>1, <2>3, <2>5, <2>6
<1>4. CASE RawFails
  BY <1>2, <1>4, RawFailsIInv
<1> QED
  BY <1>3, <1>4 DEF RawRing

-------------------------------------------------------------------------------
(* The last lines of main release all there is, with or without a dump. *)
LEMMA TearDownResult ==
  ASSUME HeldByPlace, pc \in LoopPlaces, dumpRaw \in BOOLEAN,
         NEW code, TearDown(code)
  PROVE  /\ FailAfter(HeldAt(pc, dumpRaw), code)
         /\ raw_dump' = "none"
<1>1. {r \in {"consumer"} : dumpRaw} \cup {r \in {"file"} : raw_dump = "file"}
        \cup {"ring", "object"} = HeldAt(pc, dumpRaw)
  <2>1. raw_dump = "file" <=> dumpRaw
    BY DEF HeldByPlace, HeldAt, Resources, LoopPlaces
  <2>2. HeldAt(pc, dumpRaw) = {"object", "ring"} \cup
                                {r \in {"file", "consumer"} : dumpRaw}
    BY Places
  <2> QED
    BY <2>1, <2>2
<1> QED
  BY <1>1 DEF TearDown

LEMMA DrainLoopFailsIInv == IInv /\ DrainLoopFails /\ UNCHANGED timeVars => IInv'
<1> SUFFICES ASSUME IInv, DrainLoopFails, UNCHANGED timeVars
             PROVE  IInv'
  OBVIOUS
<1>1. /\ pc = "loop" /\ lpc = "failed" /\ TearDown(8)
      /\ UNCHANGED <<dumpRaw, loaded_order, attached, config, tried, report>>
  BY DEF DrainLoopFails
<1>2. dumpRaw \in BOOLEAN /\ config \in BOOLEAN
  BY TypeOKParts DEF IInv, MainTypeOK
<1>3. FailAfter(HeldAt(pc, dumpRaw), 8) /\ raw_dump' = "none"
  BY <1>1, <1>2, TearDownResult DEF IInv, LoopPlaces
<1> QED
  BY <1>1, <1>2, <1>3, FailIInv DEF ObjectPlaces, RingPlaces

LEMMA ReportIInv == IInv /\ Report /\ UNCHANGED timeVars => IInv'
<1> SUFFICES ASSUME IInv, Report, UNCHANGED timeVars
             PROVE  IInv'
  OBVIOUS
<1> USE DEF IInv
<1>1. LoopIInv' /\ lpc' = lpc
  BY LoopUnchanged
<1>2. /\ pc = "loop" /\ lpc = "done" /\ pc' = "cleanup" /\ status' = status
      /\ report' = loaded_order /\ Keep
      /\ UNCHANGED <<dumpRaw, object, loaded_order, attached, config>>
      /\ UNCHANGED <<raw_dump, tried>>
  BY DEF Report, Goto
<1>3. HeldByPlace'
  <2>1. HeldAt(pc', dumpRaw') = HeldAt(pc, dumpRaw)
    BY <1>2, Places DEF LoopPlaces
  <2> QED
    BY <1>2, <2>1, KeepHolds
<1>4. MainTypeOK'
  BY <1>2, <1>3, HeldType, TypeOKParts DEF MainTypeOK
<1>5. TypeOK'
  BY <1>1, <1>2, <1>4, TypeOKParts DEF LoopIInv, TriedTypeOK
<1>6. Told'
  BY <1>1, <1>2 DEF Told, K3IsJustified, ObjectPlaces, RingPlaces
<1>7. StatusTellsReport'
  BY <1>2 DEF Told, StatusTellsReport, K3IsJustified, ObjectPlaces, RingPlaces
<1> QED
  BY <1>1, <1>3, <1>5, <1>6, <1>7

LEMMA CleanupIInv == IInv /\ Cleanup /\ UNCHANGED timeVars => IInv'
<1> SUFFICES ASSUME IInv, Cleanup, UNCHANGED timeVars
             PROVE  IInv'
  OBVIOUS
<1> USE DEF IInv
<1>1. LoopIInv' /\ lpc' = lpc
  BY LoopUnchanged
<1>2. /\ pc = "cleanup" /\ TearDown(0)
      /\ UNCHANGED <<dumpRaw, loaded_order, attached, config, tried, report>>
  BY DEF Cleanup
<1>3. HeldByPlace' /\ pc' = "exited" /\ status' = 0 /\ object' = "none"
      /\ raw_dump' = "none"
  BY <1>2, TypeOKParts, TearDownResult, FailReleases DEF MainTypeOK, LoopPlaces
<1>4. MainTypeOK'
  BY <1>2, <1>3, HeldType, TypeOKParts, Statuses DEF MainTypeOK
<1>5. TypeOK'
  BY <1>1, <1>2, <1>4, TypeOKParts DEF LoopIInv, TriedTypeOK
<1>6. Told'
  BY <1>1, <1>2, <1>3 DEF Told, ObjectPlaces, RingPlaces
<1>7. StatusTellsReport'
  <2>1. report # "none" /\ attached = Programs
    BY <1>2, TypeOKParts DEF Told, MainTypeOK, RingPlaces
  <2> QED
    BY <1>1, <1>2, <1>3, <2>1 DEF StatusTellsReport
<1> QED
  BY <1>1, <1>3, <1>5, <1>6, <1>7

(* Steps of the loop, the clock and signals leave main's own state alone.  *)
LEMMA LoopMovesIInv ==
  ASSUME IInv, LoopIInv', UNCHANGED mainVars,
         pc # "loop" => lpc' = lpc
  PROVE  IInv'
<1> USE DEF IInv
<1>1. /\ UNCHANGED <<pc, dumpRaw, object, loaded_order, attached, config>>
      /\ UNCHANGED <<raw_dump, held, overReleased, tried, report, status>>
  BY DEF mainVars
<1>2. TypeOK'
  BY <1>1, TypeOKParts DEF LoopIInv, MainTypeOK, TriedTypeOK
<1>3. HeldByPlace'
  BY <1>1 DEF HeldByPlace
<1>4. Told'
  BY <1>1 DEF Told, K3IsJustified, ObjectPlaces, RingPlaces
<1>5. StatusTellsReport'
  BY <1>1 DEF StatusTellsReport
<1> QED
  BY <1>2, <1>3, <1>4, <1>5

LEMMA MainStepIInv == IInv /\ MainStep /\ UNCHANGED timeVars => IInv'
BY ParseArgsIInv, LoadK4IInv, LoadK3IInv, AttachProgramIInv,
   FindMapsAndCpusIInv, AllocateRingIInv, RawOpenIInv, RawConfigIInv,
   RawRingIInv, DrainLoopFailsIInv, ReportIInv, CleanupIInv
   DEF MainStep

LEMMA NextIInv == IInv /\ [Next]_vars => IInv'
<1> SUFFICES ASSUME IInv, [Next]_vars
             PROVE  IInv'
  OBVIOUS
<1>1. CASE MainStep /\ UNCHANGED timeVars
  BY <1>1, MainStepIInv
<1>2. CASE pc = "loop" /\ LoopStep /\ UNCHANGED mainVars
  BY <1>2, LoopStepIInv, LoopMovesIInv DEF IInv
<1>3. CASE Clock
  BY <1>3, TickIInv, LoopMovesIInv DEF IInv, Clock, Tick
<1>4. CASE pc = "loop" /\ SleepError /\ UNCHANGED mainVars
  BY <1>4, QuietStepIInv, LoopMovesIInv DEF IInv
<1>5. CASE HandleSignal /\ UNCHANGED mainVars
  <2>1. lpc # "sleep" => lpc' = lpc
    BY <1>5 DEF HandleSignal, Signal
  <2> QED
    BY <1>5, <2>1, SignalIInv, LoopMovesIInv DEF IInv, Told, HandleSignal
<1>6. CASE UNCHANGED vars
  BY <1>6, LoopUnchanged, LoopMovesIInv DEF IInv, vars
<1> QED
  BY <1>1, <1>2, <1>3, <1>4, <1>5, <1>6 DEF Next, Run

LEMMA SpecIInv == Spec => []IInv
BY InitIInv, NextIInv, PTL DEF Spec

-------------------------------------------------------------------------------
(* The state of main and of its drain loop keeps its types; in particular  *)
(* no resource is acquired twice.                                          *)
THEOREM TypeCorrect == Spec => []TypeOK
<1>1. IInv => TypeOK
  BY DEF IInv
<1> QED
  BY <1>1, SpecIInv, PTL

(* Whatever step of main fails, and whether a signal ends the run, main    *)
(* has released each thing it acquired exactly once when it returns.       *)
THEOREM ReleasedOnce == Spec => []EverythingReleased
<1>1. IInv => EverythingReleased
  <2>1. ASSUME HeldByPlace, pc = "exited"
        PROVE  \A r \in Resources : held[r] = 0
    BY <2>1, Places DEF HeldByPlace, Holding
  <2> QED
    BY <2>1 DEF IInv, HeldByPlace, EverythingReleased
<1> QED
  BY <1>1, SpecIInv, PTL

(* The exit status tells whether a report was printed, and the report is   *)
(* for the moment order of the program that was loaded.                    *)
THEOREM StatusIsTrue == Spec => []StatusTellsReport
<1>1. IInv => StatusTellsReport
  BY DEF IInv
<1> QED
  BY <1>1, SpecIInv, PTL

(* The ring_capacity run_drain_loop computes is never exhausted, for any   *)
(* duration and window, and the windows are in order of their end times.   *)
THEOREM RingNeverFull == Spec => []WindowsKeptInOrder
<1>1. IInv => WindowsKeptInOrder
  BY LoopIInvImplies DEF IInv
<1> QED
  BY <1>1, SpecIInv, PTL

(* A signal, whenever it comes, stops the loop within a window.            *)
THEOREM StopsInTime == Spec => []StopWithinWindow
<1>1. IInv => StopWithinWindow
  BY LoopIInvImplies DEF IInv
<1> QED
  BY <1>1, SpecIInv, PTL
===============================================================================
