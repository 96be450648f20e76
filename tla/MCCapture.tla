------------------------------- MODULE MCCapture ------------------------------
(***************************************************************************)
(* A latency from the issue of its request to the file of the raw dump, in *)
(* two halves: ReqTracker takes the sample, RawDump has it on its way.     *)
(* They share nothing but that a sample taken is a completion begun, and   *)
(* RawDump has completions begin whenever they like; so each half is       *)
(* explored by itself, and a behaviour is of one of them.                  *)
(***************************************************************************)
EXTENDS ReqTracker, RawDump, TLC

VARIABLE half

CaptureInit == Init /\ DumpInit /\ half \in {"sample", "dump"}

CaptureNext ==
  \/ half = "sample" /\ Next /\ UNCHANGED <<dumpVars, half>>
  \/ half = "dump" /\ DumpNext /\ UNCHANGED <<vars, half>>

CaptureSpec == CaptureInit /\ [][CaptureNext]_<<vars, dumpVars, half>>

Symmetries == Permutations(Reqs) \cup Permutations(Samples)
===============================================================================
