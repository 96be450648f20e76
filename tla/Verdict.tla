-------------------------------- MODULE Verdict -------------------------------
(***************************************************************************)
(* What main does with the ring once the drain loop is over: the global    *)
(* summary, Level 2, the spectral sweep and the twelve evaluators of       *)
(* iomoments_verdict.h, each of which pushes a signal and may worsen the   *)
(* overall verdict.                                                        *)
(*                                                                         *)
(* What is computed from counts, means and m2 is computed exactly.  The    *)
(* bands of the six signals that read m3, m4 or the top-K samples are left *)
(* open: at most one of them is not GREEN where its data suffice, and it   *)
(* is any of them, with any status the evaluator can give.                 *)
(***************************************************************************)
EXTENDS Analysis

CONSTANTS Rings,         \* the rings of windows a behaviour starts from
          FewSamples,    \* 100: below it sample_count is RED
          SomeSamples,   \* 1000: below it sample_count is YELLOW
          MaxPoints,     \* IOMOMENTS_SPECTRAL_MAX_POINTS
          MaxSignals     \* IOMOMENTS_VERDICT_MAX_SIGNALS

GREEN  == 0
YELLOW == 1
AMBER  == 2
RED    == 3

(* The evaluators in the order of iomoments_verdict_compute. *)
Evaluators == << "sample_count", "variance_sanity", "kurtosis_sanity",
  "carleman_partial_sum", "hankel_conditioning", "jb_normality",
  "edgeworth_pdf_consistency", "hill_tail_index", "nyquist_confidence",
  "autocorr_residual", "spectral_sweep", "half_split_stability" >>

(* A verdict has room for the signals of all evaluators. *)
ASSUME VerdictAssumption ==
  /\ Rings \subseteq Seq(Window)
  /\ FewSamples \in Nat /\ SomeSamples \in Nat /\ FewSamples <= SomeSamples
  /\ MaxPoints \in Nat \ {0}
  /\ MaxSignals \in Nat /\ MaxSignals >= Len(Evaluators)

(* The statuses of the open bands. *)
OpenBands ==
  [kurtosis_sanity           |-> {YELLOW, AMBER, RED},
   carleman_partial_sum      |-> {YELLOW, AMBER},
   hankel_conditioning       |-> {YELLOW, AMBER},
   jb_normality              |-> {YELLOW, AMBER},
   edgeworth_pdf_consistency |-> {AMBER},
   hill_tail_index           |-> {YELLOW, AMBER, RED}]

Findings == {[name |-> "none", status |-> GREEN]}
            \cup UNION {[name : {e}, status : OpenBands[e]] : e \in DOMAIN OpenBands}

VARIABLES
  ring, order, finding,    \* the input
  global, l2,
  k, points, min_idx,      \* the sweep: the next k, the points, the least
  pc,
  evaluated,               \* how many evaluators have run
  signals, overall

input == <<ring, order, finding>>
vars  == <<input, global, l2, k, points, min_idx, pc, evaluated, signals, overall>>

NoLevel2 == Level2(<< >>, Empty)

Init ==
  /\ ring \in Rings /\ order \in {3, 4} /\ finding \in Findings
  /\ global = Empty /\ l2 = NoLevel2
  /\ k = 1 /\ points = << >> /\ min_idx = 0
  /\ pc = "level2" /\ evaluated = 0
  /\ signals = << >> /\ overall = GREEN

-------------------------------------------------------------------------------
AnalyzeLevel2 ==
  /\ pc = "level2"
  /\ global' = PoolAll(ring)
  /\ l2' = Level2(ring, global')
  /\ pc' = "sweep"
  /\ UNCHANGED <<input, evaluated, k, points, min_idx, signals, overall>>

(* Mutant: virtual windows of less than a quarter of the ring. *)
SweepGoesOn_Short ==
  /\ Len(ring) >= 4
  /\ SummaryVariance(global).num > 0
  /\ k < Len(ring) \div 4
  /\ Len(points) < MaxPoints
  /\ SweepPoint(ring, k, global).n_virtual >= 4

SweepGoesOn ==
  /\ Len(ring) >= 4
  /\ SummaryVariance(global).num > 0
  /\ k <= Len(ring) \div 4
  /\ Len(points) < MaxPoints
  /\ SweepPoint(ring, k, global).n_virtual >= 4

(* Mutant: the first point is not taken as the least. *)
Sweep_NoFirst ==
  /\ pc = "sweep" /\ SweepGoesOn
  /\ LET p == SweepPoint(ring, k, global) IN
       /\ points' = Append(points, p)
       /\ min_idx' = IF points # << >> /\ LessThan(p.ratio, points[min_idx].ratio)
                     THEN Len(points) + 1 ELSE min_idx
  /\ k' = 2 * k
  /\ UNCHANGED <<input, global, l2, pc, evaluated, signals, overall>>

(* One iteration of the sweep: a strictly smaller ratio is the new least.  *)
Sweep ==
  /\ pc = "sweep" /\ SweepGoesOn
  /\ LET p == SweepPoint(ring, k, global) IN
       /\ points' = Append(points, p)
       /\ min_idx' = IF points = << >> \/ LessThan(p.ratio, points[min_idx].ratio)
                     THEN Len(points) + 1 ELSE min_idx
  /\ k' = 2 * k
  /\ UNCHANGED <<input, global, l2, pc, evaluated, signals, overall>>

EndSweep ==
  /\ pc = "sweep" /\ ~SweepGoesOn
  /\ pc' = "evaluate"
  /\ UNCHANGED <<input, evaluated, global, l2, k, points, min_idx, signals, overall>>

-------------------------------------------------------------------------------
Finding(name) == IF finding.name = name THEN finding.status ELSE GREEN

(* An evaluator that reads m4: without it, or without data, YELLOW. *)
FromM4(name, samples) ==
  IF order < 4 \/ global.n < samples \/ global.m2.num <= 0
  THEN YELLOW ELSE Finding(name)

CarlemanStatus  == FromM4("carleman_partial_sum", 1)
HankelStatus    == FromM4("hankel_conditioning", 1)
JbStatus        == FromM4("jb_normality", 8)
EdgeworthStatus == FromM4("edgeworth_pdf_consistency", 8)

(* kurtosis_sanity has no such guard: over too little data it reads 0. *)
KurtosisStatus ==
  IF order < 4 THEN YELLOW
  ELSE IF global.n = 0 \/ global.m2.num <= 0 THEN GREEN
  ELSE Finding("kurtosis_sanity")

(* Mutant: no YELLOW for a small sample. *)
SampleCountStatus_NoYellow == IF global.n < FewSamples THEN RED ELSE GREEN

SampleCountStatus ==
  IF global.n < FewSamples THEN RED
  ELSE IF global.n < SomeSamples THEN YELLOW ELSE GREEN

VarianceStatus == IF SummaryVariance(global).num <= 0 THEN RED ELSE GREEN

(* With fewer than two samples in the reservoir there is no estimate. *)
HillStatus == IF global.n < 2 THEN YELLOW ELSE Finding("hill_tail_index")

(* Where no ratio was measured the confidence is left at 0. *)
NyquistStatus ==
  IF l2.insufficient THEN YELLOW
  ELSE IF ConfidenceBelow(l2.ratio, TenthRatio) THEN AMBER
  ELSE IF ConfidenceBelow(l2.ratio, HalfRatio) THEN YELLOW ELSE GREEN

AutocorrAbove(bound) == \E lag \in LagValues : LessThan(bound, Abs(l2.autocorr[lag]))

AutocorrStatus ==
  IF AutocorrAbove(Frac(5, 10)) THEN AMBER
  ELSE IF AutocorrAbove(Frac(3, 10)) THEN YELLOW ELSE GREEN

SpectralStatus ==
  IF points = << >> THEN YELLOW
  ELSE IF LessThan(points[min_idx].ratio, Frac(2, 10)) THEN AMBER
  ELSE IF LessThan(points[min_idx].ratio, Frac(5, 10)) THEN YELLOW ELSE GREEN

(* The halves' means against their pooled deviation, and their variances.  *)
HalfSplitStatus ==
  LET mid == Len(ring) \div 2
      a == PoolAll(SubSeq(ring, 1, mid))
      b == PoolAll(SubSeq(ring, mid + 1, Len(ring)))
      va == SummaryVariance(a)
      vb == SummaryVariance(b)
      pooled == Times(Plus(va, vb), Frac(1, 2))
      shift  == Square(Minus(a.m1, b.m1))
      shiftAbove(squared) == pooled.num > 0 /\ LessThan(Times(squared, pooled), shift)
      ratioAbove(r) == /\ va.num > 0 /\ vb.num > 0
                       /\ LessThan(Scale(r, vb), va) \/ LessThan(Scale(r, va), vb)
  IN  IF Len(ring) < 8 \/ a.n = 0 \/ b.n = 0 THEN YELLOW
      ELSE IF shiftAbove(FromInt(1)) \/ ratioAbove(4) THEN AMBER
      ELSE IF shiftAbove(Frac(1, 4)) \/ ratioAbove(2) THEN YELLOW ELSE GREEN

StatusOf(name) ==
  CASE name = "sample_count"              -> SampleCountStatus
    [] name = "variance_sanity"           -> VarianceStatus
    [] name = "kurtosis_sanity"           -> KurtosisStatus
    [] name = "carleman_partial_sum"      -> CarlemanStatus
    [] name = "hankel_conditioning"       -> HankelStatus
    [] name = "jb_normality"              -> JbStatus
    [] name = "edgeworth_pdf_consistency" -> EdgeworthStatus
    [] name = "hill_tail_index"           -> HillStatus
    [] name = "nyquist_confidence"        -> NyquistStatus
    [] name = "autocorr_residual"         -> AutocorrStatus
    [] name = "spectral_sweep"            -> SpectralStatus
    [] name = "half_split_stability"      -> HalfSplitStatus

(* Mutant: the last place is not used. *)
Push_FullTooSoon(name, status) ==
  IF Len(signals) + 1 < MaxSignals
  THEN /\ signals' = Append(signals, [name |-> name, status |-> status])
       /\ overall' = IF status > overall THEN status ELSE overall
  ELSE UNCHANGED <<signals, overall>>

(* iomoments_verdict_push: a full verdict takes no more signals. *)
Push(name, status) ==
  IF Len(signals) < MaxSignals
  THEN /\ signals' = Append(signals, [name |-> name, status |-> status])
       /\ overall' = IF status > overall THEN status ELSE overall
  ELSE UNCHANGED <<signals, overall>>

(* The autocorrelation pushes nothing where Level 2 has too few windows. *)
Silent(name) == name = "autocorr_residual" /\ l2.insufficient

Evaluate ==
  /\ pc = "evaluate"
  /\ LET name == Evaluators[evaluated + 1] IN
       IF Silent(name) THEN UNCHANGED <<signals, overall>>
                       ELSE Push(name, StatusOf(name))
  /\ evaluated' = evaluated + 1
  /\ pc' = IF evaluated' = Len(Evaluators) THEN "done" ELSE pc
  /\ UNCHANGED <<input, global, l2, k, points, min_idx>>

Next == AnalyzeLevel2 \/ Sweep \/ EndSweep \/ Evaluate

Spec == Init /\ [][Next]_vars

-------------------------------------------------------------------------------
Status == GREEN .. RED
Names  == {Evaluators[i] : i \in DOMAIN Evaluators}
Point  == [k : Nat \ {0}, n_virtual : Nat, ratio : Fractions]

TypeOK ==
  /\ ring \in Seq(Window) /\ order \in {3, 4} /\ finding \in Findings
  /\ global \in Window /\ l2.insufficient \in BOOLEAN /\ l2.ratio \in Fractions
  /\ k \in Nat \ {0}
  /\ points \in Seq(Point) /\ Len(points) <= MaxPoints
  /\ min_idx \in 0 .. Len(points) /\ (points # << >> => min_idx # 0)
  /\ pc \in {"level2", "sweep", "evaluate", "done"}
  /\ evaluated \in 0 .. Len(Evaluators)
  /\ signals \in Seq([name : Names, status : Status]) /\ Len(signals) <= MaxSignals
  /\ overall \in Status

(***************************************************************************)
(* The overall verdict is the worst of all twelve evaluators, computed     *)
(* again here from the final data, and each has its signal in the report:  *)
(* none is dropped because the verdict is full, none overwritten.          *)
(***************************************************************************)
OverallIsWorst ==
  pc = "done" =>
    LET speaking == {e \in Names : ~Silent(e)} IN
      /\ {signals[i].name : i \in DOMAIN signals} = speaking
      /\ \A e \in speaking : StatusOf(e) <= overall
      /\ \E e \in speaking : StatusOf(e) = overall

(***************************************************************************)
(* A GREEN verdict, "moments are a trustworthy shape summary", is never    *)
(* given for want of data: every statistic it rests on was really          *)
(* evaluated, from enough samples, windows, halves and moments.            *)
(***************************************************************************)
GreenIsEarned ==
  pc = "done" /\ overall = GREEN =>
    /\ order = 4
    /\ global.n >= SomeSamples /\ SummaryVariance(global).num > 0
    /\ Len(ring) >= 8 /\ Cardinality(NonEmpty(ring)) >= 4
    /\ l2.ratio.num > 0 /\ points # << >>

(***************************************************************************)
(* The point of the sweep: a pattern of window means that repeats every    *)
(* 2 or every 4 windows is found by it, whatever its shape, once four      *)
(* repeats of it were seen: its signal is AMBER, unless nothing varied at  *)
(* all, which is the RED of variance_sanity.                               *)
(***************************************************************************)
Repeats(p) ==
  /\ Len(ring) >= 4 * p
  /\ \A i \in 1 .. Len(ring) - p : ring[i] = ring[i + p]

HiddenPeriodFlagged ==
  pc = "done" /\ NonEmpty(ring) = DOMAIN ring /\ MaxPoints >= 3
    /\ (Repeats(2) \/ Repeats(4))
  => \E i \in DOMAIN signals :
       /\ signals[i].name \in {"variance_sanity", "spectral_sweep"}
       /\ signals[i].status >= AMBER
===============================================================================
