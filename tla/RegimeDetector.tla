--------------------------- MODULE RegimeDetector ---------------------------
(***************************************************************************)
(* engine/regime.py: the market label of one instrument and its            *)
(* hysteresis.  Efficiency, volatility and trend come from the shared      *)
(* statistics and momentum from a feature; here they are whole numbers on  *)
(* a grid around the configured thresholds.                                *)
(***************************************************************************)
EXTENDS Integers

CONSTANTS
    TopEfficiency,      \* grid: efficiency_ratio is 0..TopEfficiency
    TopVolatility,      \* grid: mid_volatility_ticks is 0..TopVolatility
    TopTrend,           \* grid: trend_ticks is -TopTrend..TopTrend
    ErTrend,            \* er_trend
    ErRange,            \* er_range
    PullbackMinEr,      \* pullback_min_er
    VolHigh,            \* vol_high_ticks
    TrendMin,           \* trend_min_ticks
    ConfirmSnapshots,   \* confirm_snapshots
    MinDwell,           \* min_dwell_snapshots
    CountLimit          \* bound: where the counters stop

ASSUME RegimeAssumption ==
    /\ {TopEfficiency, TopVolatility, TopTrend, ErTrend, ErRange, PullbackMinEr,
        VolHigh, TrendMin, ConfirmSnapshots, MinDwell, CountLimit} \subseteq Nat
    /\ ErRange < ErTrend
    /\ 1 <= ConfirmSnapshots /\ ConfirmSnapshots <= CountLimit
    /\ 1 <= MinDwell /\ MinDwell <= CountLimit

VARIABLES
    ready,              \* min_samples reached and both trend averages warm
    regime,             \* _regime
    dwell,              \* _dwell
    candidate,          \* _candidate
    candidateCount,     \* _candidate_count
    runLabel,           \* history: the last proposal
    run,                \* history: how often in a row it was proposed
    heldFor             \* history: updates since the label changed

detectorVars == <<regime, dwell, candidate, candidateCount>>
runVars == <<runLabel, run, heldFor>>
vars == <<ready, detectorVars, runVars>>

Labels == {"TREND", "PULLBACK", "RANGE", "NOISE", "UNKNOWN"}
Efficiencies == 0..TopEfficiency
Volatilities == 0..TopVolatility
Trends == -TopTrend..TopTrend
Signs == {-1, 0, 1}

Sign(x) == IF x > 0 THEN 1 ELSE IF x < 0 THEN -1 ELSE 0
Magnitude(x) == IF x < 0 THEN -x ELSE x

CountUp(n) == IF n < CountLimit THEN n + 1 ELSE n

----------------------------------------------------------------------------
Directional(trend) == Magnitude(trend) >= TrendMin

Opposed(trend, momentum) ==
    Directional(trend) /\ momentum # 0 /\ momentum = -Sign(trend)

\* _classify, once the statistics are ready.
Classify(efficiency, volatility, trend, momentum) ==
    IF volatility >= VolHigh /\ efficiency < ErTrend THEN "NOISE"
    ELSE IF efficiency >= ErTrend /\ Directional(trend)
      THEN IF Opposed(trend, momentum) THEN "PULLBACK" ELSE "TREND"
    ELSE IF efficiency >= PullbackMinEr /\ Opposed(trend, momentum) THEN "PULLBACK"
    ELSE IF efficiency <= ErRange /\ volatility < VolHigh THEN "RANGE"
    ELSE "NOISE"

Init ==
    /\ ready = FALSE
    /\ regime = "UNKNOWN"
    /\ dwell = 0
    /\ candidate = "UNKNOWN"
    /\ candidateCount = 0
    /\ runLabel = "UNKNOWN"
    /\ run = 0
    /\ heldFor = 0

----------------------------------------------------------------------------
(* _apply_hysteresis                                                       *)

\* A mutant of CountFor: an interrupted candidate resumes its count.
CountWithoutReset(proposed) == CountUp(candidateCount)

\* The candidate's count once a label is proposed.
CountFor(proposed) == IF proposed = candidate THEN CountUp(candidateCount) ELSE 1

\* The dwell that this update completes; leaving UNKNOWN waits for none.
Dwelt == regime = "UNKNOWN" \/ CountUp(dwell) >= MinDwell

Hold(proposed) ==
    /\ proposed = regime
    /\ candidate' = proposed
    /\ candidateCount' = 0
    /\ dwell' = CountUp(dwell)
    /\ UNCHANGED regime

\* A mutant of Propose: a label confirmed before the dwell is over starts again.
ProposeForgetting(proposed) ==
    /\ proposed # regime
    /\ candidate' = proposed
    /\ IF CountFor(proposed) < ConfirmSnapshots
         THEN /\ candidateCount' = CountFor(proposed)
              /\ dwell' = CountUp(dwell)
              /\ UNCHANGED regime
         ELSE /\ candidateCount' = 0
              /\ regime' = IF Dwelt THEN proposed ELSE regime
              /\ dwell' = IF Dwelt THEN 0 ELSE CountUp(dwell)

Propose(proposed) ==
    /\ proposed # regime
    /\ candidate' = proposed
    /\ IF CountFor(proposed) >= ConfirmSnapshots /\ Dwelt
         THEN regime' = proposed /\ dwell' = 0 /\ candidateCount' = 0
         ELSE /\ candidateCount' = CountFor(proposed)
              /\ dwell' = CountUp(dwell)
              /\ UNCHANGED regime

ApplyHysteresis(proposed) == Hold(proposed) \/ Propose(proposed)

\* The history: what an onlooker counts.
Observe(proposed) ==
    /\ runLabel' = proposed
    /\ run' = IF proposed = runLabel THEN CountUp(run) ELSE 1
    /\ heldFor' = IF regime' = regime THEN CountUp(heldFor) ELSE 0

\* update(), before and after the statistics are ready.
UpdateCold ==
    /\ ~ready
    /\ ApplyHysteresis("UNKNOWN")
    /\ Observe("UNKNOWN")
    /\ UNCHANGED ready

UpdateReady(efficiency, volatility, trend, momentum) ==
    LET proposed == Classify(efficiency, volatility, trend, momentum) IN
    /\ ready' = TRUE
    /\ ApplyHysteresis(proposed)
    /\ Observe(proposed)

\* reset(), which _reset_estimators calls together with the statistics' own.
Reset ==
    /\ ready' = FALSE
    /\ regime' = "UNKNOWN"
    /\ dwell' = 0
    /\ candidate' = "UNKNOWN"
    /\ candidateCount' = 0
    /\ runLabel' = "UNKNOWN" /\ run' = 0 /\ heldFor' = 0

Next ==
    \/ UpdateCold
    \/ \E efficiency \in Efficiencies, volatility \in Volatilities,
          trend \in Trends, momentum \in Signs :
            UpdateReady(efficiency, volatility, trend, momentum)
    \/ Reset

Spec == Init /\ [][Next]_vars

----------------------------------------------------------------------------
TypeOK ==
    /\ ready \in BOOLEAN
    /\ regime \in Labels
    /\ dwell \in 0..CountLimit
    /\ candidate \in Labels
    /\ candidateCount \in 0..CountLimit
    /\ runLabel \in Labels
    /\ run \in 0..CountLimit
    /\ heldFor \in 0..CountLimit

\* "A new label must be observed confirm_snapshots times consecutively, and the
\* incumbent label must have held for min_dwell_snapshots": the label changes
\* only to one an onlooker has just seen proposed that often in a row, and only
\* from one held that long, UNKNOWN apart.
LabelIsEarned ==
    [][regime' # regime /\ ready'
         => /\ runLabel' = regime' /\ run' >= ConfirmSnapshots
            /\ regime = "UNKNOWN" \/ heldFor + 1 >= MinDwell]_vars

\* The hysteresis delays but never loses a label: one proposed in a row for as long
\* as both guards ask is in force, whatever was proposed and held before.
LabelIsAdopted ==
    run >= ConfirmSnapshots /\ run >= MinDwell => regime = runLabel

\* The label goes back to UNKNOWN only when the statistics start over, so composite
\* weights are never taken from UNKNOWN in the middle of a session.
NoRelapse ==
    [][regime # "UNKNOWN" /\ regime' = "UNKNOWN" => ~ready']_vars

\* Once the statistics are ready, the proposed label does not depend on which way the
\* market moves: the mirrored trend and momentum get the same one.
MirrorSymmetry ==
    ready => \A e \in Efficiencies, v \in Volatilities, t \in Trends, m \in Signs :
        Classify(e, v, t, m) = Classify(e, v, -t, -m)

\* Once the statistics are ready, a straighter path is never called less of a trend: a
\* TREND stays one when the efficiency rises, and a RANGE stays one when it falls.
EfficiencyOrdersLabels ==
    ready => \A e \in Efficiencies, f \in Efficiencies, v \in Volatilities, t \in Trends,
       m \in Signs :
        e <= f =>
            /\ Classify(e, v, t, m) = "TREND" => Classify(f, v, t, m) = "TREND"
            /\ Classify(f, v, t, m) = "RANGE" => Classify(e, v, t, m) = "RANGE"
============================================================================
