---------------------------- MODULE Construction ----------------------------
(***************************************************************************)
(* What the parts of the engine ask of their parameters when they are      *)
(* built or first used, each where it raises: the logging, the registry,   *)
(* the buffers, the estimators, linear_scale, and the components that hold *)
(* them.  None of it is checked against config.py anywhere in the code.    *)
(***************************************************************************)
EXTENDS Configuration

Least(a, b) == IF a < b THEN a ELSE b

RingFits(capacity) == capacity > 0
ExtremesFit(window) == window > 0
MeanFits(window, least) == RingFits(window) /\ InRange(least, 1, window)
VarianceFits(window, least) == window >= 2 /\ InRange(least, 2, window)
EmaFits(halfLife, maxDt, warmup) == halfLife > 0 /\ maxDt > 0 /\ warmup >= 1

PairFits(fast, slow, maxDt, warmup) ==
    fast < slow /\ EmaFits(fast, maxDt, warmup) /\ EmaFits(slow, maxDt, warmup)

ScaleFits(low, high) == high > low

StatisticsFit(c) ==
    /\ c.symbol.tick_size > 0
    /\ RingFits(c.regime.window) /\ MeanFits(c.regime.window, 2)
    /\ VarianceFits(c.confidence.volatility_window, Least(8, c.confidence.volatility_window))
    /\ PairFits(c.regime.fast_half_life_ms, c.regime.slow_half_life_ms, c.regime.max_dt_ms, 4)
    /\ VarianceFits(c.threshold.reference_window, Least(8, c.threshold.reference_window))
    /\ ExtremesFit(c.confidence.stability_window)
    /\ MeanFits(c.confidence.liquidity_window, Least(8, c.confidence.liquidity_window))
    /\ MeanFits(c.confidence.stability_window, Least(4, c.confidence.stability_window))

PairedFits(f, warmup) ==
    PairFits(f.fast_half_life_ms, f.slow_half_life_ms, f.max_dt_ms, warmup)

DispersionFits(f) == VarianceFits(f.variance_window, Least(8, f.variance_window))

\* build_features in evaluation order, and what each reads from the others.
FeatureOrder ==
    <<"spread", "spread_compression", "microprice", "weighted_obi", "depth_slope",
      "queue_persistence", "refill", "momentum", "acceleration", "ltp_confirmation">>

DependsOn(name) ==
    CASE name = "momentum" -> {"weighted_obi"}
      [] name = "acceleration" -> {"momentum"}
      [] OTHER -> {}

\* _validate_feature_order: no name twice, nothing before what it reads.
OrderFits(order) ==
    \A i \in DOMAIN order :
        /\ \A j \in 1..(i - 1) : order[j] # order[i]
        /\ \A name \in DependsOn(order[i]) : \E j \in 1..(i - 1) : order[j] = name

FeaturesFit(c) ==
    /\ OrderFits(FeatureOrder)
    /\ DispersionFits(c.spread) /\ ScaleFits(-c.spread.wide_ticks, -c.spread.tight_ticks)
    /\ PairedFits(c.spread_compression, 4)
    /\ EmaFits(c.microprice.smooth_half_life_ms, c.microprice.max_dt_ms, 1)
    /\ MeanFits(c.queue_persistence.window, c.queue_persistence.min_samples)
    /\ c.refill.decay_half_life_ms > 0
    /\ PairedFits(c.momentum, c.momentum.warmup_updates) /\ DispersionFits(c.momentum)
    /\ c.momentum.dispersion_k > 0 /\ c.acceleration.dispersion_k > 0
    /\ EmaFits(c.acceleration.smooth_half_life_ms, c.acceleration.max_dt_ms, 3)
    /\ DispersionFits(c.acceleration)
    /\ EmaFits(c.ltp_confirmation.half_life_ms, c.ltp_confirmation.max_dt_ms, 2)

\* Raised by every process() rather than by the constructor.
QualityScales(c) ==
    /\ ScaleFits(-c.quality.max_signal_spread_ticks, -100)
    /\ ScaleFits(100 * (c.quality.min_depth_levels - 1), 500)
    /\ ScaleFits(c.quality.min_relative_depth, 200)

ConfidenceScales(c) ==
    ScaleFits(-c.confidence.spread_wide_ticks, -c.confidence.spread_tight_ticks)

\* What logging.getLevelNamesMapping knows.
LevelNames ==
    {"CRITICAL", "FATAL", "ERROR", "WARN", "WARNING", "INFO", "DEBUG", "NOTSET"}

\* The parts of the engine that raise under configuration c.
Raises(c) ==
    {part \in {"logging", "registry", "statistics", "features", "quality", "confidence",
               "composite", "machine", "validator", "latency", "renderer"} :
        CASE part = "logging" -> c.runtime.log_level \notin LevelNames
          [] part = "registry" -> ~c.symbols.listed
          [] part = "statistics" -> ~StatisticsFit(c)
          [] part = "features" -> ~FeaturesFit(c)
          [] part = "quality" -> ~QualityScales(c)
          [] part = "confidence" -> ~ConfidenceScales(c)
          [] part = "composite" -> ~EmaFits(c.composite.smoothing_half_life_ms,
                                            c.composite.max_dt_ms, 1)
          [] part = "machine" -> c.symbol.quantity <= 0
          [] part = "validator" -> c.symbol.tick_size <= 0
          [] part = "latency" -> ~RingFits(c.runtime.latency_window)
          [] part = "renderer" -> c.runtime.renderer \notin {"auto", "rich", "plain", "none"}}
=============================================================================
