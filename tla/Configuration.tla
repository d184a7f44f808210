--------------------------- MODULE Configuration ---------------------------
(***************************************************************************)
(* config.py: the sections with their defaults, what each accepts when it  *)
(* is constructed, and how load_config turns a file into an AppConfig.     *)
(*                                                                         *)
(* Fractions are per cent, ticks hundredths of a tick, cost rates          *)
(* thousandths (the shipped ones rounded up) but GST per cent, weights     *)
(* fiftieths; times are milliseconds and basis points whole.  A nested     *)
(* block is a section of its own, named as its key.                        *)
(***************************************************************************)
EXTENDS Integers, Sequences, FiniteSets, TLC

Unset == -1         \* None: no tick form, the basis points apply

Positive(v) == v > 0
NonNegative(v) == v >= 0
InRange(v, low, high) == low <= v /\ v <= high

----------------------------------------------------------------------------
(* Instruments, validation and quality.                                    *)

DefaultSymbol ==
    [token |-> "T1", exchange_type |-> 1, tick_size |-> 5, quantity |-> 1]

SymbolFits(s) ==
    /\ s.token # "blank"
    /\ Positive(s.tick_size)
    /\ Positive(s.quantity)
    /\ s.exchange_type \in {1, 2, 3, 4, 5, 7, 13}

DefaultCredentials == [api_key |-> "", client_code |-> "", pin |-> "", totp_secret |-> ""]

\* validate_for_live: asked for by the live mode only.
ReadyForLive(c) == \A key \in DOMAIN c.credentials : c.credentials[key] # ""

DefaultValidation ==
    [max_spread_ticks |-> 2500, max_snapshot_gap_ms |-> 3000, max_staleness_ms |-> 8000,
     max_price_gap_ticks |-> 4000, min_price |-> 4, require_tick_alignment |-> FALSE,
     allow_locked_book |-> FALSE, reject_duplicates |-> TRUE, require_ltp |-> TRUE]

ValidationFits(v) ==
    \A key \in {"max_spread_ticks", "max_snapshot_gap_ms", "max_staleness_ms",
                "max_price_gap_ticks", "min_price"} : Positive(v[key])

DefaultQuality ==
    [max_signal_spread_ticks |-> 400, min_depth_levels |-> 2, min_top_quantity |-> 0,
     min_relative_depth |-> 35, min_orders_per_level |-> 1, gap_block_ms |-> 2000,
     warmup_snapshots |-> 60]

QualityFits(q) ==
    /\ Positive(q.max_signal_spread_ticks)
    /\ InRange(q.min_depth_levels, 1, 5)
    /\ NonNegative(q.min_top_quantity)
    /\ InRange(q.min_relative_depth, 0, 100)
    /\ NonNegative(q.min_orders_per_level)
    /\ NonNegative(q.gap_block_ms)
    /\ q.warmup_snapshots >= 1

----------------------------------------------------------------------------
(* Features.                                                               *)

DefaultMicroprice == [smooth_half_life_ms |-> 200, max_dt_ms |-> 5000]

MicropriceFits(f) == Positive(f.smooth_half_life_ms) /\ Positive(f.max_dt_ms)

DefaultWeightedObi ==
    [decay_ticks |-> 250, primary_levels |-> 2, deep_levels |-> 5,
     deep_agreement_weight |-> 35, aggregate_agreement_weight |-> 20,
     aggregate_max_ratio |-> 12]

WeightedObiFits(f) ==
    /\ Positive(f.decay_ticks)
    /\ InRange(f.primary_levels, 1, 5)
    /\ InRange(f.deep_levels, f.primary_levels, 5)
    /\ InRange(f.deep_agreement_weight, 0, 100)
    /\ InRange(f.aggregate_agreement_weight, 0, 100)
    /\ Positive(f.aggregate_max_ratio)

DefaultDepthSlope == [scale |-> 90, use_deep_levels |-> TRUE, deep_levels |-> 5]

DepthSlopeFits(f) == Positive(f.scale) /\ InRange(f.deep_levels, 3, 5)

DefaultSpread == [tight_ticks |-> 100, wide_ticks |-> 600, variance_window |-> 120]

SpreadFits(f) ==
    Positive(f.tight_ticks) /\ f.tight_ticks < f.wide_ticks /\ f.variance_window >= 2

DefaultSpreadCompression ==
    [fast_half_life_ms |-> 500, slow_half_life_ms |-> 4000, scale_ticks |-> 50,
     max_dt_ms |-> 5000]

SpreadCompressionFits(f) ==
    /\ Positive(f.fast_half_life_ms) /\ f.fast_half_life_ms < f.slow_half_life_ms
    /\ Positive(f.scale_ticks) /\ Positive(f.max_dt_ms)

DefaultQueuePersistence == [window |-> 40, tolerance |-> 15, min_samples |-> 10]

QueuePersistenceFits(f) ==
    /\ f.window >= 2
    /\ InRange(f.tolerance, 0, 100)
    /\ InRange(f.min_samples, 1, f.window)

DefaultMomentum ==
    [fast_half_life_ms |-> 600, slow_half_life_ms |-> 3000, variance_window |-> 120,
     dispersion_floor |-> 2, dispersion_k |-> 200, max_dt_ms |-> 5000, warmup_updates |-> 6]

MomentumFits(f) ==
    /\ Positive(f.fast_half_life_ms) /\ f.fast_half_life_ms < f.slow_half_life_ms
    /\ f.variance_window >= 2
    /\ Positive(f.dispersion_floor) /\ Positive(f.dispersion_k) /\ Positive(f.max_dt_ms)
    /\ f.warmup_updates >= 1

DefaultAcceleration ==
    [variance_window |-> 120, dispersion_floor |-> 5, dispersion_k |-> 200,
     min_dt_ms |-> 20, smooth_half_life_ms |-> 500, max_dt_ms |-> 5000]

AccelerationFits(f) ==
    /\ f.variance_window >= 2
    /\ \A key \in DOMAIN f \ {"variance_window"} : Positive(f[key])

DefaultRefill ==
    [consumption_fraction |-> 35, recovery_fraction |-> 60, window_ms |-> 1500,
     volume_confirmation_ratio |-> 50, decay_half_life_ms |-> 800, failure_weight |-> 60,
     max_dt_ms |-> 5000]

RefillFits(f) ==
    /\ InRange(f.consumption_fraction, 1, 100)
    /\ InRange(f.recovery_fraction, 1, 200)
    /\ Positive(f.window_ms)
    /\ InRange(f.volume_confirmation_ratio, 0, 200)
    /\ Positive(f.decay_half_life_ms)
    /\ InRange(f.failure_weight, 0, 200)
    /\ Positive(f.max_dt_ms)

DefaultLtpConfirmation ==
    [half_life_ms |-> 1200, scale_ticks |-> 150, stale_ms |-> 3000,
     opposition_threshold |-> 35, position_weight |-> 50, max_dt_ms |-> 5000]

LtpConfirmationFits(f) ==
    /\ \A key \in {"half_life_ms", "scale_ticks", "stale_ms", "max_dt_ms"} : Positive(f[key])
    /\ InRange(f.opposition_threshold, 0, 100)
    /\ InRange(f.position_weight, 0, 100)

----------------------------------------------------------------------------
(* Confidence, regime, composite and threshold.                            *)

NeutralSensitivity ==
    [spread |-> 100, liquidity |-> 100, volatility |-> 50, book_quality |-> 100,
     stability |-> 50, warmup |-> 100]

SensitivityFits(s) == \A factor \in DOMAIN s : InRange(s[factor], 0, 400)

Sensitivity(spread, liquidity, volatility, stability, warmup) ==
    [spread |-> spread, liquidity |-> liquidity, volatility |-> volatility,
     book_quality |-> 100, stability |-> stability, warmup |-> warmup]

DefaultSensitivities ==
    [microprice        |-> Sensitivity(160, 100,  40,  30, 100),
     weighted_obi      |-> Sensitivity(100, 140,  50,  40, 100),
     depth_slope       |-> Sensitivity( 80, 160,  50,  50, 100),
     queue_persistence |-> Sensitivity( 60, 100,  80, 120, 140),
     refill            |-> Sensitivity( 80, 120,  60,  80, 120),
     momentum          |-> Sensitivity( 60,  80,  90, 100, 160),
     acceleration      |-> Sensitivity( 50,  70, 130, 120, 180),
     ltp_confirmation  |-> Sensitivity( 90,  60,  70,  60, 100)]

DefaultRegimeMultipliers ==
    [TREND |-> 100, PULLBACK |-> 85, RANGE |-> 95, NOISE |-> 45, UNKNOWN |-> 50]

DefaultConfidence ==
    [spread_tight_ticks |-> 100, spread_wide_ticks |-> 600, liquidity_window |-> 240,
     liquidity_floor_ratio |-> 20, volatility_window |-> 240, volatility_tolerance |-> 200,
     stability_window |-> 60, min_feature_confidence |-> 2,
     sensitivities |-> DefaultSensitivities, regime_multipliers |-> DefaultRegimeMultipliers]

ConfidenceFits(c) ==
    /\ c.spread_tight_ticks < c.spread_wide_ticks
    /\ c.liquidity_window >= 2 /\ c.volatility_window >= 2 /\ c.stability_window >= 2
    /\ InRange(c.liquidity_floor_ratio, 0, 100)
    /\ Positive(c.volatility_tolerance)
    /\ InRange(c.min_feature_confidence, 0, 50)
    /\ \A feature \in DOMAIN c.sensitivities : SensitivityFits(c.sensitivities[feature])
    /\ \A regime \in DOMAIN c.regime_multipliers :
        InRange(c.regime_multipliers[regime], 0, 100)

\* sensitivity_for, and the multiplier: what a table does not name is neutral.
SensitivityFor(c, feature) ==
    IF feature \in DOMAIN c.sensitivities THEN c.sensitivities[feature]
                                          ELSE NeutralSensitivity

MultiplierFor(c, regime) ==
    IF regime \in DOMAIN c.regime_multipliers THEN c.regime_multipliers[regime] ELSE 100

DefaultRegime ==
    [window |-> 90, fast_half_life_ms |-> 1500, slow_half_life_ms |-> 8000,
     er_trend |-> 45, er_range |-> 25, vol_high_ticks |-> 250, vol_low_ticks |-> 80,
     trend_min_ticks |-> 100, pullback_min_er |-> 30, min_dwell_snapshots |-> 8,
     confirm_snapshots |-> 3, min_samples |-> 30, max_dt_ms |-> 5000]

RegimeFits(r) ==
    /\ r.window >= 4
    /\ r.fast_half_life_ms < r.slow_half_life_ms
    /\ InRange(r.er_trend, 0, 100) /\ InRange(r.er_range, 0, 100)
    /\ r.er_range < r.er_trend
    /\ r.vol_low_ticks < r.vol_high_ticks
    /\ NonNegative(r.trend_min_ticks)
    /\ InRange(r.pullback_min_er, 0, 100)
    /\ r.min_dwell_snapshots >= 1 /\ r.confirm_snapshots >= 1
    /\ InRange(r.min_samples, 2, r.window)
    /\ Positive(r.max_dt_ms)

WeightTable(mo, ac, ob, mi, re, de, qu, lt) ==
    [momentum |-> mo, acceleration |-> ac, weighted_obi |-> ob, microprice |-> mi,
     refill |-> re, depth_slope |-> de, queue_persistence |-> qu, ltp_confirmation |-> lt]

DefaultWeights ==
    [TREND    |-> WeightTable(11, 6, 10,  4, 6, 4, 3, 6),
     PULLBACK |-> WeightTable( 7, 4, 10,  6, 8, 4, 5, 6),
     RANGE    |-> WeightTable( 4, 2, 12, 10, 5, 6, 6, 5),
     NOISE    |-> WeightTable( 6, 3, 10,  8, 6, 5, 6, 6),
     UNKNOWN  |-> WeightTable( 6, 3, 11,  9, 5, 5, 5, 6)]

DefaultComposite ==
    [weights |-> DefaultWeights, smoothing_half_life_ms |-> 700, min_features |-> 3,
     min_confidence |-> 15, collinear_cap |-> 30, max_dt_ms |-> 5000]

\* A weight of ten is five hundred fiftieths.
CompositeFits(c) ==
    /\ DOMAIN c.weights # {}
    /\ \A regime \in DOMAIN c.weights :
        /\ DOMAIN c.weights[regime] # {}
        /\ \A name \in DOMAIN c.weights[regime] : InRange(c.weights[regime][name], 0, 500)
    /\ Positive(c.smoothing_half_life_ms)
    /\ c.min_features >= 1
    /\ InRange(c.min_confidence, 0, 100)
    /\ InRange(c.collinear_cap, 0, 1000)
    /\ Positive(c.max_dt_ms)

\* A regime without a table uses UNKNOWN's, else whichever the file named first.
WeightsFor(c, regime) ==
    LET weights == c.weights
    IN weights[IF regime \in DOMAIN weights THEN regime
               ELSE IF "UNKNOWN" \in DOMAIN weights THEN "UNKNOWN"
               ELSE CHOOSE first \in DOMAIN weights : TRUE]

DefaultThreshold ==
    [base |-> 30, spread_vol_coeff |-> 45, mid_vol_coeff |-> 40, obi_vol_coeff |-> 35,
     instability_coeff |-> 30, min_entry |-> 18, max_entry |-> 85, watch_ratio |-> 60,
     exit_ratio |-> 50, reference_window |-> 240, imbalance_vol_reference |-> 25]

\* A mutant of ThresholdFits: the two bounds are not compared with each other.
ThresholdFitsUnordered(t) ==
    /\ InRange(t.base, 0, 100)
    /\ \A key \in {"spread_vol_coeff", "mid_vol_coeff", "obi_vol_coeff",
                   "instability_coeff"} : InRange(t[key], 0, 500)
    /\ InRange(t.min_entry, 1, 100) /\ InRange(t.max_entry, 1, 100)
    /\ InRange(t.watch_ratio, 5, 100) /\ InRange(t.exit_ratio, 0, 100)
    /\ t.reference_window >= 2 /\ Positive(t.imbalance_vol_reference)

ThresholdFits(t) ==
    /\ InRange(t.base, 0, 100)
    /\ \A key \in {"spread_vol_coeff", "mid_vol_coeff", "obi_vol_coeff",
                   "instability_coeff"} : InRange(t[key], 0, 500)
    /\ InRange(t.min_entry, 1, 100) /\ InRange(t.max_entry, 1, 100)
    /\ t.min_entry < t.max_entry
    /\ InRange(t.watch_ratio, 5, 100) /\ InRange(t.exit_ratio, 0, 100)
    /\ t.reference_window >= 2 /\ Positive(t.imbalance_vol_reference)

----------------------------------------------------------------------------
(* State machine, execution, runtime and adapter.                          *)

DefaultStateMachine ==
    [watch_timeout_ms |-> 2500, entry_confirmations |-> 2, min_watch_confidence |-> 35,
     min_entry_confidence |-> 55, exit_confidence |-> 25, min_hold_ms |-> 250,
     max_hold_ms |-> 60000, cooldown_ms |-> 1500, stop_ticks |-> 600,
     target_ticks |-> 1200, reversal_ratio |-> 60, require_ltp_confirmation |-> TRUE,
     require_zero_cross_rearm |-> TRUE, exit_on_quality_loss |-> TRUE, use_target |-> TRUE]

StateMachineFits(s) ==
    /\ Positive(s.watch_timeout_ms)
    /\ s.entry_confirmations >= 1
    /\ \A key \in {"min_watch_confidence", "min_entry_confidence", "exit_confidence"} :
        InRange(s[key], 0, 100)
    /\ s.min_watch_confidence <= s.min_entry_confidence
    /\ NonNegative(s.min_hold_ms) /\ s.min_hold_ms < s.max_hold_ms
    /\ NonNegative(s.cooldown_ms)
    /\ Positive(s.stop_ticks) /\ Positive(s.target_ticks)
    /\ InRange(s.reversal_ratio, 0, 300)

\* Charges in ticks of the instrument.
DefaultCost ==
    [enabled |-> TRUE, brokerage_flat_per_order |-> 400, brokerage_rate |-> 1,
     brokerage_cap_per_order |-> 400, exchange_txn_rate |-> 1, stt_sell_rate |-> 1,
     stamp_duty_buy_rate |-> 1, sebi_rate |-> 1, gst_rate |-> 18]

CostFits(c) == \A key \in DOMAIN c \ {"enabled"} : NonNegative(c[key])

\* allow_partial_fill is read by nothing.
DefaultExecution ==
    [entry_aggression_bps |-> 3, entry_aggression_ticks |-> Unset, exit_slippage_bps |-> 1,
     exit_slippage_ticks |-> Unset, use_depth_walk |-> FALSE, allow_partial_fill |-> TRUE,
     enforce_cost_gate |-> FALSE, min_edge_multiple |-> 150]

ExecutionFits(e) ==
    /\ NonNegative(e.entry_aggression_bps) /\ NonNegative(e.exit_slippage_bps)
    /\ \A key \in {"entry_aggression_ticks", "exit_slippage_ticks"} :
        e[key] = Unset \/ NonNegative(e[key])
    /\ Positive(e.min_edge_multiple)

DefaultRuntime ==
    [queue_size |-> 4096, render_fps |-> 6, latency_window |-> 8192,
     stats_interval_ms |-> 15000, max_snapshots |-> 0, renderer |-> "auto",
     log_level |-> "INFO"]

\* Any text is accepted as the log level.
RuntimeFits(r) ==
    /\ r.queue_size >= 8
    /\ InRange(r.render_fps, 0, 60)
    /\ r.latency_window >= 16
    /\ Positive(r.stats_interval_ms)
    /\ NonNegative(r.max_snapshots)
    /\ r.renderer \in {"auto", "rich", "plain", "none"}

DefaultAdapter ==
    [subscription_mode |-> 3, correlation_id |-> "sq4", reconnect_initial_ms |-> 1000,
     reconnect_max_ms |-> 30000, reconnect_multiplier |-> 200, reconnect_jitter_ratio |-> 25,
     max_reconnect_attempts |-> 0, heartbeat_timeout_ms |-> 30000,
     login_retry_attempts |-> 3, totp_min_remaining_s |-> 2]

AdapterFits(a) ==
    /\ a.subscription_mode = 3
    /\ a.correlation_id # "blank"
    /\ Positive(a.reconnect_initial_ms) /\ a.reconnect_initial_ms < a.reconnect_max_ms
    /\ a.reconnect_multiplier >= 100
    /\ InRange(a.reconnect_jitter_ratio, 0, 100)
    /\ NonNegative(a.max_reconnect_attempts)
    /\ Positive(a.heartbeat_timeout_ms)
    /\ a.login_retry_attempts >= 1
    /\ NonNegative(a.totp_min_remaining_s)

----------------------------------------------------------------------------
(* The root.  It holds one instrument here, whether the file lists it at   *)
(* all (by default no instrument is listed, and an empty list is accepted) *)
(* and whether it repeats its token.                                       *)

Default ==
    [symbol |-> DefaultSymbol, symbols |-> [listed |-> FALSE, repeated |-> FALSE],
     credentials |-> DefaultCredentials, validation |-> DefaultValidation,
     quality |-> DefaultQuality, microprice |-> DefaultMicroprice,
     weighted_obi |-> DefaultWeightedObi, depth_slope |-> DefaultDepthSlope,
     spread |-> DefaultSpread, spread_compression |-> DefaultSpreadCompression,
     queue_persistence |-> DefaultQueuePersistence, momentum |-> DefaultMomentum,
     acceleration |-> DefaultAcceleration, refill |-> DefaultRefill,
     ltp_confirmation |-> DefaultLtpConfirmation, confidence |-> DefaultConfidence,
     regime |-> DefaultRegime, composite |-> DefaultComposite,
     threshold |-> DefaultThreshold, state_machine |-> DefaultStateMachine,
     cost |-> DefaultCost, execution |-> DefaultExecution, runtime |-> DefaultRuntime,
     adapter |-> DefaultAdapter]

EverySectionFits(c) ==
    /\ SymbolFits(c.symbol) /\ ~c.symbols.repeated
    /\ ValidationFits(c.validation) /\ QualityFits(c.quality)
    /\ MicropriceFits(c.microprice) /\ WeightedObiFits(c.weighted_obi)
    /\ DepthSlopeFits(c.depth_slope) /\ SpreadFits(c.spread)
    /\ SpreadCompressionFits(c.spread_compression)
    /\ QueuePersistenceFits(c.queue_persistence) /\ MomentumFits(c.momentum)
    /\ AccelerationFits(c.acceleration) /\ RefillFits(c.refill)
    /\ LtpConfirmationFits(c.ltp_confirmation) /\ ConfidenceFits(c.confidence)
    /\ RegimeFits(c.regime) /\ CompositeFits(c.composite) /\ ThresholdFits(c.threshold)
    /\ StateMachineFits(c.state_machine) /\ CostFits(c.cost) /\ ExecutionFits(c.execution)
    /\ RuntimeFits(c.runtime) /\ AdapterFits(c.adapter)

----------------------------------------------------------------------------
(* Loading.  A file is missing, broken, or a document: the keys it sets,   *)
(* each with a JSON value [as, is].                                        *)

Text == {"token", "api_key", "client_code", "pin", "totp_secret", "renderer",
         "correlation_id", "log_level"}

Boolean == {"require_tick_alignment", "allow_locked_book", "reject_duplicates",
            "require_ltp", "use_deep_levels", "require_ltp_confirmation",
            "require_zero_cross_rearm", "exit_on_quality_loss", "use_target", "enabled",
            "use_depth_walk", "allow_partial_fill", "enforce_cost_gate", "listed", "repeated"}

Whole == {"exchange_type", "quantity", "min_depth_levels", "min_top_quantity",
          "min_orders_per_level", "warmup_snapshots", "primary_levels", "deep_levels",
          "variance_window", "window", "min_samples", "warmup_updates", "liquidity_window",
          "volatility_window", "stability_window", "min_dwell_snapshots",
          "confirm_snapshots", "min_features", "reference_window", "entry_confirmations",
          "queue_size", "latency_window", "max_snapshots", "subscription_mode",
          "max_reconnect_attempts", "login_retry_attempts"}

Mapping == {"sensitivities", "regime_multipliers", "weights"}

Optional == {"entry_aggression_ticks", "exit_slippage_ticks"}

\* _coerce: the annotation of a field decides which JSON values it takes.
Coerces(field, value) ==
    CASE field \in Text -> value.as = "text"
      [] field \in Boolean -> value.as = "boolean"
      [] field \in Whole -> value.as = "whole"
      [] field \in Mapping -> value.as = "object"
      [] OTHER -> \/ value.as \in {"whole", "decimal"}
                  \/ value.as = "null" /\ field \in Optional

Refused(why) == [loaded |-> FALSE, why |-> why, config |-> Default]

\* _apply_environment: a variable that is set beats the file.
Overlaid(document, environment) ==
    LET set == {<<"credentials", f>> : f \in {g \in DOMAIN environment : environment[g] # ""}}
    IN [key \in set \cup DOMAIN document |->
            IF key \in set THEN [as |-> "text", is |-> environment[key[2]]]
                            ELSE document[key]]

\* _build_dataclass: no key is unknown, every value has its type, every section
\* accepts what it was given.
Build(document) ==
    LET built == [section \in DOMAIN Default |->
                    [field \in DOMAIN Default[section] |->
                        IF <<section, field>> \in DOMAIN document
                          THEN document[<<section, field>>].is
                          ELSE Default[section][field]]]
    IN IF \E key \in DOMAIN document :
            key[1] \notin DOMAIN Default \/ key[2] \notin DOMAIN Default[key[1]]
         THEN Refused("unknown key")
       ELSE IF \E key \in DOMAIN document : ~Coerces(key[2], document[key])
         THEN Refused("ill-typed")
       ELSE IF ~EverySectionFits(built) THEN Refused("out of range")
       ELSE [loaded |-> TRUE, why |-> "", config |-> built]

LoadConfig(file, environment) ==
    CASE file.holds = "nothing" -> Refused("not found")
      [] file.holds = "prose" -> Refused("not JSON")
      [] file.holds = "list" -> Refused("not an object")
      [] file.holds = "object" -> Build(Overlaid(file.document, environment))
============================================================================
