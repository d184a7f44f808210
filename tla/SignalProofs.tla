---------------------------- MODULE SignalProofs ----------------------------
(***************************************************************************)
(* Proofs about the path from the configuration to a position.             *)
(***************************************************************************)
EXTENDS SignalPromises, LoopsProofs

----------------------------------------------------------------------------
(* What a configuration that loads is made of.                             *)

SectionTyped(section, values) ==
    \A field \in DOMAIN Default[section] \ (Text \cup Boolean) : OfKind(field, values[field])

Complete(c) == \A section \in DOMAIN Default : DOMAIN c[section] = DOMAIN Default[section]

ConfigTyped(c) ==
    /\ Complete(c)
    /\ \A section \in DOMAIN Default : SectionTyped(section, c[section])

LEMMA DefaultsAreTyped == ConfigTyped(Default)
<1>1. SectionTyped("symbol", Default["symbol"])
  BY DEF SectionTyped, Default, OfKind, Text, Boolean, DefaultSymbol
<1>2. SectionTyped("symbols", Default["symbols"])
  BY DEF SectionTyped, Default, OfKind, Text, Boolean
<1>3. SectionTyped("credentials", Default["credentials"])
  BY DEF SectionTyped, Default, OfKind, Text, Boolean, DefaultCredentials
<1>4. SectionTyped("validation", Default["validation"])
  BY DEF SectionTyped, Default, OfKind, Text, Boolean, DefaultValidation
<1>5. SectionTyped("quality", Default["quality"])
  BY DEF SectionTyped, Default, OfKind, Text, Boolean, DefaultQuality
<1>6. SectionTyped("microprice", Default["microprice"])
  BY DEF SectionTyped, Default, OfKind, Text, Boolean, DefaultMicroprice
<1>7. SectionTyped("weighted_obi", Default["weighted_obi"])
  BY DEF SectionTyped, Default, OfKind, Text, Boolean, DefaultWeightedObi
<1>8. SectionTyped("depth_slope", Default["depth_slope"])
  BY DEF SectionTyped, Default, OfKind, Text, Boolean, DefaultDepthSlope
<1>9. SectionTyped("spread", Default["spread"])
  BY DEF SectionTyped, Default, OfKind, Text, Boolean, DefaultSpread
<1>10. SectionTyped("spread_compression", Default["spread_compression"])
  BY DEF SectionTyped, Default, OfKind, Text, Boolean, DefaultSpreadCompression
<1>11. SectionTyped("queue_persistence", Default["queue_persistence"])
  BY DEF SectionTyped, Default, OfKind, Text, Boolean, DefaultQueuePersistence
<1>12. SectionTyped("momentum", Default["momentum"])
  BY DEF SectionTyped, Default, OfKind, Text, Boolean, DefaultMomentum
<1>13. SectionTyped("acceleration", Default["acceleration"])
  BY DEF SectionTyped, Default, OfKind, Text, Boolean, DefaultAcceleration
<1>14. SectionTyped("refill", Default["refill"])
  BY DEF SectionTyped, Default, OfKind, Text, Boolean, DefaultRefill
<1>15. SectionTyped("ltp_confirmation", Default["ltp_confirmation"])
  BY DEF SectionTyped, Default, OfKind, Text, Boolean, DefaultLtpConfirmation
<1>16. SectionTyped("confidence", Default["confidence"])
  BY DEF SectionTyped, Default, OfKind, Text, Boolean, DefaultConfidence, DefaultSensitivities,
         Sensitivity, NeutralSensitivity, DefaultRegimeMultipliers
<1>17. SectionTyped("regime", Default["regime"])
  BY DEF SectionTyped, Default, OfKind, Text, Boolean, DefaultRegime
<1>18. SectionTyped("composite", Default["composite"])
  BY DEF SectionTyped, Default, OfKind, Text, Boolean, DefaultComposite, DefaultWeights, WeightTable
<1>19. SectionTyped("threshold", Default["threshold"])
  BY DEF SectionTyped, Default, OfKind, Text, Boolean, DefaultThreshold
<1>20. SectionTyped("state_machine", Default["state_machine"])
  BY DEF SectionTyped, Default, OfKind, Text, Boolean, DefaultStateMachine
<1>21. SectionTyped("cost", Default["cost"])
  BY DEF SectionTyped, Default, OfKind, Text, Boolean, DefaultCost
<1>22. SectionTyped("execution", Default["execution"])
  BY DEF SectionTyped, Default, OfKind, Text, Boolean, DefaultExecution, Unset
<1>23. SectionTyped("runtime", Default["runtime"])
  BY DEF SectionTyped, Default, OfKind, Text, Boolean, DefaultRuntime
<1>24. SectionTyped("adapter", Default["adapter"])
  BY DEF SectionTyped, Default, OfKind, Text, Boolean, DefaultAdapter
<1> QED
  BY <1>1, <1>2, <1>3, <1>4, <1>5, <1>6, <1>7, <1>8, <1>9, <1>10, <1>11, <1>12,
     <1>13, <1>14, <1>15, <1>16, <1>17, <1>18, <1>19, <1>20, <1>21, <1>22, <1>23,
     <1>24, ZenonT(30)
  DEF ConfigTyped, Complete, Default

LEMMA LoadedFits ==
    ASSUME NEW launch \in Launches, NEW c,
           c = LoadConfig(launch.file, launch.environment).config,
           LoadConfig(launch.file, launch.environment).loaded
    PROVE  EverySectionFits(c) /\ ConfigTyped(c)
<1> DEFINE document == Overlaid(launch.file.document, launch.environment)
           built == [section \in DOMAIN Default |->
                        [field \in DOMAIN Default[section] |->
                            IF <<section, field>> \in DOMAIN document
                              THEN document[<<section, field>>].is
                              ELSE Default[section][field]]]
<1>1. launch.file.holds = "object"
  BY LaunchAssumption DEF LoadConfig, Refused
<1>2. /\ Build(document).loaded /\ c = Build(document).config
  BY <1>1 DEF LoadConfig
<1> HIDE DEF document
<1>3. /\ c = built /\ EverySectionFits(built)
      /\ \A key \in DOMAIN document : Coerces(key[2], document[key])
  BY <1>2 DEF Build, Refused
<1>4. ASSUME NEW key \in DOMAIN document, key[2] \notin Text \cup Boolean
      PROVE  OfKind(key[2], document[key].is)
  <2>1. key \in DOMAIN launch.file.document /\ document[key] = launch.file.document[key]
    <3>1. document[key].as # "text"
      BY <1>3, <1>4 DEF Coerces, Whole, Mapping, Optional
    <3>2. key \notin {<<"credentials", f>> : f \in {g \in DOMAIN launch.environment :
                                                   launch.environment[g] # ""}}
      BY <3>1 DEF document, Overlaid
    <3> QED
      BY <3>2 DEF document, Overlaid
  <2> QED
    BY <1>1, <1>3, <2>1, LaunchAssumption
<1>5. ASSUME NEW section \in DOMAIN Default,
             NEW field \in DOMAIN Default[section] \ (Text \cup Boolean)
      PROVE  OfKind(field, built[section][field])
  <2>1. built[section][field] = IF <<section, field>> \in DOMAIN document
                                  THEN document[<<section, field>>].is
                                  ELSE Default[section][field]
    OBVIOUS
  <2>2. OfKind(field, Default[section][field])
    BY DefaultsAreTyped DEF ConfigTyped, SectionTyped
  <2>3. <<section, field>> \in DOMAIN document => OfKind(field, document[<<section, field>>].is)
    BY <1>4
  <2> QED
    BY <2>1, <2>2, <2>3
<1>6. \A section \in DOMAIN Default : DOMAIN built[section] = DOMAIN Default[section]
  OBVIOUS
<1> QED
  BY <1>3, <1>5, <1>6 DEF ConfigTyped, Complete, SectionTyped

(* config.py's checks imply the engine's, but for the fast half-life of    *)
(* the regime section, the scale of the quality filter's spread, the list  *)
(* of instruments and the log level.                                       *)
LEMMA StatisticsAccept ==
    ASSUME NEW c, ConfigTyped(c), EverySectionFits(c), c.regime.fast_half_life_ms > 0
    PROVE  StatisticsFit(c)
<1>1. /\ c.symbol.tick_size \in Int /\ c.regime.window \in Int /\ c.regime.max_dt_ms \in Int
      /\ c.regime.fast_half_life_ms \in Int /\ c.regime.slow_half_life_ms \in Int
  BY DEF ConfigTyped, SectionTyped, Default, OfKind, Text, Boolean, DefaultSymbol, DefaultRegime
<1>2. /\ c.confidence.volatility_window \in Int /\ c.confidence.stability_window \in Int
      /\ c.confidence.liquidity_window \in Int /\ c.threshold.reference_window \in Int
  BY DEF ConfigTyped, SectionTyped, Default, OfKind, Text, Boolean, DefaultConfidence,
         DefaultThreshold
<1>3. /\ c.symbol.tick_size > 0
      /\ c.regime.window >= 4 /\ c.regime.max_dt_ms > 0
      /\ c.regime.fast_half_life_ms < c.regime.slow_half_life_ms
      /\ c.confidence.volatility_window >= 2 /\ c.confidence.stability_window >= 2
      /\ c.confidence.liquidity_window >= 2 /\ c.threshold.reference_window >= 2
  BY DEF EverySectionFits, SymbolFits, RegimeFits, ConfidenceFits, ThresholdFits, Positive
<1> QED
  BY <1>1, <1>2, <1>3
  DEF StatisticsFit, RingFits, MeanFits, VarianceFits, PairFits, EmaFits, ExtremesFit,
      InRange, Least

LEMMA FeaturesAccept ==
    ASSUME NEW c, ConfigTyped(c), EverySectionFits(c)
    PROVE  FeaturesFit(c)
<1>1. OrderFits(FeatureOrder)
  BY DEF OrderFits, FeatureOrder, DependsOn
<1>2. DispersionFits(c.spread) /\ ScaleFits(-c.spread.wide_ticks, -c.spread.tight_ticks)
  <2>1. /\ c.spread.variance_window \in Int /\ c.spread.wide_ticks \in Int
        /\ c.spread.tight_ticks \in Int
    BY DEF ConfigTyped, SectionTyped, Default, OfKind, Text, Boolean, DefaultSpread
  <2> QED
    BY <2>1 DEF EverySectionFits, SpreadFits, Positive, DispersionFits, VarianceFits, InRange,
                Least, ScaleFits
<1>3. PairedFits(c.spread_compression, 4)
  <2>1. /\ c.spread_compression.fast_half_life_ms \in Int
        /\ c.spread_compression.slow_half_life_ms \in Int
        /\ c.spread_compression.max_dt_ms \in Int
    BY DEF ConfigTyped, SectionTyped, Default, OfKind, Text, Boolean, DefaultSpreadCompression
  <2> QED
    BY <2>1 DEF EverySectionFits, SpreadCompressionFits, Positive, PairedFits, PairFits, EmaFits
<1>4. EmaFits(c.microprice.smooth_half_life_ms, c.microprice.max_dt_ms, 1)
  BY DEF EverySectionFits, MicropriceFits, Positive, EmaFits
<1>5. MeanFits(c.queue_persistence.window, c.queue_persistence.min_samples)
  <2>1. c.queue_persistence.window \in Int /\ c.queue_persistence.min_samples \in Int
    BY DEF ConfigTyped, SectionTyped, Default, OfKind, Text, Boolean, DefaultQueuePersistence
  <2> QED
    BY <2>1 DEF EverySectionFits, QueuePersistenceFits, MeanFits, RingFits, InRange
<1>6. c.refill.decay_half_life_ms > 0
  BY DEF EverySectionFits, RefillFits, Positive
<1>7. /\ PairedFits(c.momentum, c.momentum.warmup_updates) /\ DispersionFits(c.momentum)
      /\ c.momentum.dispersion_k > 0
  <2>1. /\ c.momentum.fast_half_life_ms \in Int /\ c.momentum.slow_half_life_ms \in Int
        /\ c.momentum.max_dt_ms \in Int /\ c.momentum.warmup_updates \in Int
        /\ c.momentum.variance_window \in Int
    BY DEF ConfigTyped, SectionTyped, Default, OfKind, Text, Boolean, DefaultMomentum
  <2> QED
    BY <2>1 DEF EverySectionFits, MomentumFits, Positive, PairedFits, PairFits, EmaFits,
                DispersionFits, VarianceFits, InRange, Least
<1>8. /\ c.acceleration.dispersion_k > 0 /\ DispersionFits(c.acceleration)
      /\ EmaFits(c.acceleration.smooth_half_life_ms, c.acceleration.max_dt_ms, 3)
  <2>1. c.acceleration.variance_window \in Int
    BY DEF ConfigTyped, SectionTyped, Default, OfKind, Text, Boolean, DefaultAcceleration
  <2>2. /\ c.acceleration.variance_window >= 2 /\ c.acceleration.dispersion_k > 0
        /\ c.acceleration.smooth_half_life_ms > 0 /\ c.acceleration.max_dt_ms > 0
    <3>1. AccelerationFits(c.acceleration)
      BY DEF EverySectionFits
    <3>2. DOMAIN c.acceleration = DOMAIN DefaultAcceleration
      BY DEF ConfigTyped, Complete, Default
    <3> QED
      BY <3>1, <3>2 DEF AccelerationFits, Positive, DefaultAcceleration
  <2> QED
    BY <2>1, <2>2 DEF EmaFits, DispersionFits, VarianceFits, InRange, Least
<1>9. EmaFits(c.ltp_confirmation.half_life_ms, c.ltp_confirmation.max_dt_ms, 2)
  BY DEF EverySectionFits, LtpConfirmationFits, Positive, EmaFits
<1> QED
  BY <1>1, <1>2, <1>3, <1>4, <1>5, <1>6, <1>7, <1>8, <1>9 DEF FeaturesFit

LEMMA OnlyFourRaise ==
    ASSUME NEW c, ConfigTyped(c), EverySectionFits(c), Raises(c) # {}
    PROVE  \/ c.quality.max_signal_spread_ticks <= 100 \/ c.regime.fast_half_life_ms <= 0
           \/ ~c.symbols.listed \/ c.runtime.log_level \notin LevelNames
<1> SUFFICES ASSUME c.quality.max_signal_spread_ticks > 100, c.regime.fast_half_life_ms > 0,
                    c.symbols.listed, c.runtime.log_level \in LevelNames
             PROVE  FALSE
  <2>1. c.quality.max_signal_spread_ticks \in Int /\ c.regime.fast_half_life_ms \in Int
    BY DEF ConfigTyped, SectionTyped, Default, OfKind, Text, Boolean, DefaultQuality,
           DefaultRegime
  <2> QED
    BY <2>1
<1>1. QualityScales(c)
  <2>1. /\ c.quality.max_signal_spread_ticks \in Int /\ c.quality.min_depth_levels \in Int
        /\ c.quality.min_relative_depth \in Int
    BY DEF ConfigTyped, SectionTyped, Default, OfKind, Text, Boolean, DefaultQuality
  <2> QED
    BY <2>1 DEF EverySectionFits, QualityFits, InRange, QualityScales, ScaleFits
<1>2. ConfidenceScales(c)
  <2>1. c.confidence.spread_tight_ticks \in Int /\ c.confidence.spread_wide_ticks \in Int
    BY DEF ConfigTyped, SectionTyped, Default, OfKind, Text, Boolean, DefaultConfidence
  <2> QED
    BY <2>1 DEF EverySectionFits, ConfidenceFits, ConfidenceScales, ScaleFits
<1>3. /\ EmaFits(c.composite.smoothing_half_life_ms, c.composite.max_dt_ms, 1)
      /\ RingFits(c.runtime.latency_window)
      /\ c.runtime.renderer \in {"auto", "rich", "plain", "none"}
      /\ ~(c.symbol.quantity <= 0) /\ ~(c.symbol.tick_size <= 0)
  <2>1. c.composite.smoothing_half_life_ms \in Int /\ c.composite.max_dt_ms \in Int
    BY DEF ConfigTyped, SectionTyped, Default, OfKind, Text, Boolean, DefaultComposite
  <2>2. c.runtime.latency_window \in Int
    BY DEF ConfigTyped, SectionTyped, Default, OfKind, Text, Boolean, DefaultRuntime
  <2>3. c.symbol.quantity \in Int /\ c.symbol.tick_size \in Int
    BY DEF ConfigTyped, SectionTyped, Default, OfKind, Text, Boolean, DefaultSymbol
  <2> QED
    BY <2>1, <2>2, <2>3 DEF EverySectionFits, CompositeFits, RuntimeFits, SymbolFits,
                            Positive, EmaFits, RingFits
<1> QED
  BY <1>1, <1>2, <1>3, StatisticsAccept, FeaturesAccept DEF Raises

(* The watch and exit levels are shares of the entry threshold, and that   *)
(* one is clamped between two bounds that are in order.                    *)
LEMMA ThresholdsInOrder ==
    ASSUME NEW c, ConfigTyped(c), EverySectionFits(c), NEW s,
           s.spread_dispersion \in Nat, s.mid_dispersion \in Nat,
           s.imbalance_dispersion \in Nat, s.touch_stability \in 0..100
    PROVE  LET t == Thresholds(c, s)
           IN /\ 0 < t.watch /\ t.watch <= t.entry /\ t.exit <= t.entry
              /\ 100 * c.threshold.min_entry <= t.entry
              /\ t.entry <= 100 * c.threshold.max_entry
<1> DEFINE e == EntryThreshold(c, s)
<1>1. /\ c.threshold.base \in Int /\ c.threshold.spread_vol_coeff \in Int
      /\ c.threshold.mid_vol_coeff \in Int /\ c.threshold.obi_vol_coeff \in Int
      /\ c.threshold.instability_coeff \in Int /\ c.threshold.min_entry \in Int
      /\ c.threshold.max_entry \in Int /\ c.threshold.watch_ratio \in Int
      /\ c.threshold.exit_ratio \in Int
  BY DEF ConfigTyped, SectionTyped, Default, OfKind, Text, Boolean, DefaultThreshold
<1>2. /\ c.threshold.min_entry >= 1 /\ c.threshold.min_entry < c.threshold.max_entry
      /\ c.threshold.watch_ratio >= 5 /\ c.threshold.watch_ratio <= 100
      /\ c.threshold.exit_ratio >= 0 /\ c.threshold.exit_ratio <= 100
  BY DEF EverySectionFits, ThresholdFits, InRange
<1>3. e \in Int /\ c.threshold.min_entry <= e /\ e <= c.threshold.max_entry
  <2>1. Multiplier(c, s) \in Int
    <3>1. /\ c.threshold.spread_vol_coeff * s.spread_dispersion \in Int
          /\ c.threshold.mid_vol_coeff * s.mid_dispersion \in Int
          /\ c.threshold.obi_vol_coeff * s.imbalance_dispersion \in Int
          /\ c.threshold.instability_coeff * (100 - s.touch_stability) \in Int
      BY <1>1
    <3> QED
      BY <3>1 DEF Multiplier
  <2>2. Product(c.threshold.base, Multiplier(c, s)) \in Int
    <3>1. c.threshold.base * Multiplier(c, s) \in Int
      BY <1>1, <2>1
    <3> QED
      BY <3>1 DEF Product
  <2> QED
    BY <1>1, <1>2, <2>2 DEF EntryThreshold, Within
<1> HIDE DEF e
<1>4. /\ e * c.threshold.watch_ratio \in Int /\ e * c.threshold.exit_ratio \in Int
      /\ 0 < e * c.threshold.watch_ratio
      /\ e * c.threshold.watch_ratio <= 100 * e /\ e * c.threshold.exit_ratio <= 100 * e
  BY <1>1, <1>2, <1>3
<1> QED
  BY <1>1, <1>2, <1>3, <1>4 DEF Thresholds, e

(* What the configuration is while the process runs.                       *)
ConfigInv ==
    /\ running \in {"down", "up", "refused", "crashed"}
    /\ running \in {"up", "crashed"} =>
        /\ EverySectionFits(config) /\ ConfigTyped(config)
        /\ \E launch \in Launches : purpose = launch.purpose
    /\ running = "crashed" => Raises(config) # {}

LEMMA ConfigInvInit == Init => ConfigInv
  BY DEF Init, ConfigInv

LEMMA ConfigInvStep == ConfigInv /\ [Next]_vars => ConfigInv'
<1> SUFFICES ASSUME ConfigInv, [Next]_vars PROVE ConfigInv'
  OBVIOUS
<1>1. ASSUME NEW launch \in Launches, Start(launch) PROVE ConfigInv'
  <2> DEFINE result == LoadConfig(launch.file, launch.environment)
  <2>1. /\ config' = result.config /\ purpose' = launch.purpose
        /\ running' \in {"up", "refused", "crashed"}
        /\ running' \in {"up", "crashed"} => result.loaded
        /\ running' = "crashed" => Raises(result.config) # {}
    BY <1>1 DEF Start
  <2>2. result.loaded => EverySectionFits(result.config) /\ ConfigTyped(result.config)
    BY LoadedFits
  <2> QED
    BY <2>1, <2>2 DEF ConfigInv
<1>2. CASE Shutdown
  BY <1>2 DEF Shutdown, ConfigInv
<1>3. ASSUME NEW p \in Payloads(purpose), Deliver(p) PROVE ConfigInv'
  BY <1>3 DEF Deliver, ConfigInv
<1>4. ASSUME NEW around \in Surroundings(purpose), Process(around) PROVE ConfigInv'
  BY <1>4 DEF Process, ConfigInv
<1>5. ASSUME NEW direction \in {1, -1}, Enter(direction) PROVE ConfigInv'
  BY <1>5 DEF Enter, ConfigInv
<1>6. CASE Exit
  BY <1>6 DEF Exit, ConfigInv
<1>7. CASE UNCHANGED vars
  BY <1>7 DEF vars, ConfigInv
<1> QED
  BY <1>1, <1>2, <1>3, <1>4, <1>5, <1>6, <1>7 DEF Next

THEOREM ConfigInvHolds == Spec => []ConfigInv
  BY ConfigInvInit, ConfigInvStep, PTL DEF Spec

(* A configuration that loads runs, but for the four checks that are       *)
(* missing, and keeps its thresholds in order whatever the statistics say: *)
(* config.py:12-15 against what the engine's parts raise on.               *)
THEOREM AcceptedConfigFitsHolds == Spec => []AcceptedConfigFits
<1>1. ASSUME ConfigInv PROVE AcceptedConfigFits
  <2>1. running = "crashed" => \/ config.quality.max_signal_spread_ticks <= 100
                               \/ config.regime.fast_half_life_ms <= 0
                               \/ ~config.symbols.listed
                               \/ config.runtime.log_level \notin LevelNames
    BY <1>1, OnlyFourRaise DEF ConfigInv
  <2>2. ASSUME running = "up", NEW around \in Surroundings(purpose)
        PROVE  LET t == Thresholds(config, around.s)
               IN /\ 0 < t.watch /\ t.watch <= t.entry /\ t.exit <= t.entry
                  /\ 100 * config.threshold.min_entry <= t.entry
                  /\ t.entry <= 100 * config.threshold.max_entry
    <3>1. /\ around.s.spread_dispersion \in Nat /\ around.s.mid_dispersion \in Nat
          /\ around.s.imbalance_dispersion \in Nat /\ around.s.touch_stability \in 0..100
      BY <1>1, <2>2, HistoryAssumption DEF ConfigInv, IsHistory, Counted, Shares
    <3>2. EverySectionFits(config) /\ ConfigTyped(config)
      BY <1>1, <2>2 DEF ConfigInv
    <3> QED
      BY <3>1, <3>2, ThresholdsInOrder
  <2> QED
    BY <2>1, <2>2 DEF AcceptedConfigFits
<1> QED
  BY <1>1, ConfigInvHolds, PTL

----------------------------------------------------------------------------
(* From a payload to a book.                                               *)

\* A level as the parser makes it.
IsParsed(l) ==
    /\ l.price \in Int /\ l.price > 0 /\ l.quantity \in Int /\ l.quantity > 0
    /\ l.orders \in Int /\ l.orders > 0
    /\ l.paise = RoundHalfEven(l.price, 4)
    /\ l = Level(l.price, l.quantity, l.orders)

\* A side of a snapshot: its levels, the best first.
IsSide(levels, sign) ==
    /\ DOMAIN levels = 1..Len(levels) /\ Len(levels) \in Nat
    /\ levels = [i \in 1..Len(levels) |-> levels[i]]
    /\ Len(levels) = 0 => levels = << >>
    /\ \A i \in 1..Len(levels) : IsParsed(levels[i])
    /\ \A i, j \in 1..Len(levels) :
        i < j => sign * levels[i].paise <= sign * levels[j].paise

IsSnapshot(s) ==
    /\ IsSide(s.bids, -1) /\ IsSide(s.asks, 1)
    /\ s.totalBuy \in Int /\ s.totalSell \in Int

LEMMA WholePaise ==
    ASSUME NEW price \in Int
    PROVE  /\ RoundHalfEven(price, 4) \in Int
           /\ \A k \in Int : price = 4 * k => RoundHalfEven(price, 4) = k
  BY DEF RoundHalfEven

\* A side made of the given levels, and of nothing else.
IsMade(side, S, level) ==
    /\ Len(side) = Cardinality(S)
    /\ \A r \in 1..Len(side) : \E i \in S : side[r] = level[i]
    /\ \A i \in S : \E r \in 1..Len(side) : side[r] = level[i]

(* The sort of the parser: what it is given, in order of its paise.        *)
LEMMA BestFirstIsASide ==
    ASSUME NEW S, S \subseteq Int, IsFiniteSet(S), NEW level, DOMAIN level = S,
           \A i \in S : IsParsed(level[i]), NEW descending \in BOOLEAN
    PROVE  /\ IsSide(BestFirst(level, descending), IF descending THEN -1 ELSE 1)
           /\ IsMade(BestFirst(level, descending), S, level)
<1> DEFINE sign == IF descending THEN -1 ELSE 1
           key == [i \in S |-> sign * level[i].paise]
           order == StableOrder(S, key)
           n == Cardinality(S)
           side == BestFirst(level, descending)
<1>1. \A i \in S : level[i].paise \in Int /\ key[i] \in Int
  BY WholePaise DEF IsParsed
<1>2. Sorts(order, S, key) /\ n \in Nat
  BY <1>1, StableOrderSorts, FS_CardinalityType
<1>3. side = [r \in DOMAIN order |-> level[order[r]]]
  BY DEF BestFirst
<1> HIDE DEF order, side, key
<1>4. /\ DOMAIN order = 1..n
      /\ \A r \in 1..n : order[r] \in S
      /\ \A i \in S : \E r \in 1..n : order[r] = i
      /\ \A q, r \in 1..n : q < r => key[order[q]] <= key[order[r]]
  <2> USE <1>2 DEF Sorts
  <2>1. DOMAIN order = 1..n /\ \A r \in 1..n : order[r] \in S
    OBVIOUS
  <2>2. \A i \in S : \E r \in 1..n : order[r] = i
    OBVIOUS
  <2>3. ASSUME NEW q \in 1..n, NEW r \in 1..n, q < r
        PROVE  key[order[q]] <= key[order[r]]
    <3>1. Before(key, order[q], order[r])
      BY <2>3
    <3>2. key[order[q]] \in Int /\ key[order[r]] \in Int
      BY <1>1, <2>1
    <3> QED
      BY <3>1, <3>2 DEF Before
  <2> QED
    BY <2>1, <2>2, <2>3
<1>5. Len(side) = n /\ DOMAIN side = 1..n /\ \A r \in 1..n : side[r] = level[order[r]]
  BY <1>2, <1>3, <1>4
<1>6. \A i \in S : key[i] = sign * level[i].paise
  BY DEF key
<1>7. \A r \in 1..n : IsParsed(side[r]) /\ sign * side[r].paise = key[order[r]]
  <2> SUFFICES ASSUME NEW r \in 1..n
               PROVE  IsParsed(side[r]) /\ sign * side[r].paise = key[order[r]]
    OBVIOUS
  <2>1. order[r] \in S /\ side[r] = level[order[r]]
    BY <1>4, <1>5
  <2>2. IsParsed(level[order[r]]) /\ key[order[r]] = sign * level[order[r]].paise
    BY <1>6, <2>1
  <2> QED
    BY <2>1, <2>2
<1>8. IsSide(side, sign)
  <2>1. ASSUME NEW q \in 1..n, NEW r \in 1..n, q < r
        PROVE  sign * side[q].paise <= sign * side[r].paise
    BY <1>4, <1>7, <2>1
  <2>2. n = 0 => side = << >>
    BY <1>3, <1>4
  <2> QED
    <3>1. side = [r \in 1..n |-> side[r]]
      BY <1>3, <1>4, <1>5
    <3> QED
      BY <1>2, <1>5, <1>7, <2>1, <2>2, <3>1 DEF IsSide
<1>9. \A r \in 1..n : \E i \in S : side[r] = level[i]
  BY <1>4, <1>5
<1>10. \A i \in S : \E r \in 1..n : side[r] = level[i]
  BY <1>4, <1>5
<1> QED
  BY <1>5, <1>8, <1>9, <1>10 DEF side, IsMade

\* What the wire holds of a side.
LEMMA UsableOffers ==
    ASSUME NEW entries \in Seq(Offers), NEW exchange,
           NEW i \in DOMAIN entries, Usable(entries[i])
    PROVE  IsParsed(LevelOf(entries[i], exchange))
<1> DEFINE e == entries[i]
<1>1. e \in Offers
  OBVIOUS
<1>2. e.price \in Int /\ e.price > 0 /\ e.quantity \in Int /\ e.quantity > 0 /\ e.orders \in Int
  BY <1>1 DEF Usable, Offers
<1>3. e.price * QuarterPaise(exchange) \in Int /\ e.price * QuarterPaise(exchange) > 0
  BY <1>2 DEF QuarterPaise
<1> HIDE DEF e
<1> QED
  BY <1>2, <1>3 DEF LevelOf, Level, IsParsed, e

LEMMA ParsedSide ==
    ASSUME NEW entries \in Seq(Offers), NEW exchange, NEW descending \in BOOLEAN
    PROVE  IsSide(ParseDepth(entries, exchange, descending), IF descending THEN -1 ELSE 1)
<1> DEFINE usable == {i \in DOMAIN entries : Usable(entries[i])}
           kept == {i \in usable : Cardinality({j \in usable : j <= i}) <= DepthLevels}
           level == [i \in kept |-> LevelOf(entries[i], exchange)]
<1>1. kept \subseteq Int /\ IsFiniteSet(kept)
  <2>1. IsFiniteSet(1..Len(entries)) /\ kept \in SUBSET (1..Len(entries))
    BY FS_Interval
  <2>2. IsFiniteSet(kept)
    BY <2>1, FS_Subset
  <2>3. 1..Len(entries) \subseteq Int
    OBVIOUS
  <2> QED
    BY <2>1, <2>2, <2>3
<1>2. \A i \in kept : IsParsed(level[i])
  BY UsableOffers
<1>3. DOMAIN level = kept
  OBVIOUS
<1> HIDE DEF kept, level
<1>4. IsSide(BestFirst(level, descending), IF descending THEN -1 ELSE 1)
  BY <1>1, <1>2, <1>3, BestFirstIsASide
<1> QED
  BY <1>4 DEF ParseDepth, kept, level

LEMMA ParsedSnapshot ==
    ASSUME NEW m \in WireFrames, ParseSnapshot(m).parsed
    PROVE  IsSnapshot(ParseSnapshot(m))
<1>1. /\ m.buy \in Seq(Offers) /\ m.sell \in Seq(Offers)
      /\ AsInt(m.totalBuy, 0) \in Int /\ AsInt(m.totalSell, 0) \in Int
  BY DEF WireFrames, WireNumbers, AsInt
<1>2. /\ IsSide(ParseDepth(m.buy, m.exchange, TRUE), -1)
      /\ IsSide(ParseDepth(m.sell, m.exchange, FALSE), 1)
  <2>1. IsSide(ParseDepth(m.buy, m.exchange, TRUE), IF TRUE THEN -1 ELSE 1)
    BY <1>1, ParsedSide
  <2>2. IsSide(ParseDepth(m.sell, m.exchange, FALSE), IF FALSE THEN -1 ELSE 1)
    BY <1>1, ParsedSide
  <2> QED
    BY <2>1, <2>2
<1> QED
  BY <1>1, <1>2 DEF ParseSnapshot, Unparsed, Snapshot, IsSnapshot

\* What one callback puts on the queue.
LEMMA DeliveredSnapshots ==
    ASSUME NEW p, CoercePayloads(p).frames \in Seq(WireFrames)
    PROVE  /\ OnData(p).put \in Seq({s \in {ParseSnapshot(m) : m \in WireFrames} : s.parsed})
           /\ \A i \in DOMAIN OnData(p).put : IsSnapshot(OnData(p).put[i])
<1> DEFINE frames == CoercePayloads(p).frames
           read == [i \in DOMAIN frames |-> ParseSnapshot(frames[i])]
           good == {i \in DOMAIN read : read[i].parsed}
           T == {ParseSnapshot(m) : m \in WireFrames}
           put == Kept(read, good)
<1>1. read \in Seq(T) /\ good \in SUBSET DOMAIN read
  OBVIOUS
<1>2. OnData(p).put = put
  BY DEF OnData
<1>3. \A i \in good : read[i].parsed
  OBVIOUS
<1> HIDE DEF frames, T, put, read, good
<1>4. put \in Seq(T) /\ \A r \in DOMAIN put : \E i \in good : put[r] = read[i]
  BY <1>1, KeptIsASequence DEF put
<1>5. \A r \in DOMAIN put : put[r] \in T /\ put[r].parsed
  BY <1>3, <1>4
<1>6. put \in Seq({s \in T : s.parsed})
  BY <1>4, <1>5
<1> QED
  BY <1>2, <1>5, <1>6, ParsedSnapshot DEF T

\* A side of a book, in ticks: every level behind the one before it.
IsLadder(levels, sign) ==
    /\ Len(levels) \in Nat \ {0} /\ DOMAIN levels = 1..Len(levels)
    /\ \A i \in 1..Len(levels) :
        /\ levels[i].price \in Int /\ levels[i].price > 0
        /\ levels[i].quantity \in Int /\ levels[i].quantity > 0
        /\ levels[i].orders \in Int /\ levels[i].orders > 0
    /\ \A i, j \in 1..Len(levels) : i < j => sign * levels[i].price < sign * levels[j].price

IsBook(b) ==
    /\ IsLadder(b.bids, -1) /\ IsLadder(b.asks, 1)
    /\ b.bids[1].price <= b.asks[1].price
    /\ b.totalBuy \in Int /\ b.totalSell \in Int

\* On the grid, a price in ticks is its paise over the paise of a tick.
LEMMA GridPrices ==
    ASSUME NEW t \in Int, t > 0, NEW price \in Int, price > 0, price % (4 * t) = 0
    PROVE  /\ price \div (4 * t) \in Int /\ price \div (4 * t) > 0
           /\ RoundHalfEven(price, 4) = t * (price \div (4 * t))
<1> DEFINE k == price \div (4 * t)
<1>1. 4 * t \in Int /\ 4 * t > 0
  OBVIOUS
<1>2. k \in Int /\ price = (4 * t) * k
  BY <1>1
<1> HIDE DEF k
<1>3. t * k \in Int /\ price = 4 * (t * k)
  BY <1>2
<1>4. RoundHalfEven(price, 4) = t * k
  BY <1>3, WholePaise
<1>5. k > 0
  BY <1>2, <1>3
<1> QED
  BY <1>2, <1>4, <1>5 DEF k

LEMMA TimesPositive ==
    ASSUME NEW t \in Int, t > 0, NEW a \in Int, NEW b \in Int, a <= b
    PROVE  t * a <= t * b
<1>1. b - a \in Nat /\ t \in Nat
  OBVIOUS
<1>2. t * (b - a) \in Nat
  BY <1>1
<1>3. t * (b - a) = t * b - t * a /\ t * a \in Int /\ t * b \in Int
  OBVIOUS
<1> QED
  BY <1>2, <1>3

LEMMA Cancelled ==
    ASSUME NEW t \in Int, t > 0, NEW a \in Int, NEW b \in Int, NEW sign \in {1, -1},
           sign * (t * a) < sign * (t * b)
    PROVE  sign * a < sign * b
<1>1. t * a \in Int /\ t * b \in Int
  OBVIOUS
<1>2. CASE sign = 1
  <2>1. b <= a => t * b <= t * a
    BY TimesPositive
  <2> QED
    BY <1>1, <1>2, <2>1
<1>3. CASE sign = -1
  <2>1. a <= b => t * a <= t * b
    BY TimesPositive
  <2> QED
    BY <1>1, <1>3, <2>1
<1> QED
  BY <1>2, <1>3

\* A side that is sorted without repetition becomes a ladder.
LEMMA SideToLadder ==
    ASSUME NEW levels, NEW sign \in {1, -1}, IsSide(levels, sign), levels # << >>,
           Sorted(levels, sign), NEW t \in Int, t > 0,
           \A i \in DOMAIN levels : levels[i].price % (4 * t) = 0
    PROVE  /\ IsLadder(Ladder(levels, 4 * t), sign)
           /\ Len(Ladder(levels, 4 * t)) = Len(levels)
           /\ \A i \in 1..Len(levels) :
                levels[i].paise = t * Ladder(levels, 4 * t)[i].price
<1> DEFINE n == Len(levels)
           made == Ladder(levels, 4 * t)
<1>1. /\ n \in Nat \ {0} /\ DOMAIN levels = 1..n
      /\ \A i \in 1..n : IsParsed(levels[i])
      /\ \A i, j \in 1..n : i < j => sign * levels[i].paise <= sign * levels[j].paise
  BY DEF IsSide
<1>2. made = [i \in 1..n |-> [price |-> levels[i].price \div (4 * t),
                              quantity |-> levels[i].quantity, orders |-> levels[i].orders]]
  BY <1>1 DEF Ladder
<1>3. Len(made) = n /\ DOMAIN made = 1..n
  BY <1>1, <1>2
<1>4. ASSUME NEW i \in 1..n
      PROVE  /\ made[i].price \in Int /\ made[i].price > 0
             /\ made[i].quantity \in Int /\ made[i].quantity > 0
             /\ made[i].orders \in Int /\ made[i].orders > 0
             /\ levels[i].paise = t * made[i].price
  <2>1. made[i] = [price |-> levels[i].price \div (4 * t),
                   quantity |-> levels[i].quantity, orders |-> levels[i].orders]
    BY <1>2
  <2>2. IsParsed(levels[i]) /\ levels[i].price % (4 * t) = 0
    BY <1>1
  <2> HIDE DEF made
  <2>3. /\ levels[i].price \in Int /\ levels[i].price > 0
        /\ levels[i].quantity \in Int /\ levels[i].quantity > 0
        /\ levels[i].orders \in Int /\ levels[i].orders > 0
        /\ levels[i].paise = RoundHalfEven(levels[i].price, 4)
    BY <2>2 DEF IsParsed
  <2>4. /\ levels[i].price \div (4 * t) \in Int /\ levels[i].price \div (4 * t) > 0
        /\ RoundHalfEven(levels[i].price, 4) = t * (levels[i].price \div (4 * t))
    BY <2>2, <2>3, GridPrices
  <2> QED
    BY <2>1, <2>3, <2>4
<1> HIDE DEF made, n
<1>5. ASSUME NEW i \in 1..n, NEW j \in 1..n, i < j
      PROVE  sign * made[i].price < sign * made[j].price
  <2>1. i \in Int /\ j \in Int /\ i + 1 \in 1..n /\ i \in 1..(n - 1)
    BY <1>1, <1>5
  <2>0. ASSUME NEW k \in 1..n
        PROVE  made[k].price \in Int /\ levels[k].paise \in Int
               /\ levels[k].paise = t * made[k].price
    <3>1. made[k].price \in Int /\ levels[k].paise = t * made[k].price
      BY <1>4
    <3>2. t * made[k].price \in Int
      BY <3>1
    <3> QED
      BY <3>1, <3>2
  <2>2. sign * levels[i].paise < sign * levels[i + 1].paise
    BY <2>1 DEF Sorted, n
  <2>3. sign * levels[i + 1].paise <= sign * levels[j].paise
    <3>1. CASE i + 1 = j
      <4>1. sign * levels[j].paise \in Int
        BY <2>0
      <4> QED
        BY <3>1, <4>1
    <3>2. CASE i + 1 # j
      <4>1. i + 1 < j
        BY <1>5, <2>1, <3>2
      <4> QED
        BY <1>1, <2>1, <4>1
    <3> QED
      BY <3>1, <3>2
  <2>4. /\ levels[i].paise \in Int /\ levels[i + 1].paise \in Int /\ levels[j].paise \in Int
        /\ made[i].price \in Int /\ made[j].price \in Int
        /\ levels[i].paise = t * made[i].price /\ levels[j].paise = t * made[j].price
    BY <2>0, <2>1
  <2>5. sign * levels[i].paise < sign * levels[j].paise
    <3>1. sign * levels[i].paise \in Int /\ sign * levels[i + 1].paise \in Int
          /\ sign * levels[j].paise \in Int
      <4> DEFINE x == levels[i].paise
                 y == levels[i + 1].paise
                 z == levels[j].paise
      <4>1. x \in Int /\ y \in Int /\ z \in Int
        BY <2>4
      <4> HIDE DEF x, y, z
      <4>2. sign * x \in Int /\ sign * y \in Int /\ sign * z \in Int
        BY <4>1
      <4> QED
        BY <4>2 DEF x, y, z
    <3> QED
      BY <2>2, <2>3, <3>1
  <2>6. sign * (t * made[i].price) < sign * (t * made[j].price)
    BY <2>4, <2>5
  <2> QED
    BY <2>4, <2>6, Cancelled
<1> QED
  BY <1>1, <1>3, <1>4, <1>5 DEF IsLadder, made, n

(* What the validator lets through on the grid is a book: two ladders      *)
(* without an empty or a repeated level, and not crossed.                  *)
LEMMA AcceptedBook ==
    ASSUME NEW s, IsSnapshot(s), NEW c, ConfigTyped(c), EverySectionFits(c),
           StructuralFaults(c.validation, Tick(c), s) = {}, OnGrid(s, Tick(c))
    PROVE  /\ IsBook(InTicks(s, Tick(c)))
           /\ Len(InTicks(s, Tick(c)).bids) = Len(s.bids)
           /\ Len(InTicks(s, Tick(c)).asks) = Len(s.asks)
<1> DEFINE t == c.symbol.tick_size
           b == InTicks(s, Tick(c))
<1>1. t \in Int /\ t > 0 /\ Tick(c) = 4 * t
  <2>1. t \in Int
    BY DEF ConfigTyped, SectionTyped, Default, OfKind, Text, Boolean, DefaultSymbol
  <2>2. t > 0
    BY DEF EverySectionFits, SymbolFits, Positive
  <2> QED
    BY <2>1, <2>2 DEF Tick
<1> HIDE DEF t
<1>2. /\ s.bids # << >> /\ s.asks # << >>
      /\ LadderFaults(s) = {} /\ TouchFaults(c.validation, Tick(c), s) = {}
  BY DEF StructuralFaults
<1>3. Sorted(s.bids, -1) /\ Sorted(s.asks, 1)
  <2>1. ~(Sorted(s.bids, -1) /\ Sorted(s.asks, 1)) => "UNSORTED_DEPTH" \in LadderFaults(s)
    BY DEF LadderFaults
  <2> QED
    BY <1>2, <2>1
<1>4. ~(s.asks[1].paise < s.bids[1].paise)
  BY <1>2 DEF TouchFaults
<1>5. /\ IsSide(s.bids, -1) /\ IsSide(s.asks, 1)
      /\ s.totalBuy \in Int /\ s.totalSell \in Int
  BY DEF IsSnapshot
<1>6. /\ \A i \in DOMAIN s.bids : s.bids[i].price % (4 * t) = 0
      /\ \A i \in DOMAIN s.asks : s.asks[i].price % (4 * t) = 0
  BY <1>1 DEF OnGrid
<1>7. /\ IsLadder(Ladder(s.bids, 4 * t), -1)
      /\ Len(Ladder(s.bids, 4 * t)) = Len(s.bids)
      /\ \A i \in 1..Len(s.bids) : s.bids[i].paise = t * Ladder(s.bids, 4 * t)[i].price
  BY <1>1, <1>2, <1>3, <1>5, <1>6, SideToLadder
<1>8. /\ IsLadder(Ladder(s.asks, 4 * t), 1)
      /\ Len(Ladder(s.asks, 4 * t)) = Len(s.asks)
      /\ \A i \in 1..Len(s.asks) : s.asks[i].paise = t * Ladder(s.asks, 4 * t)[i].price
  BY <1>1, <1>2, <1>3, <1>5, <1>6, SideToLadder
<1>9. b.bids = Ladder(s.bids, 4 * t) /\ b.asks = Ladder(s.asks, 4 * t)
      /\ b.totalBuy = s.totalBuy /\ b.totalSell = s.totalSell
  BY <1>1 DEF InTicks
<1> HIDE DEF b
<1>10. b.bids[1].price <= b.asks[1].price
  <2>1. /\ b.bids[1].price \in Int /\ b.asks[1].price \in Int
        /\ 1 \in 1..Len(s.bids) /\ 1 \in 1..Len(s.asks)
    BY <1>7, <1>8, <1>9 DEF IsLadder
  <2>2. ~(t * b.asks[1].price < t * b.bids[1].price)
    BY <1>4, <1>7, <1>8, <1>9, <2>1
  <2> DEFINE ask == b.asks[1].price
             bid == b.bids[1].price
  <2> HIDE DEF ask, bid
  <2>3. ask \in Int /\ bid \in Int /\ ~(t * ask < t * bid)
    BY <2>1, <2>2 DEF ask, bid
  <2>4. CASE ask < bid
    <3>1. t * (ask + 1) <= t * bid
      BY <1>1, <2>3, <2>4, TimesPositive
    <3>2. t * (ask + 1) = t * ask + t /\ t * ask \in Int /\ t * bid \in Int
      BY <1>1, <2>3
    <3> QED
      BY <1>1, <2>3, <3>1, <3>2
  <2> QED
    BY <2>3, <2>4 DEF ask, bid
<1>11. IsBook(b)
  BY <1>5, <1>7, <1>8, <1>9, <1>10 DEF IsBook
<1> QED
  BY <1>7, <1>8, <1>9, <1>11 DEF b

----------------------------------------------------------------------------
(* coerce_payloads on one frame, however it is wrapped.                    *)

LEMMA FlattenedSingle ==
    ASSUME NEW x
    PROVE  FlattenSeq(<<x>>) = x
<1> DEFINE f == [i \in 1..1 |-> x]
<1>1. Len(<<x>>) = 1
  OBVIOUS
<1>2. f = [i \in 1..1 |-> IF i = 1 THEN <<x>>[i] ELSE f[i - 1] \o <<x>>[i]]
  OBVIOUS
<1> HIDE DEF f
<1> QED
  BY <1>1, <1>2 DEF FlattenSeq

Framed(m) == [is |-> "frame", value |-> m]

LEMMA CoercedOnce ==
    ASSUME NEW v
    PROVE  CoerceAll(<<v>>) = Coerced(v)
<1>1. [i \in DOMAIN <<v>> |-> Coerced(<<v>>[i])] = <<Coerced(v)>>
  OBVIOUS
<1> QED
  BY <1>1, FlattenedSingle DEF CoerceAll

\* Three ways the first call can end, after each of which nothing moves any more.
LEMMA CallsSettle ==
    ASSUME NEW p, NEW m, m.form = "mapping", ~IsHeartbeat(m),
           Coerced(Entry(p)) \in {<<Framed(m)>>, <<Entry(m)>>}
    PROVE  Calls(p)[Nesting] = <<Framed(m)>>
<1> DEFINE first == Coerced(Entry(p))
           f == [n \in 0..Nesting |-> IF n = 0 THEN first ELSE <<Framed(m)>>]
           calls == Calls(p)
<1>1. Nesting \in Nat /\ Nesting >= 2
  BY DepthAssumption
<1>2. CoerceAll(<<Framed(m)>>) = <<Framed(m)>> /\ CoerceAll(<<Entry(m)>>) = <<Framed(m)>>
  <2>1. Coerced(Framed(m)) = <<Framed(m)>>
    BY DEF Coerced, Framed
  <2>2. Coerced(Entry(m)) = <<Framed(m)>>
    BY DEF Coerced, Framed, Entry, Decoded
  <2> QED
    BY <2>1, <2>2, CoercedOnce
<1>3. first = <<Framed(m)>> \/ first = <<Entry(m)>>
  OBVIOUS
<1>4. CoerceAll(first) = <<Framed(m)>>
  BY <1>2, <1>3
<1> HIDE DEF first
<1>5. f = [n \in 0..Nesting |-> IF n = 0 THEN first ELSE CoerceAll(f[n - 1])]
  BY <1>1, <1>2, <1>4
<1> HIDE DEF f
<1>6. calls = [n \in 0..Nesting |-> IF n = 0 THEN first ELSE CoerceAll(calls[n - 1])]
  BY <1>5 DEF Calls, first
<1> HIDE DEF calls
<1> DEFINE S == {n \in 0..(Nesting - 1) : calls[n + 1] = <<Framed(m)>>}
<1>7. 0 \in S
  BY <1>1, <1>4, <1>6
<1>8. ASSUME NEW n \in 0..(Nesting - 1), n \in S, n < Nesting - 1
      PROVE  n + 1 \in S
  <2>1. calls[n + 2] = CoerceAll(calls[n + 1])
    BY <1>1, <1>6, <1>8
  <2> QED
    BY <1>1, <1>2, <1>8, <2>1
<1>9. \A n \in 0..(Nesting - 1) : n \in S
  <2> HIDE DEF S
  <2>1. Nesting - 1 \in Nat
    BY <1>1
  <2> QED
    BY <1>7, <1>8, <2>1, UpTo
<1> QED
  BY <1>1, <1>9 DEF calls

LEMMA OneFrame ==
    ASSUME NEW p, NEW m, m.form = "mapping", ~IsHeartbeat(m),
           Coerced(Entry(p)) \in {<<Framed(m)>>, <<Entry(m)>>}
    PROVE  CoercePayloads(p) = Frames(<<m>>)
<1> DEFINE items == Calls(p)[Nesting]
<1>1. items = <<Framed(m)>>
  BY CallsSettle
<1> HIDE DEF items
<1>2. \A i \in DOMAIN items : items[i] = Framed(m)
  BY <1>1
<1>3. [i \in DOMAIN items |-> items[i].value] = <<m>>
  BY <1>1 DEF Framed
<1> QED
  BY <1>2, <1>3 DEF CoercePayloads, Framed, items

LEMMA WrappedFrames ==
    ASSUME NEW m, m.form = "mapping", ~IsHeartbeat(m)
    PROVE  /\ CoercePayloads(m) = Frames(<<m>>)
           /\ \A other \in Wrapped(m) :
                CoercePayloads(other) = Frames(<<m>>) /\ IsHeartbeat(other) = FALSE
<1>1. Coerced(Entry(m)) = <<Framed(m)>>
  BY DEF Coerced, Entry, Framed, Decoded
<1>2. ASSUME NEW other \in Wrapped(m)
      PROVE  Coerced(Entry(other)) \in {<<Framed(m)>>, <<Entry(m)>>} /\ IsHeartbeat(other) = FALSE
  <2>1. CASE other \in {[form |-> "text", says |-> "json", value |-> m],
                        [form |-> "bytes", says |-> "json", value |-> m]}
    <3>1. IsHeartbeat(other) = FALSE
      BY <2>1 DEF IsHeartbeat
    <3>2. Decoded(other) = m
      BY <2>1 DEF Decoded
    <3>3. Coerced(Entry(other)) = <<Framed(m)>>
      BY <3>1, <3>2 DEF Coerced, Entry, Framed
    <3> QED
      BY <3>1, <3>3
  <2>2. CASE other \in {[form |-> "list", items |-> <<m>>],
                        [form |-> "text", says |-> "json",
                         value |-> [form |-> "list", items |-> <<m>>]]}
    <3>1. IsHeartbeat(other) = FALSE
      BY <2>2 DEF IsHeartbeat
    <3>2. Decoded(other) = [form |-> "list", items |-> <<m>>]
      BY <2>2 DEF Decoded
    <3>3. Coerced(Entry(other)) = [i \in DOMAIN <<m>> |-> Entry(<<m>>[i])]
      BY <3>1, <3>2 DEF Coerced, Entry
    <3>4. [i \in DOMAIN <<m>> |-> Entry(<<m>>[i])] = <<Entry(m)>>
      OBVIOUS
    <3> QED
      BY <3>1, <3>3, <3>4
  <2> QED
    BY <2>1, <2>2 DEF Wrapped
<1> QED
  BY <1>1, <1>2, OneFrame

\* A mapping without a token is a heartbeat, and leaves nothing.
LEMMA HeartbeatsLeaveNothing ==
    ASSUME NEW m, m.form = "mapping", IsHeartbeat(m)
    PROVE  CoercePayloads(m) = Frames(<< >>)
<1> DEFINE f == [n \in 0..Nesting |-> << >>]
           calls == Calls(m)
<1>1. Nesting \in Nat
  BY DepthAssumption
<1>2. Coerced(Entry(m)) = << >>
  BY DEF Coerced, Entry
<1>3. CoerceAll(<< >>) = << >>
  BY DEF CoerceAll, FlattenSeq
<1>4. f = [n \in 0..Nesting |-> IF n = 0 THEN Coerced(Entry(m)) ELSE CoerceAll(f[n - 1])]
  BY <1>1, <1>2, <1>3
<1> HIDE DEF f
<1>5. calls = [n \in 0..Nesting |->
                 IF n = 0 THEN Coerced(Entry(m)) ELSE CoerceAll(calls[n - 1])]
  BY <1>4 DEF Calls
<1> HIDE DEF calls
<1> DEFINE S == {n \in 0..Nesting : calls[n] = << >>}
<1>6. 0 \in S
  BY <1>1, <1>2, <1>5
<1>7. ASSUME NEW n \in 0..Nesting, n \in S, n < Nesting
      PROVE  n + 1 \in S
  BY <1>1, <1>3, <1>5, <1>7
<1>8. calls[Nesting] = << >>
  <2> HIDE DEF S
  <2>1. \A n \in 0..Nesting : n \in S
    BY <1>1, <1>6, <1>7, UpTo
  <2> QED
    BY <1>1, <2>1 DEF S
<1> QED
  BY <1>8 DEF CoercePayloads, calls

\* What the queue gets from a mapping.
LEMMA PutOfAMapping ==
    ASSUME NEW m, m.form = "mapping"
    PROVE  \A i \in DOMAIN OnData(m).put :
                /\ OnData(m).put[i] = ParseSnapshot(m) /\ ParseSnapshot(m).parsed
                /\ ~IsHeartbeat(m)
<1>1. CASE IsHeartbeat(m)
  <2>1. CoercePayloads(m).frames = << >>
    BY <1>1, HeartbeatsLeaveNothing DEF Frames
  <2> DEFINE read == [i \in DOMAIN << >> |-> ParseSnapshot(<< >>[i])]
             good == {i \in DOMAIN read : read[i].parsed}
  <2>2. read \in Seq({}) /\ good \in SUBSET DOMAIN read
    OBVIOUS
  <2>3. OnData(m).put = Kept(read, good)
    BY <2>1 DEF OnData
  <2> HIDE DEF read, good
  <2>4. Kept(read, good) \in Seq({})
    BY <2>2, KeptIsASequence
  <2> QED
    BY <2>3, <2>4
<1>2. CASE ~IsHeartbeat(m)
  <2>1. CoercePayloads(m).frames = <<m>>
    <3>1. CoercePayloads(m) = Frames(<<m>>)
      BY <1>2, WrappedFrames
    <3> QED
      BY <3>1 DEF Frames
  <2> DEFINE frames == <<m>>
             read == [i \in DOMAIN frames |-> ParseSnapshot(frames[i])]
             good == {i \in DOMAIN read : read[i].parsed}
  <2>2. read \in Seq({ParseSnapshot(m)}) /\ good \in SUBSET DOMAIN read
    OBVIOUS
  <2>3. OnData(m).put = Kept(read, good)
    BY <2>1 DEF OnData
  <2>4. \A i \in good : read[i].parsed /\ read[i] = ParseSnapshot(m)
    OBVIOUS
  <2> HIDE DEF read, good
  <2>5. \A r \in DOMAIN Kept(read, good) : \E i \in good : Kept(read, good)[r] = read[i]
    BY <2>2, KeptIsASequence
  <2> QED
    BY <1>2, <2>3, <2>4, <2>5
<1> QED
  BY <1>1, <1>2

----------------------------------------------------------------------------
(* The recorder's line read back.                                          *)

LEMMA NextPaise ==
    ASSUME NEW price \in Int
    PROVE  /\ RecordedPaise(price) \in Int
           /\ -2 <= 4 * RecordedPaise(price) - price /\ 4 * RecordedPaise(price) - price <= 2
           /\ price % 4 # 2 => RecordedPaise(price) = RoundHalfEven(price, 4)
<1> DEFINE q == price \div 4
           r == price % 4
<1>1. q \in Int /\ r \in 0..3 /\ price = 4 * q + r
  OBVIOUS
<1>2. /\ r \in {0, 1} => RoundHalfEven(price, 4) = q
      /\ r = 3 => RoundHalfEven(price, 4) = q + 1
  BY <1>1 DEF RoundHalfEven
<1>3. /\ r = 2 => RecordedPaise(price) \in {q, q + 1}
      /\ r # 2 => RecordedPaise(price) = RoundHalfEven(price, 4)
  BY DEF RecordedPaise
<1> HIDE DEF q, r
<1>4. CASE r = 2
  BY <1>1, <1>3, <1>4 DEF r
<1>5. CASE r # 2
  BY <1>1, <1>2, <1>3, <1>5 DEF r
<1> QED
  BY <1>4, <1>5

\* What the line holds of a ladder.
LineOf(levels) ==
    [i \in DOMAIN levels |->
        [price |-> levels[i].price, quantity |-> levels[i].quantity,
         orders |-> levels[i].orders]]

LEMMA RecordedSide ==
    ASSUME NEW levels, NEW descending \in BOOLEAN,
           IsSide(levels, IF descending THEN -1 ELSE 1)
    PROVE  ReadBack(RecordSide(LineOf(levels), descending), levels)
<1> DEFINE n == Len(levels)
           sign == IF descending THEN -1 ELSE 1
           line == LineOf(levels)
           real == {i \in DOMAIN line : line[i].price > 0 /\ line[i].quantity > 0}
           level == [i \in real |-> RecordedLevel(line[i])]
           key == [i \in DOMAIN level |-> sign * level[i].paise]
           order == StableOrder(DOMAIN level, key)
           back == RecordSide(line, descending)
<1>1. /\ n \in Nat /\ DOMAIN levels = 1..n /\ levels = [i \in 1..n |-> levels[i]]
      /\ \A i \in 1..n : IsParsed(levels[i])
      /\ \A i, j \in 1..n : i < j => sign * levels[i].paise <= sign * levels[j].paise
  BY DEF IsSide
<1>2. back = [r \in DOMAIN order |-> level[order[r]]]
  BY DEF RecordSide, BestFirst
<1> HIDE DEF n, back
<1>3. real = 1..n
  BY <1>1 DEF IsParsed, LineOf
<1>4. ASSUME NEW i \in 1..n
      PROVE  /\ level[i] = [levels[i] EXCEPT !.paise = RecordedPaise(levels[i].price)]
             /\ level[i].price = levels[i].price
             /\ level[i].paise = RecordedPaise(levels[i].price)
             /\ level[i].paise \in Int
  <2>1. /\ line[i].price = levels[i].price /\ line[i].quantity = levels[i].quantity
        /\ line[i].orders = levels[i].orders
    BY <1>1 DEF LineOf
  <2>2. level[i] = [Level(levels[i].price, levels[i].quantity, levels[i].orders)
                      EXCEPT !.paise = RecordedPaise(levels[i].price)]
    BY <1>3, <2>1 DEF RecordedLevel
  <2>3. levels[i] = Level(levels[i].price, levels[i].quantity, levels[i].orders)
        /\ levels[i].price \in Int
    BY <1>1 DEF IsParsed
  <2>4. level[i] = [levels[i] EXCEPT !.paise = RecordedPaise(levels[i].price)]
    BY <2>2, <2>3
  <2> HIDE DEF level, line
  <2>5. level[i].price = levels[i].price /\ level[i].paise = RecordedPaise(levels[i].price)
    BY <2>3, <2>4 DEF Level
  <2> QED
    BY <2>3, <2>4, <2>5, NextPaise
<1>5. DOMAIN level = 1..n
  BY <1>3
<1> HIDE DEF level, real, line
<1>6. \A i \in 1..n : key[i] \in Int /\ key[i] = sign * level[i].paise
  BY <1>4, <1>5
<1>7. IsFiniteSet(1..n) /\ Cardinality(1..n) = n /\ 1..n \subseteq Int
  BY <1>1, FS_Interval
<1> HIDE DEF key
<1>8. Sorts(order, 1..n, key)
  BY <1>5, <1>6, <1>7, StableOrderSorts
<1> HIDE DEF order
<1>9. /\ order \in [1..n -> 1..n] /\ DOMAIN order = 1..n
      /\ \A i \in 1..n : \E r \in 1..n : order[r] = i
      /\ \A q, r \in 1..n : q < r => order[q] # order[r]
  BY <1>7, <1>8 DEF Sorts
<1>10. DOMAIN back = 1..n /\ \A r \in 1..n : back[r] = level[order[r]]
  BY <1>2, <1>9
<1>11. order \in Bijection(DOMAIN back, DOMAIN levels)
  <2>1. \A q, r \in 1..n : order[q] = order[r] => q = r
    <3> SUFFICES ASSUME NEW q \in 1..n, NEW r \in 1..n, q # r
                 PROVE  order[q] # order[r]
      OBVIOUS
    <3>1. q < r \/ r < q
      OBVIOUS
    <3> QED
      BY <1>9, <3>1
  <2>2. order \in Injection(1..n, 1..n)
    BY <1>9, <2>1 DEF Injection, IsInjective
  <2>3. order \in Surjection(1..n, 1..n)
    BY <1>9 DEF Surjection
  <2> QED
    BY <1>1, <1>10, <2>2, <2>3 DEF Bijection
<1>12. ASSUME NEW r \in 1..n
       PROVE  /\ back[r] = [levels[order[r]] EXCEPT !.paise = back[r].paise]
              /\ -2 <= 4 * back[r].paise - back[r].price
              /\ 4 * back[r].paise - back[r].price <= 2
  <2>1. order[r] \in 1..n /\ back[r] = level[order[r]]
    BY <1>9, <1>10
  <2>2. levels[order[r]].price \in Int
    BY <1>1, <2>1 DEF IsParsed
  <2> QED
    BY <1>4, <2>1, <2>2, NextPaise
<1>13. ASSUME \A i \in DOMAIN levels : levels[i].price % 4 # 2
       PROVE  back = levels
  <2>1. ASSUME NEW i \in 1..n PROVE level[i] = levels[i]
    <3>1. levels[i].price \in Int /\ levels[i].price % 4 # 2
      BY <1>1, <1>13 DEF IsParsed
    <3>2. /\ levels[i] = Level(levels[i].price, levels[i].quantity, levels[i].orders)
          /\ RecordedPaise(levels[i].price) = levels[i].paise
      BY <1>1, <3>1, NextPaise DEF IsParsed
    <3> QED
      BY <1>4, <3>2 DEF Level
  <2>2. \A i, j \in 1..n : i < j => key[i] <= key[j]
    BY <1>1, <1>6, <2>1
  <2>3. order = [r \in 1..n |-> r]
    BY <1>1, <1>5, <1>6, <2>2, SortedStays DEF order
  <2>4. \A r \in 1..n : back[r] = levels[r]
    BY <1>10, <2>1, <2>3
  <2>5. back = [r \in 1..n |-> back[r]]
    BY <1>2, <1>9, <1>10
  <2> QED
    BY <1>1, <2>4, <2>5
<1> QED
  <2> HIDE DEF sign
  <2>1. ReadBack(back, levels)
    BY <1>10, <1>11, <1>12, <1>13 DEF ReadBack
  <2> QED
    BY <2>1 DEF back, line

\* A ladder that is read back empty was empty.
LEMMA NothingIsLost ==
    ASSUME NEW levels, NEW sign, IsSide(levels, sign), ReadBack(<< >>, levels)
    PROVE  levels = << >>
<1>1. PICK place \in Bijection(DOMAIN << >>, DOMAIN levels) : TRUE
  BY DEF ReadBack
<1>2. \A j \in DOMAIN levels : \E r \in DOMAIN << >> : place[r] = j
  BY <1>1 DEF Bijection, Surjection
<1>3. DOMAIN levels = 1..Len(levels) /\ Len(levels) \in Nat
  BY DEF IsSide
<1>4. ~(1 \in 1..Len(levels))
  BY <1>2, <1>3
<1>5. Len(levels) = 0
  BY <1>3, <1>4
<1> QED
  BY <1>5 DEF IsSide

\* The cash segment knows whole paise only.
LEMMA WholeUnlessCurrency ==
    ASSUME NEW entries \in Seq(Offers), NEW exchange, exchange # "CDE",
           NEW descending \in BOOLEAN
    PROVE  LET side == ParseDepth(entries, exchange, descending)
           IN \A i \in DOMAIN side : side[i].price % 4 # 2
<1> DEFINE usable == {i \in DOMAIN entries : Usable(entries[i])}
           kept == {i \in usable : Cardinality({j \in usable : j <= i}) <= DepthLevels}
           level == [i \in kept |-> LevelOf(entries[i], exchange)]
           side == ParseDepth(entries, exchange, descending)
<1>1. kept \subseteq Int /\ IsFiniteSet(kept)
  <2>1. IsFiniteSet(1..Len(entries)) /\ kept \in SUBSET (1..Len(entries))
    BY FS_Interval
  <2>2. IsFiniteSet(kept)
    BY <2>1, FS_Subset
  <2>3. 1..Len(entries) \subseteq Int
    OBVIOUS
  <2> QED
    BY <2>1, <2>2, <2>3
<1>2. \A i \in kept : IsParsed(level[i])
  BY UsableOffers
<1>3. ASSUME NEW i \in kept PROVE level[i].price % 4 # 2
  <2>1. entries[i].price \in Int
    <3>1. i \in DOMAIN entries /\ Usable(entries[i])
      OBVIOUS
    <3>2. entries[i] \in Offers
      BY <3>1
    <3> QED
      BY <3>1, <3>2 DEF Usable, Offers
  <2>2. level[i].price = entries[i].price * 4
    BY DEF LevelOf, Level, QuarterPaise
  <2> HIDE DEF level
  <2> QED
    BY <2>1, <2>2
<1>4. DOMAIN level = kept /\ side = BestFirst(level, descending)
  BY DEF ParseDepth
<1> HIDE DEF kept, level, side
<1>5. /\ IsSide(side, IF descending THEN -1 ELSE 1)
      /\ IsMade(side, kept, level)
  BY <1>1, <1>2, <1>4, BestFirstIsASide
<1>6. ASSUME NEW r \in DOMAIN side PROVE side[r].price % 4 # 2
  <2>1. r \in 1..Len(side)
    BY <1>5 DEF IsSide
  <2>2. PICK i \in kept : side[r] = level[i]
    BY <1>5, <2>1 DEF IsMade
  <2> QED
    BY <1>3, <2>2
<1> QED
  BY <1>6 DEF side

LEMMA RecordedSnapshot ==
    ASSUME NEW m \in WireFrames, ParseSnapshot(m).parsed
    PROVE  LET s == ParseSnapshot(m)
               back == FromRecord(ToRecord(s))
           IN /\ back = Snapshot(s.token, s.exchange, s.ltp, s.volume, s.totalBuy,
                                  s.totalSell, back.bids, back.asks)
              /\ ReadBack(back.bids, s.bids) /\ ReadBack(back.asks, s.asks)
              /\ m.exchange # "CDE" => back = s
<1> DEFINE s == ParseSnapshot(m)
           r == ToRecord(s)
           back == FromRecord(r)
           bids == RecordSide(r.bids, TRUE)
           asks == RecordSide(r.asks, FALSE)
<1>1. /\ s = Snapshot(s.token, s.exchange, s.ltp, s.volume, s.totalBuy, s.totalSell,
                      s.bids, s.asks)
      /\ ~(s.bids = << >> /\ s.asks = << >>)
      /\ s.bids = ParseDepth(m.buy, m.exchange, TRUE)
      /\ s.asks = ParseDepth(m.sell, m.exchange, FALSE)
  <2>1. /\ s = Snapshot(m.token.n, m.exchange, AsInt(m.ltp, 0) * QuarterPaise(m.exchange),
                        AsInt(m.volume, 0), AsInt(m.totalBuy, 0), AsInt(m.totalSell, 0),
                        ParseDepth(m.buy, m.exchange, TRUE),
                        ParseDepth(m.sell, m.exchange, FALSE))
        /\ ~(/\ ParseDepth(m.buy, m.exchange, TRUE) = << >>
             /\ ParseDepth(m.sell, m.exchange, FALSE) = << >>)
    BY DEF ParseSnapshot, Unparsed
  <2> HIDE DEF s
  <2> QED
    BY <2>1 DEF Snapshot
<1>2. IsSide(s.bids, IF TRUE THEN -1 ELSE 1) /\ IsSide(s.asks, IF FALSE THEN -1 ELSE 1)
  BY ParsedSnapshot DEF IsSnapshot
<1>3. m.exchange # "CDE" => /\ \A i \in DOMAIN s.bids : s.bids[i].price % 4 # 2
                            /\ \A i \in DOMAIN s.asks : s.asks[i].price % 4 # 2
  <2>1. m.buy \in Seq(Offers) /\ m.sell \in Seq(Offers)
    BY DEF WireFrames
  <2> HIDE DEF s
  <2> QED
    BY <1>1, <2>1, WholeUnlessCurrency
<1> HIDE DEF s
<1>4. /\ r.bids = LineOf(s.bids) /\ r.asks = LineOf(s.asks)
      /\ r.token = s.token /\ r.exchange = s.exchange /\ r.ltp = s.ltp
      /\ r.volume = s.volume /\ r.totalBuy = s.totalBuy /\ r.totalSell = s.totalSell
  BY <1>1 DEF ToRecord, Snapshot, LineOf
<1>5. ReadBack(bids, s.bids) /\ ReadBack(asks, s.asks)
  <2>1. ReadBack(RecordSide(LineOf(s.bids), TRUE), s.bids)
    BY <1>2, RecordedSide
  <2>2. ReadBack(RecordSide(LineOf(s.asks), FALSE), s.asks)
    BY <1>2, RecordedSide
  <2> QED
    BY <1>4, <2>1, <2>2
<1> HIDE DEF r, bids, asks
<1>6. ~(bids = << >> /\ asks = << >>)
  BY <1>1, <1>2, <1>5, NothingIsLost
<1>7. back = Snapshot(s.token, s.exchange, s.ltp, s.volume, s.totalBuy, s.totalSell, bids, asks)
  BY <1>4, <1>6 DEF FromRecord, bids, asks
<1> HIDE DEF back
<1>8. back.bids = bids /\ back.asks = asks
  BY <1>7 DEF Snapshot
<1>9. m.exchange # "CDE" => bids = s.bids /\ asks = s.asks
  BY <1>3, <1>5 DEF ReadBack
<1>10. m.exchange # "CDE" => back = s
  BY <1>1, <1>7, <1>9
<1>11. /\ back = Snapshot(s.token, s.exchange, s.ltp, s.volume, s.totalBuy,
                           s.totalSell, back.bids, back.asks)
       /\ ReadBack(back.bids, s.bids) /\ ReadBack(back.asks, s.asks)
       /\ m.exchange # "CDE" => back = s
  BY <1>5, <1>7, <1>8, <1>10
<1> QED
  BY <1>11 DEF back, r, s

----------------------------------------------------------------------------
(* What the process remembers.                                             *)

Snapshots == {s \in {ParseSnapshot(m) : m \in WireFrames} : s.parsed}

Judged == verdict \notin {Unjudged, {"unsubscribed"}}

\* A process that is not running has nothing in hand.
IdleInv ==
    running \in {"down", "refused"} =>
        /\ pending = << >> /\ verdict = Unjudged
        /\ book = None /\ score = None /\ position = None /\ mark = None

\* Whatever is judged of a mapping is the one snapshot it parses to.
FrameInv ==
    /\ pending \in Seq(Snapshots)
    /\ payload # None /\ payload.form = "mapping" /\ ~IsHeartbeat(payload) =>
        payload \in WireFrames
    /\ payload.form = "mapping" =>
        /\ \A i \in DOMAIN pending :
            pending[i] = ParseSnapshot(payload) /\ payload \in WireFrames
        /\ Judged =>
            /\ payload \in WireFrames /\ ParseSnapshot(payload).parsed
            /\ verdict = StructuralFaults(config.validation, Tick(config),
                                          ParseSnapshot(payload))

\* The book is one, and the score is that of its votes.
BookInv ==
    /\ book # None => IsBook(book)
    /\ score # None =>
        \E around \in Surroundings(purpose) :
            /\ votes = Votes(config, around, book)
            /\ score = Composite(config, WeightsFor(config.composite, around.regime), votes)
    /\ score # None => book # None /\ Raises(config) = {}
    /\ mark # None => book # None

\* A position is what was opened on a book that cleared the gate, marked at this one.
PositionInv ==
    position # None =>
        /\ IsBook(opened)
        /\ ClearsCost(config, opened, config.symbol.quantity)
        /\ \E direction \in {1, -1} :
            position = OpenPosition(config, opened, direction, config.symbol.quantity)
        /\ mark # None => mark = MarkToMarket(config, position, book)

SignalInv == ConfigInv /\ IdleInv /\ FrameInv /\ BookInv /\ PositionInv

LEMMA SnapshotsAreParsed ==
    ASSUME NEW s \in Snapshots
    PROVE  IsSnapshot(s)
  BY ParsedSnapshot DEF Snapshots

LEMMA SignalInvInit == Init => SignalInv
<1> SUFFICES ASSUME Init PROVE SignalInv
  OBVIOUS
<1>1. ConfigInv
  BY ConfigInvInit
<1>2. IdleInv /\ FrameInv /\ BookInv /\ PositionInv
  <2>1. << >> \in Seq(Snapshots) /\ DOMAIN << >> = {}
    OBVIOUS
  <2>2. FrameInv
    BY <2>1 DEF Init, FrameInv, Judged
  <2>3. BookInv /\ PositionInv
    BY DEF Init, BookInv, PositionInv
  <2> QED
    BY <2>2, <2>3 DEF Init, IdleInv
<1> QED
  BY <1>1, <1>2 DEF SignalInv

LEMMA StartKeeps ==
    ASSUME SignalInv, NEW launch \in Launches, Start(launch)
    PROVE  IdleInv' /\ FrameInv' /\ BookInv' /\ PositionInv'
<1>1. /\ running = "down"
      /\ UNCHANGED <<payload, pending, book, votes, score, blocks, verdict, position, opened,
                     mark>>
  BY DEF Start
<1>2. /\ pending = << >> /\ verdict = Unjudged
      /\ book = None /\ score = None /\ position = None /\ mark = None
  BY <1>1 DEF SignalInv, IdleInv
<1> QED
  BY <1>1, <1>2 DEF SignalInv, IdleInv, FrameInv, BookInv, PositionInv, Judged

LEMMA DeliverKeeps ==
    ASSUME SignalInv, NEW p \in Payloads(purpose), Deliver(p)
    PROVE  IdleInv' /\ FrameInv' /\ BookInv' /\ PositionInv'
<1>1. /\ running = "up" /\ payload' = p /\ pending' = OnData(p).put /\ verdict' = Unjudged
      /\ UNCHANGED <<running, purpose, config, book, votes, score, blocks, position, opened,
                     mark>>
  BY DEF Deliver
<1>2. CoercePayloads(p).frames \in Seq(WireFrames)
  <2>1. PICK launch \in Launches : purpose = launch.purpose
    BY <1>1 DEF SignalInv, ConfigInv
  <2> QED
    BY <2>1, FeedAssumption
<1>3. OnData(p).put \in Seq(Snapshots)
  BY <1>2, DeliveredSnapshots DEF Snapshots
<1>4. ASSUME p.form = "mapping", ~IsHeartbeat(p) PROVE p \in WireFrames
  <2>1. CoercePayloads(p) = Frames(<<p>>)
    BY <1>4, WrappedFrames
  <2>2. <<p>> \in Seq(WireFrames)
    BY <1>2, <2>1 DEF Frames
  <2> QED
    BY <2>2
<1>5. ASSUME p.form = "mapping", NEW i \in DOMAIN OnData(p).put
      PROVE  OnData(p).put[i] = ParseSnapshot(p) /\ p \in WireFrames
  BY <1>4, <1>5, PutOfAMapping
<1>6. FrameInv'
  BY <1>1, <1>3, <1>4, <1>5 DEF FrameInv, Judged
<1> QED
  BY <1>1, <1>6 DEF SignalInv, IdleInv, BookInv, PositionInv

LEMMA ProcessKeeps ==
    ASSUME SignalInv, NEW around \in Surroundings(purpose), Process(around)
    PROVE  IdleInv' /\ FrameInv' /\ BookInv' /\ PositionInv'
<1> DEFINE snapshot == Head(pending)
           tick == Tick(config)
           faults == StructuralFaults(config.validation, tick, snapshot)
           b == InTicks(snapshot, tick)
<1>1. /\ running = "up" /\ pending # << >> /\ pending' = Tail(pending)
      /\ UNCHANGED <<purpose, config, payload, position, opened>>
  BY DEF Process
<1>2. snapshot \in Snapshots /\ snapshot = pending[1] /\ 1 \in DOMAIN pending
      /\ Tail(pending) \in Seq(Snapshots)
      /\ \A i \in DOMAIN Tail(pending) : i + 1 \in DOMAIN pending
                                         /\ Tail(pending)[i] = pending[i + 1]
  BY <1>1 DEF SignalInv, FrameInv
<1>3. \/ verdict' = {"unsubscribed"} /\ UNCHANGED <<running, book, votes, score, mark>>
      \/ verdict' = faults /\ UNCHANGED <<running, book, votes, score, mark>>
      \/ /\ verdict' = faults /\ running' = "crashed"
         /\ UNCHANGED <<book, votes, score, mark>>
      \/ /\ verdict' = faults /\ faults = {} /\ OnGrid(snapshot, tick)
         /\ running' = "up" /\ Scored(around, b) /\ Raises(config) = {}
  BY <1>1 DEF Process, Accepted
<1>4. FrameInv'
  <2>1. ASSUME payload.form = "mapping", NEW i \in DOMAIN pending'
        PROVE  pending'[i] = ParseSnapshot(payload) /\ payload \in WireFrames
    BY <1>1, <1>2, <2>1 DEF SignalInv, FrameInv
  <2>2. ASSUME payload.form = "mapping", Judged'
        PROVE  /\ payload \in WireFrames /\ ParseSnapshot(payload).parsed
               /\ verdict' = StructuralFaults(config.validation, Tick(config),
                                              ParseSnapshot(payload))
    <3>1. verdict' = faults
      BY <1>3, <2>2 DEF Judged
    <3>2. snapshot = ParseSnapshot(payload) /\ payload \in WireFrames
      BY <1>2, <2>2 DEF SignalInv, FrameInv
    <3>3. snapshot.parsed
      BY <1>2 DEF Snapshots
    <3> QED
      BY <3>1, <3>2, <3>3
  <2> QED
    BY <1>1, <1>2, <2>1, <2>2 DEF SignalInv, FrameInv
<1> HIDE DEF snapshot, faults, b, tick
<1>5. IdleInv' /\ BookInv' /\ PositionInv'
  <2>1. CASE UNCHANGED <<book, votes, score, mark>> /\ running' \in {"up", "crashed"}
    BY <1>1, <2>1 DEF SignalInv, IdleInv, BookInv, PositionInv
  <2>2. CASE faults = {} /\ OnGrid(snapshot, tick) /\ running' = "up" /\ Scored(around, b)
             /\ Raises(config) = {}
    <3>1. /\ book' = b /\ votes' = Votes(config, around, b)
          /\ score' = Composite(config, WeightsFor(config.composite, around.regime), votes')
          /\ mark' = IF position = None THEN None ELSE MarkToMarket(config, position, b)
      BY <2>2 DEF Scored
    <3>2. IsBook(b)
      <4>1. IsSnapshot(snapshot)
        BY <1>2, SnapshotsAreParsed
      <4>2. ConfigTyped(config) /\ EverySectionFits(config)
        BY <1>1 DEF SignalInv, ConfigInv
      <4> QED
        BY <2>2, <4>1, <4>2, AcceptedBook DEF b, faults, tick
    <3>3. b # None
      BY DEF b, InTicks, None
    <3>4. BookInv'
      BY <1>1, <2>2, <3>1, <3>2, <3>3 DEF BookInv
    <3>5. PositionInv'
      BY <1>1, <3>1 DEF SignalInv, PositionInv
    <3> QED
      BY <2>2, <3>4, <3>5 DEF IdleInv
  <2> QED
    BY <1>1, <1>3, <2>1, <2>2
<1> QED
  BY <1>4, <1>5

LEMMA EnterKeeps ==
    ASSUME SignalInv, NEW direction \in {1, -1}, Enter(direction)
    PROVE  IdleInv' /\ FrameInv' /\ BookInv' /\ PositionInv'
<1>1. /\ running = "up" /\ book # None /\ mark = None
      /\ ClearsCost(config, book, config.symbol.quantity)
      /\ position' = OpenPosition(config, book, direction, config.symbol.quantity)
      /\ opened' = book
      /\ UNCHANGED <<running, purpose, config, payload, pending, book, votes, score, blocks,
                     verdict, mark>>
  BY DEF Enter
<1>2. IsBook(book)
  BY <1>1 DEF SignalInv, BookInv
<1>3. PositionInv'
  BY <1>1, <1>2 DEF PositionInv
<1> QED
  BY <1>1, <1>3 DEF SignalInv, IdleInv, FrameInv, BookInv, Judged

LEMMA SignalInvStep == SignalInv /\ [Next]_vars => SignalInv'
<1> SUFFICES ASSUME SignalInv, [Next]_vars PROVE SignalInv'
  OBVIOUS
<1>1. ConfigInv'
  BY ConfigInvStep DEF SignalInv
<1>2. ASSUME NEW launch \in Launches, Start(launch)
      PROVE  IdleInv' /\ FrameInv' /\ BookInv' /\ PositionInv'
  BY <1>2, StartKeeps
<1>3. CASE Shutdown
  <2>1. << >> \in Seq(Snapshots) /\ DOMAIN << >> = {}
    OBVIOUS
  <2>2. FrameInv'
    BY <1>3, <2>1 DEF Shutdown, FrameInv, Judged
  <2>3. BookInv' /\ PositionInv'
    BY <1>3 DEF Shutdown, BookInv, PositionInv
  <2> QED
    BY <1>1, <1>3, <2>2, <2>3 DEF Shutdown, SignalInv, IdleInv
<1>4. ASSUME NEW p \in Payloads(purpose), Deliver(p)
      PROVE  IdleInv' /\ FrameInv' /\ BookInv' /\ PositionInv'
  BY <1>4, DeliverKeeps
<1>5. ASSUME NEW around \in Surroundings(purpose), Process(around)
      PROVE  IdleInv' /\ FrameInv' /\ BookInv' /\ PositionInv'
  BY <1>5, ProcessKeeps
<1>6. ASSUME NEW direction \in {1, -1}, Enter(direction)
      PROVE  IdleInv' /\ FrameInv' /\ BookInv' /\ PositionInv'
  BY <1>6, EnterKeeps
<1>7. CASE Exit
  <2>1. FrameInv'
    BY <1>7 DEF Exit, SignalInv, FrameInv, Judged
  <2>2. BookInv'
    BY <1>7 DEF Exit, SignalInv, BookInv
  <2>3. PositionInv'
    BY <1>7 DEF Exit, PositionInv
  <2> QED
    BY <1>1, <1>7, <2>1, <2>2, <2>3 DEF Exit, SignalInv, IdleInv
<1>8. CASE UNCHANGED vars
  <2>1. FrameInv'
    BY <1>8 DEF vars, SignalInv, FrameInv, Judged
  <2>2. BookInv'
    BY <1>8 DEF vars, SignalInv, BookInv
  <2>3. PositionInv'
    BY <1>8 DEF vars, SignalInv, PositionInv
  <2> QED
    BY <1>1, <1>8, <2>1, <2>2, <2>3 DEF vars, SignalInv, IdleInv
<1> QED
  BY <1>1, <1>2, <1>3, <1>4, <1>5, <1>6, <1>7, <1>8 DEF Next, SignalInv

THEOREM SignalInvHolds == Spec => []SignalInv
  BY SignalInvInit, SignalInvStep, PTL DEF Spec

(* coerce_payloads settles on the same frame whatever it was wrapped in,   *)
(* and the recorder's line keeps everything a snapshot is parsed to, but   *)
(* for which paise is next to a half, whichever way the doubles fall.      *)
THEOREM OneFrameOneSnapshotHolds == Spec => []OneFrameOneSnapshot
<1>1. ASSUME SignalInv PROVE OneFrameOneSnapshot
  <2> DEFINE Replayed(s) ==
               LET back == FromRecord(ToRecord(s))
               IN /\ back = Snapshot(s.token, s.exchange, s.ltp, s.volume, s.totalBuy,
                                      s.totalSell, back.bids, back.asks)
                  /\ ReadBack(back.bids, s.bids) /\ ReadBack(back.asks, s.asks)
                  /\ payload.exchange # "CDE" => back = s
  <2> SUFFICES ASSUME payload # None, payload.form = "mapping", ~IsHeartbeat(payload)
               PROVE  /\ \A other \in Wrapped(payload) : OnData(other) = OnData(payload)
                      /\ \A s \in Range(OnData(payload).put) : Replayed(s)
    BY DEF OneFrameOneSnapshot
  <2>1. ASSUME NEW other \in Wrapped(payload) PROVE OnData(other) = OnData(payload)
    <3>1. /\ CoercePayloads(other) = CoercePayloads(payload)
          /\ IsHeartbeat(other) = FALSE
      BY WrappedFrames
    <3>2. IsHeartbeat(payload) = FALSE
      BY DEF IsHeartbeat
    <3> QED
      BY <3>1, <3>2 DEF OnData
  <2>2. ASSUME NEW i \in DOMAIN OnData(payload).put
        PROVE  Replayed(OnData(payload).put[i])
    <3>1. payload \in WireFrames
      BY <1>1 DEF SignalInv, FrameInv
    <3>2. /\ OnData(payload).put[i] = ParseSnapshot(payload)
          /\ ParseSnapshot(payload).parsed
      BY <3>1, PutOfAMapping
    <3> QED
      BY <3>1, <3>2, RecordedSnapshot
  <2> QED
    BY <2>1, <2>2 DEF Range
<1> QED
  BY <1>1, SignalInvHolds, PTL

----------------------------------------------------------------------------
(* Prices.                                                                 *)

\* Rounding to the grid moves a price by half a tick at most.
LEMMA RoundedByHalf ==
    ASSUME NEW n \in Int, NEW d \in Int, d > 0
    PROVE  /\ RoundToTick(n, d) \in Int
           /\ 2 * n - d <= 2 * (d * RoundToTick(n, d))
           /\ 2 * (d * RoundToTick(n, d)) <= 2 * n + d
           /\ \A k \in Int : n = d * k => RoundToTick(n, d) = k
<1> DEFINE q == n \div d
           r == n % d
           t == RoundToTick(n, d)
<1>1. q \in Int /\ r \in Int /\ n = d * q + r /\ 0 <= r /\ r < d
  OBVIOUS
<1>2. \/ t = q /\ 2 * r <= d
      \/ t = q + 1 /\ 2 * r >= d
  BY <1>1 DEF RoundToTick
<1>3. ASSUME NEW k \in Int, n = d * k PROVE t = k
  <2>1. n % d = 0 /\ n \div d = k
    BY <1>3
  <2> QED
    BY <2>1 DEF RoundToTick
<1> HIDE DEF q, r, t
<1>4. d * (q + 1) = d * q + d /\ d * q \in Int
  BY <1>1
<1>5. t \in Int /\ 2 * n - d <= 2 * (d * t) /\ 2 * (d * t) <= 2 * n + d
  BY <1>1, <1>2, <1>4
<1> QED
  BY <1>3, <1>5 DEF t

LEMMA LevelsByHalf ==
    ASSUME NEW price \in Int, NEW distance \in Int
    PROVE  /\ LevelAt(price, distance) \in Int
           /\ 100 * price + distance - 50 <= 100 * LevelAt(price, distance)
           /\ 100 * LevelAt(price, distance) <= 100 * price + distance + 50
<1>1. 100 * price + distance \in Int
  OBVIOUS
<1>2. /\ RoundToTick(100 * price + distance, 100) \in Int
      /\ 2 * (100 * price + distance) - 100
            <= 2 * (100 * RoundToTick(100 * price + distance, 100))
      /\ 2 * (100 * RoundToTick(100 * price + distance, 100))
            <= 2 * (100 * price + distance) + 100
  BY <1>1, RoundedByHalf
<1> QED
  BY <1>1, <1>2 DEF LevelAt

\* What a fill takes from a ladder.
LEMMA TakenTyped ==
    ASSUME NEW levels, NEW sign \in {1, -1}, IsLadder(levels, sign), NEW quantity \in Int
    PROVE  /\ [j \in DOMAIN levels |-> levels[j].quantity] \in Seq(Int)
           /\ [i \in DOMAIN levels |-> Taken(levels, quantity, i)] \in Seq(Nat)
           /\ [i \in DOMAIN levels |-> Taken(levels, quantity, i) * levels[i].price] \in Seq(Int)
<1> DEFINE n == Len(levels)
           w == [j \in DOMAIN levels |-> levels[j].quantity]
<1>1. /\ n \in Nat \ {0} /\ DOMAIN levels = 1..n
      /\ \A i \in 1..n : levels[i].quantity \in Int /\ levels[i].quantity > 0
                         /\ levels[i].price \in Int
  BY DEF IsLadder
<1> HIDE DEF n
<1>2. w \in Seq(Int) /\ Len(w) = n
  BY <1>1
<1>3. \A i \in 1..n : DepthBefore(levels, i) \in Int
  <2>1. \A i \in 1..n : i - 1 \in 0..n
    BY <1>1
  <2>2. \A k \in 0..n : Partial(w)[k] \in Int
    BY <1>2, PartialSums
  <2>3. \A i \in 1..n : DepthBefore(levels, i) = Partial(w)[i - 1]
    BY DEF DepthBefore
  <2> HIDE DEF w
  <2> QED
    BY <1>2, <2>1, <2>2, <2>3
<1>4. ASSUME NEW i \in 1..n PROVE Taken(levels, quantity, i) \in Nat
  BY <1>1, <1>3, <1>4 DEF Taken, Lower, Higher
<1>5. [i \in DOMAIN levels |-> Taken(levels, quantity, i)] \in Seq(Nat)
  BY <1>1, <1>4
<1>6. \A i \in 1..n : Taken(levels, quantity, i) * levels[i].price \in Int
  BY <1>1, <1>4
<1>7. [i \in DOMAIN levels |-> Taken(levels, quantity, i) * levels[i].price] \in Seq(Int)
  BY <1>1, <1>6
<1> QED
  BY <1>2, <1>5, <1>7

LEMMA WalkTyped ==
    ASSUME NEW levels, NEW sign \in {1, -1}, IsLadder(levels, sign), NEW quantity \in Int
    PROVE  LET walk == Walk(levels, quantity)
           IN /\ walk.notional \in Int /\ walk.per \in Int /\ walk.per > 0
              /\ walk.filled = Filled(levels, quantity) /\ walk.filled \in Nat
              /\ walk.filled > 0 =>
                    walk.per = walk.filled /\ walk.notional = Notional(levels, quantity)
<1>1. levels[1].price \in Int
  BY DEF IsLadder
<1>2. Filled(levels, quantity) \in Nat
  BY TakenTyped, TotalNatural DEF Filled
<1>3. Notional(levels, quantity) \in Int
  BY TakenTyped, TotalTyped DEF Notional
<1> QED
  BY <1>1, <1>2, <1>3 DEF Walk

\* What a fill starts from, before the offset: a price per so many units.
Base(c, levels, quantity) ==
    IF c.execution.use_depth_walk THEN Walk(levels, quantity)
    ELSE [notional |-> levels[1].price, per |-> 1, filled |-> quantity]

LEMMA BaseTyped ==
    ASSUME NEW c, NEW levels, NEW sign \in {1, -1}, IsLadder(levels, sign),
           NEW quantity \in Int, quantity > 0
    PROVE  LET base == Base(c, levels, quantity)
           IN /\ base.notional \in Int /\ base.per \in Int /\ base.per > 0
              /\ base.filled \in Nat
<1>1. levels[1].price \in Int
  BY DEF IsLadder
<1>2. CASE c.execution.use_depth_walk
  BY <1>2, WalkTyped DEF Base
<1>3. CASE ~c.execution.use_depth_walk
  BY <1>1, <1>3 DEF Base
<1> QED
  BY <1>2, <1>3

\* The price a quote is rounded to, before it is clamped at the touch.
Unclamped(c, levels, quantity, offset, buying) ==
    LET base == Base(c, levels, quantity)
    IN RoundToTick(base.notional * offset.d + buying * offset.n * base.per,
                   base.per * offset.d)

\* A quote is rounded and clamped at the touch; without depth walk it is complete.
IsQuote(quote, c, levels, quantity, offset, buying) ==
    LET rounded == Unclamped(c, levels, quantity, offset, buying)
        touch == levels[1].price
    IN /\ quote.price \in Int /\ touch \in Int /\ rounded \in Int
       /\ buying = 1 => quote.price >= touch /\ quote.price \in {rounded, touch}
                        /\ quote.price >= rounded
       /\ buying = -1 => quote.price <= touch /\ quote.price \in {rounded, touch}
                         /\ quote.price <= rounded
       /\ quote.filled = Base(c, levels, quantity).filled /\ quote.filled \in Nat
       /\ quote.complete = (quote.filled >= quantity)
       /\ ~c.execution.use_depth_walk =>
            quote.filled = quantity /\ (offset.n = 0 => quote.price = touch)

LEMMA QuoteFacts ==
    ASSUME NEW c, NEW levels, NEW sign \in {1, -1}, IsLadder(levels, sign),
           NEW quantity \in Int, quantity > 0,
           NEW offset, offset.n \in Int, offset.d \in Int, offset.d > 0,
           NEW buying \in {1, -1}
    PROVE  IsQuote(Quote(c, levels, quantity, offset, buying), c, levels, quantity, offset,
                   buying)
<1> DEFINE base == Base(c, levels, quantity)
           touch == levels[1].price
           n == base.notional * offset.d + buying * offset.n * base.per
           d == base.per * offset.d
           rounded == RoundToTick(n, d)
           quote == Quote(c, levels, quantity, offset, buying)
<1>1. /\ base.notional \in Int /\ base.per \in Int /\ base.per > 0 /\ base.filled \in Nat
      /\ touch \in Int
  <2>1. touch \in Int
    BY DEF IsLadder
  <2>2. /\ base.notional \in Int /\ base.per \in Int /\ base.per > 0 /\ base.filled \in Nat
    <3> HIDE DEF base
    <3>1. base = Base(c, levels, quantity)
      BY DEF base
    <3> QED
      BY <3>1, BaseTyped
  <2> QED
    BY <2>1, <2>2
<1>2. quote = [price |-> IF buying = 1 THEN Higher(rounded, touch) ELSE Lower(rounded, touch),
               filled |-> base.filled, complete |-> base.filled >= quantity]
  BY DEF Quote, Base
<1>3. rounded = Unclamped(c, levels, quantity, offset, buying)
  BY DEF Unclamped
<1>4. ~c.execution.use_depth_walk =>
        base.notional = touch /\ base.per = 1 /\ base.filled = quantity
  BY DEF Base
<1> HIDE DEF base, quote
<1>5. n \in Int /\ d \in Int /\ d > 0
  BY <1>1
<1>6. rounded \in Int /\ \A k \in Int : n = d * k => rounded = k
  <2> HIDE DEF n, d
  <2> QED
    BY <1>5, RoundedByHalf
<1>7. ~c.execution.use_depth_walk /\ offset.n = 0 => rounded = touch
  <2>1. ~c.execution.use_depth_walk /\ offset.n = 0 => n = d * touch
    BY <1>1, <1>4
  <2> HIDE DEF n, d, rounded
  <2> QED
    BY <1>1, <1>6, <2>1
<1> HIDE DEF rounded, touch
<1>8. /\ quote.price \in Int
      /\ buying = 1 => quote.price >= touch /\ quote.price \in {rounded, touch}
                       /\ quote.price >= rounded
      /\ buying = -1 => quote.price <= touch /\ quote.price \in {rounded, touch}
                        /\ quote.price <= rounded
  BY <1>1, <1>2, <1>6 DEF Higher, Lower
<1>9. /\ quote.filled = base.filled /\ quote.filled \in Nat
      /\ quote.complete = (quote.filled >= quantity)
      /\ ~c.execution.use_depth_walk =>
            quote.filled = quantity /\ (offset.n = 0 => quote.price = touch)
  BY <1>1, <1>2, <1>4, <1>7, <1>8
<1> QED
  BY <1>1, <1>3, <1>6, <1>8, <1>9 DEF IsQuote, base, quote, touch

LEMMA BookTouch ==
    ASSUME NEW b, IsBook(b)
    PROVE  /\ b.bids[1].price \in Int /\ b.bids[1].price > 0
           /\ b.asks[1].price \in Int /\ b.asks[1].price > 0
           /\ b.bids[1].price <= b.asks[1].price
<1>1. IsLadder(b.bids, -1) /\ IsLadder(b.asks, 1) /\ b.bids[1].price <= b.asks[1].price
  BY DEF IsBook
<1>2. 1 \in 1..Len(b.bids) /\ 1 \in 1..Len(b.asks)
  BY <1>1 DEF IsLadder
<1> QED
  BY <1>1, <1>2 DEF IsLadder

\* An offset is no gift, whichever way it is written.
LEMMA OffsetTyped ==
    ASSUME NEW b, IsBook(b), NEW ticks \in Int, ticks = Unset \/ ticks >= 0,
           NEW bps \in Int, bps >= 0
    PROVE  LET offset == OffsetTicks(ticks, bps, b)
           IN offset.n \in Int /\ offset.n >= 0 /\ offset.d \in Int /\ offset.d > 0
<1> DEFINE mid == b.bids[1].price + b.asks[1].price
<1>1. mid \in Int /\ mid > 0
  BY BookTouch
<1> HIDE DEF mid
<1>2. bps * mid \in Int /\ bps * mid >= 0
  BY <1>1
<1> QED
  BY <1>2 DEF OffsetTicks, mid

LEMMA ExecutionTyped ==
    ASSUME NEW c, ConfigTyped(c), EverySectionFits(c)
    PROVE  /\ c.symbol.quantity \in Int /\ c.symbol.quantity > 0
           /\ c.execution.entry_aggression_ticks \in Int
           /\ c.execution.entry_aggression_bps \in Int
           /\ c.execution.exit_slippage_ticks \in Int
           /\ c.execution.exit_slippage_bps \in Int
           /\ c.execution.entry_aggression_bps >= 0 /\ c.execution.exit_slippage_bps >= 0
           /\ \/ c.execution.entry_aggression_ticks = Unset
              \/ c.execution.entry_aggression_ticks >= 0
           /\ \/ c.execution.exit_slippage_ticks = Unset
              \/ c.execution.exit_slippage_ticks >= 0
           /\ c.execution.min_edge_multiple \in Int /\ c.execution.min_edge_multiple > 0
           /\ c.state_machine.stop_ticks \in Int /\ c.state_machine.target_ticks \in Int
<1>1. /\ c.symbol.quantity \in Int
      /\ c.state_machine.stop_ticks \in Int /\ c.state_machine.target_ticks \in Int
  BY DEF ConfigTyped, SectionTyped, Default, OfKind, Text, Boolean, DefaultSymbol,
         DefaultStateMachine
<1>2. /\ c.execution.entry_aggression_ticks \in Int
      /\ c.execution.entry_aggression_bps \in Int
      /\ c.execution.exit_slippage_ticks \in Int
      /\ c.execution.exit_slippage_bps \in Int
      /\ c.execution.min_edge_multiple \in Int
  BY DEF ConfigTyped, SectionTyped, Default, OfKind, Text, Boolean, DefaultExecution
<1> QED
  BY <1>1, <1>2 DEF EverySectionFits, SymbolFits, ExecutionFits, Positive, NonNegative

EntryOffset(c, b) ==
    OffsetTicks(c.execution.entry_aggression_ticks, c.execution.entry_aggression_bps, b)

ExitOffset(c, b) ==
    OffsetTicks(c.execution.exit_slippage_ticks, c.execution.exit_slippage_bps, b)

EntrySide(b, direction) == IF direction = 1 THEN b.asks ELSE b.bids
ExitSide(b, direction) == IF direction = 1 THEN b.bids ELSE b.asks

LEMMA SidesAreLadders ==
    ASSUME NEW b, IsBook(b), NEW direction \in {1, -1}
    PROVE  /\ \E sign \in {1, -1} : IsLadder(EntrySide(b, direction), sign)
           /\ \E sign \in {1, -1} : IsLadder(ExitSide(b, direction), sign)
  BY DEF EntrySide, ExitSide, IsBook

\* What is opened: at the touch or behind it, with the levels where they are set.
LEMMA OpenedFacts ==
    ASSUME NEW c, ConfigTyped(c), EverySectionFits(c), NEW o, IsBook(o),
           NEW direction \in {1, -1}, NEW position_,
           position_ = OpenPosition(c, o, direction, c.symbol.quantity)
    PROVE  /\ position_.direction = direction /\ position_.entry \in Int
           /\ position_.quantity \in Int /\ position_.quantity > 0
           /\ direction = 1 => position_.entry >= o.asks[1].price
           /\ direction = -1 => position_.entry <= o.bids[1].price
           /\ position_.stop = LevelAt(position_.entry, -direction * c.state_machine.stop_ticks)
           /\ position_.target = LevelAt(position_.entry, direction * c.state_machine.target_ticks)
           /\ ~c.execution.use_depth_walk => position_.quantity = c.symbol.quantity
<1> DEFINE Q == c.symbol.quantity
           offset == EntryOffset(c, o)
           levels == EntrySide(o, direction)
           quote == Quote(c, levels, Q, offset, direction)
<1>1. /\ offset.n \in Int /\ offset.d \in Int /\ offset.d > 0
      /\ Q \in Int /\ Q > 0
  BY ExecutionTyped, OffsetTyped DEF EntryOffset
<1>2. PICK sign \in {1, -1} : IsLadder(levels, sign)
  BY SidesAreLadders
<1>3. position_ = [direction |-> direction,
                   quantity |-> IF quote.filled > 0 THEN quote.filled ELSE Q,
                   entry |-> quote.price,
                   stop |-> LevelAt(quote.price, -direction * c.state_machine.stop_ticks),
                   target |-> LevelAt(quote.price, direction * c.state_machine.target_ticks),
                   complete |-> quote.complete]
  BY DEF OpenPosition, EntryQuote, EntryOffset, EntrySide
<1>4. levels[1].price = IF direction = 1 THEN o.asks[1].price ELSE o.bids[1].price
  BY DEF EntrySide
<1> HIDE DEF Q, offset, levels
<1>5. /\ quote.price \in Int /\ quote.filled \in Nat
      /\ direction = 1 => quote.price >= levels[1].price
      /\ direction = -1 => quote.price <= levels[1].price
      /\ ~c.execution.use_depth_walk => quote.filled = Q
  <2>1. IsQuote(quote, c, levels, Q, offset, direction)
    BY <1>1, <1>2, QuoteFacts
  <2> HIDE DEF quote
  <2> QED
    BY <2>1 DEF IsQuote
<1> HIDE DEF quote
<1> QED
  BY <1>1, <1>3, <1>4, <1>5 DEF Q

\* What a mark is: at the touch or behind it.
LEMMA MarkedFacts ==
    ASSUME NEW c, ConfigTyped(c), EverySectionFits(c), NEW b, IsBook(b),
           NEW p, p.direction \in {1, -1}, p.quantity \in Int, p.quantity > 0,
           p.entry \in Int
    PROVE  LET m == MarkToMarket(c, p, b)
           IN /\ m.price \in Int /\ ExitTouch(p, b) \in Int
              /\ m.gross = (m.price - p.entry) * p.direction * p.quantity
              /\ p.direction = 1 => m.price <= ExitTouch(p, b)
              /\ p.direction = -1 => m.price >= ExitTouch(p, b)
              /\ ~c.execution.use_depth_walk /\ c.execution.exit_slippage_ticks = 0
                    => m.price = ExitTouch(p, b)
              /\ m.net = m.gross * RupeeUnit
                            - (IF p.direction = 1
                                 THEN Rupees(c.cost, p.entry, m.price, p.quantity)
                                 ELSE Rupees(c.cost, m.price, p.entry, p.quantity))
<1> DEFINE offset == ExitOffset(c, b)
           levels == ExitSide(b, p.direction)
           buying == -p.direction
           quote == Quote(c, levels, p.quantity, offset, buying)
           m == MarkToMarket(c, p, b)
<1>1. offset.n \in Int /\ offset.d \in Int /\ offset.d > 0
  BY ExecutionTyped, OffsetTyped DEF ExitOffset
<1>2. c.execution.exit_slippage_ticks = 0 => offset.n = 0
  BY DEF ExitOffset, OffsetTicks, Unset
<1>3. PICK sign \in {1, -1} : IsLadder(levels, sign)
  BY SidesAreLadders
<1>4. levels[1].price = ExitTouch(p, b)
  BY DEF ExitSide, ExitTouch
<1>5. quote = ExitQuote(c, b, p.direction, p.quantity)
  BY DEF ExitQuote, ExitOffset, ExitSide
<1>6. /\ m.price = quote.price
      /\ m.gross = (quote.price - p.entry) * p.direction * p.quantity
      /\ m.net = m.gross * RupeeUnit
                    - (IF p.direction = 1
                         THEN Rupees(c.cost, p.entry, quote.price, p.quantity)
                         ELSE Rupees(c.cost, quote.price, p.entry, p.quantity))
  <2> HIDE DEF quote
  <2> QED
    BY <1>5 DEF MarkToMarket
<1>7. buying \in {1, -1} /\ (p.direction = 1 => buying = -1) /\ (p.direction = -1 => buying = 1)
  OBVIOUS
<1> HIDE DEF offset, levels, buying, m
<1>8. IsQuote(quote, c, levels, p.quantity, offset, buying)
  BY <1>1, <1>3, <1>7, QuoteFacts
<1> HIDE DEF quote
<1>9. /\ quote.price \in Int /\ levels[1].price \in Int
      /\ buying = 1 => quote.price >= levels[1].price
      /\ buying = -1 => quote.price <= levels[1].price
      /\ ~c.execution.use_depth_walk /\ offset.n = 0 => quote.price = levels[1].price
  BY <1>8 DEF IsQuote
<1> QED
  BY <1>2, <1>4, <1>6, <1>7, <1>9 DEF m

\* Where a position stands, whatever became of the process.
LEMMA OpenPositions ==
    ASSUME SignalInv, position # None
    PROVE  /\ ConfigTyped(config) /\ EverySectionFits(config) /\ IsBook(opened)
           /\ position.direction \in {1, -1}
           /\ position = OpenPosition(config, opened, position.direction,
                                      config.symbol.quantity)
           /\ ClearsCost(config, opened, config.symbol.quantity)
           /\ mark # None => IsBook(book) /\ mark = MarkToMarket(config, position, book)
<1>1. running \in {"up", "crashed"}
  BY DEF SignalInv, ConfigInv, IdleInv
<1>2. ConfigTyped(config) /\ EverySectionFits(config)
  BY <1>1 DEF SignalInv, ConfigInv
<1>3. PICK direction \in {1, -1} :
            position = OpenPosition(config, opened, direction, config.symbol.quantity)
  BY DEF SignalInv, PositionInv
<1>4. IsBook(opened)
  BY DEF SignalInv, PositionInv
<1>5. position.direction = direction
  BY <1>2, <1>3, <1>4, OpenedFacts
<1> QED
  BY <1>2, <1>3, <1>4, <1>5 DEF SignalInv, PositionInv, BookInv

(* Rounding twice costs the stop and the target half a tick each: whatever *)
(* the fill, the configured distances keep their sign and their size.      *)
THEOREM LevelsBracketEntryHolds == Spec => []LevelsBracketEntry
<1>1. ASSUME SignalInv, position # None
      PROVE  LevelsBracketEntry
  <2> DEFINE d == position.direction
             stop == config.state_machine.stop_ticks
             target == config.state_machine.target_ticks
             entry == position.entry
  <2>1. /\ ConfigTyped(config) /\ EverySectionFits(config) /\ IsBook(opened) /\ d \in {1, -1}
        /\ position = OpenPosition(config, opened, d, config.symbol.quantity)
        /\ mark # None => IsBook(book)
    BY <1>1, OpenPositions
  <2>2. stop \in Int /\ target \in Int
    BY <2>1, ExecutionTyped
  <2>3. /\ entry \in Int
        /\ d = 1 => entry >= opened.asks[1].price
        /\ d = -1 => entry <= opened.bids[1].price
        /\ position.stop = LevelAt(entry, -d * stop)
        /\ position.target = LevelAt(entry, d * target)
    BY <2>1, OpenedFacts
  <2> HIDE DEF entry, stop, target, d
  <2>4. /\ position.stop \in Int /\ position.target \in Int
        /\ 100 * entry - d * stop - 50 <= 100 * position.stop
        /\ 100 * position.stop <= 100 * entry - d * stop + 50
        /\ 100 * entry + d * target - 50 <= 100 * position.target
        /\ 100 * position.target <= 100 * entry + d * target + 50
    <3>1. -d * stop \in Int /\ d * target \in Int /\ -d * stop = -(d * stop)
      BY <2>1, <2>2
    <3> DEFINE back == -d * stop
               forth == d * target
    <3>2. back \in Int /\ forth \in Int /\ 100 * entry - d * stop = 100 * entry + back
      BY <2>3, <3>1
    <3>3. position.stop = LevelAt(entry, back) /\ position.target = LevelAt(entry, forth)
      BY <2>3
    <3>4. 100 * entry + d * target = 100 * entry + forth
      OBVIOUS
    <3> HIDE DEF back, forth
    <3>5. /\ LevelAt(entry, back) \in Int /\ LevelAt(entry, forth) \in Int
          /\ 100 * entry + back - 50 <= 100 * LevelAt(entry, back)
          /\ 100 * LevelAt(entry, back) <= 100 * entry + back + 50
          /\ 100 * entry + forth - 50 <= 100 * LevelAt(entry, forth)
          /\ 100 * LevelAt(entry, forth) <= 100 * entry + forth + 50
      BY <2>3, <3>2, LevelsByHalf
    <3> QED
      BY <2>3, <3>1, <3>2, <3>3, <3>4, <3>5
  <2>5. /\ opened.bids[1].price \in Int /\ opened.asks[1].price \in Int
        /\ opened.bids[1].price <= opened.asks[1].price
    BY <2>1, BookTouch
  <2>6. mark # None => ExitTouch(position, book) \in Int
    BY <2>1, BookTouch DEF ExitTouch
  <2>7. ExitTouch(position, opened) = IF d = 1 THEN opened.bids[1].price
                                               ELSE opened.asks[1].price
    BY DEF ExitTouch, d
  <2>8. /\ TargetHit(position, opened)
                <=> d * (ExitTouch(position, opened) - position.target) >= 0
        /\ StopHit(position, book) <=> d * (ExitTouch(position, book) - position.stop) <= 0
        /\ UnrealisedTicks(position, book) = d * (ExitTouch(position, book) - entry)
    BY DEF TargetHit, StopHit, UnrealisedTicks, d, entry
  <2> DEFINE loss == 100 * d * (entry - position.stop)
             gain == 100 * d * (position.target - entry)
  <2>9. /\ stop - 50 <= loss /\ loss <= stop + 50
        /\ target - 50 <= gain /\ gain <= target + 50
        /\ stop > 50 => loss > 0
        /\ target > 50 => gain > 0 /\ ~TargetHit(position, opened)
    <3>1. CASE d = 1
      BY <2>2, <2>3, <2>4, <2>5, <2>7, <2>8, <3>1
    <3>2. CASE d = -1
      BY <2>2, <2>3, <2>4, <2>5, <2>7, <2>8, <3>2
    <3> QED
      BY <2>1, <3>1, <3>2
  <2>10. mark # None /\ StopHit(position, book) =>
            100 * UnrealisedTicks(position, book) <= 50 - stop
    <3>1. CASE d = 1
      BY <2>2, <2>3, <2>4, <2>6, <2>8, <3>1
    <3>2. CASE d = -1
      BY <2>2, <2>3, <2>4, <2>6, <2>8, <3>2
    <3> QED
      BY <2>1, <3>1, <3>2
  <2> QED
    BY <2>9, <2>10 DEF LevelsBracketEntry, d, entry, stop, target
<1>2. SignalInv => LevelsBracketEntry
  BY <1>1 DEF LevelsBracketEntry
<1> QED
  BY <1>2, SignalInvHolds, PTL

----------------------------------------------------------------------------
(* Costs.                                                                  *)

\* The least of the fees that are switched on is one of them.
LEMMA BrokerageIsLeast ==
    ASSUME NEW cost, cost.brokerage_rate \in Int, cost.brokerage_flat_per_order \in Int,
           cost.brokerage_cap_per_order \in Int, NEW turnover \in Int
    PROVE  /\ Brokerage(cost, turnover) \in Int
           /\ \/ Brokerage(cost, turnover) = cost.brokerage_rate * turnover
              \/ /\ cost.brokerage_flat_per_order # 0
                 /\ Brokerage(cost, turnover) = 1000 * cost.brokerage_flat_per_order
              \/ /\ cost.brokerage_cap_per_order # 0
                 /\ Brokerage(cost, turnover) = 1000 * cost.brokerage_cap_per_order
<1> DEFINE rate == cost.brokerage_rate * turnover
           fees == {1000 * fee : fee \in {cost.brokerage_flat_per_order,
                                          cost.brokerage_cap_per_order} \ {0}}
           S == {rate} \cup fees
<1>1. rate \in Int
  OBVIOUS
<1>2. \A x \in fees : \/ /\ cost.brokerage_flat_per_order # 0
                         /\ x = 1000 * cost.brokerage_flat_per_order
                      \/ /\ cost.brokerage_cap_per_order # 0
                         /\ x = 1000 * cost.brokerage_cap_per_order
  OBVIOUS
<1>3. \A x \in fees : x \in Int
  BY <1>2
<1> DEFINE flat == 1000 * cost.brokerage_flat_per_order
           cap == 1000 * cost.brokerage_cap_per_order
<1>4. flat \in Int /\ cap \in Int /\ \A x \in S : x = rate \/ x = flat \/ x = cap
  BY <1>2
<1> HIDE DEF rate, fees, flat, cap
<1>5. S # {} /\ \A x \in S : x \in Int
  BY <1>1, <1>3
<1>6. \E x \in S : \A y \in S : x <= y
  <2> HIDE DEF S
  <2>1. rate \in S
    BY DEF S
  <2>2. CASE flat \in S /\ cap \in S
    BY <1>1, <1>4, <2>1, <2>2
  <2>3. CASE flat \in S /\ cap \notin S
    BY <1>1, <1>4, <2>1, <2>3
  <2>4. CASE flat \notin S /\ cap \in S
    BY <1>1, <1>4, <2>1, <2>4
  <2>5. CASE flat \notin S /\ cap \notin S
    BY <1>1, <1>4, <2>1, <2>5
  <2> QED
    BY <2>2, <2>3, <2>4, <2>5
<1>7. Min(S) \in S
  <2> HIDE DEF S
  <2> QED
    BY <1>6 DEF Min
<1>8. Brokerage(cost, turnover) = Min(S)
  BY DEF Brokerage, S, fees, rate
<1>9. Min(S) = rate \/ Min(S) \in fees
  BY <1>7
<1> QED
  BY <1>2, <1>3, <1>1, <1>8, <1>9 DEF rate

LEMMA CostTyped ==
    ASSUME NEW c, ConfigTyped(c), EverySectionFits(c)
    PROVE  \A key \in DOMAIN DefaultCost \ {"enabled"} : c.cost[key] \in Int /\ c.cost[key] >= 0
<1>1. \A key \in DOMAIN DefaultCost \ {"enabled"} : c.cost[key] \in Int
  BY DEF ConfigTyped, SectionTyped, Default, OfKind, Text, Boolean, DefaultCost
<1>2. DOMAIN c.cost = DOMAIN DefaultCost
  BY DEF ConfigTyped, Complete, Default
<1>3. CostFits(c.cost)
  BY DEF EverySectionFits
<1> QED
  BY <1>1, <1>2, <1>3 DEF CostFits, NonNegative

\* Charges are numbers, and nobody is paid for trading at prices above nought.
LEMMA RupeesTyped ==
    ASSUME NEW c, ConfigTyped(c), EverySectionFits(c), NEW buy \in Int, NEW sell \in Int,
           NEW quantity \in Int
    PROVE  /\ Rupees(c.cost, buy, sell, quantity) \in Int
           /\ buy >= 0 /\ sell >= 0 => Rupees(c.cost, buy, sell, quantity) >= 0
<1> DEFINE cost == c.cost
           paid == Brokerage(cost, buy * quantity) + Brokerage(cost, sell * quantity)
           turnover == (buy + sell) * quantity
           charges == (cost.exchange_txn_rate + cost.sebi_rate) * turnover
           statutory == (cost.stt_sell_rate * sell + cost.stamp_duty_buy_rate * buy) * quantity
<1>1. /\ cost.brokerage_rate \in Int /\ cost.brokerage_flat_per_order \in Int
      /\ cost.brokerage_cap_per_order \in Int /\ cost.exchange_txn_rate \in Int
      /\ cost.sebi_rate \in Int /\ cost.stt_sell_rate \in Int
      /\ cost.stamp_duty_buy_rate \in Int /\ cost.gst_rate \in Int
      /\ cost.brokerage_rate >= 0 /\ cost.brokerage_flat_per_order >= 0
      /\ cost.brokerage_cap_per_order >= 0 /\ cost.exchange_txn_rate >= 0
      /\ cost.sebi_rate >= 0 /\ cost.stt_sell_rate >= 0
      /\ cost.stamp_duty_buy_rate >= 0 /\ cost.gst_rate >= 0
  BY CostTyped DEF DefaultCost
<1> HIDE DEF cost
<1>2. buy * quantity \in Int /\ sell * quantity \in Int
  OBVIOUS
<1>3. /\ Brokerage(cost, buy * quantity) \in Int /\ Brokerage(cost, sell * quantity) \in Int
      /\ buy * quantity >= 0 => Brokerage(cost, buy * quantity) >= 0
      /\ sell * quantity >= 0 => Brokerage(cost, sell * quantity) >= 0
  <2>1. ASSUME NEW t \in Int
        PROVE  Brokerage(cost, t) \in Int /\ (t >= 0 => Brokerage(cost, t) >= 0)
    <3>1. t >= 0 => cost.brokerage_rate * t >= 0
      BY <1>1
    <3> QED
      BY <1>1, <3>1, BrokerageIsLeast
  <2> QED
    BY <1>2, <2>1
<1>4. turnover \in Int /\ (buy >= 0 /\ sell >= 0 /\ quantity > 0 => turnover >= 0)
  OBVIOUS
<1>5. charges \in Int /\ (turnover >= 0 => charges >= 0)
  <2> HIDE DEF turnover
  <2>1. cost.exchange_txn_rate + cost.sebi_rate \in Nat
    BY <1>1
  <2> QED
    BY <1>4, <2>1
<1>6. statutory \in Int /\ (buy >= 0 /\ sell >= 0 /\ quantity > 0 => statutory >= 0)
  <2> DEFINE taxed == cost.stt_sell_rate * sell + cost.stamp_duty_buy_rate * buy
  <2>1. /\ cost.stt_sell_rate * sell \in Int /\ cost.stamp_duty_buy_rate * buy \in Int
        /\ sell >= 0 => cost.stt_sell_rate * sell >= 0
        /\ buy >= 0 => cost.stamp_duty_buy_rate * buy >= 0
    BY <1>1
  <2>2. taxed \in Int /\ (buy >= 0 /\ sell >= 0 => taxed >= 0)
    BY <2>1
  <2> HIDE DEF taxed
  <2>3. taxed * quantity \in Int /\ (taxed >= 0 /\ quantity > 0 => taxed * quantity >= 0)
    BY <2>2
  <2> QED
    BY <2>2, <2>3 DEF taxed
<1>7. paid \in Int
      /\ (buy * quantity >= 0 /\ sell * quantity >= 0 => paid >= 0)
      /\ (buy >= 0 /\ quantity > 0 => buy * quantity >= 0)
      /\ (sell >= 0 /\ quantity > 0 => sell * quantity >= 0)
  BY <1>2, <1>3
<1> HIDE DEF paid, charges, statutory
<1>8. cost.gst_rate * (paid + charges) \in Int
      /\ (paid >= 0 /\ charges >= 0 => cost.gst_rate * (paid + charges) >= 0)
  <2>1. paid + charges \in Int
    BY <1>5, <1>7
  <2> QED
    BY <1>1, <1>5, <1>7, <2>1
<1>9. Rupees(cost, buy, sell, quantity)
        = IF ~cost.enabled \/ quantity <= 0 THEN 0
          ELSE 100 * (paid + charges + statutory) + cost.gst_rate * (paid + charges)
  BY DEF Rupees, paid, charges, statutory
<1> HIDE DEF turnover
<1> QED
  BY <1>4, <1>5, <1>6, <1>7, <1>8, <1>9 DEF cost

(* The gate weighs the configured target against the costs of the book; a  *)
(* mark at the target is that far from the entry, give or take the half    *)
(* tick of its rounding.                                                   *)
THEOREM GateCoversCostsHolds == Spec => []GateCoversCosts
<1>1. ASSUME SignalInv, position # None, mark # None,
             config.execution.enforce_cost_gate, config.cost.enabled,
             ~config.execution.use_depth_walk, config.execution.exit_slippage_ticks = 0,
             TargetHit(position, book)
      PROVE  LET ask == opened.asks[1].price
                 bid == opened.bids[1].price
                 q == position.quantity
             IN (100 * mark.gross + 50 * q) * RupeeUnit
                  >= (Rupees(config.cost, ask, bid, q) + (ask - bid) * q * RupeeUnit)
                         * config.execution.min_edge_multiple
  <2> DEFINE d == position.direction
             q == position.quantity
             entry == position.entry
             target == config.state_machine.target_ticks
             ask == opened.asks[1].price
             bid == opened.bids[1].price
             touch == ExitTouch(position, book)
             multiple == config.execution.min_edge_multiple
             owed == Rupees(config.cost, ask, bid, q) + (ask - bid) * q * RupeeUnit
  <2>1. /\ ConfigTyped(config) /\ EverySectionFits(config) /\ IsBook(opened) /\ d \in {1, -1}
        /\ position = OpenPosition(config, opened, d, config.symbol.quantity)
        /\ ClearsCost(config, opened, config.symbol.quantity)
        /\ IsBook(book) /\ mark = MarkToMarket(config, position, book)
    BY <1>1, OpenPositions
  <2>2. /\ entry \in Int /\ q \in Int /\ q > 0 /\ q = config.symbol.quantity
        /\ position.target = LevelAt(entry, d * target)
    BY <1>1, <2>1, OpenedFacts
  <2>3. target \in Int /\ multiple \in Int
    BY <2>1, ExecutionTyped
  <2>4. /\ mark.price = touch /\ touch \in Int
        /\ mark.gross = (mark.price - entry) * d * q
    BY <1>1, <2>1, <2>2, MarkedFacts
  <2>5. ask \in Int /\ bid \in Int
    BY <2>1, BookTouch
  <2>6. owed \in Int
    <3>1. Rupees(config.cost, ask, bid, q) \in Int
      BY <2>1, <2>2, <2>5, RupeesTyped
    <3>2. (ask - bid) * q * RupeeUnit \in Int
      BY <2>2, <2>5 DEF RupeeUnit
    <3> QED
      BY <3>1, <3>2
  <2>7. target * q * RupeeUnit >= owed * multiple
    BY <1>1, <2>1, <2>2 DEF ClearsCost
  <2>8. d * (touch - position.target) >= 0
    BY <1>1 DEF TargetHit
  <2> HIDE DEF d, q, entry, target, ask, bid, touch, multiple, owed
  <2>9. /\ position.target \in Int
        /\ 100 * entry + d * target - 50 <= 100 * position.target
        /\ 100 * position.target <= 100 * entry + d * target + 50
    <3> DEFINE forth == d * target
    <3>1. forth \in Int /\ position.target = LevelAt(entry, forth)
      BY <2>1, <2>2, <2>3
    <3>2. /\ LevelAt(entry, forth) \in Int
          /\ 100 * entry + forth - 50 <= 100 * LevelAt(entry, forth)
          /\ 100 * LevelAt(entry, forth) <= 100 * entry + forth + 50
      <4> HIDE DEF forth
      <4> QED
        BY <2>2, <3>1, LevelsByHalf
    <3> QED
      BY <3>1, <3>2
  <2>10. 100 * ((touch - entry) * d) >= target - 50
    <3>1. CASE d = 1
      BY <2>2, <2>3, <2>4, <2>8, <2>9, <3>1
    <3>2. CASE d = -1
      BY <2>2, <2>3, <2>4, <2>8, <2>9, <3>2
    <3> QED
      BY <2>1, <3>1, <3>2
  <2>11. 100 * mark.gross + 50 * q >= target * q /\ mark.gross \in Int
    <3> DEFINE won == (touch - entry) * d
    <3>1. won \in Int /\ mark.gross = won * q
      BY <2>1, <2>2, <2>4
    <3> HIDE DEF won
    <3>2. q * (target - 50) <= q * (100 * won)
      BY <2>2, <2>3, <2>10, <3>1, TimesPositive DEF won
    <3>3. /\ q * (target - 50) = target * q - 50 * q /\ q * (100 * won) = 100 * (won * q)
          /\ won * q \in Int /\ target * q \in Int
      BY <2>2, <2>3, <3>1
    <3> QED
      BY <2>2, <3>1, <3>2, <3>3
  <2>12. (100 * mark.gross + 50 * q) * RupeeUnit >= owed * multiple
    <3>1. target * q \in Int /\ owed * multiple \in Int /\ 100 * mark.gross + 50 * q \in Int
      BY <2>2, <2>3, <2>6, <2>11
    <3> QED
      BY <2>7, <2>11, <3>1 DEF RupeeUnit
  <2> QED
    BY <2>12 DEF d, q, entry, target, ask, bid, touch, multiple, owed
<1>2. SignalInv => GateCoversCosts
  BY <1>1 DEF GateCoversCosts
<1> QED
  BY <1>2, SignalInvHolds, PTL

\* The depth of the first 0, 1, ... levels of a side.
Depths(levels) == Partial([j \in DOMAIN levels |-> levels[j].quantity])

\* How much of an order the first i levels fill.
FilledBy(levels, quantity, i) == Lower(quantity, Depths(levels)[i])

LEMMA DepthsGrow ==
    ASSUME NEW levels, NEW sign \in {1, -1}, IsLadder(levels, sign)
    PROVE  LET P == Depths(levels)
               n == Len(levels)
           IN /\ P[0] = 0 /\ \A k \in 0..n : P[k] \in Nat
              /\ \A k \in 1..n : P[k] = P[k - 1] + levels[k].quantity
              /\ \A m \in 0..n : \A k \in 0..m : P[k] <= P[m]
              /\ \A k \in 1..n : DepthBefore(levels, k + 1) = P[k]
                                 /\ DepthBefore(levels, k) = P[k - 1]
<1> DEFINE w == [j \in DOMAIN levels |-> levels[j].quantity]
           n == Len(levels)
           P == Partial(w)
<1>1. /\ n \in Nat /\ w \in Seq(Int) /\ w \in Seq(Nat) /\ Len(w) = n
      /\ \A k \in 1..n : w[k] = levels[k].quantity
  <2>1. DOMAIN levels = 1..n /\ n \in Nat /\ \A k \in 1..n : levels[k].quantity \in Nat
    BY DEF IsLadder
  <2> HIDE DEF n
  <2> QED
    BY <2>1
<1>2. Depths(levels) = P
  BY DEF Depths
<1>3. \A k \in Int : k + 1 - 1 = k /\ DepthBefore(levels, k + 1) = P[k]
                     /\ DepthBefore(levels, k) = P[k - 1]
  <2>1. \A k \in Int : DepthBefore(levels, k) = P[k - 1]
    BY DEF DepthBefore
  <2> HIDE DEF P
  <2>2. \A k \in Int : k + 1 \in Int /\ k + 1 - 1 = k
    OBVIOUS
  <2> QED
    BY <2>1, <2>2
<1> HIDE DEF w, n
<1>4. /\ P[0] = 0 /\ \A k \in 0..n : P[k] \in Nat
      /\ \A k \in 0..n : k < n => P[k + 1] = P[k] + w[k + 1]
  BY <1>1, PartialSums, PartialGrows
<1>5. \A m \in 0..n : \A k \in 0..m : P[k] <= P[m]
  BY <1>1, PartialMonotone
<1> HIDE DEF P
<1>6. ASSUME NEW k \in 1..n
      PROVE  P[k] = P[k - 1] + levels[k].quantity
  <2>1. k - 1 \in 0..n /\ k - 1 < n /\ (k - 1) + 1 = k
    BY <1>1
  <2> QED
    BY <1>1, <1>4, <2>1
<1> QED
  BY <1>1, <1>2, <1>3, <1>4, <1>5, <1>6 DEF n

\* An order takes from a level what the levels before it left.
LEMMA TakenIs ==
    ASSUME NEW levels, NEW sign \in {1, -1}, IsLadder(levels, sign),
           NEW quantity \in Nat, NEW i \in 1..Len(levels)
    PROVE  /\ FilledBy(levels, quantity, i - 1) \in Nat
           /\ FilledBy(levels, quantity, i) \in Nat
           /\ Taken(levels, quantity, i) \in Nat
           /\ FilledBy(levels, quantity, i)
                = FilledBy(levels, quantity, i - 1) + Taken(levels, quantity, i)
<1> DEFINE P == Depths(levels)
<1>1. /\ DOMAIN levels = 1..Len(levels) /\ Len(levels) \in Nat
      /\ \A j \in 1..Len(levels) : levels[j].quantity \in Nat /\ levels[j].quantity > 0
  BY DEF IsLadder
<1>2. i \in Reachable(levels)
  <2>1. \A j \in 1..i : j \in 1..Len(levels)
    BY <1>1
  <2> QED
    BY <1>1, <2>1 DEF Reachable
<1>3. /\ P[i - 1] \in Nat /\ P[i] = P[i - 1] + levels[i].quantity
      /\ DepthBefore(levels, i) = P[i - 1]
  <2>1. i - 1 \in 0..Len(levels)
    BY <1>1
  <2> HIDE DEF P
  <2> QED
    BY <2>1, DepthsGrow DEF P
<1> HIDE DEF P
<1>4. Taken(levels, quantity, i) = Lower(levels[i].quantity, Higher(0, quantity - P[i - 1]))
  BY <1>2, <1>3 DEF Taken
<1>5. /\ FilledBy(levels, quantity, i) = Lower(quantity, P[i])
      /\ FilledBy(levels, quantity, i - 1) = Lower(quantity, P[i - 1])
  BY DEF FilledBy, P
<1> QED
  BY <1>1, <1>3, <1>4, <1>5 DEF Lower, Higher

\* The u-th unit of a side is on the first level up to which there are u.
LEMMA UnitsLevel ==
    ASSUME NEW levels, NEW sign \in {1, -1}, IsLadder(levels, sign),
           NEW i \in 1..Len(levels), NEW u \in Nat,
           Depths(levels)[i - 1] < u, u <= Depths(levels)[i]
    PROVE  Min({j \in DOMAIN levels : DepthBefore(levels, j + 1) >= u}) = i
<1> DEFINE P == Depths(levels)
           S == {j \in DOMAIN levels : DepthBefore(levels, j + 1) >= u}
<1>1. DOMAIN levels = 1..Len(levels) /\ Len(levels) \in Nat
  BY DEF IsLadder
<1>2. /\ \A j \in 1..Len(levels) : DepthBefore(levels, j + 1) = P[j]
      /\ \A k \in 0..Len(levels) : P[k] \in Nat
      /\ \A m \in 0..Len(levels) : \A k \in 0..m : P[k] <= P[m]
  <2> HIDE DEF P
  <2> QED
    BY DepthsGrow DEF P
<1> HIDE DEF P
<1>3. i \in S
  BY <1>1, <1>2 DEF P
<1>4. ASSUME NEW j \in S
      PROVE  i <= j
  <2>1. j \in 1..Len(levels) /\ P[j] >= u
    BY <1>1, <1>2
  <2>2. j < i => P[j] <= P[i - 1] /\ P[j] \in Nat /\ P[i - 1] \in Nat
    <3>1. i - 1 \in 0..Len(levels) /\ j \in 0..Len(levels) /\ (j < i => j \in 0..(i - 1))
      BY <1>1, <2>1
    <3> QED
      BY <1>2, <3>1
  <2> QED
    BY <1>1, <2>1, <2>2 DEF P
<1>5. S \subseteq Int
  BY <1>1
<1> HIDE DEF S
<1>6. /\ Min(S) \in S /\ \A y \in S : Min(S) <= y
  BY <1>3, <1>4 DEF Min
<1>7. Min(S) <= i /\ i <= Min(S) /\ Min(S) \in Int
  BY <1>3, <1>4, <1>5, <1>6
<1> QED
  BY <1>7 DEF S

\* The units of an order, one at a time.
Units(levels, quantity) ==
    [u \in 1..quantity |->
        levels[Min({i \in DOMAIN levels : DepthBefore(levels, i + 1) >= u})].price]

(* Level by level or unit by unit, an order pays the same, and never for   *)
(* more than it asked.                                                     *)
LEMMA WalkedUnits ==
    ASSUME NEW levels, NEW sign \in {1, -1}, IsLadder(levels, sign), NEW quantity \in Nat
    PROVE  /\ Filled(levels, quantity) \in Nat /\ Filled(levels, quantity) <= quantity
           /\ quantity > 0 => Filled(levels, quantity) > 0
           /\ UnitPrices(levels, Filled(levels, quantity)) = Notional(levels, quantity)
<1> DEFINE n == Len(levels)
           P == Depths(levels)
           T(i) == FilledBy(levels, quantity, i)
           taken == [i \in DOMAIN levels |-> Taken(levels, quantity, i)]
           paid == [i \in DOMAIN levels |-> Taken(levels, quantity, i) * levels[i].price]
           q == T(n)
           unit == Units(levels, q)
           S == {i \in 0..n : Partial(taken)[i] = T(i) /\ Partial(unit)[T(i)] = Partial(paid)[i]}
<1>1. /\ n \in Nat \ {0} /\ DOMAIN levels = 1..n
      /\ \A i \in 1..n : levels[i].quantity \in Nat /\ levels[i].quantity > 0
                         /\ levels[i].price \in Int
  BY DEF IsLadder
<1>2. /\ P[0] = 0 /\ \A k \in 0..n : P[k] \in Nat
      /\ \A k \in 1..n : P[k] = P[k - 1] + levels[k].quantity
      /\ \A m \in 0..n : \A k \in 0..m : P[k] <= P[m]
  <2> HIDE DEF P
  <2> QED
    BY DepthsGrow DEF P
<1>3. \A i \in 0..n : T(i) = Lower(quantity, P[i])
  BY DEF FilledBy
<1> HIDE DEF P, T
<1>4. ASSUME NEW i \in 1..n
      PROVE  T(i) = T(i - 1) + Taken(levels, quantity, i)
             /\ T(i) \in Nat /\ T(i - 1) \in Nat /\ Taken(levels, quantity, i) \in Nat
  BY TakenIs DEF T
<1> HIDE DEF n
<1>5. \A i \in 0..n : T(i) \in Nat /\ T(i) <= q /\ T(i) <= quantity
  <2>1. ASSUME NEW i \in 0..n
        PROVE  T(i) \in Nat /\ T(i) <= T(n) /\ T(i) <= quantity
    <3>1. P[i] \in Nat /\ P[n] \in Nat /\ P[i] <= P[n]
      BY <1>1, <1>2
    <3> QED
      BY <1>1, <1>3, <3>1 DEF Lower
  <2> QED
    BY <2>1
<1>6. T(0) = 0
  BY <1>1, <1>2, <1>3 DEF Lower
<1>7. ASSUME NEW i \in 1..n, NEW u \in (T(i - 1) + 1)..T(i)
      PROVE  u \in 1..q /\ unit[u] = levels[i].price
  <2>1. i - 1 \in 0..n /\ T(i - 1) \in Nat /\ T(i) \in Nat /\ T(i) <= q /\ q \in Nat
    BY <1>1, <1>5
  <2>2. u \in Nat /\ u \in 1..q /\ T(i - 1) < u /\ u <= T(i)
    <3> HIDE DEF q
    <3> QED
      BY <2>1
  <2>3. P[i - 1] < u /\ u <= P[i]
    <3>1. /\ P[i - 1] \in Nat /\ P[i] \in Nat
          /\ T(i - 1) = Lower(quantity, P[i - 1]) /\ T(i) = Lower(quantity, P[i])
      BY <1>1, <1>2, <1>3, <2>1
    <3> HIDE DEF q
    <3> QED
      BY <2>2, <3>1 DEF Lower
  <2>4. Min({j \in DOMAIN levels : DepthBefore(levels, j + 1) >= u}) = i
    BY <2>2, <2>3, UnitsLevel DEF P, n
  <2>5. unit[u] = levels[Min({j \in DOMAIN levels : DepthBefore(levels, j + 1) >= u})].price
    <3> HIDE DEF q
    <3> QED
      BY <2>2 DEF Units
  <2> QED
    BY <2>2, <2>4, <2>5
<1>8. taken \in Seq(Int) /\ paid \in Seq(Int) /\ Len(taken) = n /\ Len(paid) = n
      /\ \A i \in 1..n : taken[i] = Taken(levels, quantity, i)
                         /\ paid[i] = Taken(levels, quantity, i) * levels[i].price
  <2>1. \A i \in 1..n : Taken(levels, quantity, i) \in Int
                        /\ Taken(levels, quantity, i) * levels[i].price \in Int
    BY <1>1, <1>4
  <2> QED
    BY <1>1, <2>1
<1>9. unit \in Seq(Int) /\ Len(unit) = q
  <2>1. q \in Nat
    BY <1>1, <1>5
  <2>2. ASSUME NEW u \in 1..q
        PROVE  unit[u] \in Int
    <3> DEFINE C == {i \in 0..n : T(i) < u}
    <3>1. ~(\A i \in 0..n : i \in C)
      <4>1. n \in 0..n /\ ~(T(n) < u)
        BY <1>1, <2>1
      <4> QED
        BY <4>1
    <3>2. 0 \in C
      BY <1>1, <1>6
    <3>3. PICK k \in 0..n : k \in C /\ k < n /\ k + 1 \notin C
      <4> HIDE DEF C
      <4> QED
        BY <1>1, <3>1, <3>2, UpTo
    <3>4. k + 1 \in 1..n /\ (k + 1) - 1 = k /\ T(k) < u /\ u <= T(k + 1)
      <4>1. k + 1 \in 1..n /\ k + 1 \in 0..n /\ (k + 1) - 1 = k /\ T(k) < u /\ ~(T(k + 1) < u)
        BY <1>1, <3>3
      <4>2. T(k + 1) \in Nat
        BY <1>5, <4>1
      <4> HIDE DEF q
      <4> QED
        BY <2>1, <4>1, <4>2
    <3>5. u \in (T((k + 1) - 1) + 1)..T(k + 1)
      <4>1. T(k) \in Nat /\ T(k + 1) \in Nat
        BY <1>4, <3>4
      <4> HIDE DEF q
      <4> QED
        BY <3>4, <4>1, <2>1
    <3> QED
      BY <1>1, <1>7, <3>4, <3>5
  <2>3. unit = [u \in 1..q |-> unit[u]]
    BY DEF Units
  <2> HIDE DEF unit, q
  <2> QED
    BY <2>1, <2>2, <2>3
<1> HIDE DEF taken, paid, unit, q
<1>10. 0 \in S
  BY <1>1, <1>6, <1>8, <1>9, PartialSums
<1>11. ASSUME NEW i \in 0..n, i \in S, i < n
       PROVE  i + 1 \in S
  <2>1. i \in Nat /\ i + 1 \in 1..n /\ (i + 1) - 1 = i /\ i + 1 \in 0..n
    BY <1>1, <1>11
  <2>2. /\ T(i + 1) = T(i) + Taken(levels, quantity, i + 1)
        /\ T(i) \in Nat /\ T(i + 1) \in Nat /\ Taken(levels, quantity, i + 1) \in Nat
    BY <1>4, <2>1
  <2>3. /\ Partial(taken)[i + 1] = Partial(taken)[i] + Taken(levels, quantity, i + 1)
        /\ Partial(paid)[i + 1]
              = Partial(paid)[i] + Taken(levels, quantity, i + 1) * levels[i + 1].price
    BY <1>8, <1>11, <2>1, PartialSums
  <2>4. Partial(unit)[T(i + 1)]
            = Partial(unit)[T(i)] + Taken(levels, quantity, i + 1) * levels[i + 1].price
    <3> DEFINE a == T(i)
               m == Taken(levels, quantity, i + 1)
               price == levels[i + 1].price
    <3>1. a \in Nat /\ m \in Nat /\ a + m = T(i + 1) /\ a + m <= Len(unit) /\ price \in Int
      BY <1>1, <1>5, <1>9, <2>1, <2>2
    <3>2. \A u \in (a + 1)..(a + m) : unit[u] = price
      BY <1>7, <2>1, <3>1
    <3> HIDE DEF a, m, price
    <3>3. Partial(unit)[a + m] = Partial(unit)[a] + m * price
      BY <1>9, <3>1, <3>2, ConstantStretch
    <3> QED
      BY <3>1, <3>3 DEF a, m, price
  <2>5. Partial(taken)[i] = T(i) /\ Partial(unit)[T(i)] = Partial(paid)[i]
    BY <1>11
  <2> QED
    BY <2>1, <2>2, <2>3, <2>4, <2>5
<1>12. n \in S
  <2> HIDE DEF S
  <2>1. \A i \in 0..n : i \in S
    BY <1>1, <1>10, <1>11, UpTo
  <2> QED
    BY <1>1, <2>1
<1>13. Filled(levels, quantity) = T(n) /\ Notional(levels, quantity) = Partial(unit)[T(n)]
  BY <1>8, <1>12 DEF Filled, Notional, Total, taken, paid
<1>14. UnitPrices(levels, q) = Partial(unit)[q]
  <2>1. UnitPrices(levels, q) = Total(unit)
    BY DEF UnitPrices, Units, unit
  <2> QED
    BY <1>9, <2>1 DEF Total
<1>15. quantity > 0 => T(n) > 0
  <2>1. 1 \in 1..n /\ 1 - 1 = 0 /\ 1 \in 0..n /\ n \in 0..n
    BY <1>1
  <2>2. P[1] > 0 /\ P[1] <= P[n] /\ P[1] \in Nat /\ P[n] \in Nat
    BY <1>1, <1>2, <2>1
  <2> QED
    BY <1>3, <2>1, <2>2 DEF Lower
<1>16. q = T(n) /\ n \in 0..n
  BY <1>1 DEF q
<1> QED
  BY <1>5, <1>13, <1>14, <1>15, <1>16

LEMMA CancelledWeakly ==
    ASSUME NEW t \in Int, t > 0, NEW a \in Int, NEW b \in Int, t * a <= t * b
    PROVE  a <= b
<1>1. CASE b + 1 <= a
  <2>1. t * (b + 1) <= t * a
    BY <1>1, TimesPositive
  <2>2. t * (b + 1) = t * b + t /\ t * b \in Int /\ t * a \in Int
    OBVIOUS
  <2> QED
    BY <2>1, <2>2
<1>2. CASE ~(b + 1 <= a)
  BY <1>2
<1> QED
  BY <1>1, <1>2

\* A quotient of naturals rounded up is no less than the quotient.
LEMMA RoundedUp ==
    ASSUME NEW n \in Nat, NEW d \in Int, d > 0
    PROVE  (n + d - 1) \div d \in Nat /\ n <= d * ((n + d - 1) \div d)
<1> DEFINE m == n + d - 1
           q == m \div d
           r == m % d
<1>1. m \in Nat
  OBVIOUS
<1> HIDE DEF m
<1>2. q \in Int /\ r \in Int /\ m = d * q + r /\ 0 <= r /\ r < d /\ q >= 0
  BY <1>1
<1> HIDE DEF q, r
<1>3. d * q \in Int
  BY <1>2
<1> QED
  BY <1>2, <1>3 DEF m, q

(* An average price with an adverse offset, rounded to the grid: r stands  *)
(* for the rounded price, w for what the q units cost, m over k for the    *)
(* price before it was rounded, each signed by the direction.              *)
LEMMA RoundedFill ==
    ASSUME NEW q \in Int, q > 0, NEW k \in Int, k > 0, NEW m \in Int, NEW r \in Int,
           NEW w \in Int, NEW x \in Int, x >= 0, NEW aggression \in Int,
           2 * m - k <= 2 * (k * r), 2 * (k * r) <= 2 * m + k,
           q * m = k * w + x, 100 * x <= k * (q * aggression)
    PROVE  /\ 2 * w <= 2 * (q * r) + q
           /\ 200 * (q * r) <= 200 * w + q * (2 * aggression + 100)
<1>1. /\ q * m \in Int /\ q * k \in Int /\ k * r \in Int /\ q * (k * r) \in Int
      /\ q * r \in Int /\ k * w \in Int /\ q * aggression \in Int
      /\ k * (q * aggression) \in Int
  OBVIOUS
<1>2. q * (2 * m - k) <= q * (2 * (k * r)) /\ q * (2 * (k * r)) <= q * (2 * m + k)
  BY <1>1, TimesPositive
<1>3. /\ q * (2 * m - k) = 2 * (q * m) - q * k /\ q * (2 * m + k) = 2 * (q * m) + q * k
      /\ q * (2 * (k * r)) = 2 * (q * (k * r))
      /\ q * (k * r) = k * (q * r) /\ q * k = k * q
  OBVIOUS
<1>4. 2 * (k * w) <= 2 * (k * (q * r)) + k * q
  BY <1>1, <1>2, <1>3
<1>5. 200 * (k * (q * r)) <= 200 * (k * w) + 2 * (k * (q * aggression)) + 100 * (k * q)
  BY <1>1, <1>2, <1>3
<1> DEFINE b == q * r
           g == q * aggression
<1>6. b \in Int /\ g \in Int /\ 2 * (k * w) <= 2 * (k * b) + k * q
      /\ 200 * (k * b) <= 200 * (k * w) + 2 * (k * g) + 100 * (k * q)
  BY <1>1, <1>4, <1>5
<1>7. q * (2 * aggression + 100) = 2 * g + 100 * q
  OBVIOUS
<1> HIDE DEF b, g
<1>8. k * (2 * w) <= k * (2 * b + q)
  <2>1. k * (2 * w) = 2 * (k * w) /\ k * (2 * b + q) = 2 * (k * b) + k * q
    BY <1>6
  <2> QED
    BY <1>6, <2>1
<1>9. k * (200 * b) <= k * (200 * w + 2 * g + 100 * q)
  <2>1. /\ k * (200 * b) = 200 * (k * b)
        /\ k * (200 * w + 2 * g + 100 * q) = 200 * (k * w) + 2 * (k * g) + 100 * (k * q)
    BY <1>6
  <2> QED
    BY <1>6, <2>1
<1>10. 2 * w <= 2 * b + q
  BY <1>6, <1>8, CancelledWeakly
<1>11. 200 * b <= 200 * w + 2 * g + 100 * q
  BY <1>6, <1>9, CancelledWeakly
<1> QED
  BY <1>7, <1>10, <1>11 DEF b

\* What q units of a side cost an order, level by level.
Walked(c, levels, q) ==
    IF c.execution.use_depth_walk THEN UnitPrices(levels, q) ELSE q * levels[1].price

(* What a fill starts from is the average of what its units cost, and none *)
(* of them is better than the touch.                                       *)
LEMMA BaseIsAverage ==
    ASSUME NEW c, NEW direction \in {1, -1}, NEW levels, IsLadder(levels, direction),
           NEW quantity \in Int, quantity > 0
    PROVE  LET base == Base(c, levels, quantity)
               q == base.filled
           IN /\ q \in Int /\ q > 0 /\ q <= quantity
              /\ Walked(c, levels, q) \in Int
              /\ base.notional \in Int /\ base.per \in Int /\ base.per > 0
              /\ base.notional * q = Walked(c, levels, q) * base.per
              /\ direction * Walked(c, levels, q) >= q * (direction * levels[1].price)
<1> DEFINE base == Base(c, levels, quantity)
           q == base.filled
           touch == levels[1].price
           cost == Walked(c, levels, q)
           n == Len(levels)
<1>1. /\ n \in Nat \ {0} /\ DOMAIN levels = 1..n /\ touch \in Int
      /\ \A i \in 1..n : levels[i].price \in Int
      /\ \A i \in 1..n : direction * touch <= direction * levels[i].price
  <2>1. /\ n \in Nat \ {0} /\ DOMAIN levels = 1..n
        /\ \A i \in 1..n : levels[i].price \in Int
        /\ \A i, j \in 1..n : i < j => direction * levels[i].price < direction * levels[j].price
    BY DEF IsLadder
  <2>2. 1 \in 1..n
    BY <2>1
  <2>3. ASSUME NEW i \in 1..n
        PROVE  direction * touch <= direction * levels[i].price
    <3>1. /\ touch \in Int /\ levels[i].price \in Int
          /\ direction * touch \in Int /\ direction * levels[i].price \in Int
      BY <2>1, <2>2
    <3>2. CASE i = 1
      BY <3>1, <3>2
    <3>3. CASE i # 1
      <4>1. 1 < i
        BY <2>1, <3>3
      <4> QED
        BY <2>1, <2>2, <3>1, <4>1
    <3> QED
      BY <3>2, <3>3
  <2> QED
    BY <2>1, <2>2, <2>3
<1>2. CASE ~c.execution.use_depth_walk
  <2>1. q = quantity /\ base.notional = touch /\ base.per = 1
    BY <1>2 DEF Base
  <2>2. cost = quantity * touch
    BY <1>2, <2>1 DEF Walked
  <2> HIDE DEF base, touch, cost, q
  <2>3. /\ q \in Int /\ q > 0 /\ q <= quantity /\ cost \in Int
        /\ base.notional * q = cost * base.per
        /\ direction * cost >= q * (direction * touch)
    BY <1>1, <2>1, <2>2
  <2> QED
    BY <1>1, <2>1, <2>3 DEF base, touch, cost, q
<1>3. CASE c.execution.use_depth_walk
  <2> DEFINE taken == [i \in DOMAIN levels |-> Taken(levels, quantity, i)]
             paid == [i \in DOMAIN levels |-> Taken(levels, quantity, i) * levels[i].price]
  <2>1. base = Walk(levels, quantity)
    BY <1>3 DEF Base
  <2>2. /\ Filled(levels, quantity) \in Nat /\ Filled(levels, quantity) <= quantity
        /\ Filled(levels, quantity) > 0
        /\ UnitPrices(levels, Filled(levels, quantity)) = Notional(levels, quantity)
    BY WalkedUnits
  <2>3. /\ q = Filled(levels, quantity) /\ base.per = q
        /\ base.notional = Notional(levels, quantity) /\ base.notional \in Int
    <3> HIDE DEF base
    <3> QED
      BY <2>1, <2>2, WalkTyped
  <2>4. cost = base.notional
    BY <1>3, <2>2, <2>3 DEF Walked
  <2>5. taken \in Seq(Nat) /\ taken \in Seq(Int) /\ paid \in Seq(Int)
        /\ Len(taken) = n /\ Len(paid) = n
    <3>1. taken \in Seq(Nat) /\ paid \in Seq(Int)
      BY TakenTyped
    <3>2. Len(taken) = n /\ Len(paid) = n
      BY <1>1
    <3> HIDE DEF taken, paid
    <3> QED
      BY <3>1, <3>2
  <2>6. \A i \in 1..n : taken[i] \in Nat /\ paid[i] = taken[i] * levels[i].price
    BY <1>1, <2>5
  <2>7. Total(taken) = q /\ Total(paid) = base.notional
    BY <2>3 DEF Filled, Notional
  <2> HIDE DEF base, touch, cost, q, n, taken, paid
  <2>8. CASE direction = 1
    <3>1. \A i \in 1..n : paid[i] >= touch * taken[i]
      <4>1. \A i \in 1..n : touch <= levels[i].price
        BY <1>1, <2>8
      <4>2. ASSUME NEW a \in Nat, NEW p \in Int, touch <= p
            PROVE  a * p >= touch * a
        BY <1>1, <4>2
      <4> QED
        BY <1>1, <2>6, <4>1, <4>2
    <3>2. Total(paid) >= touch * Total(taken)
      BY <1>1, <2>5, <3>1, TotalBoundedBelow
    <3> QED
      BY <1>1, <2>2, <2>3, <2>4, <2>7, <2>8, <3>2 DEF base, touch, cost, q
  <2>9. CASE direction = -1
    <3>1. \A i \in 1..n : paid[i] <= touch * taken[i]
      <4>1. \A i \in 1..n : levels[i].price <= touch
        BY <1>1, <2>9
      <4>2. ASSUME NEW a \in Nat, NEW p \in Int, p <= touch
            PROVE  a * p <= touch * a
        BY <1>1, <4>2
      <4> QED
        BY <1>1, <2>6, <4>1, <4>2
    <3>2. Total(paid) <= touch * Total(taken)
      BY <1>1, <2>5, <3>1, TotalBounded
    <3> QED
      BY <1>1, <2>2, <2>3, <2>4, <2>7, <2>9, <3>2 DEF base, touch, cost, q
  <2> QED
    BY <2>8, <2>9
<1> QED
  BY <1>2, <1>3

\* What a fill pays, as QuotesAreAdverse says it: signed by the direction.
IsAdverse(quote, c, levels, quantity, direction, aggression) ==
    LET q == quote.filled
        paid == direction * quote.price
        cost == direction * Walked(c, levels, q)
    IN /\ quote.price \in Int /\ q \in Int /\ q > 0 /\ q <= quantity
       /\ quote.complete = (q >= quantity)
       /\ Walked(c, levels, q) \in Int
       /\ paid >= direction * levels[1].price
       /\ 2 * cost <= 2 * (q * paid) + q
       /\ 200 * (q * paid) <= 200 * cost + q * (2 * aggression + 100)

LEMMA FillsAreAdverse ==
    ASSUME NEW c, NEW direction \in {1, -1}, NEW levels, IsLadder(levels, direction),
           NEW quantity \in Int, quantity > 0,
           NEW offset, offset.n \in Int, offset.n >= 0, offset.d \in Int, offset.d > 0,
           NEW aggression \in Int, 100 * offset.n <= offset.d * aggression
    PROVE  IsAdverse(Quote(c, levels, quantity, offset, direction), c, levels, quantity,
                     direction, aggression)
<1> DEFINE quote == Quote(c, levels, quantity, offset, direction)
           base == Base(c, levels, quantity)
           q == base.filled
           touch == levels[1].price
           walked == Walked(c, levels, q)
           rounded == Unclamped(c, levels, quantity, offset, direction)
           notional == base.notional
           per == base.per
           on == offset.n
           od == offset.d
           n == notional * od + direction * on * per
           k == per * od
           m == direction * n
           r == direction * rounded
           w == direction * walked
           x == on * per * q
<1>1. IsQuote(quote, c, levels, quantity, offset, direction)
  BY QuoteFacts
<1>2. /\ q \in Int /\ q > 0 /\ q <= quantity /\ walked \in Int
      /\ notional \in Int /\ per \in Int /\ per > 0
      /\ notional * q = walked * per
      /\ w >= q * (direction * touch)
  <2> HIDE DEF base, walked
  <2> QED
    BY BaseIsAverage DEF base, walked
<1>3. rounded = RoundToTick(n, k)
  BY DEF Unclamped
<1>4. on \in Int /\ on >= 0 /\ od \in Int /\ od > 0 /\ 100 * on <= od * aggression
  OBVIOUS
<1>5. /\ quote.price \in Int /\ touch \in Int /\ rounded \in Int
      /\ direction * quote.price >= direction * touch
      /\ direction * quote.price >= r
      /\ quote.price \in {rounded, touch}
      /\ quote.filled = q /\ quote.complete = (q >= quantity)
  <2> HIDE DEF quote, rounded, base, touch
  <2>1. /\ quote.price \in Int /\ touch \in Int /\ rounded \in Int
        /\ direction = 1 => quote.price >= touch /\ quote.price \in {rounded, touch}
                            /\ quote.price >= rounded
        /\ direction = -1 => quote.price <= touch /\ quote.price \in {rounded, touch}
                             /\ quote.price <= rounded
        /\ quote.filled = q /\ quote.complete = (quote.filled >= quantity)
    BY <1>1 DEF IsQuote, rounded, base, touch
  <2> QED
    BY <2>1
<1> HIDE DEF quote, base, q, touch, walked, rounded, notional, per, on, od
<1>6. n \in Int /\ k \in Int /\ k > 0
  <2>1. notional * od \in Int /\ direction * on * per \in Int
    BY <1>2, <1>4
  <2>2. per * od \in Int /\ per * od > 0
    BY <1>2, <1>4
  <2> QED
    BY <2>1, <2>2
<1>7. 2 * n - k <= 2 * (k * rounded) /\ 2 * (k * rounded) <= 2 * n + k
  <2> HIDE DEF n, k
  <2> QED
    BY <1>3, <1>6, RoundedByHalf
<1>8. m \in Int /\ r \in Int /\ w \in Int /\ 2 * m - k <= 2 * (k * r) /\ 2 * (k * r) <= 2 * m + k
  <2> HIDE DEF n, k
  <2>1. k * rounded \in Int
    BY <1>5, <1>6
  <2>2. CASE direction = 1
    BY <1>2, <1>5, <1>6, <1>7, <2>1, <2>2
  <2>3. CASE direction = -1
    <3>1. k * r = -(k * rounded)
      BY <1>5, <1>6, <2>3
    <3> QED
      BY <1>2, <1>5, <1>6, <1>7, <2>1, <2>3, <3>1
  <2> QED
    BY <2>2, <2>3
<1>9. x \in Int /\ x >= 0 /\ q * m = k * w + x
  <2>1. on * per \in Int /\ on * per >= 0
    BY <1>2, <1>4
  <2>2. x \in Int /\ x >= 0
    <3> DEFINE y == on * per
    <3> HIDE DEF y
    <3>1. y * q \in Int /\ y * q >= 0
      BY <1>2, <2>1 DEF y
    <3> QED
      BY <3>1 DEF y
  <2>3. q * n = od * (notional * q) + direction * x
    BY <1>2, <1>4
  <2>4. od * (notional * q) = k * walked
    <3>1. od * (walked * per) = k * walked
      BY <1>2, <1>4
    <3> QED
      BY <1>2, <3>1
  <2>5. q * n = k * walked + direction * x
    BY <2>3, <2>4
  <2>6. q * m = direction * (q * n) /\ k * w = direction * (k * walked)
    BY <1>2, <1>6
  <2> HIDE DEF n, k, m, w, x
  <2>7. k * walked \in Int
    BY <1>2, <1>6
  <2>8. CASE direction = 1
    BY <2>2, <2>5, <2>6, <2>7, <2>8
  <2>9. CASE direction = -1
    BY <2>2, <2>5, <2>6, <2>7, <2>9
  <2> QED
    BY <2>2, <2>8, <2>9
<1>10. 100 * x <= k * (q * aggression)
  <2> DEFINE y == per * q
  <2>1. y \in Int /\ y > 0
    BY <1>2
  <2>2. y * (100 * on) <= y * (od * aggression)
    <3> HIDE DEF y
    <3>1. 100 * on \in Int /\ od * aggression \in Int
      BY <1>4
    <3> QED
      BY <1>4, <2>1, <3>1, TimesPositive
  <2>3. y * (100 * on) = 100 * x /\ y * (od * aggression) = k * (q * aggression)
    BY <1>2, <1>4
  <2> HIDE DEF y, x, k
  <2> QED
    BY <2>2, <2>3
<1>11. aggression >= 0
  <2>1. aggression < 0 => od * aggression < 0
    BY <1>4
  <2>2. od * aggression \in Int
    BY <1>4
  <2> QED
    BY <1>4, <2>1, <2>2
<1> HIDE DEF n, k, m, r, w, x
<1>12. 2 * w <= 2 * (q * r) + q /\ 200 * (q * r) <= 200 * w + q * (2 * aggression + 100)
  BY <1>2, <1>6, <1>8, <1>9, <1>10, RoundedFill
<1> DEFINE paid == direction * quote.price
           front == direction * touch
<1>13. paid \in Int /\ front \in Int /\ paid >= r /\ paid \in {r, front} /\ w >= q * front
  BY <1>2, <1>5 DEF r
<1> HIDE DEF paid, front
<1>14. /\ q * r \in Int /\ q * paid \in Int /\ q * front \in Int
       /\ q * (2 * aggression + 100) \in Int /\ q * (2 * aggression + 100) >= 0
  <2>1. 2 * aggression + 100 \in Int /\ 2 * aggression + 100 >= 0
    BY <1>11
  <2> QED
    BY <1>2, <1>8, <1>13, <2>1
<1>15. 2 * w <= 2 * (q * paid) + q
  <2>1. q * r <= q * paid
    BY <1>2, <1>8, <1>13, TimesPositive
  <2> QED
    BY <1>2, <1>8, <1>12, <1>14, <2>1
<1>16. 200 * (q * paid) <= 200 * w + q * (2 * aggression + 100)
  <2>1. CASE paid = r
    BY <1>12, <2>1
  <2>2. CASE paid = front
    BY <1>8, <1>13, <1>14, <2>2
  <2> QED
    BY <1>13, <2>1, <2>2
<1>17. quote.filled = q
  BY <1>5
<1>18. IsAdverse(quote, c, levels, quantity, direction, aggression)
  BY <1>2, <1>5, <1>15, <1>16, <1>17 DEF IsAdverse, paid, w, walked, touch, q
<1> QED
  BY <1>18 DEF quote

(* The rounding of an entry is put back among what its units cost, the     *)
(* marks are at the touch or behind it, and what is opened at one touch    *)
(* and closed at the other has paid the spread.                            *)
THEOREM QuotesAreAdverseHolds == Spec => []QuotesAreAdverse
<1>1. ASSUME SignalInv, position # None
      PROVE  LET d == position.direction
                 levels == IF d = 1 THEN opened.asks ELSE opened.bids
                 q == position.quantity
                 walked == IF config.execution.use_depth_walk THEN UnitPrices(levels, q)
                                                              ELSE q * levels[1].price
             IN /\ q <= config.symbol.quantity
                /\ position.complete => q = config.symbol.quantity
                /\ d * (position.entry - levels[1].price) >= 0
                /\ 2 * d * q * position.entry + q >= 2 * d * walked
                /\ 200 * d * q * position.entry
                     <= 200 * d * walked + q * (2 * Aggression + 100)
  <2> DEFINE d == position.direction
             levels == IF d = 1 THEN opened.asks ELSE opened.bids
             q == position.quantity
             entry == position.entry
             walked == IF config.execution.use_depth_walk THEN UnitPrices(levels, q)
                                                          ELSE q * levels[1].price
             Q == config.symbol.quantity
             offset == EntryOffset(config, opened)
             quote == Quote(config, levels, Q, offset, d)
  <2>1. /\ ConfigTyped(config) /\ EverySectionFits(config) /\ IsBook(opened) /\ d \in {1, -1}
        /\ position = OpenPosition(config, opened, d, Q)
    BY <1>1, OpenPositions
  <2>2. IsLadder(levels, d)
    BY <2>1 DEF IsBook
  <2>3. /\ offset.n \in Int /\ offset.n >= 0 /\ offset.d \in Int /\ offset.d > 0
        /\ Q \in Int /\ Q > 0
    BY <2>1, ExecutionTyped, OffsetTyped DEF EntryOffset
  <2>4. Aggression \in Int /\ 100 * offset.n <= offset.d * Aggression
    <3> DEFINE n == 100 * offset.n
    <3>1. n \in Nat
      BY <2>3
    <3>2. Aggression = (n + offset.d - 1) \div offset.d
      BY DEF Aggression, EntryOffset
    <3> HIDE DEF n
    <3>3. (n + offset.d - 1) \div offset.d \in Nat
          /\ n <= offset.d * ((n + offset.d - 1) \div offset.d)
      BY <2>3, <3>1, RoundedUp
    <3> QED
      BY <3>2, <3>3 DEF n
  <2>5. EntryQuote(config, opened, d, Q) = quote
    BY DEF EntryQuote, EntryOffset
  <2>6. /\ position.quantity = (IF quote.filled > 0 THEN quote.filled ELSE Q)
        /\ position.entry = quote.price /\ position.complete = quote.complete
    <3> HIDE DEF quote, Q, d
    <3> QED
      BY <2>1, <2>5 DEF OpenPosition
  <2> HIDE DEF levels, Q, offset, quote
  <2>7. IsAdverse(quote, config, levels, Q, d, Aggression)
    <3> HIDE DEF d
    <3>1. IsAdverse(Quote(config, levels, Q, offset, d), config, levels, Q, d, Aggression)
      BY <2>1, <2>2, <2>3, <2>4, FillsAreAdverse
    <3> QED
      BY <3>1 DEF quote
  <2>8. q = quote.filled /\ entry = quote.price /\ position.complete = (q >= Q)
    BY <2>3, <2>6, <2>7 DEF IsAdverse
  <2>9. walked = Walked(config, levels, q)
    BY DEF Walked
  <2> DEFINE front == levels[1].price
  <2>10. front \in Int
    BY <2>2 DEF IsLadder
  <2> HIDE DEF d, q, entry, walked, front
  <2>11. /\ entry \in Int /\ q \in Int /\ q > 0 /\ q <= Q /\ walked \in Int
         /\ d * entry >= d * front
         /\ 2 * (d * walked) <= 2 * (q * (d * entry)) + q
         /\ 200 * (q * (d * entry)) <= 200 * (d * walked) + q * (2 * Aggression + 100)
    BY <2>7, <2>8, <2>9 DEF IsAdverse, front
  <2>12. q <= Q /\ (position.complete => q = Q)
    <3>1. position.complete => q >= Q
      BY <2>8
    <3> QED
      BY <2>3, <2>11, <3>1
  <2>13. d * (entry - front) >= 0
    BY <2>1, <2>10, <2>11
  <2>14. /\ 2 * d * q * entry = 2 * (q * (d * entry)) /\ 2 * d * walked = 2 * (d * walked)
         /\ 200 * d * q * entry = 200 * (q * (d * entry))
         /\ 200 * d * walked = 200 * (d * walked)
    BY <2>1, <2>11
  <2>15. 2 * d * q * entry + q >= 2 * d * walked
    <3> DEFINE y == q * (d * entry)
               z == d * walked
    <3>1. y \in Int /\ z \in Int
      BY <2>1, <2>11
    <3> HIDE DEF y, z
    <3>2. 2 * d * q * entry = 2 * y /\ 2 * d * walked = 2 * z /\ 2 * z <= 2 * y + q
      BY <2>11, <2>14 DEF y, z
    <3> QED
      BY <2>11, <3>1, <3>2
  <2>16. 200 * d * q * entry <= 200 * d * walked + q * (2 * Aggression + 100)
    BY <2>11, <2>14
  <2> QED
    BY <2>12, <2>13, <2>15, <2>16 DEF d, q, entry, walked, front, levels, Q
<1>2. ASSUME SignalInv, position # None, mark # None
      PROVE  /\ mark.gross <= position.quantity * UnrealisedTicks(position, book)
             /\ position.entry >= 0 /\ mark.price >= 0 => mark.net <= mark.gross * RupeeUnit
             /\ book = opened =>
                    mark.gross <= -position.quantity
                                    * (opened.asks[1].price - opened.bids[1].price)
  <2> DEFINE d == position.direction
             q == position.quantity
             entry == position.entry
             price == mark.price
             touch == ExitTouch(position, book)
             ask == opened.asks[1].price
             bid == opened.bids[1].price
             cost == IF d = 1 THEN Rupees(config.cost, entry, price, q)
                              ELSE Rupees(config.cost, price, entry, q)
  <2>1. /\ ConfigTyped(config) /\ EverySectionFits(config) /\ IsBook(opened) /\ d \in {1, -1}
        /\ position = OpenPosition(config, opened, d, config.symbol.quantity)
        /\ IsBook(book) /\ mark = MarkToMarket(config, position, book)
    BY <1>2, OpenPositions
  <2>2. /\ entry \in Int /\ q \in Int /\ q > 0
        /\ d = 1 => entry >= ask
        /\ d = -1 => entry <= bid
    BY <2>1, OpenedFacts
  <2>3. /\ price \in Int /\ touch \in Int
        /\ mark.gross = (price - entry) * d * q
        /\ d = 1 => price <= touch
        /\ d = -1 => price >= touch
        /\ mark.net = mark.gross * RupeeUnit - cost
    BY <2>1, <2>2, MarkedFacts
  <2>4. ask \in Int /\ bid \in Int
    BY <2>1, BookTouch
  <2>5. book = opened => touch = IF d = 1 THEN bid ELSE ask
    BY DEF ExitTouch
  <2>6. UnrealisedTicks(position, book) = d * (touch - entry)
    BY DEF UnrealisedTicks
  <2>7. cost \in Int /\ (entry >= 0 /\ price >= 0 => cost >= 0)
    BY <2>1, <2>2, <2>3, RupeesTyped
  <2> HIDE DEF d, q, entry, price, touch, ask, bid, cost
  <2> DEFINE won == (price - entry) * d
             most == d * (touch - entry)
  <2>8. /\ won \in Int /\ most \in Int /\ won <= most
        /\ book = opened => won <= bid - ask
    <3>1. CASE d = 1
      BY <2>2, <2>3, <2>4, <2>5, <3>1
    <3>2. CASE d = -1
      BY <2>2, <2>3, <2>4, <2>5, <3>2
    <3> QED
      BY <2>1, <3>1, <3>2
  <2>9. mark.gross = q * won
    BY <2>1, <2>2, <2>3
  <2> HIDE DEF won
  <2>10. mark.gross \in Int /\ mark.gross <= q * most
    BY <2>2, <2>8, <2>9, TimesPositive
  <2>11. book = opened => mark.gross <= -q * (ask - bid)
    <3>1. bid - ask \in Int /\ q * (bid - ask) = -q * (ask - bid)
      BY <2>2, <2>4
    <3> QED
      BY <2>2, <2>8, <2>9, <3>1, TimesPositive
  <2>12. entry >= 0 /\ price >= 0 => mark.net <= mark.gross * RupeeUnit
    BY <2>3, <2>7, <2>10 DEF RupeeUnit
  <2> QED
    BY <2>6, <2>10, <2>11, <2>12 DEF q, ask, bid, entry, price
<1>3. SignalInv => QuotesAreAdverse
  BY <1>1, <1>2 DEF QuotesAreAdverse
<1> QED
  BY <1>3, SignalInvHolds, PTL

----------------------------------------------------------------------------
(* Votes.                                                                  *)

(* The library functions the features and the confidence call: exp of a    *)
(* distance is positive, the logarithm of a queue a number, tanh of a      *)
(* quotient bounded and odd, and a power of a share a share.               *)
Curves ==
    /\ \A d \in Nat : Decay(d) \in Nat
    /\ \A q \in Nat : Log(q) \in Int
    /\ \A n \in Int, d \in Int : d > 0 => /\ Tanh(n, d) \in -20..20
                                          /\ Tanh(-n, d) = -Tanh(n, d)
    /\ \A factor \in 0..100, exponent \in Nat : Power(factor, exponent) \in 0..100

LEMMA TwentiethsTyped ==
    ASSUME NEW n \in Int, NEW d \in Int, d > 0
    PROVE  /\ Twentieths(n, d) \in Int
           /\ Twentieths(-n, d) = -Twentieths(n, d)
<1>1. /\ (20 * n) \div d \in Int /\ (20 * (-n)) \div d \in Int
      /\ n = 0 => (20 * n) \div d = 0
  OBVIOUS
<1>2. -(-n) = n /\ -n \in Int
  OBVIOUS
<1> QED
  BY <1>1, <1>2 DEF Twentieths

LEMMA ClampedTyped ==
    ASSUME NEW v \in Int, NEW low \in Int, NEW high \in Int
    PROVE  Clamped(v, low, high) \in Int
  BY DEF Clamped

LEMMA LadderFields ==
    ASSUME NEW levels, NEW sign \in {1, -1}, IsLadder(levels, sign)
    PROVE  /\ Len(levels) \in Nat \ {0} /\ DOMAIN levels = 1..Len(levels)
           /\ 1 \in 1..Len(levels)
           /\ \A i \in 1..Len(levels) : /\ levels[i].price \in Int /\ levels[i].price > 0
                                        /\ levels[i].quantity \in Nat
                                        /\ levels[i].quantity > 0
  BY DEF IsLadder

LEMMA MassTyped ==
    ASSUME Curves, NEW b, IsBook(b), NEW levels, NEW sign \in {1, -1},
           IsLadder(levels, sign), NEW first, NEW last
    PROVE  Mass(b, levels, first, last) \in Nat
<1> DEFINE n == Len(levels)
           distance == [i \in DOMAIN levels |-> Distance(b, levels[i].price)]
           term(i) == IF i \in LevelsWithin(levels, first, last)
                        THEN levels[i].quantity * Decay(distance[i]) ELSE 0
           terms == [i \in DOMAIN levels |-> term(i)]
<1>1. /\ n \in Nat \ {0} /\ DOMAIN levels = 1..n
      /\ \A i \in 1..n : levels[i].price \in Int /\ levels[i].quantity \in Nat
  BY LadderFields
<1>2. TwiceMid(b) \in Int
  BY BookTouch DEF TwiceMid
<1> HIDE DEF n
<1>3. ASSUME NEW i \in 1..n PROVE term(i) \in Nat
  <2>1. distance[i] \in Nat
    BY <1>1, <1>2 DEF Distance
  <2> HIDE DEF distance
  <2>2. Decay(distance[i]) \in Nat
    BY <2>1 DEF Curves
  <2> QED
    BY <1>1, <2>2
<1> HIDE DEF term
<1>4. terms \in Seq(Nat)
  BY <1>1, <1>3
<1>5. Mass(b, levels, first, last) = Total(terms)
  BY DEF Mass, MassOf, term
<1> HIDE DEF terms
<1> QED
  BY <1>4, <1>5, TotalNatural

LEMMA BalanceTyped ==
    ASSUME Curves, NEW b, IsBook(b), NEW first, NEW last
    PROVE  Balance(b, first, last).value \in Int
<1> DEFINE bid == Mass(b, b.bids, first, last)
           ask == Mass(b, b.asks, first, last)
<1>1. bid \in Nat /\ ask \in Nat
  BY MassTyped DEF IsBook
<1>2. Balance(b, first, last).value
        = IF bid + ask > 0 THEN Twentieths(bid - ask, bid + ask) ELSE 0
  BY DEF Balance
<1> HIDE DEF bid, ask
<1>3. bid - ask \in Int /\ bid + ask \in Int
  BY <1>1
<1> QED
  BY <1>2, <1>3, TwentiethsTyped

LEMMA DiscountTyped ==
    ASSUME NEW weight \in Int, NEW agreement \in Int
    PROVE  Discount(weight, agreement) \in Int
<1>1. weight * (20 - agreement) \in Int
  OBVIOUS
<1> QED
  BY <1>1 DEF Discount

LEMMA AgreeingTyped ==
    ASSUME NEW value \in Int, NEW primary
    PROVE  Agreeing(value, primary) \in Int
  BY DEF Agreeing

IsVoter(feature) == feature.value \in Int /\ feature.local \in Int

LEMMA ExcludedVoter == IsVoter(Excluded)
  BY DEF IsVoter, Excluded

LEMMA ValueVoter ==
    ASSUME NEW v \in Int, NEW local \in Int
    PROVE  IsVoter(Value(v, local))
  BY DEF IsVoter, Value

LEMMA WeightedObiTyped ==
    ASSUME Curves, NEW c, ConfigTyped(c), NEW b, IsBook(b)
    PROVE  IsVoter(WeightedObi(c.weighted_obi, b))
<1> DEFINE f == c.weighted_obi
           primary == Balance(b, 1, f.primary_levels)
           deep == DeepFactor(f, b, primary.value)
           aggregate == AggregateFactor(f, b, primary.value)
<1>1. f.deep_agreement_weight \in Int /\ f.aggregate_agreement_weight \in Int
  BY DEF ConfigTyped, SectionTyped, Default, OfKind, Text, Boolean, DefaultWeightedObi
<1>2. primary.value \in Int
  BY BalanceTyped
<1> HIDE DEF primary, f
<1>3. deep \in Int
  <2> DEFINE last == f.primary_levels + 1
             v == Balance(b, last, f.deep_levels).value
             p == primary.value
  <2> HIDE DEF last, p
  <2>1. v \in Int
    BY BalanceTyped
  <2> HIDE DEF v
  <2>2. Agreeing(v, p) \in Int
    BY <2>1, AgreeingTyped
  <2>3. Discount(f.deep_agreement_weight, Agreeing(v, p)) \in Int
    BY <1>1, <2>2, DiscountTyped
  <2> QED
    BY <2>3 DEF DeepFactor, v, last, p
<1>4. aggregate \in Int
  <2> DEFINE buy == b.totalBuy
             sell == b.totalSell
             v == Twentieths(buy - sell, buy + sell)
             p == primary.value
  <2>1. buy \in Int /\ sell \in Int
    BY DEF IsBook
  <2> HIDE DEF buy, sell, p
  <2>2. CASE buy <= 0 \/ sell <= 0
    BY <2>2 DEF AggregateFactor, buy, sell
  <2>3. CASE ~(buy <= 0 \/ sell <= 0)
    <3>1. buy - sell \in Int /\ buy + sell \in Int /\ buy + sell > 0
      BY <2>1, <2>3
    <3>2. v \in Int
      BY <3>1, TwentiethsTyped
    <3> HIDE DEF v
    <3>3. Agreeing(v, p) \in Int
      BY <3>2, AgreeingTyped
    <3>4. Discount(f.aggregate_agreement_weight, Agreeing(v, p)) \in Int
      BY <1>1, <3>3, DiscountTyped
    <3> QED
      BY <3>4 DEF AggregateFactor, v, buy, sell, p
  <2> QED
    BY <2>2, <2>3
<1> HIDE DEF deep, aggregate
<1>5. (deep * aggregate) \div 100 \in Int
  <2>1. deep * aggregate \in Int
    BY <1>3, <1>4
  <2> QED
    BY <2>1
<1>6. WeightedObi(f, b) = IF ~primary.any THEN Excluded
                          ELSE Value(primary.value, (deep * aggregate) \div 100)
  BY DEF WeightedObi, primary, deep, aggregate
<1> QED
  BY <1>2, <1>5, <1>6, ExcludedVoter, ValueVoter DEF f

LEMMA MicropriceTyped ==
    ASSUME NEW b, IsBook(b)
    PROVE  IsVoter(Microprice(b))
<1> DEFINE bid == b.bids[1]
           ask == b.asks[1]
           total == bid.quantity + ask.quantity
           n == 2 * (bid.price * ask.quantity + ask.price * bid.quantity) - TwiceMid(b) * total
           d == (ask.price - bid.price) * total
<1>1. /\ bid.price \in Int /\ ask.price \in Int /\ bid.price <= ask.price
      /\ bid.quantity \in Nat /\ ask.quantity \in Nat
      /\ bid.quantity > 0 /\ ask.quantity > 0
  BY BookTouch, LadderFields DEF IsBook
<1>2. Tilt(b) = [n |-> n, d |-> d]
  BY DEF Tilt
<1>3. TwiceMid(b) = bid.price + ask.price
  BY DEF TwiceMid
<1>4. Microprice(b) = IF total <= 0 \/ ask.price <= bid.price THEN Excluded
                      ELSE Value(Twentieths(Tilt(b).n, Tilt(b).d), 100)
  BY DEF Microprice
<1> HIDE DEF bid, ask
<1>5. CASE ask.price <= bid.price
  BY <1>4, <1>5, ExcludedVoter
<1>6. CASE bid.price < ask.price
  <2>1. total \in Int /\ total > 0
    BY <1>1
  <2>2. n \in Int
    <3>1. /\ bid.price * ask.quantity \in Int /\ ask.price * bid.quantity \in Int
          /\ (bid.price + ask.price) * total \in Int
      BY <1>1, <2>1
    <3> QED
      BY <1>3, <3>1
  <2>3. d \in Int /\ d > 0
    <3> DEFINE wide == ask.price - bid.price
    <3>1. wide \in Int /\ wide > 0
      BY <1>1, <1>6
    <3> HIDE DEF wide, total
    <3>2. wide * total \in Int /\ wide * total > 0
      BY <2>1, <3>1
    <3> QED
      BY <3>2 DEF wide
  <2> HIDE DEF n, d, total
  <2>4. Twentieths(n, d) \in Int
    BY <2>2, <2>3, TwentiethsTyped
  <2> QED
    BY <1>2, <1>4, <2>4, ExcludedVoter, ValueVoter
<1> QED
  BY <1>1, <1>5, <1>6

LEMMA StepsTyped ==
    ASSUME NEW levels, NEW sign \in {1, -1}, IsLadder(levels, sign)
    PROVE  \A i \in 1..Len(levels) : Steps(levels, i) \in Nat
  BY LadderFields DEF Steps

LEMMA PairDecayTyped ==
    ASSUME Curves, NEW levels, NEW sign \in {1, -1}, IsLadder(levels, sign)
    PROVE  LET decay == PairDecay(levels)
           IN /\ decay.n \in Int /\ decay.d \in Int
              /\ decay.known => decay.d > 0
<1>1. CASE Len(levels) >= 2
  <2>1. 1 \in 1..Len(levels) /\ 2 \in 1..Len(levels)
    BY <1>1, LadderFields
  <2>2. Log(levels[1].quantity) \in Int /\ Log(levels[2].quantity) \in Int
    BY <2>1, LadderFields DEF Curves
  <2>3. Steps(levels, 2) \in Nat
    BY <2>1, StepsTyped
  <2> QED
    BY <1>1, <2>2, <2>3 DEF PairDecay
<1>2. CASE ~(Len(levels) >= 2)
  BY <1>2 DEF PairDecay
<1> QED
  BY <1>1, <1>2

LEMMA RegressionTyped ==
    ASSUME Curves, NEW f, NEW levels, NEW sign \in {1, -1}, IsLadder(levels, sign)
    PROVE  LET slope == RegressionSlope(f, levels)
           IN /\ slope.n \in Int /\ slope.d \in Int
              /\ slope.known => slope.d > 0
<1> DEFINE used == LevelsWithin(levels, 1, f.deep_levels)
           count == Cardinality(used)
           x == [i \in DOMAIN levels |-> IF i \in used THEN Steps(levels, i) ELSE 0]
           y == [i \in DOMAIN levels |-> IF i \in used THEN Log(levels[i].quantity) ELSE 0]
           xy == [i \in DOMAIN x |-> x[i] * y[i]]
           xx == [i \in DOMAIN x |-> x[i] * x[i]]
           n == count * Total(xy) - Total(x) * Total(y)
           d == count * Total(xx) - Total(x) * Total(x)
<1>1. Len(levels) \in Nat /\ DOMAIN levels = 1..Len(levels)
  BY LadderFields
<1>2. count \in Int
  <2>1. IsFiniteSet(DOMAIN levels)
    BY <1>1, FS_Interval
  <2>2. used \subseteq DOMAIN levels
    BY DEF LevelsWithin
  <2> QED
    BY <2>1, <2>2, FS_Subset, FS_CardinalityType
<1> HIDE DEF used, count
<1>3. \A i \in DOMAIN levels : x[i] \in Int /\ y[i] \in Int
  <2>1. \A i \in 1..Len(levels) : Steps(levels, i) \in Int
    BY StepsTyped
  <2>2. \A i \in 1..Len(levels) : Log(levels[i].quantity) \in Int
    BY LadderFields DEF Curves
  <2> QED
    BY <1>1, <2>1, <2>2
<1>4. DOMAIN x = DOMAIN levels /\ DOMAIN y = DOMAIN levels
  OBVIOUS
<1>5. x \in Seq(Int) /\ y \in Seq(Int)
  <2>1. x = [i \in 1..Len(levels) |-> x[i]] /\ y = [i \in 1..Len(levels) |-> y[i]]
    BY <1>1
  <2> HIDE DEF x, y
  <2> QED
    BY <1>1, <1>3, <2>1
<1> HIDE DEF x, y
<1>6. xy \in Seq(Int) /\ xx \in Seq(Int)
  <2>1. \A i \in 1..Len(levels) : x[i] * y[i] \in Int /\ x[i] * x[i] \in Int
    BY <1>1, <1>3
  <2> QED
    BY <1>1, <1>4, <2>1
<1> HIDE DEF xy, xx
<1>7. /\ Total(x) \in Int /\ Total(y) \in Int /\ Total(xy) \in Int /\ Total(xx) \in Int
  BY <1>5, <1>6, TotalTyped
<1>8. n \in Int /\ d \in Int
  <2>1. /\ count * Total(xy) \in Int /\ Total(x) * Total(y) \in Int
        /\ count * Total(xx) \in Int /\ Total(x) * Total(x) \in Int
    BY <1>2, <1>7
  <2> QED
    BY <2>1
<1>9. RegressionSlope(f, levels) = [known |-> count >= 3 /\ d > 0, n |-> n, d |-> d]
  BY DEF RegressionSlope, x, y, xy, xx, used, count
<1> HIDE DEF n, d
<1> DEFINE slope == RegressionSlope(f, levels)
<1>10. slope.n = n /\ slope.d = d
  BY <1>9
<1>11. slope.known => d > 0
  <2>1. slope.known = (count >= 3 /\ d > 0)
    BY <1>9
  <2> HIDE DEF slope
  <2> QED
    BY <2>1, Zenon
<1> QED
  BY <1>8, <1>10, <1>11

LEMMA AsymmetryTyped ==
    ASSUME Curves, NEW bid, NEW ask, bid.n \in Int, bid.d \in Int, bid.d > 0,
           ask.n \in Int, ask.d \in Int, ask.d > 0
    PROVE  Asymmetry(bid, ask) \in Int
<1>1. bid.n * ask.d \in Int /\ ask.n * bid.d \in Int /\ bid.d * ask.d \in Int
      /\ bid.d * ask.d > 0
  OBVIOUS
<1> DEFINE n == bid.n * ask.d - ask.n * bid.d
           d == bid.d * ask.d
<1>2. n \in Int /\ d \in Int /\ d > 0
  BY <1>1
<1> HIDE DEF n, d
<1>3. Tanh(n, d) \in -20..20
  BY <1>2 DEF Curves
<1> QED
  BY <1>3 DEF Asymmetry, n, d

LEMMA DepthSlopeTyped ==
    ASSUME Curves, NEW f, NEW b, IsBook(b)
    PROVE  IsVoter(DepthSlope(f, b))
<1> DEFINE bid == PairDecay(b.bids)
           ask == PairDecay(b.asks)
           value == Asymmetry(bid, ask)
           bidSlope == RegressionSlope(f, b.bids)
           askSlope == RegressionSlope(f, b.asks)
<1>1. /\ bid.n \in Int /\ bid.d \in Int /\ (bid.known => bid.d > 0)
      /\ ask.n \in Int /\ ask.d \in Int /\ (ask.known => ask.d > 0)
  BY PairDecayTyped DEF IsBook
<1>2. /\ bidSlope.n \in Int /\ bidSlope.d \in Int /\ (bidSlope.known => bidSlope.d > 0)
      /\ askSlope.n \in Int /\ askSlope.d \in Int /\ (askSlope.known => askSlope.d > 0)
  <2>1. IsLadder(b.bids, -1) /\ IsLadder(b.asks, 1)
    BY DEF IsBook
  <2> QED
    BY <2>1, RegressionTyped
<1>3. DepthSlope(f, b) = IF ~bid.known \/ ~ask.known THEN Excluded
                         ELSE Value(value, SlopeConfidence(f, b, value))
  BY DEF DepthSlope
<1>4. SlopeConfidence(f, b, value)
        = IF ~f.use_deep_levels \/ ~bidSlope.known \/ ~askSlope.known THEN 100
          ELSE Discount(40, Asymmetry(bidSlope, askSlope) * SignOf(value))
  BY DEF SlopeConfidence
<1> HIDE DEF bid, ask, bidSlope, askSlope
<1>5. CASE ~bid.known \/ ~ask.known
  BY <1>3, <1>5, ExcludedVoter
<1>6. CASE bid.known /\ ask.known
  <2>1. value \in Int
    BY <1>1, <1>6, AsymmetryTyped
  <2>2. SlopeConfidence(f, b, value) \in Int
    <3>1. CASE ~f.use_deep_levels \/ ~bidSlope.known \/ ~askSlope.known
      BY <1>4, <3>1
    <3>2. CASE ~(~f.use_deep_levels \/ ~bidSlope.known \/ ~askSlope.known)
      <4>1. Asymmetry(bidSlope, askSlope) \in Int
        BY <1>2, <3>2, AsymmetryTyped
      <4>2. Asymmetry(bidSlope, askSlope) * SignOf(value) \in Int
        BY <2>1, <4>1 DEF SignOf
      <4>3. Discount(40, Asymmetry(bidSlope, askSlope) * SignOf(value)) \in Int
        BY <4>2, DiscountTyped
      <4> QED
        BY <1>4, <3>2, <4>3
    <3> QED
      BY <3>1, <3>2
  <2> HIDE DEF value
  <2> QED
    BY <1>3, <1>6, <2>1, <2>2, ValueVoter
<1> QED
  BY <1>5, <1>6

LEMMA LtpTyped ==
    ASSUME Curves, NEW c, ConfigTyped(c), EverySectionFits(c), NEW b, IsBook(b),
           NEW tape, tape.last \in Int, tape.reference \in Int,
           tape.age \in {"unknown", "stale", "fresh"}
    PROVE  IsVoter(LtpConfirmation(c.ltp_confirmation, tape, b))
<1> DEFINE f == c.ltp_confirmation
           drift == Tanh(100 * (tape.last - tape.reference), f.scale_ticks)
           spread == b.asks[1].price - b.bids[1].price
           place == IF spread = 0 THEN 0
                    ELSE Clamped(Twentieths(2 * tape.last - TwiceMid(b), spread), -20, 20)
           blend == (100 - f.position_weight) * drift + f.position_weight * place
           local == CASE tape.age = "unknown" -> 60
                      [] tape.age = "stale" -> 30
                      [] tape.age = "fresh" -> 100
<1>1. /\ f.scale_ticks \in Int /\ f.position_weight \in Int
  BY DEF ConfigTyped, SectionTyped, Default, OfKind, Text, Boolean, DefaultLtpConfirmation
<1>2. f.scale_ticks > 0
  BY DEF EverySectionFits, LtpConfirmationFits, Positive
<1>3. LtpConfirmation(f, tape, b)
        = IF tape.last <= 0 \/ ~tape.warm THEN Excluded ELSE Value(Twentieths(blend, 2000), local)
  BY DEF LtpConfirmation
<1>4. local \in Int
  OBVIOUS
<1>5. spread \in Int /\ spread >= 0 /\ TwiceMid(b) \in Int
  BY BookTouch DEF TwiceMid
<1> HIDE DEF f, spread, local
<1>6. drift \in Int
  <2> DEFINE n == 100 * (tape.last - tape.reference)
  <2>1. n \in Int
    OBVIOUS
  <2> HIDE DEF n
  <2>2. Tanh(n, f.scale_ticks) \in -20..20
    BY <1>1, <1>2, <2>1 DEF Curves
  <2> QED
    BY <2>2 DEF n
<1>7. place \in Int
  <2>1. CASE spread = 0
    BY <2>1
  <2>2. CASE spread # 0
    <3> DEFINE n == 2 * tape.last - TwiceMid(b)
    <3>1. n \in Int /\ spread > 0
      BY <1>5, <2>2
    <3> HIDE DEF n
    <3>2. Twentieths(n, spread) \in Int
      BY <1>5, <3>1, TwentiethsTyped
    <3>3. Clamped(Twentieths(n, spread), -20, 20) \in Int
      BY <3>2, ClampedTyped
    <3> QED
      BY <2>2, <3>3 DEF n
  <2> QED
    BY <2>1, <2>2
<1> HIDE DEF drift, place
<1>8. blend \in Int
  <2>1. (100 - f.position_weight) * drift \in Int /\ f.position_weight * place \in Int
    BY <1>1, <1>6, <1>7
  <2> QED
    BY <2>1
<1> HIDE DEF blend
<1>9. Twentieths(blend, 2000) \in Int
  BY <1>8, TwentiethsTyped
<1> QED
  BY <1>3, <1>4, <1>9, ExcludedVoter, ValueVoter DEF f

LEMMA FeaturesTyped ==
    ASSUME Curves, NEW c, ConfigTyped(c), EverySectionFits(c), NEW b, IsBook(b),
           NEW around, IsHistory(around)
    PROVE  \A name \in DOMAIN Features(c, around, b) : IsVoter(Features(c, around, b)[name])
<1> DEFINE names == {"microprice", "weighted_obi", "depth_slope", "ltp_confirmation"}
                        \cup DOMAIN around.others
           made == Features(c, around, b)
<1>1. made = [name \in names |->
                CASE name = "microprice" -> Microprice(b)
                  [] name = "weighted_obi" -> WeightedObi(c.weighted_obi, b)
                  [] name = "depth_slope" -> DepthSlope(c.depth_slope, b)
                  [] name = "ltp_confirmation" ->
                        LtpConfirmation(c.ltp_confirmation, around.tape, b)
                  [] OTHER -> around.others[name]]
  BY DEF Features
<1>2. /\ IsVoter(Microprice(b)) /\ IsVoter(WeightedObi(c.weighted_obi, b))
      /\ IsVoter(DepthSlope(c.depth_slope, b))
  BY MicropriceTyped, WeightedObiTyped, DepthSlopeTyped
<1>3. IsVoter(LtpConfirmation(c.ltp_confirmation, around.tape, b))
  BY LtpTyped DEF IsHistory
<1>4. \A name \in DOMAIN around.others : IsVoter(around.others[name])
  BY DEF IsHistory, FeatureValues, IsVoter
<1> HIDE DEF made
<1>5. ASSUME NEW name \in names
      PROVE  IsVoter(made[name])
  <2>1. CASE name = "microprice"
    BY <1>1, <1>2, <2>1
  <2>2. CASE name = "weighted_obi"
    BY <1>1, <1>2, <2>2
  <2>3. CASE name = "depth_slope"
    BY <1>1, <1>2, <2>3
  <2>4. CASE name = "ltp_confirmation"
    BY <1>1, <1>3, <2>4
  <2>5. CASE name \notin {"microprice", "weighted_obi", "depth_slope", "ltp_confirmation"}
    <3>1. name \in DOMAIN around.others /\ made[name] = around.others[name]
      BY <1>1, <2>5
    <3> QED
      BY <1>4, <3>1
  <2> QED
    BY <2>1, <2>2, <2>3, <2>4, <2>5
<1>6. DOMAIN made = names
  BY <1>1
<1> QED
  BY <1>5, <1>6 DEF made

LEMMA ProductTyped ==
    ASSUME NEW a \in Int, NEW b \in Int
    PROVE  Product(a, b) \in Int
<1>1. a * b \in Int
  OBVIOUS
<1> QED
  BY <1>1 DEF Product

LEMMA WithinTyped ==
    ASSUME NEW v \in Int, NEW low \in Int, NEW high \in Int, low <= high
    PROVE  /\ Within(v, low, high) \in Int
           /\ low <= Within(v, low, high) /\ Within(v, low, high) <= high
  BY DEF Within

LEMMA ScaledTyped ==
    ASSUME NEW v \in Int, NEW low \in Int, NEW high \in Int, ScaleFits(low, high)
    PROVE  Scaled(v, low, high) \in Int
<1>1. high - low \in Int /\ high - low > 0 /\ 100 * (v - low) \in Int
  BY DEF ScaleFits
<1> DEFINE share == (100 * (v - low)) \div (high - low)
<1>2. share \in Int
  BY <1>1
<1> HIDE DEF share
<1>3. Within(share, 0, 100) \in Int
  BY <1>2, WithinTyped
<1> QED
  BY <1>3 DEF Scaled, share

LEMMA UsableTyped ==
    ASSUME NEW c, NEW b, IsBook(b)
    PROVE  UsableBothSides(c, b) \in Int
<1>1. ASSUME NEW levels, NEW sign \in {1, -1}, IsLadder(levels, sign)
      PROVE  UsableLevels(c, levels) \in Nat
  <2> DEFINE S == {i \in DOMAIN levels :
                      \A j \in 1..i : /\ levels[j].quantity > 0 /\ levels[j].price > 0
                                      /\ levels[j].orders >= c.quality.min_orders_per_level}
  <2>1. IsFiniteSet(DOMAIN levels)
    BY <1>1, LadderFields, FS_Interval
  <2>2. S \subseteq DOMAIN levels
    OBVIOUS
  <2> HIDE DEF S
  <2>3. Cardinality(S) \in Nat
    BY <2>1, <2>2, FS_Subset, FS_CardinalityType
  <2> QED
    BY <2>3 DEF UsableLevels, S
<1>2. UsableLevels(c, b.bids) \in Nat /\ UsableLevels(c, b.asks) \in Nat
  BY <1>1 DEF IsBook
<1> QED
  BY <1>2, WithinTyped DEF UsableBothSides

\* The statistics of a snapshot: history's, and what the book adds.
LEMMA MeasuredFields ==
    ASSUME NEW c, NEW b, IsBook(b), NEW around, IsHistory(around)
    PROVE  LET s == Measured(c, around, b)
           IN /\ s.spread \in Int /\ s.usable_levels \in Int
              /\ s.spread_mean \in Nat /\ s.mid_volatility \in Nat /\ s.relative_depth \in Nat
              /\ s.touch_stability \in 0..100 /\ s.warmup \in 0..100
              /\ s.compression.value \in Int
<1> DEFINE s == Measured(c, around, b)
           names == {"spread", "usable_levels"} \cup DOMAIN around.s
<1>1. s = [key \in names |->
            CASE key = "spread" -> 100 * (b.asks[1].price - b.bids[1].price)
              [] key = "usable_levels" -> UsableBothSides(c, b)
              [] OTHER -> around.s[key]]
  BY DEF Measured
<1>2. UsableBothSides(c, b) \in Int
  BY UsableTyped
<1>3. 100 * (b.asks[1].price - b.bids[1].price) \in Int
  BY BookTouch
<1> HIDE DEF s
<1>4. s.spread \in Int /\ s.usable_levels \in Int
  BY <1>1, <1>2, <1>3
<1>5. ASSUME NEW key \in Counted \cup Shares \cup {"compression"}
      PROVE  s[key] = around.s[key]
  <2>1. key \in DOMAIN around.s
    BY DEF IsHistory
  <2>2. key # "spread" /\ key # "usable_levels"
    BY DEF Counted, Shares
  <2> QED
    BY <1>1, <2>1, <2>2
<1>6. /\ s.spread_mean \in Nat /\ s.mid_volatility \in Nat /\ s.relative_depth \in Nat
      /\ s.touch_stability \in 0..100 /\ s.warmup \in 0..100
  BY <1>5 DEF IsHistory, Counted, Shares
<1>7. s.compression.value \in Int
  BY <1>5 DEF IsHistory
<1> QED
  BY <1>4, <1>6, <1>7 DEF s

LEMMA GuardedTyped ==
    ASSUME NEW factor \in Int
    PROVE  Guarded(factor) \in 0..100
  BY DEF Guarded, Within

IsFactors(factors) ==
    \A key \in {"spread", "liquidity", "volatility", "book_quality", "stability", "warmup"} :
        factors[key] \in 0..100

LEMMA FactorsTyped ==
    ASSUME NEW c, ConfigTyped(c), EverySectionFits(c), Raises(c) = {}, NEW b, IsBook(b),
           NEW around, IsHistory(around)
    PROVE  IsFactors(Factors(c, Measured(c, around, b)))
<1> DEFINE s == Measured(c, around, b)
<1>1. /\ s.spread \in Int /\ s.usable_levels \in Int
      /\ s.spread_mean \in Nat /\ s.mid_volatility \in Nat /\ s.relative_depth \in Nat
      /\ s.touch_stability \in 0..100 /\ s.warmup \in 0..100
      /\ s.compression.value \in Int
  BY MeasuredFields
<1> HIDE DEF s
<1>2. /\ c.quality.max_signal_spread_ticks \in Int /\ c.quality.min_depth_levels \in Int
      /\ c.quality.min_relative_depth \in Int
  BY DEF ConfigTyped, SectionTyped, Default, OfKind, Text, Boolean, DefaultQuality
<1>3. /\ c.confidence.spread_tight_ticks \in Int /\ c.confidence.spread_wide_ticks \in Int
      /\ c.confidence.volatility_tolerance \in Int
  BY DEF ConfigTyped, SectionTyped, Default, OfKind, Text, Boolean, DefaultConfidence
<1>4. c.confidence.volatility_tolerance > 0
  BY DEF EverySectionFits, ConfidenceFits, Positive
<1>5. QualityScales(c) /\ ConfidenceScales(c)
  <2>1. ~QualityScales(c) => "quality" \in Raises(c)
    BY DEF Raises
  <2>2. ~ConfidenceScales(c) => "confidence" \in Raises(c)
    BY DEF Raises
  <2> QED
    BY <2>1, <2>2
<1>6. /\ ScaleFits(-c.quality.max_signal_spread_ticks, -100)
      /\ ScaleFits(c.quality.min_depth_levels - 1, 5)
      /\ ScaleFits(c.quality.min_relative_depth, 200)
      /\ ScaleFits(-c.confidence.spread_wide_ticks, -c.confidence.spread_tight_ticks)
  BY <1>2, <1>5 DEF QualityScales, ConfidenceScales, ScaleFits
<1>7. LiquidityScore(c, s) \in Int
  <2> DEFINE depth == 2 * s.relative_depth
             low == c.quality.min_relative_depth
  <2>1. depth \in Int /\ low \in Int /\ 200 \in Int /\ ScaleFits(low, 200)
    BY <1>1, <1>2, <1>6
  <2> HIDE DEF depth, low
  <2>2. Scaled(depth, low, 200) \in Int
    BY <2>1, ScaledTyped
  <2> QED
    BY <2>2 DEF LiquidityScore, depth, low
<1>8. BookQuality(c, s) \in Int
  <2> DEFINE spread == Scaled(-s.spread, -c.quality.max_signal_spread_ticks, -100)
             ladder == Scaled(s.usable_levels, c.quality.min_depth_levels - 1, 5)
  <2>1. spread \in Int
    <3>1. -s.spread \in Int /\ -c.quality.max_signal_spread_ticks \in Int
      BY <1>1, <1>2
    <3> QED
      BY <1>6, <3>1, ScaledTyped
  <2>2. ladder \in Int
    <3>1. c.quality.min_depth_levels - 1 \in Int
      BY <1>2
    <3> QED
      BY <1>1, <1>6, <3>1, ScaledTyped
  <2> HIDE DEF spread, ladder
  <2>3. Product(spread, ladder) \in Int /\ Product(LiquidityScore(c, s), s.warmup) \in Int
    <3>1. s.warmup \in Int
      BY <1>1
    <3>2. Product(spread, ladder) \in Int
      BY <2>1, <2>2, ProductTyped
    <3>3. Product(LiquidityScore(c, s), s.warmup) \in Int
      BY <1>7, <3>1, ProductTyped
    <3> QED
      BY <3>2, <3>3
  <2> QED
    BY <2>3, ProductTyped DEF BookQuality, spread, ladder
<1>9. VolatilityFactor(c, s) \in Int
  <2> DEFINE mean == IF s.spread_mean > 100 THEN s.spread_mean ELSE 100
             reference == Product(mean, c.confidence.volatility_tolerance)
             share == 100 - (100 * s.mid_volatility) \div reference
  <2>1. mean \in Int /\ mean >= 100
    BY <1>1
  <2> HIDE DEF mean
  <2>2. reference \in Int /\ reference > 0
    <3> DEFINE y == mean * c.confidence.volatility_tolerance
    <3>1. y \in Int /\ y >= 100
      BY <1>3, <1>4, <2>1
    <3> HIDE DEF y
    <3>2. y \div 100 \in Int /\ y \div 100 > 0
      BY <3>1
    <3> QED
      BY <3>2 DEF Product, y
  <2> HIDE DEF reference
  <2>3. share \in Int
    BY <1>1, <2>2
  <2>4. Within(share, 0, 100) \in Int
    BY <2>3, WithinTyped
  <2>5. VolatilityFactor(c, s)
            = IF ~s.mid_volatility_ready THEN 100 ELSE Within(share, 0, 100)
    BY DEF VolatilityFactor, reference, mean
  <2> QED
    BY <2>4, <2>5
<1>10. StabilityFactor(s) \in Int
  <2>1. 75 + s.compression.value \div 4 \in Int /\ s.touch_stability \in Int
    BY <1>1
  <2>2. Product(s.touch_stability, 75 + s.compression.value \div 4) \in Int
    BY <2>1, ProductTyped
  <2> QED
    BY <2>1, <2>2 DEF StabilityFactor
<1>11. Scaled(-s.spread, -c.confidence.spread_wide_ticks, -c.confidence.spread_tight_ticks) \in Int
  <2>1. /\ -s.spread \in Int /\ -c.confidence.spread_wide_ticks \in Int
        /\ -c.confidence.spread_tight_ticks \in Int
    BY <1>1, <1>3
  <2> QED
    BY <1>6, <2>1, ScaledTyped
<1> DEFINE touch == Scaled(-s.spread, -c.confidence.spread_wide_ticks,
                           -c.confidence.spread_tight_ticks)
<1> HIDE DEF touch
<1>12. /\ Guarded(touch) \in 0..100 /\ Guarded(LiquidityScore(c, s)) \in 0..100
       /\ Guarded(VolatilityFactor(c, s)) \in 0..100 /\ Guarded(BookQuality(c, s)) \in 0..100
       /\ Guarded(StabilityFactor(s)) \in 0..100 /\ Guarded(s.warmup) \in 0..100
  BY <1>1, <1>7, <1>8, <1>9, <1>10, <1>11, GuardedTyped DEF touch
<1>13. Factors(c, s)
        = [spread |-> Guarded(touch), liquidity |-> Guarded(LiquidityScore(c, s)),
           volatility |-> Guarded(VolatilityFactor(c, s)),
           book_quality |-> Guarded(BookQuality(c, s)),
           stability |-> Guarded(StabilityFactor(s)), warmup |-> Guarded(s.warmup)]
  BY DEF Factors, touch
<1> DEFINE made == Factors(c, s)
<1> HIDE DEF made
<1>14. IsFactors(made)
  BY <1>12, <1>13 DEF IsFactors, made
<1> QED
  BY <1>14 DEF made, s

LEMMA ConfidenceTyped ==
    ASSUME Curves, NEW c, ConfigTyped(c), EverySectionFits(c), NEW name, NEW feature,
           IsVoter(feature), NEW factors, IsFactors(factors), NEW regime
    PROVE  ConfidenceFor(c, name, feature, factors, regime) \in Int
<1> DEFINE sensitivity == SensitivityFor(c.confidence, name)
           powered(key) == Power(factors[key], sensitivity[key])
           keys == {"spread", "liquidity", "volatility", "book_quality", "stability", "warmup"}
<1>1. \A key \in keys : sensitivity[key] \in Nat
  <2>1. CASE name \in DOMAIN c.confidence.sensitivities
    <3>1. /\ \A key \in keys : key \in DOMAIN c.confidence.sensitivities[name]
                               /\ c.confidence.sensitivities[name][key] \in Int
      BY <2>1 DEF ConfigTyped, SectionTyped, Default, OfKind, Text, Boolean,
                  DefaultConfidence, NeutralSensitivity
    <3>2. SensitivityFits(c.confidence.sensitivities[name])
      BY <2>1 DEF EverySectionFits, ConfidenceFits
    <3>3. sensitivity = c.confidence.sensitivities[name]
      BY <2>1 DEF SensitivityFor
    <3> HIDE DEF sensitivity
    <3> QED
      BY <3>1, <3>2, <3>3 DEF SensitivityFits, InRange
  <2>2. CASE name \notin DOMAIN c.confidence.sensitivities
    BY <2>2 DEF SensitivityFor, NeutralSensitivity
  <2> QED
    BY <2>1, <2>2
<1> HIDE DEF sensitivity
<1>2. \A key \in keys : powered(key) \in Int
  <2> SUFFICES ASSUME NEW key \in keys PROVE powered(key) \in Int
    OBVIOUS
  <2>1. factors[key] \in 0..100 /\ sensitivity[key] \in Nat
    BY <1>1 DEF IsFactors
  <2>2. Power(factors[key], sensitivity[key]) \in 0..100
    BY <2>1 DEF Curves
  <2> QED
    BY <2>2
<1>3. MultiplierFor(c.confidence, regime) \in Int
  <2>1. \A r \in DOMAIN c.confidence.regime_multipliers :
            c.confidence.regime_multipliers[r] \in Int
    BY DEF ConfigTyped, SectionTyped, Default, OfKind, Text, Boolean, DefaultConfidence
  <2> QED
    BY <2>1 DEF MultiplierFor
<1>4. feature.local \in Int
  BY DEF IsVoter
<1> DEFINE spread == powered("spread")
           liquidity == powered("liquidity")
           volatility == powered("volatility")
           quality == powered("book_quality")
           stability == powered("stability")
           warmup == powered("warmup")
           multiplier == MultiplierFor(c.confidence, regime)
           touch == Product(Product(spread, liquidity), volatility)
           market == Product(Product(Product(touch, quality), stability), warmup)
           confidence == Product(Product(market, feature.local), multiplier)
<1>5. /\ spread \in Int /\ liquidity \in Int /\ volatility \in Int /\ quality \in Int
      /\ stability \in Int /\ warmup \in Int /\ multiplier \in Int
  BY <1>2, <1>3
<1> HIDE DEF spread, liquidity, volatility, quality, stability, warmup, multiplier
<1>6. touch \in Int
  <2>1. Product(spread, liquidity) \in Int
    BY <1>5, ProductTyped
  <2> QED
    BY <1>5, <2>1, ProductTyped
<1> HIDE DEF touch
<1>7. market \in Int
  <2>1. Product(touch, quality) \in Int
    BY <1>5, <1>6, ProductTyped
  <2>2. Product(Product(touch, quality), stability) \in Int
    BY <1>5, <2>1, ProductTyped
  <2> QED
    BY <1>5, <2>2, ProductTyped
<1> HIDE DEF market
<1>8. confidence \in Int
  <2>1. Product(market, feature.local) \in Int
    BY <1>4, <1>7, ProductTyped
  <2> QED
    BY <1>5, <2>1, ProductTyped
<1>9. ConfidenceFor(c, name, feature, factors, regime)
        = IF ~feature.valid \/ confidence < c.confidence.min_feature_confidence THEN 0
          ELSE confidence
  BY DEF ConfidenceFor, market, touch, spread, liquidity, volatility, quality, stability,
         warmup, multiplier, sensitivity
<1> HIDE DEF confidence
<1> QED
  BY <1>8, <1>9

\* What the composite is given.
IsVotes(v) == \A name \in DOMAIN v : v[name].value \in Int /\ v[name].confidence \in Int

LEMMA VotesTyped ==
    ASSUME Curves, NEW c, ConfigTyped(c), EverySectionFits(c), Raises(c) = {},
           NEW b, IsBook(b), NEW around, IsHistory(around)
    PROVE  IsVotes(Votes(c, around, b))
<1> DEFINE features == Features(c, around, b)
           factors == Factors(c, Measured(c, around, b))
           made == Votes(c, around, b)
<1>1. /\ \A name \in DOMAIN features : IsVoter(features[name])
      /\ IsFactors(factors)
  <2> HIDE DEF features, factors
  <2> QED
    BY FeaturesTyped, FactorsTyped DEF features, factors
<1>2. made = [name \in DOMAIN features |->
                [valid |-> features[name].valid, value |-> features[name].value,
                 confidence |-> ConfidenceFor(c, name, features[name], factors,
                                              around.regime)]]
  BY DEF Votes
<1> HIDE DEF features, factors, made
<1>3. \A name \in DOMAIN features :
        ConfidenceFor(c, name, features[name], factors, around.regime) \in Int
  BY <1>1, ConfidenceTyped
<1>4. IsVotes(made)
  BY <1>1, <1>2, <1>3 DEF IsVotes, IsVoter
<1> QED
  BY <1>4 DEF made

\* The terms of a Sum.
Terms(f, names) ==
    [i \in DOMAIN FeatureOrder |-> IF FeatureOrder[i] \in names THEN f[FeatureOrder[i]] ELSE 0]

LEMMA TermsTyped ==
    ASSUME NEW f, NEW names, \A n \in names : f[n] \in Int
    PROVE  /\ Terms(f, names) \in Seq(Int) /\ Len(Terms(f, names)) = Len(FeatureOrder)
           /\ Len(FeatureOrder) \in Nat /\ DOMAIN FeatureOrder = 1..Len(FeatureOrder)
<1>1. DOMAIN FeatureOrder = 1..Len(FeatureOrder) /\ Len(FeatureOrder) \in Nat
  BY DEF FeatureOrder
<1>2. \A i \in DOMAIN FeatureOrder :
        (IF FeatureOrder[i] \in names THEN f[FeatureOrder[i]] ELSE 0) \in Int
  OBVIOUS
<1> QED
  BY <1>1, <1>2 DEF Terms

LEMMA SumIsTotal ==
    ASSUME NEW f, NEW names
    PROVE  Sum(f, names) = Total(Terms(f, names))
  BY DEF Sum, Terms

LEMMA SumTyped ==
    ASSUME NEW f, NEW names, \A n \in names : f[n] \in Int
    PROVE  Sum(f, names) \in Int
  BY TermsTyped, TotalTyped, SumIsTotal

LEMMA SumScaled ==
    ASSUME NEW f, NEW g, NEW names, NEW k \in Int,
           \A n \in names : f[n] \in Int /\ g[n] = k * f[n]
    PROVE  Sum(g, names) = k * Sum(f, names)
<1>1. \A n \in names : g[n] \in Int
  OBVIOUS
<1>2. /\ Terms(f, names) \in Seq(Int) /\ Terms(g, names) \in Seq(Int)
      /\ Len(Terms(f, names)) = Len(Terms(g, names))
      /\ DOMAIN FeatureOrder = 1..Len(Terms(f, names))
  BY <1>1, TermsTyped
<1>3. \A i \in 1..Len(Terms(f, names)) : Terms(g, names)[i] = k * Terms(f, names)[i]
  BY <1>2 DEF Terms
<1> QED
  BY <1>2, <1>3, TotalScaled, SumIsTotal

LEMMA SumBounded ==
    ASSUME NEW f, NEW g, NEW names, NEW k \in Int,
           \A n \in names : f[n] \in Int /\ g[n] \in Int
    PROVE  /\ (\A n \in names : g[n] <= k * f[n]) => Sum(g, names) <= k * Sum(f, names)
           /\ (\A n \in names : g[n] >= k * f[n]) => Sum(g, names) >= k * Sum(f, names)
<1>1. /\ Terms(f, names) \in Seq(Int) /\ Terms(g, names) \in Seq(Int)
      /\ Len(Terms(f, names)) = Len(Terms(g, names))
      /\ DOMAIN FeatureOrder = 1..Len(Terms(f, names))
  BY TermsTyped
<1>2. ASSUME \A n \in names : g[n] <= k * f[n]
      PROVE  Total(Terms(g, names)) <= k * Total(Terms(f, names))
  <2>1. \A i \in 1..Len(Terms(g, names)) : Terms(g, names)[i] <= k * Terms(f, names)[i]
    BY <1>1, <1>2 DEF Terms
  <2> QED
    BY <1>1, <2>1, TotalBounded
<1>3. ASSUME \A n \in names : g[n] >= k * f[n]
      PROVE  Total(Terms(g, names)) >= k * Total(Terms(f, names))
  <2>1. \A i \in 1..Len(Terms(g, names)) : Terms(g, names)[i] >= k * Terms(f, names)[i]
    BY <1>1, <1>3 DEF Terms
  <2> QED
    BY <1>1, <2>1, TotalBoundedBelow
<1> QED
  BY <1>2, <1>3, SumIsTotal

IsTable(table) == \A n \in DOMAIN table : table[n] \in Int

\* The weights a cap leaves: numbers, for the valid features with one.
LEMMA CappedTyped ==
    ASSUME NEW cap \in Int, NEW table, IsTable(table), NEW v
    PROVE  /\ DOMAIN Capped(cap, table, v) = Weighted(table, v)
           /\ \A n \in Weighted(table, v) : Capped(cap, table, v)[n] \in Int
           /\ \A n \in Weighted(table, v) : table[n] \in Int /\ table[n] > 0
<1> DEFINE names == Weighted(table, v)
           members == CollinearGroup \cap names
           total == Sum(table, names)
           group == Sum(table, members)
<1>1. \A n \in names : table[n] \in Int /\ table[n] > 0
  BY DEF Weighted, IsTable
<1> HIDE DEF names
<1>2. total \in Int /\ group \in Int
  BY <1>1, SumTyped
<1>3. Capped(cap, table, v)
        = IF Cardinality(members) >= 2 /\ 100 * group > cap * total
            THEN [n \in names |-> IF n \in members THEN table[n] * cap * total
                                                   ELSE table[n] * 100 * group]
            ELSE [n \in names |-> table[n]]
  BY DEF Capped, names
<1> HIDE DEF members, total, group
<1>4. \A n \in names : table[n] * cap * total \in Int /\ table[n] * 100 * group \in Int
  BY <1>1, <1>2
<1> QED
  BY <1>1, <1>3, <1>4 DEF names

\* The parts of a composite.
Masses(c, table, v) ==
    [n \in DOMAIN Capped(c.composite.collinear_cap, table, v) |->
        Capped(c.composite.collinear_cap, table, v)[n] * v[n].confidence]

UsedBy(c, table, v) ==
    {n \in DOMAIN Capped(c.composite.collinear_cap, table, v) : Masses(c, table, v)[n] > 0}

Pulls(c, table, v) ==
    [n \in DOMAIN Capped(c.composite.collinear_cap, table, v) |->
        v[n].value * Masses(c, table, v)[n]]

LEMMA CompositeIs ==
    ASSUME NEW c, NEW table, NEW v
    PROVE  LET made == Composite(c, table, v)
               used == UsedBy(c, table, v)
               mass == Sum(Masses(c, table, v), used)
           IN /\ made.used = used /\ made.mass = mass
              /\ made.numerator = Sum(Pulls(c, table, v), used)
              /\ made.valid = (used # {} /\ ScoreIsUsable(c, used, mass,
                                    Sum(Capped(c.composite.collinear_cap, table, v), used)))
  BY DEF Composite, UsedBy, Masses, Pulls

LEMMA PartsTyped ==
    ASSUME NEW c, ConfigTyped(c), NEW table, IsTable(table), NEW v, IsVotes(v)
    PROVE  \A n \in UsedBy(c, table, v) :
                /\ v[n].value \in Int
                /\ Masses(c, table, v)[n] \in Int /\ Masses(c, table, v)[n] > 0
                /\ Pulls(c, table, v)[n] = v[n].value * Masses(c, table, v)[n]
                /\ Pulls(c, table, v)[n] \in Int
<1> DEFINE cap == c.composite.collinear_cap
           weights == Capped(cap, table, v)
<1>1. cap \in Int
  BY DEF ConfigTyped, SectionTyped, Default, OfKind, Text, Boolean, DefaultComposite
<1> HIDE DEF cap
<1>2. DOMAIN weights = Weighted(table, v) /\ \A n \in DOMAIN weights : weights[n] \in Int
  BY <1>1, CappedTyped
<1>3. \A n \in DOMAIN weights : v[n].value \in Int /\ v[n].confidence \in Int
  BY <1>2 DEF Weighted, IsVotes
<1> HIDE DEF weights
<1>4. \A n \in DOMAIN weights :
        /\ Masses(c, table, v)[n] = weights[n] * v[n].confidence
        /\ Pulls(c, table, v)[n] = v[n].value * Masses(c, table, v)[n]
  BY DEF Masses, Pulls, weights, cap
<1>5. \A n \in DOMAIN weights : Masses(c, table, v)[n] \in Int
  BY <1>2, <1>3, <1>4
<1>6. \A n \in DOMAIN weights : Pulls(c, table, v)[n] \in Int
  BY <1>3, <1>4, <1>5
<1>7. \A n \in UsedBy(c, table, v) : n \in DOMAIN weights /\ Masses(c, table, v)[n] > 0
  BY DEF UsedBy, weights, cap
<1> QED
  BY <1>3, <1>4, <1>5, <1>6, <1>7

\* The score is an average of the votes it uses.
LEMMA ScoreIsBetween ==
    ASSUME NEW c, ConfigTyped(c), NEW table, IsTable(table), NEW v, IsVotes(v),
           NEW bound \in Int
    PROVE  LET made == Composite(c, table, v)
           IN /\ (\A n \in made.used : v[n].value <= bound)
                    => made.numerator <= bound * made.mass
              /\ (\A n \in made.used : v[n].value >= bound)
                    => made.numerator >= bound * made.mass
<1> DEFINE used == UsedBy(c, table, v)
           mass == Masses(c, table, v)
           pull == Pulls(c, table, v)
           made == Composite(c, table, v)
<1>1. /\ made.used = used /\ made.mass = Sum(mass, used)
      /\ made.numerator = Sum(pull, used)
  BY CompositeIs
<1>2. \A n \in used : /\ v[n].value \in Int /\ mass[n] \in Int /\ mass[n] > 0
                      /\ pull[n] = v[n].value * mass[n] /\ pull[n] \in Int
  BY PartsTyped
<1> HIDE DEF used, mass, pull, made
<1>3. ASSUME NEW n \in used
      PROVE  /\ v[n].value <= bound => pull[n] <= bound * mass[n]
             /\ v[n].value >= bound => pull[n] >= bound * mass[n]
  <2> DEFINE m == mass[n]
             value == v[n].value
  <2>1. m \in Int /\ m > 0 /\ value \in Int /\ pull[n] = value * m
    BY <1>2
  <2> HIDE DEF m, value
  <2>2. value <= bound => m * value <= m * bound
    BY <2>1, TimesPositive
  <2>3. bound <= value => m * bound <= m * value
    BY <2>1, TimesPositive
  <2>4. m * value = value * m /\ m * bound = bound * m
    BY <2>1
  <2> QED
    BY <2>1, <2>2, <2>3, <2>4 DEF m, value
<1>4. (\A n \in used : v[n].value <= bound) => Sum(pull, used) <= bound * Sum(mass, used)
  BY <1>2, <1>3, SumBounded
<1>5. (\A n \in used : v[n].value >= bound) => Sum(pull, used) >= bound * Sum(mass, used)
  BY <1>2, <1>3, SumBounded
<1> QED
  BY <1>1, <1>4, <1>5 DEF made

\* In other units the cap leaves the same weights, up to one factor.
LEMMA CappedScales ==
    ASSUME NEW cap \in Int, NEW table, IsTable(table), NEW v,
           NEW doubled, doubled = [n \in DOMAIN table |-> 2 * table[n]]
    PROVE  /\ Weighted(doubled, v) = Weighted(table, v)
           /\ \E k \in {2, 4} : \A n \in Weighted(table, v) :
                Capped(cap, doubled, v)[n] = k * Capped(cap, table, v)[n]
<1> DEFINE names == Weighted(table, v)
           members == CollinearGroup \cap names
           total == Sum(table, names)
           group == Sum(table, members)
           capped == Cardinality(members) >= 2 /\ 100 * group > cap * total
<1>1. Weighted(doubled, v) = names
  <2>1. \A n \in DOMAIN table : doubled[n] > 0 <=> table[n] > 0
    BY DEF IsTable
  <2> QED
    BY <2>1 DEF Weighted
<1>2. \A n \in names : table[n] \in Int /\ doubled[n] = 2 * table[n]
  BY DEF Weighted, IsTable
<1> HIDE DEF names
<1>3. /\ total \in Int /\ group \in Int
      /\ Sum(doubled, names) = 2 * total /\ Sum(doubled, members) = 2 * group
  <2>1. \A n \in members : table[n] \in Int /\ doubled[n] = 2 * table[n]
    BY <1>2
  <2> HIDE DEF members
  <2>2. total \in Int /\ group \in Int
    BY <1>2, <2>1, SumTyped
  <2>3. Sum(doubled, names) = 2 * Sum(table, names)
    BY <1>2, SumScaled
  <2>4. Sum(doubled, members) = 2 * Sum(table, members)
    BY <2>1, SumScaled
  <2> QED
    BY <2>2, <2>3, <2>4
<1>4. /\ Capped(cap, table, v)
            = IF capped
                THEN [n \in names |-> IF n \in members THEN table[n] * cap * total
                                                       ELSE table[n] * 100 * group]
                ELSE [n \in names |-> table[n]]
      /\ Capped(cap, doubled, v)
            = IF Cardinality(members) >= 2 /\ 100 * (2 * group) > cap * (2 * total)
                THEN [n \in names |-> IF n \in members THEN doubled[n] * cap * (2 * total)
                                                       ELSE doubled[n] * 100 * (2 * group)]
                ELSE [n \in names |-> doubled[n]]
  <2>1. Capped(cap, table, v)
          = IF capped
              THEN [n \in names |-> IF n \in members THEN table[n] * cap * total
                                                     ELSE table[n] * 100 * group]
              ELSE [n \in names |-> table[n]]
    BY DEF Capped, names
  <2>2. Capped(cap, doubled, v)
          = IF Cardinality(members) >= 2
               /\ 100 * Sum(doubled, members) > cap * Sum(doubled, names)
              THEN [n \in names |-> IF n \in members
                                      THEN doubled[n] * cap * Sum(doubled, names)
                                      ELSE doubled[n] * 100 * Sum(doubled, members)]
              ELSE [n \in names |-> doubled[n]]
    BY <1>1 DEF Capped
  <2>3. Sum(doubled, names) = 2 * total /\ Sum(doubled, members) = 2 * group
    BY <1>3
  <2> HIDE DEF members, total, group, capped
  <2>4. Capped(cap, doubled, v)
          = IF Cardinality(members) >= 2 /\ 100 * (2 * group) > cap * (2 * total)
              THEN [n \in names |-> IF n \in members THEN doubled[n] * cap * (2 * total)
                                                     ELSE doubled[n] * 100 * (2 * group)]
              ELSE [n \in names |-> doubled[n]]
    BY <2>2, <2>3, Zenon
  <2> QED
    BY <2>1, <2>4, Zenon
<1> HIDE DEF members, total, group
<1>5. (100 * (2 * group) > cap * (2 * total)) <=> (100 * group > cap * total)
  <2>1. cap * (2 * total) = 2 * (cap * total) /\ cap * total \in Int
    BY <1>3
  <2> QED
    BY <1>3, <2>1
<1>6. ASSUME capped, NEW n \in names
      PROVE  Capped(cap, doubled, v)[n] = 4 * Capped(cap, table, v)[n]
  <2> DEFINE t == table[n]
  <2>1. t \in Int /\ doubled[n] = 2 * t
    BY <1>2
  <2>2. /\ (2 * t) * cap * (2 * total) = 4 * (t * cap * total)
        /\ (2 * t) * 100 * (2 * group) = 4 * (t * 100 * group)
    BY <1>3, <2>1
  <2>3. /\ Capped(cap, table, v)[n]
              = IF n \in members THEN t * cap * total ELSE t * 100 * group
        /\ Capped(cap, doubled, v)[n]
              = IF n \in members THEN (2 * t) * cap * (2 * total)
                                 ELSE (2 * t) * 100 * (2 * group)
    <3> HIDE DEF t
    <3> QED
      BY <1>4, <1>5, <1>6, <2>1 DEF t
  <2> HIDE DEF t
  <2> QED
    BY <2>2, <2>3
<1>7. ASSUME ~capped, NEW n \in names
      PROVE  Capped(cap, doubled, v)[n] = 2 * Capped(cap, table, v)[n]
  BY <1>2, <1>4, <1>5, <1>7
<1> QED
  BY <1>1, <1>6, <1>7 DEF names

(* A weight table in other units makes the same score of the same votes.   *)
LEMMA UnitsDoNotMatter ==
    ASSUME NEW c, ConfigTyped(c), NEW table, IsTable(table), NEW v, IsVotes(v),
           NEW doubled, doubled = [n \in DOMAIN table |-> 2 * table[n]]
    PROVE  LET once == Composite(c, table, v)
               twice == Composite(c, doubled, v)
           IN once.valid = twice.valid /\ once.used = twice.used
<1> DEFINE cap == c.composite.collinear_cap
           names == Weighted(table, v)
           w == Capped(cap, table, v)
           x == Capped(cap, doubled, v)
           mass == Masses(c, table, v)
           more == Masses(c, doubled, v)
           used == UsedBy(c, table, v)
           once == Composite(c, table, v)
           twice == Composite(c, doubled, v)
<1>1. cap \in Int /\ c.composite.min_confidence \in Int
  BY DEF ConfigTyped, SectionTyped, Default, OfKind, Text, Boolean, DefaultComposite
<1> HIDE DEF cap
<1>2. IsTable(doubled)
  BY DEF IsTable
<1>3. Weighted(doubled, v) = names
  BY <1>1, CappedScales
<1>4. PICK k \in {2, 4} : \A n \in names : x[n] = k * w[n]
  BY <1>1, CappedScales
<1>5. /\ DOMAIN w = names /\ DOMAIN x = names
      /\ \A n \in names : w[n] \in Int
      /\ \A n \in names : v[n].confidence \in Int
  <2>1. names \subseteq DOMAIN v
    BY DEF Weighted
  <2> QED
    BY <1>1, <1>2, <1>3, <2>1, CappedTyped DEF IsVotes
<1> HIDE DEF names, w, x
<1>6. /\ mass = [n \in names |-> w[n] * v[n].confidence]
      /\ more = [n \in names |-> x[n] * v[n].confidence]
  BY <1>5 DEF Masses, w, x, cap
<1> HIDE DEF mass, more
<1>7. ASSUME NEW n \in names
      PROVE  /\ mass[n] \in Int /\ more[n] = k * mass[n]
             /\ more[n] > 0 <=> mass[n] > 0
  <2> DEFINE a == w[n]
             b == v[n].confidence
  <2>1. /\ a \in Int /\ b \in Int /\ mass[n] = a * b /\ more[n] = (k * a) * b
    BY <1>4, <1>5, <1>6
  <2> HIDE DEF a, b
  <2>2. a * b \in Int /\ (k * a) * b = k * (a * b)
    BY <2>1
  <2> QED
    BY <2>1, <2>2
<1>8. used = {n \in names : mass[n] > 0} /\ UsedBy(c, doubled, v) = used
  <2>1. used = {n \in names : mass[n] > 0}
    BY <1>5 DEF UsedBy, w, mass, cap
  <2>2. UsedBy(c, doubled, v) = {n \in names : more[n] > 0}
    BY <1>5 DEF UsedBy, x, more, cap
  <2> HIDE DEF used
  <2> QED
    BY <1>7, <2>1, <2>2
<1> DEFINE m == Sum(mass, used)
           weight == Sum(w, used)
<1>9. /\ once.used = used
      /\ once.valid = (used # {} /\ ScoreIsUsable(c, used, m, weight))
  BY CompositeIs DEF m, mass, weight, w, cap
<1>10. /\ twice.used = used
       /\ twice.valid = (used # {} /\ ScoreIsUsable(c, used, Sum(more, used), Sum(x, used)))
  <2> DEFINE chosen == UsedBy(c, doubled, v)
  <2>1. /\ twice.used = chosen
        /\ twice.valid
              = (chosen # {} /\ ScoreIsUsable(c, chosen, Sum(more, chosen), Sum(x, chosen)))
    BY CompositeIs DEF more, x, cap
  <2>2. chosen = used
    BY <1>8
  <2> HIDE DEF chosen, used, twice
  <2> QED
    BY <2>1, <2>2, Zenon
<1> HIDE DEF used, once, twice
<1>11. /\ m \in Int /\ weight \in Int
       /\ Sum(more, used) = k * m /\ Sum(x, used) = k * weight
  <2>1. used \subseteq names
    BY <1>8
  <2>2. \A n \in used : mass[n] \in Int /\ more[n] = k * mass[n]
                        /\ w[n] \in Int /\ x[n] = k * w[n]
    BY <1>4, <1>5, <1>7, <2>1
  <2> QED
    BY <2>2, SumTyped, SumScaled
<1> HIDE DEF m, weight
<1>12. ScoreIsUsable(c, used, k * m, k * weight) <=> ScoreIsUsable(c, used, m, weight)
  <2> DEFINE least == c.composite.min_confidence
             y == least * weight
  <2>1. y \in Int /\ least * (k * weight) = k * y
    BY <1>1, <1>11
  <2> HIDE DEF least, y
  <2>2. (k * m >= k * y) <=> (m >= y)
    BY <1>11, <2>1
  <2>3. /\ ScoreIsUsable(c, used, m, weight)
                <=> Cardinality(used) >= c.composite.min_features /\ m >= y
        /\ ScoreIsUsable(c, used, k * m, k * weight)
                <=> Cardinality(used) >= c.composite.min_features /\ k * m >= k * y
    BY <2>1 DEF ScoreIsUsable, least, y
  <2> QED
    BY <2>2, <2>3
<1>13. once.valid = twice.valid
  BY <1>9, <1>10, <1>11, <1>12, Zenon
<1> QED
  BY <1>9, <1>10, <1>13 DEF once, twice

(* What is not among the near-duplicates keeps at least its share of the   *)
(* table beside them.                                                      *)
LEMMA GroupIsCapped ==
    ASSUME NEW cap \in Int, NEW table, IsTable(table), NEW v,
           CollinearGroup \cap DOMAIN Capped(cap, table, v) = CollinearGroup
    PROVE  LET capped == Capped(cap, table, v)
               group == CollinearGroup \cap DOMAIN capped
           IN \A n \in DOMAIN capped \ group :
                100 * Sum(capped, group) * table[n]
                    <= cap * Sum(table, DOMAIN capped) * capped[n]
<1> DEFINE names == Weighted(table, v)
           made == Capped(cap, table, v)
           total == Sum(table, names)
           members == CollinearGroup \cap names
           group == Sum(table, members)
<1>1. /\ DOMAIN made = names /\ \A n \in names : table[n] \in Int /\ table[n] > 0
      /\ \A n \in names : made[n] \in Int
  BY CappedTyped
<1>2. members = CollinearGroup
  BY <1>1
<1>3. Cardinality(members) = 2
  <2>1. Cardinality({"microprice", "weighted_obi"}) = 2
    <3>1. IsFiniteSet({"microprice"}) /\ Cardinality({"microprice"}) = 1
      BY FS_Singleton
    <3>2. {"microprice", "weighted_obi"} = {"microprice"} \cup {"weighted_obi"}
      OBVIOUS
    <3>3. "weighted_obi" \notin {"microprice"}
      OBVIOUS
    <3>4. Cardinality({"microprice"} \cup {"weighted_obi"}) = 1 + 1
      BY <3>1, <3>3, FS_AddElement, Zenon
    <3> QED
      BY <3>2, <3>4
  <2> QED
    BY <1>2, <2>1 DEF CollinearGroup
<1>4. made = IF 100 * group > cap * total
               THEN [n \in names |-> IF n \in members THEN table[n] * cap * total
                                                      ELSE table[n] * 100 * group]
               ELSE [n \in names |-> table[n]]
  <2>1. made = IF Cardinality(members) >= 2 /\ 100 * group > cap * total
                 THEN [n \in names |-> IF n \in members THEN table[n] * cap * total
                                                        ELSE table[n] * 100 * group]
                 ELSE [n \in names |-> table[n]]
    BY DEF Capped
  <2> HIDE DEF made, names, total, members, group
  <2>2. Cardinality(members) >= 2
    BY <1>3
  <2> QED
    BY <2>1, <2>2
<1> HIDE DEF names, made
<1>5. total \in Int /\ group \in Int
  BY <1>1, SumTyped
<1> HIDE DEF total, members, group
<1>6. members \subseteq names
  BY DEF members
<1> SUFFICES ASSUME NEW n \in names, n \notin members
             PROVE  100 * Sum(made, members) * table[n] <= cap * total * made[n]
  BY <1>1 DEF made, members, total
<1> DEFINE t == table[n]
<1>7. t \in Int /\ t > 0
  BY <1>1
<1>8. CASE 100 * group > cap * total
  <2>1. made = [i \in names |-> IF i \in members THEN table[i] * cap * total
                                                 ELSE table[i] * 100 * group]
    BY <1>4, <1>8
  <2>2. made[n] = t * 100 * group
    BY <2>1
  <2>3. Sum(made, members) = (cap * total) * group
    <3> DEFINE k == cap * total
    <3>1. k \in Int
      BY <1>5
    <3>2. \A i \in members : table[i] \in Int /\ made[i] = table[i] * cap * total
      BY <1>1, <1>6, <2>1
    <3>3. ASSUME NEW i \in members
          PROVE  made[i] = k * table[i]
      <4>1. table[i] * cap * total = k * table[i]
        BY <1>5, <3>2
      <4> QED
        BY <3>2, <4>1
    <3> HIDE DEF k
    <3>4. Sum(made, members) = k * Sum(table, members)
      BY <3>1, <3>2, <3>3, SumScaled
    <3> QED
      BY <3>4 DEF k, group
  <2> HIDE DEF t
  <2>4. 100 * ((cap * total) * group) * t = cap * total * (t * 100 * group)
    BY <1>5, <1>7
  <2>5. cap * total * (t * 100 * group) \in Int
    BY <1>5, <1>7
  <2> QED
    BY <2>2, <2>3, <2>4, <2>5 DEF t
<1>9. CASE ~(100 * group > cap * total)
  <2>1. made = [i \in names |-> table[i]]
    BY <1>4, <1>9
  <2>2. made[n] = t
    BY <2>1
  <2>3. Sum(made, members) = group
    <3>1. \A i \in members : table[i] \in Int /\ made[i] = 1 * table[i]
      BY <1>1, <1>6, <2>1
    <3>2. Sum(made, members) = 1 * Sum(table, members)
      BY <3>1, SumScaled
    <3> QED
      BY <1>5, <3>2 DEF group
  <2> HIDE DEF t
  <2>4. t * (100 * group) <= t * (cap * total)
    <3>1. cap * total \in Int /\ 100 * group \in Int
      BY <1>5
    <3> QED
      BY <1>7, <1>9, <3>1, TimesPositive
  <2>5. t * (100 * group) = 100 * group * t /\ t * (cap * total) = cap * total * t
    BY <1>5, <1>7
  <2> QED
    BY <2>2, <2>3, <2>4, <2>5 DEF t
<1> QED
  BY <1>8, <1>9

(* A composite is an average of the votes it uses, whatever the unit of    *)
(* the table it weighs them by, and the cap leaves the near-duplicates at  *)
(* most its share of what that table weighs uncapped.                      *)
THEOREM ScoreFollowsItsVotesHolds ==
    ASSUME Curves
    PROVE  Spec => []ScoreFollowsItsVotes
<1>1. ASSUME SignalInv, score # None
      PROVE  /\ \A bound \in {-20, -10, 0, 10, 20} :
                  /\ (\A n \in score.used : votes[n].value <= bound)
                        => score.numerator <= bound * score.mass
                  /\ (\A n \in score.used : votes[n].value >= bound)
                        => score.numerator >= bound * score.mass
             /\ \A regime \in DOMAIN config.composite.weights :
                LET table == config.composite.weights[regime]
                    doubled == [n \in DOMAIN table |-> 2 * table[n]]
                    once == Composite(config, table, votes)
                    twice == Composite(config, doubled, votes)
                    cap == config.composite.collinear_cap
                    capped == Capped(cap, table, votes)
                    group == CollinearGroup \cap DOMAIN capped
                IN /\ once.valid = twice.valid /\ once.used = twice.used
                   /\ group = CollinearGroup =>
                        \A n \in DOMAIN capped \ group :
                            100 * Sum(capped, group) * table[n]
                                <= cap * Sum(table, DOMAIN capped) * capped[n]
  <2>1. /\ ConfigTyped(config) /\ EverySectionFits(config) /\ Raises(config) = {}
        /\ IsBook(book) /\ \E launch \in Launches : purpose = launch.purpose
    BY <1>1 DEF SignalInv, ConfigInv, IdleInv, BookInv
  <2>2. PICK around \in Surroundings(purpose) :
            /\ votes = Votes(config, around, book)
            /\ score = Composite(config, WeightsFor(config.composite, around.regime), votes)
    BY <1>1 DEF SignalInv, BookInv
  <2>3. IsHistory(around)
    BY <2>1, HistoryAssumption
  <2>4. IsVotes(votes)
    BY <2>1, <2>2, <2>3, VotesTyped
  <2>5. \A regime \in DOMAIN config.composite.weights :
            IsTable(config.composite.weights[regime])
    BY <2>1 DEF ConfigTyped, SectionTyped, Default, OfKind, Text, Boolean, DefaultComposite,
                IsTable
  <2>6. IsTable(WeightsFor(config.composite, around.regime))
    <3>1. DOMAIN config.composite.weights # {}
      BY <2>1 DEF EverySectionFits, CompositeFits
    <3> QED
      BY <2>5, <3>1 DEF WeightsFor
  <2>7. config.composite.collinear_cap \in Int
    BY <2>1 DEF ConfigTyped, SectionTyped, Default, OfKind, Text, Boolean, DefaultComposite
  <2>8. ASSUME NEW bound \in {-20, -10, 0, 10, 20}
        PROVE  /\ (\A n \in score.used : votes[n].value <= bound)
                    => score.numerator <= bound * score.mass
               /\ (\A n \in score.used : votes[n].value >= bound)
                    => score.numerator >= bound * score.mass
    BY <2>1, <2>2, <2>4, <2>6, ScoreIsBetween
  <2>9. ASSUME NEW regime \in DOMAIN config.composite.weights
        PROVE  LET table == config.composite.weights[regime]
                   doubled == [n \in DOMAIN table |-> 2 * table[n]]
                   once == Composite(config, table, votes)
                   twice == Composite(config, doubled, votes)
               IN once.valid = twice.valid /\ once.used = twice.used
    BY <2>1, <2>4, <2>5, UnitsDoNotMatter
  <2>10. ASSUME NEW regime \in DOMAIN config.composite.weights
         PROVE  LET table == config.composite.weights[regime]
                    cap == config.composite.collinear_cap
                    capped == Capped(cap, table, votes)
                    group == CollinearGroup \cap DOMAIN capped
                IN group = CollinearGroup =>
                        \A n \in DOMAIN capped \ group :
                            100 * Sum(capped, group) * table[n]
                                <= cap * Sum(table, DOMAIN capped) * capped[n]
    BY <2>5, <2>7, GroupIsCapped
  <2> QED
    BY <2>8, <2>9, <2>10
<1>2. SignalInv => ScoreFollowsItsVotes
  BY <1>1 DEF ScoreFollowsItsVotes
<1> QED
  BY <1>2, SignalInvHolds, PTL

----------------------------------------------------------------------------
(* Mirrored books.                                                         *)

\* The levels of one side, seen from the other about a price.
Reflects(levels, image, centre) ==
    /\ DOMAIN image = DOMAIN levels /\ Len(image) = Len(levels)
    /\ \A i \in DOMAIN levels : /\ image[i].price = centre - levels[i].price
                                /\ image[i].quantity = levels[i].quantity

\* A book and its mirror image about its own mid share that mid and the touch.
IsReflection(b, m) ==
    /\ Reflects(b.asks, m.bids, TwiceMid(b)) /\ Reflects(b.bids, m.asks, TwiceMid(b))
    /\ m.totalBuy = b.totalSell /\ m.totalSell = b.totalBuy
    /\ m.bids[1].price = b.bids[1].price /\ m.bids[1].quantity = b.asks[1].quantity
    /\ m.asks[1].price = b.asks[1].price /\ m.asks[1].quantity = b.bids[1].quantity
    /\ TwiceMid(m) = TwiceMid(b)

LEMMA FlippedReflects ==
    ASSUME NEW levels, NEW sign \in {1, -1}, IsLadder(levels, sign), NEW centre
    PROVE  Reflects(levels, Flipped(levels, centre), centre)
<1> DEFINE image == Flipped(levels, centre)
           n == Len(levels)
           at(i) == [price |-> centre - levels[i].price, quantity |-> levels[i].quantity]
<1>1. n \in Nat /\ DOMAIN levels = 1..n
  BY LadderFields
<1> HIDE DEF n
<1>2. image = [i \in 1..n |-> at(i)]
  BY <1>1 DEF Flipped
<1>3. \A i \in 1..n : /\ image[i].price = centre - levels[i].price
                      /\ image[i].quantity = levels[i].quantity
  BY <1>2
<1> HIDE DEF at
<1>4. image \in Seq({at(i) : i \in 1..n}) /\ DOMAIN image = 1..n
  BY <1>1, <1>2
<1>5. Len(image) = n
  BY <1>1, <1>4
<1> HIDE DEF image
<1> QED
  BY <1>1, <1>3, <1>4, <1>5 DEF Reflects, image, n

LEMMA MirrorReflects ==
    ASSUME NEW b, IsBook(b)
    PROVE  IsReflection(b, Mirror(b, TwiceMid(b)))
<1> DEFINE m == Mirror(b, TwiceMid(b))
<1>1. /\ m.bids = Flipped(b.asks, TwiceMid(b)) /\ m.asks = Flipped(b.bids, TwiceMid(b))
      /\ m.totalBuy = b.totalSell /\ m.totalSell = b.totalBuy
  BY DEF Mirror
<1> HIDE DEF m
<1>2. /\ Reflects(b.asks, m.bids, TwiceMid(b)) /\ Reflects(b.bids, m.asks, TwiceMid(b))
  BY <1>1, FlippedReflects DEF IsBook
<1>3. /\ 1 \in DOMAIN b.bids /\ 1 \in DOMAIN b.asks
      /\ b.bids[1].price \in Int /\ b.asks[1].price \in Int
  BY LadderFields DEF IsBook
<1>4. TwiceMid(b) = b.bids[1].price + b.asks[1].price
  BY DEF TwiceMid
<1>5. /\ m.bids[1].price = b.bids[1].price /\ m.bids[1].quantity = b.asks[1].quantity
      /\ m.asks[1].price = b.asks[1].price /\ m.asks[1].quantity = b.bids[1].quantity
  BY <1>2, <1>3, <1>4 DEF Reflects
<1>6. TwiceMid(m) = TwiceMid(b)
  BY <1>3, <1>5 DEF TwiceMid
<1> QED
  BY <1>1, <1>2, <1>5, <1>6 DEF IsReflection, m

LEMMA ReflectedLevels ==
    ASSUME NEW levels, NEW image, NEW centre, Reflects(levels, image, centre),
           DOMAIN levels = 1..Len(levels), Len(levels) \in Nat,
           NEW first \in Nat \ {0}, NEW last \in Int
    PROVE  LevelsWithin(image, first, last) = LevelsWithin(levels, first, last)
<1>1. \A i \in DOMAIN levels : image[i].quantity = levels[i].quantity
  BY DEF Reflects
<1>2. ASSUME NEW i \in DOMAIN levels
      PROVE  (\A j \in first..i : image[j].quantity > 0)
                <=> (\A j \in first..i : levels[j].quantity > 0)
  <2>1. \A j \in first..i : j \in DOMAIN levels
    OBVIOUS
  <2> QED
    BY <1>1, <2>1
<1>3. DOMAIN image = DOMAIN levels
  BY DEF Reflects
<1> QED
  BY <1>2, <1>3 DEF LevelsWithin

(* Reflected levels are as far from the mid and weigh as much.             *)
LEMMA ReflectedMass ==
    ASSUME NEW b, NEW m, TwiceMid(b) \in Int, TwiceMid(m) = TwiceMid(b),
           NEW levels, NEW sign \in {1, -1}, IsLadder(levels, sign),
           NEW image, Reflects(levels, image, TwiceMid(b)),
           NEW first \in Nat \ {0}, NEW last \in Int
    PROVE  Mass(m, image, first, last) = Mass(b, levels, first, last)
<1> DEFINE used == LevelsWithin(levels, first, last)
           far(i) == Distance(b, levels[i].price)
           near(i) == Distance(m, image[i].price)
           w == [i \in DOMAIN levels |->
                    IF i \in used THEN levels[i].quantity * Decay(far(i)) ELSE 0]
           v == [i \in DOMAIN image |->
                    IF i \in LevelsWithin(image, first, last)
                      THEN image[i].quantity * Decay(near(i)) ELSE 0]
<1>1. /\ Mass(b, levels, first, last) = Total(w)
      /\ Mass(m, image, first, last) = Total(v)
  BY DEF Mass, MassOf
<1>2. LevelsWithin(image, first, last) = used
  BY LadderFields, ReflectedLevels
<1>3. ASSUME NEW i \in DOMAIN levels
      PROVE  near(i) = far(i) /\ image[i].quantity = levels[i].quantity
  <2>1. /\ image[i].price = TwiceMid(b) - levels[i].price
        /\ image[i].quantity = levels[i].quantity
    BY DEF Reflects
  <2>2. levels[i].price \in Int
    BY LadderFields
  <2> QED
    BY <2>1, <2>2 DEF Distance
<1>4. DOMAIN image = DOMAIN levels
  BY DEF Reflects
<1> HIDE DEF used, far, near
<1>5. v = w
  BY <1>2, <1>3, <1>4
<1> QED
  BY <1>1, <1>5

LEMMA NoughtTurned ==
    ASSUME NEW v, NEW w, v = 0, w = 0
    PROVE  v \in Int /\ w = -v
<1>1. /\ v \in Int /\ v <= 0 /\ v >= 0
      /\ w \in Int /\ w <= 0 /\ w >= 0
  OBVIOUS
<1>2. ASSUME NEW i \in Int, NEW j \in Int, i <= 0, i >= 0, j <= 0, j >= 0
      PROVE  j = -i
  BY <1>2
<1> QED
  BY <1>1, <1>2, Zenon

LEMMA ReflectedBalance ==
    ASSUME Curves, NEW b, IsBook(b), NEW m, IsReflection(b, m),
           NEW first \in Nat \ {0}, NEW last \in Int
    PROVE  LET here == Balance(b, first, last)
               there == Balance(m, first, last)
           IN /\ here.value \in Int
              /\ there.any = here.any /\ there.value = -here.value
<1> DEFINE bid == Mass(b, b.bids, first, last)
           ask == Mass(b, b.asks, first, last)
           here == Balance(b, first, last)
           there == Balance(m, first, last)
<1>1. bid \in Nat /\ ask \in Nat
  BY MassTyped DEF IsBook
<1>2. TwiceMid(b) \in Int
  BY BookTouch DEF TwiceMid
<1>3. Mass(m, m.bids, first, last) = ask /\ Mass(m, m.asks, first, last) = bid
  BY <1>2, ReflectedMass DEF IsBook, IsReflection
<1> HIDE DEF bid, ask
<1>4. /\ here.any = (bid + ask > 0)
      /\ here.value = IF bid + ask > 0 THEN Twentieths(bid - ask, bid + ask) ELSE 0
      /\ there.any = (ask + bid > 0)
      /\ there.value = IF ask + bid > 0 THEN Twentieths(ask - bid, ask + bid) ELSE 0
  BY <1>3 DEF Balance, bid, ask
<1> HIDE DEF here, there
<1>5. there.any = here.any
  <2>1. ask + bid = bid + ask
    BY <1>1
  <2> QED
    BY <1>4, <2>1, Zenon
<1>6. CASE bid + ask > 0
  <2> DEFINE n == bid - ask
             d == bid + ask
  <2>1. n \in Int /\ d \in Int /\ d > 0 /\ ask - bid = -n /\ ask + bid = d
    BY <1>1, <1>6
  <2>2. here.value = Twentieths(n, d) /\ there.value = Twentieths(-n, d)
    BY <1>4, <2>1
  <2> HIDE DEF n, d
  <2>4. Twentieths(n, d) \in Int /\ Twentieths(-n, d) = -Twentieths(n, d)
    BY <2>1, TwentiethsTyped
  <2> QED
    BY <1>5, <2>2, <2>4 DEF here, there
<1>7. CASE ~(bid + ask > 0)
  <2>1. ~(ask + bid > 0)
    BY <1>1, <1>7
  <2>2. here.value = 0 /\ there.value = 0
    BY <1>4, <1>7, <2>1
  <2>3. here.value \in Int /\ there.value = -here.value
    BY <2>2, NoughtTurned
  <2> QED
    BY <1>5, <2>3, Zenon DEF here, there
<1> QED
  BY <1>6, <1>7

(* Turned together, a value agrees with the primary as much as before.     *)
LEMMA TurnedTogether ==
    ASSUME NEW v \in Int, NEW p \in Int, p # 0
    PROVE  Agreeing(-v, -p) = Agreeing(v, p)
  BY DEF Agreeing

LEMMA ReflectedDeepFactor ==
    ASSUME Curves, NEW f, f.primary_levels \in Int, f.primary_levels > 0,
           f.deep_levels \in Int,
           NEW b, IsBook(b), NEW m, IsReflection(b, m), NEW p \in Int, p # 0
    PROVE  DeepFactor(f, m, -p) = DeepFactor(f, b, p)
<1> DEFINE first == f.primary_levels + 1
           here == Balance(b, first, f.deep_levels)
           there == Balance(m, first, f.deep_levels)
<1>1. first \in Nat \ {0}
  OBVIOUS
<1> HIDE DEF first
<1>2. here.value \in Int /\ there.any = here.any /\ there.value = -here.value
  BY <1>1, ReflectedBalance
<1>3. /\ DeepFactor(f, b, p)
            = IF f.deep_levels <= f.primary_levels \/ ~here.any THEN 100
              ELSE Discount(f.deep_agreement_weight, Agreeing(here.value, p))
      /\ DeepFactor(f, m, -p)
            = IF f.deep_levels <= f.primary_levels \/ ~there.any THEN 100
              ELSE Discount(f.deep_agreement_weight, Agreeing(there.value, -p))
  BY DEF DeepFactor, first
<1> HIDE DEF here, there
<1>4. Agreeing(there.value, -p) = Agreeing(here.value, p)
  BY <1>2, TurnedTogether
<1>5. CASE f.deep_levels <= f.primary_levels \/ ~here.any
  BY <1>2, <1>3, <1>5, Zenon
<1>6. CASE ~(f.deep_levels <= f.primary_levels \/ ~here.any)
  <2>1. DeepFactor(f, b, p) = Discount(f.deep_agreement_weight, Agreeing(here.value, p))
    BY <1>3, <1>6, Zenon
  <2>2. DeepFactor(f, m, -p) = Discount(f.deep_agreement_weight, Agreeing(there.value, -p))
    BY <1>2, <1>3, <1>6, Zenon
  <2> QED
    BY <1>4, <2>1, <2>2
<1> QED
  BY <1>5, <1>6

LEMMA ReflectedAggregateFactor ==
    ASSUME NEW f, NEW b, IsBook(b), NEW m, IsReflection(b, m), NEW p \in Int, p # 0
    PROVE  AggregateFactor(f, m, -p) = AggregateFactor(f, b, p)
<1> DEFINE buy == b.totalBuy
           sell == b.totalSell
           most == f.aggregate_max_ratio
           lopsided == \/ buy <= 0 \/ sell <= 0
                       \/ buy > most * sell \/ sell > most * buy
           mirrored == \/ sell <= 0 \/ buy <= 0
                       \/ sell > most * buy \/ buy > most * sell
           n == buy - sell
           d == buy + sell
<1>1. buy \in Int /\ sell \in Int /\ m.totalBuy = sell /\ m.totalSell = buy
  BY DEF IsBook, IsReflection
<1>2. /\ AggregateFactor(f, b, p)
            = IF lopsided THEN 100
              ELSE Discount(f.aggregate_agreement_weight,
                            Agreeing(Twentieths(buy - sell, buy + sell), p))
      /\ AggregateFactor(f, m, -p)
            = IF mirrored THEN 100
              ELSE Discount(f.aggregate_agreement_weight,
                            Agreeing(Twentieths(sell - buy, sell + buy), -p))
  BY <1>1 DEF AggregateFactor
<1>3. mirrored <=> lopsided
  OBVIOUS
<1> HIDE DEF buy, sell
<1>4. CASE lopsided
  BY <1>2, <1>3, <1>4
<1>5. CASE ~lopsided
  <2>1. n \in Int /\ d \in Int /\ d > 0 /\ sell - buy = -n /\ sell + buy = d
    BY <1>1, <1>5
  <2> HIDE DEF n, d, lopsided, mirrored
  <2>2. Twentieths(n, d) \in Int /\ Twentieths(-n, d) = -Twentieths(n, d)
    BY <2>1, TwentiethsTyped
  <2>3. Agreeing(Twentieths(-n, d), -p) = Agreeing(Twentieths(n, d), p)
    BY <2>2, TurnedTogether
  <2>4. AggregateFactor(f, b, p)
            = Discount(f.aggregate_agreement_weight, Agreeing(Twentieths(n, d), p))
    BY <1>2, <1>5 DEF n, d
  <2>5. AggregateFactor(f, m, -p)
            = Discount(f.aggregate_agreement_weight, Agreeing(Twentieths(-n, d), -p))
    BY <1>2, <1>3, <1>5, <2>1
  <2> QED
    BY <2>3, <2>4, <2>5
<1> QED
  BY <1>4, <1>5

LEMMA OppositeExcluded == Opposite(Excluded, Excluded)
<1>1. Excluded.value = 0
  BY DEF Excluded
<1>2. Excluded.value = -Excluded.value
  BY <1>1, NoughtTurned
<1> QED
  BY <1>2, Zenon DEF Opposite

LEMMA OppositeValues ==
    ASSUME NEW v \in Int, NEW local, NEW image, v # 0 => image = local
    PROVE  Opposite(Value(v, local), Value(-v, image))
  BY DEF Opposite, Value

LEMMA ReflectedWeightedObi ==
    ASSUME Curves, NEW c, ConfigTyped(c), EverySectionFits(c),
           NEW b, IsBook(b), NEW m, IsReflection(b, m)
    PROVE  Opposite(WeightedObi(c.weighted_obi, b), WeightedObi(c.weighted_obi, m))
<1> DEFINE f == c.weighted_obi
           here == Balance(b, 1, f.primary_levels)
           there == Balance(m, 1, f.primary_levels)
           p == here.value
           trust(of, v) == (DeepFactor(f, of, v) * AggregateFactor(f, of, v)) \div 100
<1>1. f.primary_levels \in Int /\ f.deep_levels \in Int
  BY DEF ConfigTyped, SectionTyped, Default, OfKind, Text, Boolean, DefaultWeightedObi
<1>2. f.primary_levels > 0
  BY <1>1 DEF EverySectionFits, WeightedObiFits, InRange
<1> HIDE DEF f
<1>3. p \in Int /\ there.any = here.any /\ there.value = -p
  <2>1. 1 \in Nat \ {0}
    OBVIOUS
  <2> QED
    BY <1>1, <2>1, ReflectedBalance
<1>4. /\ WeightedObi(f, b) = IF ~here.any THEN Excluded ELSE Value(p, trust(b, p))
      /\ WeightedObi(f, m) = IF ~there.any THEN Excluded
                             ELSE Value(there.value, trust(m, there.value))
  BY DEF WeightedObi
<1>5. p # 0 => trust(m, -p) = trust(b, p)
  BY <1>1, <1>2, <1>3, ReflectedDeepFactor, ReflectedAggregateFactor
<1> HIDE DEF here, there, p, trust
<1>6. CASE here.any
  <2>1. WeightedObi(f, b) = Value(p, trust(b, p))
    BY <1>4, <1>6, Zenon
  <2>2. WeightedObi(f, m) = Value(-p, trust(m, -p))
    BY <1>3, <1>4, <1>6, Zenon
  <2>3. Opposite(Value(p, trust(b, p)), Value(-p, trust(m, -p)))
    BY <1>3, <1>5, OppositeValues
  <2> QED
    BY <2>1, <2>2, <2>3, Zenon DEF f
<1>7. CASE ~here.any
  <2>1. WeightedObi(f, b) = Excluded /\ WeightedObi(f, m) = Excluded
    BY <1>3, <1>4, <1>7, Zenon
  <2> QED
    BY <2>1, OppositeExcluded, Zenon DEF f
<1> QED
  BY <1>6, <1>7

(* A quotient whose parts share a factor.                                  *)
LEMMA FactorDivided ==
    ASSUME NEW k \in Int, k > 0, NEW n \in Int, NEW d \in Int, d > 0
    PROVE  (k * n) \div (k * d) = n \div d
<1> DEFINE q == n \div d
           kn == k * n
           kd == k * d
           r == kn \div kd
<1>1. /\ q \in Int /\ d * q \in Int /\ d * q <= n /\ n <= d * q + d - 1
  OBVIOUS
<1>2. kn \in Int /\ kd \in Int /\ kd > 0
  OBVIOUS
<1> HIDE DEF q
<1>3. kd * q <= kn
  <2>1. k * (d * q) <= k * n
    BY <1>1, TimesPositive
  <2>2. kd * q = k * (d * q)
    BY <1>1
  <2> QED
    BY <2>1, <2>2
<1>4. kn < kd * q + kd
  <2>1. k * n <= k * (d * q + d - 1)
    BY <1>1, TimesPositive
  <2>2. k * (d * q + d - 1) = k * (d * q) + k * d - k /\ k * (d * q) \in Int
    BY <1>1
  <2>3. kd * q = k * (d * q)
    BY <1>1
  <2> QED
    BY <1>2, <2>1, <2>2, <2>3
<1> HIDE DEF kn, kd
<1>5. r \in Int /\ kd * r \in Int /\ kd * r <= kn /\ kn < kd * r + kd
  BY <1>2
<1> HIDE DEF r
<1>6. kd * q \in Int
  BY <1>1, <1>2
<1>7. ~(r + 1 <= q)
  <2>1. r + 1 <= q => kd * (r + 1) <= kd * q
    BY <1>1, <1>2, <1>5, TimesPositive
  <2>2. kd * (r + 1) = kd * r + kd
    BY <1>2, <1>5
  <2> QED
    BY <1>2, <1>3, <1>5, <1>6, <2>1, <2>2
<1>8. ~(q + 1 <= r)
  <2>1. q + 1 <= r => kd * (q + 1) <= kd * r
    BY <1>1, <1>2, <1>5, TimesPositive
  <2>2. kd * (q + 1) = kd * q + kd
    BY <1>1, <1>2
  <2> QED
    BY <1>2, <1>4, <1>5, <1>6, <2>1, <2>2
<1>9. r = q
  BY <1>1, <1>5, <1>7, <1>8
<1> QED
  BY <1>9 DEF r, q, kn, kd

LEMMA FactorCancels ==
    ASSUME NEW k \in Int, k > 0, NEW n \in Int, NEW d \in Int, d > 0
    PROVE  Twentieths(k * n, k * d) = Twentieths(n, d)
<1>1. k * n \in Int /\ k * d \in Int /\ (k * n < 0 <=> n < 0)
  OBVIOUS
<1>2. 20 * (k * n) = k * (20 * n) /\ 20 * (-(k * n)) = k * (20 * (-n))
  OBVIOUS
<1>3. 20 * n \in Int /\ 20 * (-n) \in Int
  OBVIOUS
<1>4. /\ (20 * (k * n)) \div (k * d) = (20 * n) \div d
      /\ (20 * (-(k * n))) \div (k * d) = (20 * (-n)) \div d
  BY <1>2, <1>3, FactorDivided
<1> QED
  BY <1>1, <1>4 DEF Twentieths

(* The tilt, over half the spread: the difference of the queues over their *)
(* sum, whatever the spread; and it turns with the book.                   *)
LEMMA TiltIs ==
    ASSUME NEW bid \in Int, NEW ask \in Int, NEW x \in Int, NEW y \in Int
    PROVE  2 * (bid * y + ask * x) - (bid + ask) * (x + y) = (ask - bid) * (x - y)
<1>1. bid * x \in Int /\ bid * y \in Int /\ ask * x \in Int /\ ask * y \in Int
  OBVIOUS
<1>2. (bid + ask) * (x + y) = bid * x + bid * y + ask * x + ask * y
  OBVIOUS
<1>3. (ask - bid) * (x - y) = ask * x - ask * y - bid * x + bid * y
  OBVIOUS
<1> QED
  BY <1>1, <1>2, <1>3

HasTouch(b) ==
    /\ b.bids[1].price \in Int /\ b.bids[1].quantity \in Int /\ b.bids[1].quantity > 0
    /\ b.asks[1].price \in Int /\ b.asks[1].quantity \in Int /\ b.asks[1].quantity > 0

LEMMA MicropriceIsTopImbalance ==
    ASSUME NEW b, HasTouch(b), b.bids[1].price < b.asks[1].price
    PROVE  /\ Microprice(b) = Value(TopImbalance(b), 100)
           /\ TopImbalance(b) \in Int
<1> DEFINE bid == b.bids[1].price
           ask == b.asks[1].price
           x == b.bids[1].quantity
           y == b.asks[1].quantity
           k == ask - bid
           n == x - y
           d == x + y
<1>1. /\ bid \in Int /\ ask \in Int /\ bid < ask
      /\ x \in Int /\ y \in Int /\ x > 0 /\ y > 0
  BY DEF HasTouch
<1>2. Tilt(b) = [n |-> 2 * (bid * y + ask * x) - (bid + ask) * (x + y), d |-> k * d]
  BY DEF Tilt, TwiceMid
<1>3. Microprice(b) = IF x + y <= 0 \/ ask <= bid THEN Excluded
                      ELSE Value(Twentieths(Tilt(b).n, Tilt(b).d), 100)
  BY DEF Microprice
<1>4. TopImbalance(b) = Twentieths(n, d)
  BY DEF TopImbalance
<1> HIDE DEF bid, ask, x, y
<1>5. k \in Int /\ k > 0 /\ n \in Int /\ d \in Int /\ d > 0
  BY <1>1
<1>6. 2 * (bid * y + ask * x) - (bid + ask) * (x + y) = k * n
  BY <1>1, TiltIs
<1>7. ~(x + y <= 0 \/ ask <= bid)
  BY <1>1
<1> HIDE DEF k, n, d
<1>8. Twentieths(Tilt(b).n, Tilt(b).d) = Twentieths(n, d)
  <2>1. Tilt(b).n = k * n /\ Tilt(b).d = k * d
    BY <1>2, <1>6
  <2>2. Twentieths(k * n, k * d) = Twentieths(n, d)
    BY <1>5, FactorCancels
  <2> QED
    BY <2>1, <2>2
<1>9. Twentieths(n, d) \in Int
  BY <1>5, TwentiethsTyped
<1> QED
  BY <1>3, <1>4, <1>7, <1>8, <1>9

LEMMA ReflectedMicroprice ==
    ASSUME NEW b, IsBook(b), NEW m, IsReflection(b, m)
    PROVE  /\ Opposite(Microprice(b), Microprice(m))
           /\ Microprice(b).valid => Microprice(b).value = TopImbalance(b)
<1>1. /\ b.bids[1].price \in Int /\ b.asks[1].price \in Int
      /\ b.bids[1].price <= b.asks[1].price
      /\ m.bids[1].price = b.bids[1].price /\ m.asks[1].price = b.asks[1].price
  BY BookTouch DEF IsReflection
<1>2. CASE b.bids[1].price < b.asks[1].price
  <2> DEFINE x == b.bids[1].quantity
             y == b.asks[1].quantity
             n == x - y
             d == x + y
  <2>1. x \in Int /\ y \in Int /\ x > 0 /\ y > 0
    BY LadderFields DEF IsBook
  <2>2. m.bids[1].quantity = y /\ m.asks[1].quantity = x
    BY DEF IsReflection
  <2>3. TopImbalance(b) = Twentieths(n, d) /\ TopImbalance(m) = Twentieths(y - x, y + x)
    BY <2>2 DEF TopImbalance
  <2> HIDE DEF x, y
  <2>4. n \in Int /\ d \in Int /\ d > 0 /\ y - x = -n /\ y + x = d
    BY <2>1
  <2> HIDE DEF n, d
  <2>5. TopImbalance(m) = -TopImbalance(b)
    BY <2>3, <2>4, TwentiethsTyped
  <2>6. HasTouch(b) /\ HasTouch(m)
    BY <1>1, <2>1, <2>2 DEF HasTouch, x, y
  <2>7. /\ Microprice(b) = Value(TopImbalance(b), 100) /\ TopImbalance(b) \in Int
        /\ Microprice(m) = Value(TopImbalance(m), 100)
    BY <1>1, <1>2, <2>6, MicropriceIsTopImbalance
  <2>8. Opposite(Value(TopImbalance(b), 100), Value(-TopImbalance(b), 100))
    BY <2>7, OppositeValues
  <2> QED
    BY <2>5, <2>7, <2>8 DEF Value
<1>3. CASE ~(b.bids[1].price < b.asks[1].price)
  <2>1. b.asks[1].price <= b.bids[1].price /\ m.asks[1].price <= m.bids[1].price
    BY <1>1, <1>3
  <2>2. Microprice(b) = Excluded /\ Microprice(m) = Excluded
    BY <2>1 DEF Microprice
  <2> QED
    BY <2>2, OppositeExcluded DEF Excluded
<1> QED
  BY <1>2, <1>3

LEMMA ReflectedSpread ==
    ASSUME NEW b, NEW m, IsReflection(b, m), NEW f
    PROVE  SpreadTightness(f, b) = SpreadTightness(f, m)
  BY DEF IsReflection, SpreadTightness

(* The drift turns about the mid, and so does the last trade's place in    *)
(* the spread.                                                             *)
LEMMA ReflectedLtp ==
    ASSUME Curves, NEW c, ConfigTyped(c), EverySectionFits(c),
           NEW b, IsBook(b), NEW m, IsReflection(b, m),
           NEW tape, tape.last \in Int, tape.reference \in Int, tape.last > 0,
           NEW image, image = MirrorTape(tape, TwiceMid(b)), image.last > 0
    PROVE  Opposite(LtpConfirmation(c.ltp_confirmation, tape, b),
                    LtpConfirmation(c.ltp_confirmation, image, m))
<1> DEFINE f == c.ltp_confirmation
           mid == TwiceMid(b)
           n == 100 * (tape.last - tape.reference)
           p == 2 * tape.last - mid
           spread == b.asks[1].price - b.bids[1].price
           drift == Tanh(n, f.scale_ticks)
           place == IF spread = 0 THEN 0 ELSE Clamped(Twentieths(p, spread), -20, 20)
           back == Tanh(-n, f.scale_ticks)
           place2 == IF spread = 0 THEN 0 ELSE Clamped(Twentieths(-p, spread), -20, 20)
           blend == (100 - f.position_weight) * drift + f.position_weight * place
           blend2 == (100 - f.position_weight) * back + f.position_weight * place2
           local == CASE tape.age = "unknown" -> 60
                      [] tape.age = "stale" -> 30
                      [] tape.age = "fresh" -> 100
<1>1. /\ f.scale_ticks \in Int /\ f.position_weight \in Int
  BY DEF ConfigTyped, SectionTyped, Default, OfKind, Text, Boolean, DefaultLtpConfirmation
<1>2. f.scale_ticks > 0
  BY DEF EverySectionFits, LtpConfirmationFits, Positive
<1>3. spread \in Int /\ spread >= 0 /\ mid \in Int
  BY BookTouch DEF TwiceMid
<1>4. /\ image.last = mid - tape.last /\ image.reference = mid - tape.reference
      /\ image.warm = tape.warm /\ image.age = tape.age
  BY DEF MirrorTape
<1>5. m.asks[1].price - m.bids[1].price = spread /\ TwiceMid(m) = mid
  BY DEF IsReflection
<1> HIDE DEF f, spread, mid
<1>6. /\ n \in Int /\ p \in Int
      /\ 100 * (image.last - image.reference) = -n
      /\ 2 * image.last - mid = -p
  BY <1>3, <1>4
<1>7. LtpConfirmation(f, tape, b)
        = IF tape.last <= 0 \/ ~tape.warm THEN Excluded ELSE Value(Twentieths(blend, 2000), local)
  BY DEF LtpConfirmation, spread, mid
<1> HIDE DEF n, p
<1>8. LtpConfirmation(f, image, m)
        = IF image.last <= 0 \/ ~image.warm THEN Excluded
          ELSE Value(Twentieths(blend2, 2000), local)
  <2> DEFINE trust == CASE image.age = "unknown" -> 60
                        [] image.age = "stale" -> 30
                        [] image.age = "fresh" -> 100
             moved == Tanh(100 * (image.last - image.reference), f.scale_ticks)
             width == m.asks[1].price - m.bids[1].price
             at == IF width = 0 THEN 0
                   ELSE Clamped(Twentieths(2 * image.last - TwiceMid(m), width), -20, 20)
             sum == (100 - f.position_weight) * moved + f.position_weight * at
  <2>1. LtpConfirmation(f, image, m)
          = IF image.last <= 0 \/ ~image.warm THEN Excluded
            ELSE Value(Twentieths(sum, 2000), trust)
    BY DEF LtpConfirmation
  <2>2. trust = local
    BY <1>4 DEF local
  <2>3. moved = back
    BY <1>6
  <2>4. at = place2
    BY <1>5, <1>6
  <2> HIDE DEF trust, moved, at, back, place2
  <2>5. sum = blend2
    BY <2>3, <2>4
  <2> HIDE DEF sum, blend2
  <2> QED
    BY <2>1, <2>2, <2>5
<1> HIDE DEF local
<1>9. drift \in Int /\ back = -drift
  <2>1. Tanh(n, f.scale_ticks) \in -20..20
    BY <1>1, <1>2, <1>6 DEF Curves
  <2>2. Tanh(-n, f.scale_ticks) = -Tanh(n, f.scale_ticks)
    BY <1>1, <1>2, <1>6 DEF Curves
  <2> QED
    BY <2>1, <2>2
<1>10. place \in Int /\ place2 = -place
  <2>1. CASE spread = 0
    BY <2>1, NoughtTurned
  <2>2. CASE spread # 0
    <3>1. spread > 0
      BY <1>3, <2>2
    <3> DEFINE t == Twentieths(p, spread)
    <3>2. t \in Int /\ Twentieths(-p, spread) = -t
      BY <1>3, <1>6, <3>1, TwentiethsTyped
    <3> HIDE DEF t
    <3>3. Clamped(t, -20, 20) \in Int /\ Clamped(-t, -20, 20) = -Clamped(t, -20, 20)
      BY <3>2 DEF Clamped
    <3> QED
      BY <2>2, <3>2, <3>3 DEF t
  <2> QED
    BY <2>1, <2>2
<1> HIDE DEF drift, back, place, place2
<1>11. blend \in Int /\ blend2 = -blend
  <2> DEFINE w == f.position_weight
             u == (100 - w) * drift
             v == w * place
  <2>1. /\ u \in Int /\ v \in Int
        /\ (100 - w) * (-drift) = -u /\ w * (-place) = -v
    BY <1>1, <1>9, <1>10
  <2>2. blend = u + v /\ blend2 = (100 - w) * (-drift) + w * (-place)
    BY <1>9, <1>10
  <2> HIDE DEF w, u, v, blend, blend2
  <2> QED
    BY <2>1, <2>2
<1> HIDE DEF blend, blend2
<1>12. Twentieths(blend, 2000) \in Int /\ Twentieths(blend2, 2000) = -Twentieths(blend, 2000)
  BY <1>11, TwentiethsTyped
<1>13. ~(tape.last <= 0) /\ ~(image.last <= 0)
  BY <1>3, <1>4
<1>14. CASE tape.warm
  <2>1. LtpConfirmation(f, tape, b) = Value(Twentieths(blend, 2000), local)
    BY <1>7, <1>13, <1>14
  <2>2. LtpConfirmation(f, image, m) = Value(Twentieths(blend2, 2000), local)
    BY <1>4, <1>8, <1>13, <1>14
  <2>3. Opposite(Value(Twentieths(blend, 2000), local), Value(-Twentieths(blend, 2000), local))
    BY <1>12, OppositeValues
  <2> QED
    BY <1>12, <2>1, <2>2, <2>3 DEF f
<1>15. CASE ~tape.warm
  <2>1. LtpConfirmation(f, tape, b) = Excluded
    BY <1>7, <1>15
  <2>2. LtpConfirmation(f, image, m) = Excluded
    BY <1>4, <1>8, <1>15
  <2> QED
    BY <2>1, <2>2, OppositeExcluded DEF f
<1> QED
  BY <1>14, <1>15

LEMMA ReflectedSteps ==
    ASSUME NEW levels, NEW sign \in {1, -1}, IsLadder(levels, sign),
           NEW centre \in Int, NEW image, Reflects(levels, image, centre)
    PROVE  \A i \in DOMAIN levels : Steps(image, i) = Steps(levels, i)
<1> SUFFICES ASSUME NEW i \in DOMAIN levels
             PROVE  Steps(image, i) = Steps(levels, i)
  OBVIOUS
<1>1. 1 \in DOMAIN levels /\ levels[1].price \in Int /\ levels[i].price \in Int
  BY LadderFields
<1>2. image[1].price = centre - levels[1].price /\ image[i].price = centre - levels[i].price
  BY <1>1 DEF Reflects
<1> QED
  BY <1>1, <1>2 DEF Steps

LEMMA ReflectedDecay ==
    ASSUME NEW levels, NEW sign \in {1, -1}, IsLadder(levels, sign),
           NEW centre \in Int, NEW image, Reflects(levels, image, centre)
    PROVE  PairDecay(image) = PairDecay(levels)
<1>1. Len(image) = Len(levels) /\ Len(levels) \in Nat /\ DOMAIN levels = 1..Len(levels)
  BY LadderFields DEF Reflects
<1>2. 1 \in DOMAIN levels
  BY LadderFields
<1>3. CASE Len(levels) >= 2
  <2>1. 2 \in DOMAIN levels
    BY <1>1, <1>3
  <2>2. /\ image[1].quantity = levels[1].quantity /\ image[2].quantity = levels[2].quantity
        /\ Steps(image, 2) = Steps(levels, 2)
    BY <1>2, <2>1, ReflectedSteps DEF Reflects
  <2> QED
    BY <1>1, <2>2 DEF PairDecay
<1>4. CASE ~(Len(levels) >= 2)
  BY <1>1, <1>4 DEF PairDecay
<1> QED
  BY <1>3, <1>4

LEMMA ReflectedRegression ==
    ASSUME NEW f, f.deep_levels \in Int, NEW levels, NEW sign \in {1, -1},
           IsLadder(levels, sign),
           NEW centre \in Int, NEW image, Reflects(levels, image, centre)
    PROVE  RegressionSlope(f, image) = RegressionSlope(f, levels)
<1> DEFINE used == LevelsWithin(levels, 1, f.deep_levels)
           x == [i \in DOMAIN levels |-> IF i \in used THEN Steps(levels, i) ELSE 0]
           y == [i \in DOMAIN levels |-> IF i \in used THEN Log(levels[i].quantity) ELSE 0]
           used2 == LevelsWithin(image, 1, f.deep_levels)
           x2 == [i \in DOMAIN image |-> IF i \in used2 THEN Steps(image, i) ELSE 0]
           y2 == [i \in DOMAIN image |-> IF i \in used2 THEN Log(image[i].quantity) ELSE 0]
           Slope(s, v, w) ==
                LET count == Cardinality(s)
                    n == count * Total([i \in DOMAIN v |-> v[i] * w[i]]) - Total(v) * Total(w)
                    d == count * Total([i \in DOMAIN v |-> v[i] * v[i]]) - Total(v) * Total(v)
                IN [known |-> count >= 3 /\ d > 0, n |-> n, d |-> d]
<1>1. /\ RegressionSlope(f, levels) = Slope(used, x, y)
      /\ RegressionSlope(f, image) = Slope(used2, x2, y2)
  BY DEF RegressionSlope
<1>2. used2 = used
  <2>1. 1 \in Nat \ {0} /\ Len(levels) \in Nat /\ DOMAIN levels = 1..Len(levels)
    BY LadderFields
  <2> QED
    BY <2>1, ReflectedLevels
<1>3. DOMAIN image = DOMAIN levels
  BY DEF Reflects
<1>4. \A i \in DOMAIN levels : /\ Steps(image, i) = Steps(levels, i)
                               /\ image[i].quantity = levels[i].quantity
  BY ReflectedSteps DEF Reflects
<1> HIDE DEF used, used2, Slope
<1>5. x2 = x /\ y2 = y
  BY <1>2, <1>3, <1>4
<1> HIDE DEF x, y, x2, y2
<1> QED
  BY <1>1, <1>2, <1>5

LEMMA ExchangedAsymmetry ==
    ASSUME Curves, NEW bid, NEW ask, bid.n \in Int, bid.d \in Int, bid.d > 0,
           ask.n \in Int, ask.d \in Int, ask.d > 0
    PROVE  Asymmetry(ask, bid) = -Asymmetry(bid, ask)
<1> DEFINE n == bid.n * ask.d - ask.n * bid.d
           d == bid.d * ask.d
<1>1. /\ bid.n * ask.d \in Int /\ ask.n * bid.d \in Int
      /\ d \in Int /\ d > 0 /\ ask.d * bid.d = d
  OBVIOUS
<1>2. n \in Int /\ ask.n * bid.d - bid.n * ask.d = -n
  BY <1>1
<1>3. Asymmetry(bid, ask) = Tanh(n, d) /\ Asymmetry(ask, bid) = Tanh(-n, d)
  BY <1>1, <1>2 DEF Asymmetry
<1> HIDE DEF n, d
<1>4. Tanh(-n, d) = -Tanh(n, d)
  BY <1>1, <1>2 DEF Curves
<1> QED
  BY <1>3, <1>4

LEMMA ReflectedDepthSlope ==
    ASSUME Curves, NEW f, f.deep_levels \in Int,
           NEW b, IsBook(b), NEW m, IsReflection(b, m)
    PROVE  Opposite(DepthSlope(f, b), DepthSlope(f, m))
<1> DEFINE bid == PairDecay(b.bids)
           ask == PairDecay(b.asks)
           value == Asymmetry(bid, ask)
           bidSlope == RegressionSlope(f, b.bids)
           askSlope == RegressionSlope(f, b.asks)
           trust == SlopeConfidence(f, b, value)
           trust2 == SlopeConfidence(f, m, -value)
<1>1. /\ bid.n \in Int /\ bid.d \in Int /\ (bid.known => bid.d > 0)
      /\ ask.n \in Int /\ ask.d \in Int /\ (ask.known => ask.d > 0)
  BY PairDecayTyped DEF IsBook
<1>2. /\ bidSlope.n \in Int /\ bidSlope.d \in Int /\ (bidSlope.known => bidSlope.d > 0)
      /\ askSlope.n \in Int /\ askSlope.d \in Int /\ (askSlope.known => askSlope.d > 0)
  <2>1. IsLadder(b.bids, -1) /\ IsLadder(b.asks, 1)
    BY DEF IsBook
  <2> QED
    BY <2>1, RegressionTyped
<1>3. TwiceMid(b) \in Int
  BY BookTouch DEF TwiceMid
<1>4. PairDecay(m.bids) = ask /\ PairDecay(m.asks) = bid
  BY <1>3, ReflectedDecay DEF IsBook, IsReflection
<1>5. RegressionSlope(f, m.bids) = askSlope /\ RegressionSlope(f, m.asks) = bidSlope
  <2>1. IsLadder(b.bids, -1) /\ IsLadder(b.asks, 1)
    BY DEF IsBook
  <2>2. /\ Reflects(b.asks, m.bids, TwiceMid(b)) /\ Reflects(b.bids, m.asks, TwiceMid(b))
    BY DEF IsReflection
  <2> QED
    BY <1>3, <2>1, <2>2, ReflectedRegression
<1>6. /\ DepthSlope(f, b) = IF ~bid.known \/ ~ask.known THEN Excluded
                            ELSE Value(value, trust)
      /\ DepthSlope(f, m) = IF ~ask.known \/ ~bid.known THEN Excluded
                            ELSE Value(Asymmetry(ask, bid),
                                       SlopeConfidence(f, m, Asymmetry(ask, bid)))
  BY <1>4 DEF DepthSlope
<1>7. /\ trust = IF ~f.use_deep_levels \/ ~bidSlope.known \/ ~askSlope.known THEN 100
                 ELSE Discount(40, Asymmetry(bidSlope, askSlope) * SignOf(value))
      /\ trust2 = IF ~f.use_deep_levels \/ ~askSlope.known \/ ~bidSlope.known THEN 100
                  ELSE Discount(40, Asymmetry(askSlope, bidSlope) * SignOf(-value))
  BY <1>5 DEF SlopeConfidence
<1> HIDE DEF bid, ask, bidSlope, askSlope, trust, trust2
<1>8. CASE ~bid.known \/ ~ask.known
  BY <1>6, <1>8, OppositeExcluded
<1>9. CASE bid.known /\ ask.known
  <2>1. value \in Int /\ Asymmetry(ask, bid) = -value
    BY <1>1, <1>9, AsymmetryTyped, ExchangedAsymmetry
  <2> HIDE DEF value
  <2>2. trust2 = trust
    <3>1. CASE ~f.use_deep_levels \/ ~bidSlope.known \/ ~askSlope.known
      BY <1>7, <3>1
    <3>2. CASE ~(~f.use_deep_levels \/ ~bidSlope.known \/ ~askSlope.known)
      <4> DEFINE a == Asymmetry(bidSlope, askSlope)
      <4>1. a \in Int /\ Asymmetry(askSlope, bidSlope) = -a
        BY <1>2, <3>2, AsymmetryTyped, ExchangedAsymmetry
      <4>2. trust = Discount(40, a * SignOf(value))
        BY <1>7, <3>2
      <4>3. trust2 = Discount(40, (-a) * SignOf(-value))
        BY <1>7, <3>2, <4>1
      <4> HIDE DEF a
      <4>4. (-a) * SignOf(-value) = a * SignOf(value)
        BY <2>1, <4>1 DEF SignOf
      <4> QED
        BY <4>2, <4>3, <4>4
    <3> QED
      BY <3>1, <3>2
  <2>3. DepthSlope(f, b) = Value(value, trust)
    BY <1>6, <1>9
  <2>4. DepthSlope(f, m) = Value(-value, trust2)
    BY <1>6, <1>9, <2>1 DEF trust2
  <2>5. Opposite(Value(value, trust), Value(-value, trust2))
    BY <2>1, <2>2, OppositeValues
  <2> QED
    BY <2>3, <2>4, <2>5
<1> QED
  BY <1>8, <1>9

(* What a feature of one book shows, it shows for the other direction of   *)
(* the mirror image.                                                       *)
THEOREM MirroredBooksMirrorSignalsHolds ==
    ASSUME Curves
    PROVE  Spec => []MirroredBooksMirrorSignals
<1>1. ASSUME SignalInv, book # None
      PROVE  LET mirrored == Mirror(book, TwiceMid(book))
             IN /\ Opposite(WeightedObi(config.weighted_obi, book),
                            WeightedObi(config.weighted_obi, mirrored))
                /\ Opposite(DepthSlope(config.depth_slope, book),
                            DepthSlope(config.depth_slope, mirrored))
                /\ Opposite(Microprice(book), Microprice(mirrored))
                /\ Microprice(book).valid => Microprice(book).value = TopImbalance(book)
                /\ SpreadTightness(config.spread, book)
                        = SpreadTightness(config.spread, mirrored)
                /\ \A around \in Surroundings(purpose) :
                        LET tape == around.tape
                            image == MirrorTape(tape, TwiceMid(book))
                        IN tape.last > 0 /\ image.last > 0 =>
                            Opposite(LtpConfirmation(config.ltp_confirmation, tape, book),
                                     LtpConfirmation(config.ltp_confirmation, image, mirrored))
  <2> DEFINE mirrored == Mirror(book, TwiceMid(book))
  <2>1. /\ ConfigTyped(config) /\ EverySectionFits(config) /\ IsBook(book)
        /\ \E launch \in Launches : purpose = launch.purpose
    BY <1>1 DEF SignalInv, ConfigInv, IdleInv, BookInv
  <2>2. IsReflection(book, mirrored)
    BY <2>1, MirrorReflects
  <2>3. config.depth_slope.deep_levels \in Int
    BY <2>1 DEF ConfigTyped, SectionTyped, Default, OfKind, Text, Boolean, DefaultDepthSlope
  <2> HIDE DEF mirrored
  <2>4. Opposite(WeightedObi(config.weighted_obi, book),
                 WeightedObi(config.weighted_obi, mirrored))
    BY <2>1, <2>2, ReflectedWeightedObi
  <2>5. Opposite(DepthSlope(config.depth_slope, book), DepthSlope(config.depth_slope, mirrored))
    BY <2>1, <2>2, <2>3, ReflectedDepthSlope
  <2>6. /\ Opposite(Microprice(book), Microprice(mirrored))
        /\ Microprice(book).valid => Microprice(book).value = TopImbalance(book)
    BY <2>1, <2>2, ReflectedMicroprice
  <2>7. SpreadTightness(config.spread, book) = SpreadTightness(config.spread, mirrored)
    BY <2>2, ReflectedSpread
  <2>8. ASSUME NEW around \in Surroundings(purpose),
               NEW image, image = MirrorTape(around.tape, TwiceMid(book)),
               around.tape.last > 0, image.last > 0
        PROVE  Opposite(LtpConfirmation(config.ltp_confirmation, around.tape, book),
                        LtpConfirmation(config.ltp_confirmation, image, mirrored))
    <3>1. around.tape.last \in Int /\ around.tape.reference \in Int
      BY <2>1, HistoryAssumption DEF IsHistory
    <3> QED
      BY <2>1, <2>2, <2>8, <3>1, ReflectedLtp
  <2> QED
    BY <2>4, <2>5, <2>6, <2>7, <2>8 DEF mirrored
<1>2. SignalInv => MirroredBooksMirrorSignals
  BY <1>1 DEF MirroredBooksMirrorSignals
<1> QED
  BY <1>2, SignalInvHolds, PTL

----------------------------------------------------------------------------
(* Sound frames.                                                           *)

\* The parser keeps the entries that count as listed.
LEMMA KeptIsListed ==
    ASSUME NEW entries \in Seq(Offers), NEW exchange, NEW descending
    PROVE  ParseDepth(entries, exchange, descending)
                = BestFirst([i \in Listed(entries) |-> LevelOf(entries[i], exchange)], descending)
<1> DEFINE usable == {i \in DOMAIN entries : Usable(entries[i])}
           kept == {i \in usable : Cardinality({j \in usable : j <= i}) <= DepthLevels}
<1>1. \A i \in DOMAIN entries : {j \in usable : j <= i} = {j \in 1..i : Usable(entries[j])}
  <2>1. DOMAIN entries = 1..Len(entries) /\ Len(entries) \in Nat
    OBVIOUS
  <2> QED
    BY <2>1
<1>2. kept = Listed(entries)
  BY <1>1 DEF Listed
<1>3. ParseDepth(entries, exchange, descending)
        = BestFirst([i \in kept |-> LevelOf(entries[i], exchange)], descending)
  BY DEF ParseDepth
<1> HIDE DEF kept
<1> QED
  BY <1>2, <1>3

LEMMA ListedFit ==
    ASSUME NEW entries \in Seq(Offers)
    PROVE  /\ Listed(entries) \subseteq Int /\ IsFiniteSet(Listed(entries))
           /\ Cardinality(Listed(entries)) \in Nat
           /\ Cardinality(Listed(entries)) <= DepthLevels
<1> DEFINE n == Len(entries)
           K == Listed(entries)
           upTo(i) == {j \in 1..i : Usable(entries[j])}
<1>1. n \in Nat /\ DOMAIN entries = 1..n
  OBVIOUS
<1>2. /\ K \subseteq 1..n
      /\ \A i \in K : Usable(entries[i]) /\ Cardinality(upTo(i)) <= DepthLevels
  BY <1>1 DEF Listed
<1> HIDE DEF K, n
<1>3. IsFiniteSet(1..n) /\ IsFiniteSet(K) /\ Cardinality(K) \in Nat /\ K \subseteq Int
  <2>1. IsFiniteSet(1..n)
    BY <1>1, FS_Interval
  <2>2. IsFiniteSet(K)
    BY <1>2, <2>1, FS_Subset
  <2> QED
    BY <1>1, <1>2, <2>1, <2>2, FS_CardinalityType
<1>4. Cardinality(K) <= DepthLevels
  <2>1. CASE K = {}
    BY <2>1, FS_EmptySet, DepthAssumption
  <2>2. CASE K # {}
    <3> DEFINE S == {n - i : i \in K}
    <3>1. S \subseteq Nat /\ S # {}
      BY <1>1, <1>2, <2>2
    <3> HIDE DEF S
    <3>2. PICK least \in S : \A k \in S : least <= k
      BY <3>1, LeastNatural
    <3>3. PICK i \in K : least = n - i
      BY <3>2 DEF S
    <3>4. \A j \in K : j <= i
      <4> SUFFICES ASSUME NEW j \in K PROVE j <= i
        OBVIOUS
      <4>1. n - j \in S
        BY DEF S
      <4>2. n - i <= n - j
        BY <3>2, <3>3, <4>1
      <4>3. i \in Int /\ j \in Int
        BY <1>3
      <4> QED
        BY <1>1, <4>2, <4>3
    <3>5. K \in SUBSET upTo(i)
      <4>1. ASSUME NEW j \in K
            PROVE  j \in 1..i /\ Usable(entries[j])
        <5>1. j \in 1..n /\ j <= i /\ i \in Int /\ Usable(entries[j])
          BY <1>2, <1>3, <3>4
        <5> QED
          BY <1>1, <5>1
      <4> QED
        BY <4>1
    <3>6. IsFiniteSet(upTo(i))
      <4>1. IsFiniteSet(1..i)
        BY <1>3, FS_Interval
      <4>2. upTo(i) \in SUBSET (1..i)
        OBVIOUS
      <4> HIDE DEF upTo
      <4> QED
        BY <4>1, <4>2, FS_Subset
    <3>7. Cardinality(upTo(i)) <= DepthLevels
      BY <1>2
    <3> HIDE DEF upTo
    <3>8. Cardinality(K) <= Cardinality(upTo(i)) /\ Cardinality(upTo(i)) \in Nat
      BY <3>5, <3>6, FS_Subset, FS_CardinalityType
    <3> QED
      BY <1>3, <3>7, <3>8, DepthAssumption
  <2> QED
    BY <2>1, <2>2
<1> QED
  BY <1>3, <1>4 DEF K

\* The levels of a side of the cash segment are the prices its entries list.
Holds(side, entries) ==
    /\ Len(side) = Cardinality(Listed(entries)) /\ Len(side) <= DepthLevels
    /\ Prices(entries) = {side[r].paise : r \in 1..Len(side)}
    /\ \A r \in 1..Len(side) : /\ side[r].paise \in Int
                               /\ side[r].price = 4 * side[r].paise

LEMMA CashLevel ==
    ASSUME NEW e, e.price \in Int, NEW exchange, exchange # "CDE"
    PROVE  LevelOf(e, exchange).paise = e.price /\ LevelOf(e, exchange).price = 4 * e.price
<1>1. LevelOf(e, exchange) = Level(e.price * 4, e.quantity, e.orders)
  BY DEF LevelOf, QuarterPaise
<1>2. e.price * 4 \in Int /\ e.price * 4 = 4 * e.price
  OBVIOUS
<1>3. RoundHalfEven(e.price * 4, 4) = e.price
  BY <1>2, WholePaise
<1> QED
  BY <1>1, <1>2, <1>3 DEF Level

LEMMA SideHoldsPrices ==
    ASSUME NEW entries \in Seq(Offers), NEW exchange, exchange # "CDE",
           NEW descending \in BOOLEAN
    PROVE  Holds(ParseDepth(entries, exchange, descending), entries)
<1> DEFINE K == Listed(entries)
           level == [i \in K |-> LevelOf(entries[i], exchange)]
           side == ParseDepth(entries, exchange, descending)
<1>1. side = BestFirst(level, descending)
  BY KeptIsListed
<1>2. K \subseteq Int /\ IsFiniteSet(K) /\ Cardinality(K) <= DepthLevels
  BY ListedFit
<1>3. \A i \in K : i \in DOMAIN entries /\ Usable(entries[i])
  BY DEF Listed
<1>4. ASSUME NEW i \in K
      PROVE  /\ IsParsed(level[i])
             /\ level[i].paise = entries[i].price /\ level[i].price = 4 * entries[i].price
             /\ entries[i].price \in Int
  <2>1. entries[i] \in Offers /\ Usable(entries[i])
    BY <1>3
  <2>2. entries[i].price \in Int
    BY <2>1 DEF Offers, Usable
  <2>3. level[i] = LevelOf(entries[i], exchange)
    OBVIOUS
  <2>4. IsParsed(LevelOf(entries[i], exchange))
    BY <1>3, UsableOffers
  <2> QED
    BY <2>2, <2>3, <2>4, CashLevel
<1>5. DOMAIN level = K
  OBVIOUS
<1> HIDE DEF K, level, side
<1>6. /\ Len(side) = Cardinality(K)
      /\ \A r \in 1..Len(side) : \E i \in K : side[r] = level[i]
      /\ \A i \in K : \E r \in 1..Len(side) : side[r] = level[i]
  <2>1. \A i \in K : IsParsed(level[i])
    BY <1>4
  <2>2. IsMade(BestFirst(level, descending), K, level)
    BY <1>2, <1>5, <2>1, BestFirstIsASide
  <2> QED
    BY <1>1, <2>2 DEF IsMade
<1>7. {entries[i].price : i \in K} = {side[r].paise : r \in 1..Len(side)}
  <2>1. ASSUME NEW i \in K
        PROVE  \E r \in 1..Len(side) : entries[i].price = side[r].paise
    BY <1>4, <1>6
  <2>2. ASSUME NEW r \in 1..Len(side)
        PROVE  \E i \in K : side[r].paise = entries[i].price
    BY <1>4, <1>6
  <2> DEFINE listed == {entries[i].price : i \in K}
             made == {side[r].paise : r \in 1..Len(side)}
  <2>3. \A x \in listed : x \in made
    BY <2>1
  <2>4. \A x \in made : x \in listed
    BY <2>2
  <2> HIDE DEF listed, made
  <2>5. listed = made
    BY <2>3, <2>4
  <2> QED
    BY <2>5 DEF listed, made
<1>8. \A r \in 1..Len(side) : side[r].paise \in Int /\ side[r].price = 4 * side[r].paise
  BY <1>4, <1>6
<1> QED
  BY <1>2, <1>6, <1>7, <1>8 DEF Holds, Prices, K, side

(* A side without a repeated price is sorted strictly, and only such.      *)
LEMMA SortedWhenDistinct ==
    ASSUME NEW side, NEW sign \in {1, -1}, IsSide(side, sign),
           NEW entries, Holds(side, entries)
    PROVE  /\ Sorted(side, sign) <=> Cardinality(Prices(entries)) = Cardinality(Listed(entries))
           /\ IsFiniteSet(Prices(entries))
<1> DEFINE n == Len(side)
           P == Prices(entries)
           f == [r \in 1..n |-> side[r].paise]
<1>1. n \in Nat /\ \A r \in 1..n : side[r].paise \in Int
  BY DEF IsSide, Holds
<1>2. \A i, j \in 1..n : i < j => sign * side[i].paise <= sign * side[j].paise
  BY DEF IsSide
<1>3. P = {side[r].paise : r \in 1..n} /\ n = Cardinality(Listed(entries))
  BY DEF Holds
<1> HIDE DEF n, P
<1>4. f \in Surjection(1..n, P)
  BY <1>3 DEF Surjection
<1>5. IsFiniteSet(1..n) /\ Cardinality(1..n) = n
  BY <1>1, FS_Interval
<1>6. IsFiniteSet(P) /\ (Cardinality(P) = n <=> f \in Injection(1..n, P))
  BY <1>4, <1>5, FS_Surjection
<1>7. ASSUME Sorted(side, sign)
      PROVE  f \in Injection(1..n, P)
  <2>1. ASSUME NEW i \in 1..n, NEW j \in 1..n, i < j
        PROVE  side[i].paise # side[j].paise
    <3>1. i + 1 \in 1..n /\ i \in 1..(n - 1) /\ i \in Int /\ j \in Int
      BY <1>1, <2>1
    <3>2. sign * side[i].paise < sign * side[i + 1].paise
      BY <1>7, <3>1 DEF Sorted, n
    <3>3. i + 1 = j \/ sign * side[i + 1].paise <= sign * side[j].paise
      BY <1>2, <2>1, <3>1
    <3> DEFINE x == side[i].paise
               y == side[i + 1].paise
               z == side[j].paise
    <3>4. x \in Int /\ y \in Int /\ z \in Int
      BY <1>1, <3>1
    <3>5. sign * x < sign * y /\ (y = z \/ sign * y <= sign * z)
      BY <3>2, <3>3
    <3> HIDE DEF x, y, z
    <3>6. x # z
      BY <3>4, <3>5
    <3> QED
      BY <3>6 DEF x, z
  <2>2. \A i, j \in 1..n : f[i] = f[j] => i = j
    <3> SUFFICES ASSUME NEW i \in 1..n, NEW j \in 1..n, f[i] = f[j], i # j
                 PROVE  FALSE
      OBVIOUS
    <3>1. i < j \/ j < i
      BY <1>1
    <3>2. side[i].paise = side[j].paise
      OBVIOUS
    <3> QED
      BY <2>1, <3>1, <3>2
  <2> QED
    BY <1>4, <2>2 DEF Surjection, Injection, IsInjective
<1>8. ASSUME f \in Injection(1..n, P)
      PROVE  Sorted(side, sign)
  <2> SUFFICES ASSUME NEW i \in 1..(n - 1)
               PROVE  sign * side[i].paise < sign * side[i + 1].paise
    BY DEF Sorted, n
  <2>1. i \in 1..n /\ i + 1 \in 1..n /\ i < i + 1 /\ i # i + 1
    BY <1>1
  <2>2. f[i] # f[i + 1]
    BY <1>8, <2>1 DEF Injection, IsInjective
  <2>3. sign * side[i].paise <= sign * side[i + 1].paise
    BY <1>2, <2>1
  <2> DEFINE x == side[i].paise
             y == side[i + 1].paise
  <2>4. x \in Int /\ y \in Int /\ x # y
    BY <1>1, <2>1, <2>2
  <2>5. sign * x <= sign * y
    BY <2>3
  <2> HIDE DEF x, y
  <2>6. sign * x < sign * y
    BY <2>4, <2>5
  <2> QED
    BY <2>6 DEF x, y
<1> QED
  BY <1>3, <1>6, <1>7, <1>8 DEF n, P

LEMMA MaxIs ==
    ASSUME NEW S, S \subseteq Int, NEW m \in S, \A x \in S : x <= m
    PROVE  Max(S) = m
<1> DEFINE Highest(x) == \A y \in S : x >= y
<1>1. m \in S /\ Highest(m)
  OBVIOUS
<1>2. Max(S) = CHOOSE x \in S : Highest(x)
  BY DEF Max
<1> HIDE DEF Highest
<1>3. Max(S) \in S /\ Highest(Max(S))
  BY <1>1, <1>2
<1>4. Max(S) >= m /\ Max(S) <= m
  BY <1>3 DEF Highest
<1>5. Max(S) \in Int /\ m \in Int
  BY <1>3
<1> QED
  BY <1>4, <1>5

LEMMA MinIs ==
    ASSUME NEW S, S \subseteq Int, NEW m \in S, \A x \in S : m <= x
    PROVE  Min(S) = m
<1> DEFINE Lowest(x) == \A y \in S : x <= y
<1>1. m \in S /\ Lowest(m)
  OBVIOUS
<1>2. Min(S) = CHOOSE x \in S : Lowest(x)
  BY DEF Min
<1> HIDE DEF Lowest
<1>3. Min(S) \in S /\ Lowest(Min(S))
  BY <1>1, <1>2
<1>4. Min(S) <= m /\ m <= Min(S)
  BY <1>3 DEF Lowest
<1>5. Min(S) \in Int /\ m \in Int
  BY <1>3
<1> QED
  BY <1>4, <1>5

\* The first level of a side is at the best of the listed prices.
LEMMA TouchIsBest ==
    ASSUME NEW side, NEW sign \in {1, -1}, IsSide(side, sign),
           NEW entries, Holds(side, entries)
    PROVE  /\ side = << >> <=> Prices(entries) = {}
           /\ side # << >> =>
                /\ side[1].paise \in Int /\ side[1].price = 4 * side[1].paise
                /\ side[1].quantity \in Int /\ side[1].quantity > 0
                /\ sign = -1 => Max(Prices(entries)) = side[1].paise
                /\ sign = 1 => Min(Prices(entries)) = side[1].paise
<1> DEFINE n == Len(side)
           P == Prices(entries)
           best == side[1].paise
<1>1. /\ n \in Nat /\ (n = 0 => side = << >>)
      /\ \A r \in 1..n : /\ side[r].paise \in Int /\ side[r].price = 4 * side[r].paise
                         /\ side[r].quantity \in Int /\ side[r].quantity > 0
      /\ P = {side[r].paise : r \in 1..n}
  BY DEF IsSide, Holds, IsParsed
<1>2. \A i, j \in 1..n : i < j => sign * side[i].paise <= sign * side[j].paise
  BY DEF IsSide
<1>3. side = << >> => n = 0
  OBVIOUS
<1> HIDE DEF n, P
<1>4. CASE n = 0
  <2>1. 1..n = {}
    BY <1>4
  <2> QED
    BY <1>1, <1>4, <2>1 DEF P
<1>5. CASE n # 0
  <2>1. 1 \in 1..n /\ side # << >>
    BY <1>1, <1>3, <1>5
  <2>2. best \in P /\ best \in Int /\ P \subseteq Int
    BY <1>1, <2>1
  <2>3. ASSUME NEW r \in 1..n
        PROVE  sign * best <= sign * side[r].paise
    <3>1. side[r].paise \in Int
      BY <1>1
    <3>2. CASE r = 1
      BY <2>2, <3>2
    <3>3. CASE r # 1
      <4>1. 1 < r
        BY <1>1, <3>3
      <4> QED
        BY <1>2, <2>1, <4>1
    <3> QED
      BY <3>2, <3>3
  <2>4. \A x \in P : x \in Int /\ sign * best <= sign * x
    BY <1>1, <2>3
  <2> HIDE DEF best
  <2>5. sign = -1 => \A x \in P : x <= best
    BY <2>2, <2>4
  <2>6. sign = 1 => \A x \in P : best <= x
    BY <2>2, <2>4
  <2>7. /\ sign = -1 => Max(P) = best
        /\ sign = 1 => Min(P) = best
    BY <2>2, <2>5, <2>6, MaxIs, MinIs
  <2> QED
    BY <1>1, <2>1, <2>2, <2>7 DEF P, best
<1> QED
  BY <1>4, <1>5

\* Levels of a parsed side have nothing wrong with them on their own.
LEMMA NoLevelFaults ==
    ASSUME NEW side, NEW sign, IsSide(side, sign), NEW entries, Holds(side, entries)
    PROVE  LevelsFaults(side) = {}
<1>1. ASSUME NEW i \in DOMAIN side
      PROVE  LevelFaults(side[i]) = {}
  <2>1. IsParsed(side[i]) /\ side[i].paise \in Int /\ side[i].price = 4 * side[i].paise
    BY DEF IsSide, Holds
  <2>2. side[i].quantity > 0 /\ side[i].orders > 0 /\ side[i].paise > 0
        /\ side[i].quantity \in Int /\ side[i].orders \in Int
    BY <2>1 DEF IsParsed
  <2>3. ~(side[i].quantity < 0) /\ ~(side[i].orders < 0) /\ ~(side[i].paise <= 0)
    BY <2>1, <2>2
  <2> QED
    BY <2>3 DEF LevelFaults
<1> QED
  BY <1>1 DEF LevelsFaults

\* What the validator asks of the touch, of prices b and a and an LTP in whole paise.
TouchSound(c, tick, b, a, ltp) ==
    /\ b < a \/ (b = a /\ c.allow_locked_book)
    /\ 4 * b >= c.min_price
    /\ c.require_ltp => ltp > 0
    /\ 400 * (a - b) <= c.max_spread_ticks * tick
    /\ c.require_tick_alignment => (4 * b) % tick = 0 /\ (4 * a) % tick = 0

LEMMA TouchFaultsIff ==
    ASSUME NEW c, NEW tick \in Int, NEW s, NEW b \in Int, NEW a \in Int, NEW ltp \in Int,
           c.min_price \in Int, c.max_spread_ticks \in Int,
           s.bids[1].paise = b, s.bids[1].price = 4 * b,
           s.asks[1].paise = a, s.asks[1].price = 4 * a,
           s.bids[1].quantity \in Int, s.bids[1].quantity > 0,
           s.asks[1].quantity \in Int, s.asks[1].quantity > 0,
           s.ltp = 4 * ltp
    PROVE  TouchFaults(c, tick, s) = {} <=> TouchSound(c, tick, b, a, ltp)
<1> DEFINE low == 4 * b < c.min_price \/ 4 * a < c.min_price
           off == c.require_tick_alignment /\ ((4 * b) % tick # 0 \/ (4 * a) % tick # 0)
           crossed == a < b
           locked == a = b /\ ~c.allow_locked_book
           untraded == c.require_ltp /\ 4 * ltp <= 0
           wide == 100 * (4 * a - 4 * b) > c.max_spread_ticks * tick
<1>1. s.bids[1].quantity # 0 /\ s.asks[1].quantity # 0
  OBVIOUS
<1>2. TouchFaults(c, tick, s)
        = (IF low THEN {"INVALID_PRICE"} ELSE {})
          \cup (IF off THEN {"TICK_MISALIGNED"} ELSE {})
          \cup (IF crossed THEN {"CROSSED_BOOK"} ELSE {})
          \cup (IF locked THEN {"LOCKED_BOOK"} ELSE {})
          \cup (IF untraded THEN {"INVALID_LTP"} ELSE {})
          \cup (IF wide THEN {"SPREAD_TOO_WIDE"} ELSE {})
  BY <1>1 DEF TouchFaults
<1>3. ~crossed /\ ~locked <=> b < a \/ (b = a /\ c.allow_locked_book)
  OBVIOUS
<1>4. ~crossed => (~low <=> 4 * b >= c.min_price)
  OBVIOUS
<1>5. ~untraded <=> (c.require_ltp => ltp > 0)
  OBVIOUS
<1>6. ~wide <=> 400 * (a - b) <= c.max_spread_ticks * tick
  <2>1. 100 * (4 * a - 4 * b) = 400 * (a - b)
    OBVIOUS
  <2>2. c.max_spread_ticks * tick \in Int
    OBVIOUS
  <2> QED
    BY <2>1, <2>2
<1>7. ~off <=> (c.require_tick_alignment => (4 * b) % tick = 0 /\ (4 * a) % tick = 0)
  OBVIOUS
<1> HIDE DEF low, off, crossed, locked, untraded, wide
<1>8. TouchFaults(c, tick, s) = {}
        <=> ~low /\ ~off /\ ~crossed /\ ~locked /\ ~untraded /\ ~wide
  BY <1>2
<1> QED
  BY <1>3, <1>4, <1>5, <1>6, <1>7, <1>8 DEF TouchSound

LEMMA ValidationTyped ==
    ASSUME NEW c, ConfigTyped(c), EverySectionFits(c)
    PROVE  /\ c.validation.min_price \in Int /\ c.validation.max_spread_ticks \in Int
           /\ Tick(c) \in Int
<1>1. c.validation.min_price \in Int /\ c.validation.max_spread_ticks \in Int
  BY DEF ConfigTyped, SectionTyped, Default, OfKind, Text, Boolean, DefaultValidation
<1>2. c.symbol.tick_size \in Int
  BY DEF ConfigTyped, SectionTyped, Default, OfKind, Text, Boolean, DefaultSymbol
<1> QED
  BY <1>1, <1>2 DEF Tick

\* What is left of the validator on a snapshot that came through the parser.
LEMMA SoundFrameIff ==
    ASSUME NEW m \in WireFrames, ParseSnapshot(m).parsed, m.exchange # "CDE",
           ConfigTyped(config), EverySectionFits(config)
    PROVE  StructuralFaults(config.validation, Tick(config), ParseSnapshot(m)) = {}
             <=> SoundFrame(config.validation, m)
<1> DEFINE c == config.validation
           tick == Tick(config)
           s == ParseSnapshot(m)
           ltp == AsInt(m.ltp, 0)
           bids == Prices(m.buy)
           asks == Prices(m.sell)
<1>1. /\ s.bids = ParseDepth(m.buy, m.exchange, TRUE)
      /\ s.asks = ParseDepth(m.sell, m.exchange, FALSE)
      /\ s.ltp = ltp * QuarterPaise(m.exchange)
  BY DEF ParseSnapshot, Unparsed, Snapshot
<1>2. m.buy \in Seq(Offers) /\ m.sell \in Seq(Offers)
  BY DEF WireFrames
<1>3. IsSide(s.bids, -1) /\ IsSide(s.asks, 1)
  BY ParsedSnapshot DEF IsSnapshot
<1>4. Holds(s.bids, m.buy) /\ Holds(s.asks, m.sell)
  BY <1>1, <1>2, SideHoldsPrices
<1>5. /\ ltp \in Int /\ s.ltp = 4 * ltp
      /\ ltp > 0 <=> m.ltp.as \in {"number", "text"} /\ m.ltp.n > 0
  <2>1. m.ltp \in WireNumbers
    BY DEF WireFrames
  <2>2. /\ ltp \in Int
        /\ ltp > 0 <=> m.ltp.as \in {"number", "text"} /\ m.ltp.n > 0
    BY <2>1 DEF WireNumbers, AsInt
  <2>3. s.ltp = ltp * 4
    BY <1>1 DEF QuarterPaise
  <2> QED
    BY <2>2, <2>3
<1>6. c.min_price \in Int /\ c.max_spread_ticks \in Int /\ tick \in Int
  BY ValidationTyped
<1> HIDE DEF c, tick, s, ltp, bids, asks
<1>7. /\ s.bids = << >> <=> bids = {}
      /\ s.bids # << >> =>
            /\ s.bids[1].paise \in Int /\ s.bids[1].price = 4 * s.bids[1].paise
            /\ s.bids[1].quantity \in Int /\ s.bids[1].quantity > 0
            /\ Max(bids) = s.bids[1].paise
  BY <1>3, <1>4, TouchIsBest DEF bids
<1>8. /\ s.asks = << >> <=> asks = {}
      /\ s.asks # << >> =>
            /\ s.asks[1].paise \in Int /\ s.asks[1].price = 4 * s.asks[1].paise
            /\ s.asks[1].quantity \in Int /\ s.asks[1].quantity > 0
            /\ Min(asks) = s.asks[1].paise
  BY <1>3, <1>4, TouchIsBest DEF asks
<1>9. CASE bids = {} \/ asks = {}
  <2>1. StructuralFaults(c, tick, s) = {"MISSING_L1"}
    BY <1>7, <1>8, <1>9 DEF StructuralFaults
  <2>2. ~SoundFrame(c, m)
    BY <1>9 DEF SoundFrame, bids, asks
  <2> QED
    BY <2>1, <2>2 DEF c, tick, s
<1>10. CASE bids # {} /\ asks # {}
  <2> DEFINE b == s.bids[1].paise
             a == s.asks[1].paise
             single == /\ Cardinality(bids) = Cardinality(Listed(m.buy))
                       /\ Cardinality(asks) = Cardinality(Listed(m.sell))
  <2>1. ~(Len(s.bids) > DepthLevels) /\ ~(Len(s.asks) > DepthLevels)
    <3>1. /\ Len(s.bids) \in Nat /\ Len(s.bids) <= DepthLevels
          /\ Len(s.asks) \in Nat /\ Len(s.asks) <= DepthLevels
      BY <1>3, <1>4 DEF IsSide, Holds
    <3> QED
      BY <3>1, DepthAssumption
  <2>2. StructuralFaults(c, tick, s) = LadderFaults(s) \cup TouchFaults(c, tick, s)
    BY <1>7, <1>8, <1>10, <2>1 DEF StructuralFaults
  <2>3. LadderFaults(s) = {} <=> single
    <3>1. LevelsFaults(s.bids) = {} /\ LevelsFaults(s.asks) = {}
      BY <1>3, <1>4, NoLevelFaults
    <3>2. /\ Sorted(s.bids, -1) <=> Cardinality(bids) = Cardinality(Listed(m.buy))
          /\ Sorted(s.asks, 1) <=> Cardinality(asks) = Cardinality(Listed(m.sell))
      BY <1>3, <1>4, SortedWhenDistinct DEF bids, asks
    <3>3. LadderFaults(s) = {} <=> Sorted(s.bids, -1) /\ Sorted(s.asks, 1)
      BY <3>1 DEF LadderFaults
    <3> QED
      BY <3>2, <3>3
  <2>4. TouchFaults(c, tick, s) = {} <=> TouchSound(c, tick, b, a, ltp)
    BY <1>5, <1>6, <1>7, <1>8, <1>10, TouchFaultsIff
  <2>5. b = Max(bids) /\ a = Min(asks)
    BY <1>7, <1>8, <1>10
  <2> HIDE DEF b, a, single
  <2>6. SoundFrame(c, m) <=> single /\ TouchSound(c, tick, b, a, ltp)
    BY <1>5, <1>10, <2>5 DEF SoundFrame, TouchSound, single, bids, asks, tick
  <2> QED
    BY <2>2, <2>3, <2>4, <2>6 DEF c, tick, s
<1> QED
  BY <1>9, <1>10

(* Of the cash segment, the parser and the validator together accept the   *)
(* frames whose listed levels form a sound book, and those only.           *)
THEOREM AcceptedExactlyWhenSoundHolds == Spec => []AcceptedExactlyWhenSound
<1>1. ASSUME SignalInv PROVE AcceptedExactlyWhenSound
  <2> SUFFICES ASSUME verdict \notin {Unjudged, {"unsubscribed"}},
                      payload.form = "mapping", payload.exchange # "CDE"
               PROVE  verdict = Accepted <=> SoundFrame(config.validation, payload)
    BY DEF AcceptedExactlyWhenSound
  <2>1. /\ payload \in WireFrames /\ ParseSnapshot(payload).parsed
        /\ verdict = StructuralFaults(config.validation, Tick(config),
                                      ParseSnapshot(payload))
    BY <1>1 DEF SignalInv, FrameInv, Judged
  <2>2. ConfigTyped(config) /\ EverySectionFits(config)
    BY <1>1 DEF SignalInv, IdleInv, ConfigInv
  <2> QED
    BY <2>1, <2>2, SoundFrameIff DEF Accepted
<1> QED
  BY <1>1, SignalInvHolds, PTL
=============================================================================
