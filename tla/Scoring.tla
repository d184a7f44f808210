------------------------------ MODULE Scoring ------------------------------
(***************************************************************************)
(* From features to a decision's inputs: the scores of engine/quality.py,  *)
(* engine/confidence.py, engine/composite.py before its smoother, and      *)
(* engine/threshold.py.                                                    *)
(*                                                                         *)
(* c is the configuration and s what the shared statistics report, in its  *)
(* units; a score is a pair of numerator and mass.                         *)
(***************************************************************************)
EXTENDS Construction, Loops

CONSTANT Power(_, _)        \* factor ** exponent, both per cent

Within(v, low, high) == IF v < low THEN low ELSE IF v > high THEN high ELSE v

\* linear_scale in per cent; Python raises unless high > low.
Scaled(v, low, high) == Within((100 * (v - low)) \div (high - low), 0, 100)

----------------------------------------------------------------------------
(* Quality: what blocks an entry, and the scores.                          *)

\* Leading levels with quantity and enough orders behind it.
UsableLevels(c, levels) ==
    Cardinality({i \in DOMAIN levels :
        \A j \in 1..i : /\ levels[j].quantity > 0 /\ levels[j].price > 0
                        /\ levels[j].orders >= c.quality.min_orders_per_level})

UsableBothSides(c, book) ==
    Within(UsableLevels(c, book.bids), 0, UsableLevels(c, book.asks))

Blocks(c, s, book) ==
    {reason \in {"WARMUP", "SPREAD_TOO_WIDE", "INSUFFICIENT_DEPTH_LEVELS", "BOOK_TOO_THIN",
                 "LIQUIDITY_BELOW_THRESHOLD", "FEED_GAP"} :
        CASE reason = "WARMUP" -> s.warmup < 100
          [] reason = "SPREAD_TOO_WIDE" -> s.spread > c.quality.max_signal_spread_ticks
          [] reason = "INSUFFICIENT_DEPTH_LEVELS" ->
                UsableBothSides(c, book) < c.quality.min_depth_levels
          [] reason = "BOOK_TOO_THIN" ->
                \E levels \in {book.bids, book.asks} :
                    levels[1].quantity < c.quality.min_top_quantity
          [] reason = "LIQUIDITY_BELOW_THRESHOLD" ->
                s.depth_ready /\ s.relative_depth < c.quality.min_relative_depth
          [] reason = "FEED_GAP" -> s.since_gap < c.quality.gap_block_ms}

LiquidityScore(c, s) ==
    Scaled(2 * s.relative_depth, c.quality.min_relative_depth, 200)

Product(a, b) == (a * b) \div 100

\* Zero spread is impossible here and the spread's scale ends at one tick: it
\* exists only if max_signal_spread_ticks is more than that.
BookQuality(c, s) ==
    LET spread == Scaled(-s.spread, -c.quality.max_signal_spread_ticks, -100)
        ladder == Scaled(s.usable_levels, c.quality.min_depth_levels - 1, 5)
    IN Product(Product(spread, ladder), Product(LiquidityScore(c, s), s.warmup))

----------------------------------------------------------------------------
(* Confidence.                                                             *)

\* _guard: no factor is zero, so none hides the order of the others.
Guarded(factor) == Within(factor, 2, 100)

\* Volatility counts against the instrument's own spread, once it is known.
VolatilityFactor(c, s) ==
    LET reference == Product(IF s.spread_mean > 100 THEN s.spread_mean ELSE 100,
                             c.confidence.volatility_tolerance)
    IN IF ~s.mid_volatility_ready THEN 100
       ELSE Within(100 - (100 * s.mid_volatility) \div reference, 0, 100)

\* Compression takes at most a quarter off the stability of the touch.
StabilityFactor(s) ==
    IF ~s.compression.valid THEN s.touch_stability
    ELSE Product(s.touch_stability, 75 + s.compression.value \div 4)

Factors(c, s) ==
    [spread |-> Guarded(Scaled(-s.spread, -c.confidence.spread_wide_ticks,
                               -c.confidence.spread_tight_ticks)),
     liquidity |-> Guarded(LiquidityScore(c, s)),
     volatility |-> Guarded(VolatilityFactor(c, s)),
     book_quality |-> Guarded(BookQuality(c, s)),
     stability |-> Guarded(StabilityFactor(s)),
     warmup |-> Guarded(s.warmup)]

\* exp of the sum of exponents times logarithms: a product of powers.
ConfidenceFor(c, name, feature, factors, regime) ==
    LET sensitivity == SensitivityFor(c.confidence, name)
        powered(key) == Power(factors[key], sensitivity[key])
        touch == Product(Product(powered("spread"), powered("liquidity")),
                         powered("volatility"))
        market == Product(Product(Product(touch, powered("book_quality")),
                                  powered("stability")), powered("warmup"))
        confidence == Product(Product(market, feature.local),
                              MultiplierFor(c.confidence, regime))
    IN IF ~feature.valid \/ confidence < c.confidence.min_feature_confidence THEN 0
       ELSE confidence

----------------------------------------------------------------------------
(* Composite.                                                              *)

CollinearGroup == {"microprice", "weighted_obi"}

\* The sum of f over names, feature after feature.
Sum(f, names) ==
    Total([i \in DOMAIN FeatureOrder |->
              IF FeatureOrder[i] \in names THEN f[FeatureOrder[i]] ELSE 0])

\* Only valid features with a weight take part.
Weighted(table, votes) ==
    {n \in DOMAIN votes \cap DOMAIN table : votes[n].valid /\ table[n] > 0}

\* The cap multiplies the group's weights by cap * total / group; here everybody's
\* weight is multiplied by the denominator instead.
Capped(cap, table, votes) ==
    LET names == Weighted(table, votes)
        members == CollinearGroup \cap names
        total == Sum(table, names)
        group == Sum(table, members)
    IN IF Cardinality(members) >= 2 /\ 100 * group > cap * total
         THEN [n \in names |-> IF n \in members THEN table[n] * cap * total
                                                ELSE table[n] * 100 * group]
         ELSE [n \in names |-> table[n]]

\* A mutant of ScoreIsUsable: the mass itself is compared, which depends on the scale.
ScoreIsUsableByMass(c, used, mass, weight) ==
    Cardinality(used) >= c.composite.min_features /\ mass >= 100 * c.composite.min_confidence

\* The average confidence decides, not the mass.
ScoreIsUsable(c, used, mass, weight) ==
    /\ Cardinality(used) >= c.composite.min_features
    /\ mass >= c.composite.min_confidence * weight

\* Without usable evidence the result is invalid and the smoother is not fed.
Composite(c, table, votes) ==
    LET weights == Capped(c.composite.collinear_cap, table, votes)
        masses == [n \in DOMAIN weights |-> weights[n] * votes[n].confidence]
        used == {n \in DOMAIN weights : masses[n] > 0}
        mass == Sum(masses, used)
    IN [valid |-> used # {} /\ ScoreIsUsable(c, used, mass, Sum(weights, used)),
        numerator |-> Sum([n \in DOMAIN weights |-> votes[n].value * masses[n]], used),
        mass |-> mass,
        used |-> used]

----------------------------------------------------------------------------
(* Thresholds, in hundredths of a per cent for the sake of the ratios.     *)

Multiplier(c, s) ==
    100 + (c.threshold.spread_vol_coeff * s.spread_dispersion
           + c.threshold.mid_vol_coeff * s.mid_dispersion
           + c.threshold.obi_vol_coeff * s.imbalance_dispersion
           + c.threshold.instability_coeff * (100 - s.touch_stability)) \div 100

EntryThreshold(c, s) ==
    IF ~s.spread_ready \/ ~s.mid_volatility_ready THEN c.threshold.max_entry
    ELSE Within(Product(c.threshold.base, Multiplier(c, s)),
                c.threshold.min_entry, c.threshold.max_entry)

Thresholds(c, s) ==
    LET entry == EntryThreshold(c, s)
    IN [entry |-> 100 * entry, watch |-> entry * c.threshold.watch_ratio,
        exit |-> entry * c.threshold.exit_ratio]
============================================================================
