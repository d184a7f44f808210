---------------------------- MODULE BookFeatures ----------------------------
(***************************************************************************)
(* The features that are functions of one book and the last trade:         *)
(* features/microprice.py before its smoother, weighted_obi.py,            *)
(* depth_slope.py, spread.py, and ltp_confirmation.py given its reference. *)
(*                                                                         *)
(* Prices are whole ticks, values twentieths and confidences per cent.     *)
(* The exponential weight of a level, the logarithm of a queue and tanh    *)
(* are parameters of which only the sign, the order and the symmetry are   *)
(* used.  f is the feature's section of the configuration.                 *)
(***************************************************************************)
EXTENDS Loops

CONSTANTS
    Decay(_),           \* exp(-distance / decay_ticks), distance in half ticks
    Log(_),             \* log(1 + quantity)
    Tanh(_, _)          \* tanh of a quotient, in twentieths

Excluded == [valid |-> FALSE, value |-> 0, local |-> 0]
Value(v, local) == [valid |-> TRUE, value |-> v, local |-> local]

Clamped(v, low, high) == IF v < low THEN low ELSE IF v > high THEN high ELSE v

\* A signed quotient in twentieths, rounded towards zero so that it stays odd.
Twentieths(n, d) == IF n < 0 THEN -((20 * (-n)) \div d) ELSE (20 * n) \div d

\* linear_scale: low maps to 0, high to 20; it raises unless high > low.
LinearScale(v, low, high) == Clamped(Twentieths(v - low, high - low), 0, 20)

TwiceMid(book) == book.bids[1].price + book.asks[1].price

----------------------------------------------------------------------------
(* Weighted imbalance.                                                     *)

\* The levels first..last of a side, up to the first empty one.
LevelsWithin(levels, first, last) ==
    {i \in DOMAIN levels : /\ first <= i /\ i <= last
                           /\ \A j \in first..i : levels[j].quantity > 0}

\* The quantities of those levels, weighted, and nothing for the others.
MassOf(levels, first, last, distance) ==
    Total([i \in DOMAIN levels |->
              IF i \in LevelsWithin(levels, first, last)
                THEN levels[i].quantity * Decay(distance[i]) ELSE 0])

\* A mutant of Mass: distances are taken from the side's own touch.
MassFromTouch(book, levels, first, last) ==
    MassOf(levels, first, last,
           [i \in DOMAIN levels |-> 2 * (levels[1].price - levels[i].price)])

Distance(book, price) ==
    IF 2 * price < TwiceMid(book) THEN TwiceMid(book) - 2 * price
                                  ELSE 2 * price - TwiceMid(book)

Mass(book, levels, first, last) ==
    MassOf(levels, first, last, [i \in DOMAIN levels |-> Distance(book, levels[i].price)])

Balance(book, first, last) ==
    LET bid == Mass(book, book.bids, first, last)
        ask == Mass(book, book.asks, first, last)
    IN [any |-> bid + ask > 0,
        value |-> IF bid + ask > 0 THEN Twentieths(bid - ask, bid + ask) ELSE 0]

\* How far a corroborator agrees takes at most its weight off the confidence.
Agreeing(value, primary) == IF primary >= 0 THEN value ELSE -value
Discount(weight, agreement) == 100 - (weight * (20 - agreement)) \div 40

DeepFactor(f, book, primary) ==
    LET deep == Balance(book, f.primary_levels + 1, f.deep_levels)
    IN IF f.deep_levels <= f.primary_levels \/ ~deep.any THEN 100
       ELSE Discount(f.deep_agreement_weight, Agreeing(deep.value, primary))

\* Totals that differ too much are depth parked far from the market.
AggregateFactor(f, book, primary) ==
    LET buy == book.totalBuy
        sell == book.totalSell
        lopsided == \/ buy <= 0 \/ sell <= 0
                    \/ buy > f.aggregate_max_ratio * sell
                    \/ sell > f.aggregate_max_ratio * buy
    IN IF lopsided THEN 100
       ELSE Discount(f.aggregate_agreement_weight,
                     Agreeing(Twentieths(buy - sell, buy + sell), primary))

WeightedObi(f, book) ==
    LET primary == Balance(book, 1, f.primary_levels)
    IN IF ~primary.any THEN Excluded
       ELSE Value(primary.value,
                  (DeepFactor(f, book, primary.value)
                     * AggregateFactor(f, book, primary.value)) \div 100)

----------------------------------------------------------------------------
(* Microprice: the tilt over half the spread.                              *)

Tilt(book) ==
    LET bid == book.bids[1]
        ask == book.asks[1]
        total == bid.quantity + ask.quantity
        twice == 2 * (bid.price * ask.quantity + ask.price * bid.quantity)
    IN [n |-> twice - TwiceMid(book) * total, d |-> (ask.price - bid.price) * total]

Microprice(book) ==
    IF \/ book.bids[1].quantity + book.asks[1].quantity <= 0
       \/ book.asks[1].price <= book.bids[1].price
      THEN Excluded
      ELSE Value(Twentieths(Tilt(book).n, Tilt(book).d), 100)

----------------------------------------------------------------------------
(* Depth slope: how fast the queues fall off, bid against ask.             *)

Steps(levels, i) == IF levels[i].price < levels[1].price
                      THEN levels[1].price - levels[i].price
                      ELSE levels[i].price - levels[1].price

\* Log decay per tick from the first level to the second, as a quotient.
PairDecay(levels) ==
    [known |-> /\ Len(levels) >= 2 /\ levels[1].quantity > 0 /\ Steps(levels, 2) > 0,
     n |-> IF Len(levels) >= 2 THEN Log(levels[2].quantity) - Log(levels[1].quantity) ELSE 0,
     d |-> IF Len(levels) >= 2 THEN Steps(levels, 2) ELSE 1]

\* Least squares over the leading levels; fewer than three give no estimate.
RegressionSlope(f, levels) ==
    LET used == LevelsWithin(levels, 1, f.deep_levels)
        count == Cardinality(used)
        x == [i \in DOMAIN levels |-> IF i \in used THEN Steps(levels, i) ELSE 0]
        y == [i \in DOMAIN levels |-> IF i \in used THEN Log(levels[i].quantity) ELSE 0]
        sumX == Total(x)
        n == count * Total([i \in DOMAIN x |-> x[i] * y[i]]) - sumX * Total(y)
        d == count * Total([i \in DOMAIN x |-> x[i] * x[i]]) - sumX * sumX
    IN [known |-> count >= 3 /\ d > 0, n |-> n, d |-> d]

Asymmetry(bid, ask) == Tanh(bid.n * ask.d - ask.n * bid.d, bid.d * ask.d)

SignOf(v) == IF v > 0 THEN 1 ELSE IF v < 0 THEN -1 ELSE 0

SlopeConfidence(f, book, value) ==
    LET bid == RegressionSlope(f, book.bids)
        ask == RegressionSlope(f, book.asks)
    IN IF ~f.use_deep_levels \/ ~bid.known \/ ~ask.known THEN 100
       ELSE Discount(40, Asymmetry(bid, ask) * SignOf(value))

DepthSlope(f, book) ==
    LET bid == PairDecay(book.bids)
        ask == PairDecay(book.asks)
    IN IF ~bid.known \/ ~ask.known THEN Excluded
       ELSE Value(Asymmetry(bid, ask), SlopeConfidence(f, book, Asymmetry(bid, ask)))

----------------------------------------------------------------------------
\* Spread: 100 at tight_ticks, 0 at wide_ticks.
SpreadTightness(f, book) ==
    Value(LinearScale(100 * (book.bids[1].price - book.asks[1].price),
                      -f.wide_ticks, -f.tight_ticks), 100)

\* The last trade against its running reference and against the mid; a stale or
\* unknown tape counts for less.
LtpConfirmation(f, tape, book) ==
    LET drift == Tanh(100 * (tape.last - tape.reference), f.scale_ticks)
        spread == book.asks[1].price - book.bids[1].price
        place == IF spread = 0 THEN 0
                 ELSE Clamped(Twentieths(2 * tape.last - TwiceMid(book), spread), -20, 20)
        blend == (100 - f.position_weight) * drift + f.position_weight * place
    IN IF tape.last <= 0 \/ ~tape.warm THEN Excluded
       ELSE Value(Twentieths(blend, 2000),
                  CASE tape.age = "unknown" -> 60
                    [] tape.age = "stale" -> 30
                    [] tape.age = "fresh" -> 100)

\* Features are signs of pressure: the book with its sides exchanged about a
\* price is the same evidence for the other direction.
Flipped(levels, centre) ==
    [i \in DOMAIN levels |-> [price |-> centre - levels[i].price,
                              quantity |-> levels[i].quantity]]

Mirror(book, centre) ==
    [bids |-> Flipped(book.asks, centre), asks |-> Flipped(book.bids, centre),
     totalBuy |-> book.totalSell, totalSell |-> book.totalBuy]

MirrorTape(tape, centre) ==
    [last |-> centre - tape.last, reference |-> centre - tape.reference,
     warm |-> tape.warm, age |-> tape.age]

\* The reference for the microprice: what the level-one queues alone say.
TopImbalance(book) ==
    LET bid == book.bids[1].quantity
        ask == book.asks[1].quantity
    IN Twentieths(bid - ask, bid + ask)
============================================================================
