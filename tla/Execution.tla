----------------------------- MODULE Execution -----------------------------
(***************************************************************************)
(* engine/execution.py: fills against the visible ladder, the levels of a  *)
(* position, its value at a later book, and the cost of the round trip.    *)
(*                                                                         *)
(* Prices are whole ticks; a fraction of a tick is a pair [n, d].  A book  *)
(* is [bids, asks], each a sequence of [price, quantity], best first.      *)
(* c is the configuration.  Its charges and rates make Rupees count hundred *)
(* thousandths of a tick.                                                  *)
(***************************************************************************)
EXTENDS Configuration, Loops, FiniteSetsExt

Lower(a, b) == IF a < b THEN a ELSE b
Higher(a, b) == IF a > b THEN a ELSE b

\* Python's round(n / d), halves to the even neighbour.
RoundToTick(n, d) ==
    LET q == n \div d
        r == n % d
    IN IF 2 * r < d \/ (2 * r = d /\ q % 2 = 0) THEN q ELSE q + 1

----------------------------------------------------------------------------
(* Fills.                                                                  *)

\* Levels behind an empty one are not walked.
Reachable(levels) ==
    {i \in DOMAIN levels : \A j \in 1..i : levels[j].quantity > 0}

DepthBefore(levels, i) == Partial([j \in DOMAIN levels |-> levels[j].quantity])[i - 1]

Taken(levels, quantity, i) ==
    IF i \in Reachable(levels)
      THEN Lower(levels[i].quantity, Higher(0, quantity - DepthBefore(levels, i)))
      ELSE 0

Filled(levels, quantity) == Total([i \in DOMAIN levels |-> Taken(levels, quantity, i)])

Notional(levels, quantity) ==
    Total([i \in DOMAIN levels |-> Taken(levels, quantity, i) * levels[i].price])

\* A mutant of Walk: the average is taken over what was asked for.
WalkOverRequested(levels, quantity) ==
    [notional |-> Notional(levels, quantity), per |-> quantity,
     filled |-> Filled(levels, quantity)]

Walk(levels, quantity) ==
    LET filled == Filled(levels, quantity)
    IN IF filled = 0 THEN [notional |-> levels[1].price, per |-> 1, filled |-> 0]
       ELSE [notional |-> Notional(levels, quantity), per |-> filled, filled |-> filled]

\* buying is 1 for a buy and -1 for a sale; the offset is adverse, and no fill
\* beats the touch it crossed.
Quote(c, levels, quantity, offset, buying) ==
    LET touch == levels[1].price
        base == IF c.execution.use_depth_walk THEN Walk(levels, quantity)
                ELSE [notional |-> touch, per |-> 1, filled |-> quantity]
        price == RoundToTick(base.notional * offset.d + buying * offset.n * base.per,
                             base.per * offset.d)
    IN [price |-> IF buying = 1 THEN Higher(price, touch) ELSE Lower(price, touch),
        filled |-> base.filled,
        complete |-> base.filled >= quantity]

\* The tick form if it is set, else basis points of the mid (half of bid plus ask).
OffsetTicks(ticks, bps, book) ==
    IF ticks # Unset THEN [n |-> ticks, d |-> 100]
    ELSE [n |-> bps * (book.bids[1].price + book.asks[1].price), d |-> 20000]

EntryQuote(c, book, direction, quantity) ==
    Quote(c, IF direction = 1 THEN book.asks ELSE book.bids, quantity,
          OffsetTicks(c.execution.entry_aggression_ticks,
                      c.execution.entry_aggression_bps, book),
          direction)

ExitQuote(c, book, direction, quantity) ==
    Quote(c, IF direction = 1 THEN book.bids ELSE book.asks, quantity,
          OffsetTicks(c.execution.exit_slippage_ticks, c.execution.exit_slippage_bps, book),
          -direction)

----------------------------------------------------------------------------
(* Positions.                                                              *)

\* A mutant of LevelAt: distances are rounded down before they are applied.
LevelAtWholeTicks(price, distance) == price + distance \div 100

LevelAt(price, distance) == RoundToTick(100 * price + distance, 100)

OpenPosition(c, book, direction, quantity) ==
    LET quote == EntryQuote(c, book, direction, quantity)
    IN [direction |-> direction,
        quantity |-> IF quote.filled > 0 THEN quote.filled ELSE quantity,
        entry |-> quote.price,
        stop |-> LevelAt(quote.price, -direction * c.state_machine.stop_ticks),
        target |-> LevelAt(quote.price, direction * c.state_machine.target_ticks),
        complete |-> quote.complete]

\* The side a position closes against.
ExitTouch(position, book) ==
    IF position.direction = 1 THEN book.bids[1].price ELSE book.asks[1].price

StopHit(position, book) ==
    position.direction * (ExitTouch(position, book) - position.stop) <= 0

TargetHit(position, book) ==
    position.direction * (ExitTouch(position, book) - position.target) >= 0

UnrealisedTicks(position, book) ==
    position.direction * (ExitTouch(position, book) - position.entry)

----------------------------------------------------------------------------
(* Costs.                                                                  *)

\* A fee of zero is switched off, not free.
Brokerage(cost, turnover) ==
    Min({cost.brokerage_rate * turnover}
        \cup {1000 * fee : fee \in {cost.brokerage_flat_per_order,
                                   cost.brokerage_cap_per_order} \ {0}})

Rupees(cost, buy, sell, quantity) ==
    IF ~cost.enabled \/ quantity <= 0 THEN 0
    ELSE LET brokerage == Brokerage(cost, buy * quantity) + Brokerage(cost, sell * quantity)
             turnover == (buy + sell) * quantity
             charges == (cost.exchange_txn_rate + cost.sebi_rate) * turnover
             statutory == (cost.stt_sell_rate * sell + cost.stamp_duty_buy_rate * buy)
                            * quantity
         IN 100 * (brokerage + charges + statutory) + cost.gst_rate * (brokerage + charges)

RupeeUnit == 100000

MarkToMarket(c, position, book) ==
    LET quote == ExitQuote(c, book, position.direction, position.quantity)
        gross == (quote.price - position.entry) * position.direction * position.quantity
        cost == IF position.direction = 1
                  THEN Rupees(c.cost, position.entry, quote.price, position.quantity)
                  ELSE Rupees(c.cost, quote.price, position.entry, position.quantity)
    IN [price |-> quote.price, gross |-> gross, complete |-> quote.complete,
        net |-> gross * RupeeUnit - cost]

\* A mutant of ClearsCost: the spread is left out of what the target must earn.
ClearsGrossCost(c, book, quantity) ==
    \/ ~c.execution.enforce_cost_gate \/ ~c.cost.enabled
    \/ LET cost == Rupees(c.cost, book.asks[1].price, book.bids[1].price, quantity)
       IN c.state_machine.target_ticks * quantity * RupeeUnit
            >= cost * c.execution.min_edge_multiple

\* Target, cost and spread are all in basis points of the mid, so the mid drops
\* out; min_edge_multiple is in hundredths, as are the ticks of the target.
ClearsCost(c, book, quantity) ==
    \/ ~c.execution.enforce_cost_gate \/ ~c.cost.enabled
    \/ LET ask == book.asks[1].price
           bid == book.bids[1].price
           spread == (ask - bid) * quantity * RupeeUnit
       IN c.state_machine.target_ticks * quantity * RupeeUnit
            >= (Rupees(c.cost, ask, bid, quantity) + spread) * c.execution.min_edge_multiple
============================================================================
