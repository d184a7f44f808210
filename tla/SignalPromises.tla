--------------------------- MODULE SignalPromises ---------------------------
(***************************************************************************)
(* What the path from the configuration to a position promises.            *)
(***************************************************************************)
EXTENDS SignalPath

----------------------------------------------------------------------------
(* Configuration.                                                          *)

(* config.py validates every section at construction, the parts of the     *)
(* engine check their parameters again where they raise, and nobody checks *)
(* that the first implies the second.  Four checks are missing, for the    *)
(* quality filter's spread scale, the regime's half-life, the list of      *)
(* instruments and the log level: an accepted configuration runs but for   *)
(* these, and under it the watch and exit levels never pass the entry      *)
(* threshold, which stays within its bounds.                               *)
AcceptedConfigFits ==
    /\ running = "crashed" => \/ config.quality.max_signal_spread_ticks <= 100
                              \/ config.regime.fast_half_life_ms <= 0
                              \/ ~config.symbols.listed
                              \/ config.runtime.log_level \notin LevelNames
    /\ running = "up" =>
        \A around \in Surroundings(purpose) :
            LET t == Thresholds(config, around.s)
            IN /\ 0 < t.watch /\ t.watch <= t.entry /\ t.exit <= t.entry
               /\ 100 * config.threshold.min_entry <= t.entry
               /\ t.entry <= 100 * config.threshold.max_entry

(* config.py:12-15: "Each section validates its own invariants [...] The   *)
(* engine can therefore assume its configuration is sane": a configuration *)
(* that loads never makes the engine raise.                                *)
AcceptedConfigRuns == running # "crashed"

----------------------------------------------------------------------------
(* Payloads.                                                               *)

Wrapped(p) ==
    {[form |-> "text", says |-> "json", value |-> p],
     [form |-> "bytes", says |-> "json", value |-> p],
     [form |-> "list", items |-> <<p>>],
     [form |-> "text", says |-> "json", value |-> [form |-> "list", items |-> <<p>>]]}

\* A ladder read back from the recorder's line: the same offers, each at a paise next
\* to its price; the same ladder unless a price lies half way between two paise.
ReadBack(back, levels) ==
    /\ \E place \in Bijection(DOMAIN back, DOMAIN levels) :
        \A r \in DOMAIN back :
            back[r] = [levels[place[r]] EXCEPT !.paise = back[r].paise]
    /\ \A r \in DOMAIN back :
        -2 <= 4 * back[r].paise - back[r].price /\ 4 * back[r].paise - back[r].price <= 2
    /\ (\A i \in DOMAIN levels : levels[i].price % 4 # 2) => back = levels

(* SmartAPI builds deliver the same frame as a mapping, as JSON text or    *)
(* bytes, or in a list: the engine sees the same snapshot whichever way it *)
(* came.  The recorder writes it out for the replay source, which sees it  *)
(* again, but for half paise: the wire path divides whole numbers and the  *)
(* replay multiplies doubles (parsing.py:240 and 389), so that such a      *)
(* price of the currency segment may come back a paisa off, and its ladder *)
(* in another order.                                                       *)
OneFrameOneSnapshot ==
    payload # None /\ payload.form = "mapping" /\ ~IsHeartbeat(payload) =>
        /\ \A other \in Wrapped(payload) : OnData(other) = OnData(payload)
        /\ \A s \in Range(OnData(payload).put) :
            LET back == FromRecord(ToRecord(s))
            IN /\ back = Snapshot(s.token, s.exchange, s.ltp, s.volume, s.totalBuy,
                                   s.totalSell, back.bids, back.asks)
               /\ ReadBack(back.bids, s.bids) /\ ReadBack(back.asks, s.asks)
               /\ payload.exchange # "CDE" => back = s

\* The entries of a frame's side that are levels: real ones, as many as a snapshot has.
Listed(entries) ==
    {i \in DOMAIN entries :
        /\ Usable(entries[i])
        /\ Cardinality({j \in 1..i : Usable(entries[j])}) <= DepthLevels}

Prices(entries) == {entries[i].price : i \in Listed(entries)}

\* A frame of the cash segment that describes a book one could trade on.
SoundFrame(c, frame) ==
    LET bids == Prices(frame.buy)
        asks == Prices(frame.sell)
    IN /\ bids # {} /\ asks # {}
       /\ Cardinality(bids) = Cardinality(Listed(frame.buy))
       /\ Cardinality(asks) = Cardinality(Listed(frame.sell))
       /\ Max(bids) < Min(asks) \/ (Max(bids) = Min(asks) /\ c.allow_locked_book)
       /\ 4 * Max(bids) >= c.min_price
       /\ c.require_ltp => frame.ltp.as \in {"number", "text"} /\ frame.ltp.n > 0
       /\ 400 * (Min(asks) - Max(bids)) <= c.max_spread_ticks * Tick(config)
       /\ c.require_tick_alignment =>
            (4 * Max(bids)) % Tick(config) = 0 /\ (4 * Min(asks)) % Tick(config) = 0

(* Parser and validator each repair or refuse parts of a frame (padding,   *)
(* order, surplus levels, duplicates): together they let through exactly   *)
(* the frames whose listed levels form a sound book.                       *)
AcceptedExactlyWhenSound ==
    /\ verdict \notin {Unjudged, {"unsubscribed"}}
    /\ payload.form = "mapping" /\ payload.exchange # "CDE"
    => (verdict = Accepted <=> SoundFrame(config.validation, payload))

----------------------------------------------------------------------------
(* Signals.                                                                *)

Opposite(this, that) ==
    /\ that.valid = this.valid /\ that.value = -this.value
    /\ this.value # 0 => that.local = this.local

(* A feature is pressure towards one side: exchanging the sides of the     *)
(* book about its mid turns the sign of the features that are computed     *)
(* from one book (weighted imbalance, depth slope, microprice, and the     *)
(* trade against it) and leaves their confidence alone, as it leaves the   *)
(* tightness of the spread, or the engine would prefer one direction.  The *)
(* microprice's tilt is what the queues at the touch say.  The features    *)
(* that remember earlier books are surroundings here.                      *)
MirroredBooksMirrorSignals ==
    book # None =>
        LET mirrored == Mirror(book, TwiceMid(book))
        IN /\ Opposite(WeightedObi(config.weighted_obi, book),
                       WeightedObi(config.weighted_obi, mirrored))
           /\ Opposite(DepthSlope(config.depth_slope, book),
                       DepthSlope(config.depth_slope, mirrored))
           /\ Opposite(Microprice(book), Microprice(mirrored))
           /\ Microprice(book).valid => Microprice(book).value = TopImbalance(book)
           /\ SpreadTightness(config.spread, book) = SpreadTightness(config.spread, mirrored)
           /\ \A around \in Surroundings(purpose) :
                LET tape == around.tape
                    image == MirrorTape(tape, TwiceMid(book))
                IN tape.last > 0 /\ image.last > 0 =>
                    Opposite(LtpConfirmation(config.ltp_confirmation, tape, book),
                             LtpConfirmation(config.ltp_confirmation, image, mirrored))

(* The score lies between the votes that count; it does not change when    *)
(* a weight table is written in other units; and the two near-duplicate    *)
(* features together never weigh more than collinear_cap of what the table *)
(* weighs before they are capped (composite.py:199-209 takes the share of  *)
(* that total, so that of the capped table they may be more).              *)
ScoreFollowsItsVotes ==
    score # None =>
        /\ \A bound \in {-20, -10, 0, 10, 20} :
            /\ (\A n \in score.used : votes[n].value <= bound)
                    => score.numerator <= bound * score.mass
            /\ (\A n \in score.used : votes[n].value >= bound)
                    => score.numerator >= bound * score.mass
        /\ \A regime \in DOMAIN config.composite.weights :
            LET table == config.composite.weights[regime]
                doubled == [n \in DOMAIN table |-> 2 * table[n]]
                once == Composite(config, table, votes)
                twice == Composite(config, doubled, votes)
                cap == config.composite.collinear_cap
                capped == Capped(cap, table, votes)
                group == CollinearGroup \cap DOMAIN capped
            IN /\ once.valid = twice.valid /\ once.used = twice.used
               /\ group = CollinearGroup =>
                    \* What is not capped is scaled by one factor, the denominator.
                    \A n \in DOMAIN capped \ group :
                        100 * Sum(capped, group) * table[n]
                            <= cap * Sum(table, DOMAIN capped) * capped[n]

----------------------------------------------------------------------------
(* Positions.                                                              *)

\* What the best quantity units of a side cost, taken one at a time.
UnitPrices(levels, quantity) ==
    Total([u \in 1..quantity |->
              levels[Min({i \in DOMAIN levels : DepthBefore(levels, i + 1) >= u})].price])

\* The configured distance, in hundredths of a tick, rounded up.
Aggression ==
    LET o == OffsetTicks(config.execution.entry_aggression_ticks,
                         config.execution.entry_aggression_bps, opened)
    IN (100 * o.n + o.d - 1) \div o.d

(* Averages, basis points and clamps are rounded to the grid: a fill is    *)
(* still no better than the units it took, no worse than the last of them  *)
(* and the configured aggression; a mark never beats the touch, a position *)
(* closed on the book it was opened on has lost the spread, and charges    *)
(* come on top, unless an offset of more than the price has put a fill     *)
(* below nought: nothing in the code keeps it from there.                  *)
QuotesAreAdverse ==
    position # None =>
        LET d == position.direction
            levels == IF d = 1 THEN opened.asks ELSE opened.bids
            q == position.quantity
            walked == IF config.execution.use_depth_walk THEN UnitPrices(levels, q)
                                                         ELSE q * levels[1].price
        IN /\ q <= config.symbol.quantity
           /\ position.complete => q = config.symbol.quantity
           /\ d * (position.entry - levels[1].price) >= 0
           /\ 2 * d * q * position.entry + q >= 2 * d * walked
           /\ 200 * d * q * position.entry
                <= 200 * d * walked + q * (2 * Aggression + 100)
           /\ mark # None =>
                /\ mark.gross <= q * UnrealisedTicks(position, book)
                /\ position.entry >= 0 /\ mark.price >= 0
                        => mark.net <= mark.gross * RupeeUnit
                /\ book = opened =>
                    mark.gross <= -q * (opened.asks[1].price - opened.bids[1].price)

(* Stop and target are rounded to the grid from a rounded entry.  Either   *)
(* stays within half a tick of its distance, so that with distances of     *)
(* more than half a tick the stop is a loss, the target a gain, no         *)
(* position is born at its target, and the stop that fires is the loss it  *)
(* was set to be.                                                          *)
LevelsBracketEntry ==
    position # None =>
        LET d == position.direction
            stop == config.state_machine.stop_ticks
            target == config.state_machine.target_ticks
            loss == 100 * d * (position.entry - position.stop)
            gain == 100 * d * (position.target - position.entry)
        IN /\ stop - 50 <= loss /\ loss <= stop + 50
           /\ target - 50 <= gain /\ gain <= target + 50
           /\ stop > 50 => loss > 0
           /\ target > 50 => gain > 0 /\ ~TargetHit(position, opened)
           /\ mark # None /\ StopHit(position, book) =>
                100 * UnrealisedTicks(position, book) <= 50 - stop

(* enforce_cost_gate asks, before an entry, that the target clear the      *)
(* round trip: a whole position that is then marked at its target, with no *)
(* slippage configured, has earned min_edge_multiple times the charges and *)
(* the spread of the book it was opened on, to the half tick that the      *)
(* target was rounded by.                                                  *)
GateCoversCosts ==
    /\ position # None /\ mark # None
    /\ config.execution.enforce_cost_gate /\ config.cost.enabled
    /\ ~config.execution.use_depth_walk /\ config.execution.exit_slippage_ticks = 0
    => (TargetHit(position, book) =>
            LET ask == opened.asks[1].price
                bid == opened.bids[1].price
                q == position.quantity
            IN (100 * mark.gross + 50 * q) * RupeeUnit
                 >= (Rupees(config.cost, ask, bid, q) + (ask - bid) * q * RupeeUnit)
                        * config.execution.min_edge_multiple)
=============================================================================
