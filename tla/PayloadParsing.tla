--------------------------- MODULE PayloadParsing ---------------------------
(***************************************************************************)
(* adapter/parsing.py and the structural half of engine/validator.py: from *)
(* a callback payload to a snapshot, from a snapshot to a book that may be *)
(* traded on, and from a snapshot to the recorder's line and back.         *)
(*                                                                         *)
(* A price is a whole number of quarter paise, which both the cash and the *)
(* currency wire formats express exactly.  The one place where doubles     *)
(* tell is a recorded price half way between two paise.  Text is what it   *)
(* says: nothing, a keep-alive, prose, broken JSON, or the JSON of a value. *)
(***************************************************************************)
EXTENDS Loops, SequencesExt

CONSTANTS
    DepthLevels,        \* SNAPQUOTE_DEPTH_LEVELS
    HalvesDown,         \* half paise that a hundred times their rupees rounds down
    Nesting             \* a bound: how deep lists stand in lists

ASSUME DepthAssumption == DepthLevels \in Nat \ {0} /\ Nesting \in Nat /\ Nesting >= 2

\* Wire steps to quarter paise: divisor 100 for cash and F&O; 10 000 000 for
\* currency derivatives, whose prices here count steps of 0.0025 rupees.
QuarterPaise(exchange) == IF exchange = "CDE" THEN 1 ELSE 4

\* Python's round(n / d): to the nearest whole number, halves to the even one.
RoundHalfEven(n, d) ==
    LET q == n \div d
        r == n % d
    IN CASE 2 * r < d -> q
         [] 2 * r > d -> q + 1
         [] OTHER -> IF q % 2 = 0 THEN q ELSE q + 1

\* A wire value is read as a number when it is one or spells one.
AsInt(v, default) == IF v.as \in {"number", "text"} THEN v.n ELSE default

----------------------------------------------------------------------------
(* Callback payloads.                                                      *)

Failed == [failed |-> TRUE, frames |-> << >>]
Frames(fs) == [failed |-> FALSE, frames |-> fs]

IsHeartbeat(p) ==
    CASE p.form = "none" -> TRUE
      [] p.form \in {"text", "bytes"} -> p.says \in {"keepalive", "prose"}
      [] p.form = "mapping" -> p.token.as = "absent"
      [] OTHER -> FALSE

\* A mutant of Decoded: bytes are handed on undecoded.
DecodedTextOnly(p) ==
    IF p.form = "text" /\ p.says = "json" THEN p.value ELSE p

Decoded(p) ==
    IF p.form \in {"text", "bytes"} /\ p.says = "json" THEN p.value ELSE p

Entry(v) == [is |-> "entry", value |-> v]

\* What one call of coerce_payloads makes of its argument: a mapping, which stays
\* one, the entries it calls itself with, nothing, or PayloadError.
Coerced(item) ==
    LET d == Decoded(item.value)
    IN IF item.is # "entry" THEN <<item>>
       ELSE IF IsHeartbeat(item.value) THEN << >>
       ELSE CASE d.form = "mapping" -> <<[is |-> "frame", value |-> d]>>
              [] d.form = "list" -> [i \in DOMAIN d.items |-> Entry(d.items[i])]
              [] OTHER -> <<[is |-> "failed", value |-> d]>>

CoerceAll(items) == FlattenSeq([i \in DOMAIN items |-> Coerced(items[i])])

\* The recursion, call depth by call depth.
Calls(p) ==
    LET after[n \in 0..Nesting] ==
            IF n = 0 THEN Coerced(Entry(p)) ELSE CoerceAll(after[n - 1])
    IN after

\* A list is as good as its worst entry: one that fails takes the others along.
CoercePayloads(p) ==
    LET items == Calls(p)[Nesting]
    IN IF \E i \in DOMAIN items : items[i].is # "frame" THEN Failed
       ELSE Frames([i \in DOMAIN items |-> items[i].value])

----------------------------------------------------------------------------
(* Frames.                                                                 *)

Usable(e) == e.mapping /\ e.price > 0 /\ e.quantity > 0

\* list.sort on the paise, which leaves equal ones as they stand.
BestFirst(level, descending) ==
    LET sign == IF descending THEN -1 ELSE 1
        order == StableOrder(DOMAIN level, [i \in DOMAIN level |-> sign * level[i].paise])
    IN [r \in DOMAIN order |-> level[order[r]]]

Level(price, quantity, orders) ==
    [paise |-> RoundHalfEven(price, 4), price |-> price, quantity |-> quantity,
     orders |-> IF orders > 0 THEN orders ELSE 1]

LevelOf(e, exchange) == Level(e.price * QuarterPaise(exchange), e.quantity, e.orders)

\* A mutant of ParseDepth: padding counts towards the levels of a side.
ParseDepthPadded(entries, exchange, descending) ==
    LET kept == {i \in DOMAIN entries : Usable(entries[i]) /\ i <= DepthLevels}
    IN BestFirst([i \in kept |-> LevelOf(entries[i], exchange)], descending)

\* Entries are read until there are as many levels as a snapshot has.
ParseDepth(entries, exchange, descending) ==
    LET usable == {i \in DOMAIN entries : Usable(entries[i])}
        kept == {i \in usable : Cardinality({j \in usable : j <= i}) <= DepthLevels}
    IN BestFirst([i \in kept |-> LevelOf(entries[i], exchange)], descending)

Unparsed == [parsed |-> FALSE]

Snapshot(token, exchange, ltp, volume, totalBuy, totalSell, bids, asks) ==
    [parsed |-> TRUE, token |-> token, exchange |-> exchange, ltp |-> ltp,
     volume |-> volume, totalBuy |-> totalBuy, totalSell |-> totalSell,
     bids |-> bids, asks |-> asks]

ParseSnapshot(m) ==
    LET bids == ParseDepth(m.buy, m.exchange, TRUE)
        asks == ParseDepth(m.sell, m.exchange, FALSE)
    IN IF m.token.as \in {"absent", "blank"} \/ (bids = << >> /\ asks = << >>)
         THEN Unparsed
         ELSE Snapshot(m.token.n, m.exchange, AsInt(m.ltp, 0) * QuarterPaise(m.exchange),
                       AsInt(m.volume, 0), AsInt(m.totalBuy, 0), AsInt(m.totalSell, 0),
                       bids, asks)

\* What one callback leaves behind: snapshots for the queue and counted errors.
OnData(p) ==
    LET c == CoercePayloads(p)
        read == [i \in DOMAIN c.frames |-> ParseSnapshot(c.frames[i])]
    IN [put |-> Kept(read, {i \in DOMAIN read : read[i].parsed}),
        errors |-> (IF c.failed THEN 1 ELSE 0)
                   + Cardinality({i \in DOMAIN read : ~read[i].parsed}),
        heartbeat |-> IsHeartbeat(p)]

----------------------------------------------------------------------------
(* The recorder's line holds prices in rupees and sorted ladders, no paise. *)

ToRecord(s) ==
    [s EXCEPT !.bids = [i \in DOMAIN @ |-> [price |-> @[i].price, quantity |-> @[i].quantity,
                                            orders |-> @[i].orders]],
              !.asks = [i \in DOMAIN @ |-> [price |-> @[i].price, quantity |-> @[i].quantity,
                                            orders |-> @[i].orders]]]

\* round(price * 100) on rupees in doubles.  What the product misses a price by is
\* too little to matter unless that price is half way between two paise.
RecordedPaise(price) ==
    CASE price % 4 = 2 /\ price \in HalvesDown -> price \div 4
      [] price % 4 = 2 /\ price \notin HalvesDown -> price \div 4 + 1
      [] OTHER -> RoundHalfEven(price, 4)

RecordedLevel(l) == [Level(l.price, l.quantity, l.orders) EXCEPT !.paise = RecordedPaise(l.price)]

RecordSide(levels, descending) ==
    LET real == {i \in DOMAIN levels : levels[i].price > 0 /\ levels[i].quantity > 0}
    IN BestFirst([i \in real |-> RecordedLevel(levels[i])], descending)

FromRecord(r) ==
    LET bids == RecordSide(r.bids, TRUE)
        asks == RecordSide(r.asks, FALSE)
    IN IF bids = << >> /\ asks = << >> THEN Unparsed
       ELSE Snapshot(r.token, r.exchange, r.ltp, r.volume, r.totalBuy, r.totalSell, bids, asks)

----------------------------------------------------------------------------
(* The validator's structural checks.  The order in which it names faults  *)
(* is left out; that they are looked for only on two non-empty ladders is  *)
(* not.                                                                    *)

LevelFaults(l) ==
    {f \in {"NEGATIVE_QUANTITY", "NEGATIVE_ORDERS", "INVALID_PRICE"} :
        CASE f = "NEGATIVE_QUANTITY" -> l.quantity < 0
          [] f = "NEGATIVE_ORDERS" -> l.orders < 0
          [] f = "INVALID_PRICE" -> l.paise <= 0 /\ l.quantity > 0}

Sorted(levels, sign) ==
    \A i \in 1..(Len(levels) - 1) : sign * levels[i].paise < sign * levels[i + 1].paise

LevelsFaults(levels) == UNION {LevelFaults(levels[i]) : i \in DOMAIN levels}

LadderFaults(s) ==
    LevelsFaults(s.bids) \cup LevelsFaults(s.asks)
    \cup (IF Sorted(s.bids, -1) /\ Sorted(s.asks, 1) THEN {} ELSE {"UNSORTED_DEPTH"})

\* c is the validation section; tick is the tick size in quarter paise.
TouchFaults(c, tick, s) ==
    LET bid == s.bids[1]
        ask == s.asks[1]
        Fault(name, holds) == IF holds THEN {name} ELSE {}
    IN Fault("ZERO_BID", bid.quantity = 0)
       \cup Fault("ZERO_ASK", ask.quantity = 0)
       \cup Fault("INVALID_PRICE", bid.price < c.min_price \/ ask.price < c.min_price)
       \cup Fault("TICK_MISALIGNED",
                  c.require_tick_alignment /\ (bid.price % tick # 0 \/ ask.price % tick # 0))
       \cup Fault("CROSSED_BOOK", ask.paise < bid.paise)
       \cup Fault("LOCKED_BOOK", ask.paise = bid.paise /\ ~c.allow_locked_book)
       \cup Fault("INVALID_LTP", c.require_ltp /\ s.ltp <= 0)
       \cup Fault("SPREAD_TOO_WIDE", 100 * (ask.price - bid.price) > c.max_spread_ticks * tick)

StructuralFaults(c, tick, s) ==
    IF s.bids = << >> \/ s.asks = << >> THEN {"MISSING_L1"}
    ELSE IF Len(s.bids) > DepthLevels \/ Len(s.asks) > DepthLevels THEN {"MALFORMED_PAYLOAD"}
    ELSE LadderFaults(s) \cup TouchFaults(c, tick, s)
============================================================================
