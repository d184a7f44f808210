---------------------------- MODULE MCSignalPath ----------------------------
(***************************************************************************)
(* Instances of SignalPath.  A launch has a purpose: to try single values  *)
(* of the configuration, to try payloads on the shipped one, to try what   *)
(* goes into a score, or to trade; each is rich in its own part and        *)
(* offers little else.                                                     *)
(***************************************************************************)
EXTENDS SignalPromises

\* Decreasing, increasing, and odd: all the feature code relies on.
MCDecay(d) == IF d >= 11 THEN 1 ELSE 12 - d
MCLog(q) == IF q <= 0 THEN 0 ELSE CASE q = 1 -> 3 [] q = 2 -> 5 [] q = 3 -> 6 [] OTHER -> 8
MCTanh(n, d) == Clamped(Twentieths(n, 4 * d), -20, 20)

\* Straight lines between the whole powers.
MCPower(base, exponent) ==
    IF exponent <= 100 THEN 100 - ((100 - base) * exponent) \div 100
    ELSE (base * (100 - ((100 - base) * (exponent - 100)) \div 100)) \div 100

----------------------------------------------------------------------------
(* Launches.                                                               *)

Object(document) == [holds |-> "object", document |-> document]
Set(section, field, as, value) == <<section, field>> :> [as |-> as, is |-> value]
NoEnvironment == [key \in DOMAIN DefaultCredentials |-> ""]

\* Every file lists the instrument, unless its document says otherwise.
Listing == Set("symbols", "listed", "boolean", TRUE)

Launch(document, purpose_) ==
    [file |-> Object(document @@ Listing), environment |-> NoEnvironment, live |-> FALSE,
     purpose |-> purpose_]

Keys == UNION {{<<section, field>> : field \in DOMAIN Default[section]} :
                section \in DOMAIN Default}

DefaultOf(key) == Default[key[1]][key[2]]
Numeric == {key \in Keys : key[2] \notin Text \cup Boolean \cup Mapping}

\* Around the bounds of the sections, and around the value that is shipped.
Trial(key) ==
    {-2, 0, 1, 2, 3, 5, 6, 18, 50, 60, 85, 99, 100, 101, 200, 201, 600}
        \cup {DefaultOf(key) - 1, DefaultOf(key) + 1}

Ranges ==
    UNION {{Launch(Set(key[1], key[2], "whole", v), "ranges") : v \in Trial(key)} :
            key \in Numeric}

\* Every JSON type for every key, and keys that do not exist.
Types ==
    {Launch(Set(key[1], key[2], as, DefaultOf(key)), "ranges") :
        key \in Keys, as \in {"whole", "decimal", "text", "boolean", "object", "null"}}
    \cup {Launch(Set("regime", "windw", "whole", 90), "ranges"),
          Launch(Set("symbol", "token", "text", "blank"), "ranges"),
          Launch(Set("runtime", "log_level", "text", "LOUD"), "ranges"),
          Launch(Set("symbols", "repeated", "boolean", TRUE), "ranges"),
          Launch(Set("adapter", "correlation_id", "text", "blank"), "ranges"),
          Launch(Set("runtime", "renderer", "text", "curses"), "ranges")}

Files ==
    {[Launch(<< >>, "ranges") EXCEPT !.file = [holds |-> h]] :
        h \in {"nothing", "prose", "list"}}

Credentials == [key \in DOMAIN DefaultCredentials |-> "secret"]

Live ==
    {[Launch(<< >>, "ranges") EXCEPT !.environment = e, !.live = TRUE] :
        e \in {NoEnvironment, Credentials, [Credentials EXCEPT !.pin = ""]}}

\* Bounds that cross: each is in range, the pair is not.
Pairs ==
    {Launch(Set("threshold", "min_entry", "whole", low)
            @@ Set("threshold", "max_entry", "whole", high), "ranges") :
        low \in {20, 60}, high \in {20, 60}}

Wire ==
    {Launch(document, "wire") :
        document \in {<< >>,
                      Set("validation", "allow_locked_book", "boolean", TRUE)
                      @@ Set("validation", "require_ltp", "boolean", FALSE),
                      Set("validation", "require_tick_alignment", "boolean", TRUE)
                      @@ Set("validation", "max_spread_ticks", "whole", 200)}}

Signal ==
    {Launch(document, "signal") :
        document \in {Set("quality", "warmup_snapshots", "whole", 1),
                      Set("composite", "min_confidence", "whole", 60)
                      @@ Set("confidence", "min_feature_confidence", "whole", 30),
                      Set("weighted_obi", "deep_levels", "whole", 2)
                      @@ Set("composite", "min_features", "whole", 1)
                      @@ Set("composite", "collinear_cap", "whole", 10)}}

Priced(quantity) ==
    Set("symbol", "quantity", "whole", quantity)
    @@ Set("composite", "min_confidence", "whole", 0)
    @@ Set("composite", "min_features", "whole", 1)
    @@ Set("cost", "brokerage_flat_per_order", "whole", 1)
    @@ Set("cost", "brokerage_cap_per_order", "whole", 0)
    @@ Set("cost", "brokerage_rate", "whole", 30)

Levels(stop, target) ==
    Set("state_machine", "stop_ticks", "whole", stop)
    @@ Set("state_machine", "target_ticks", "whole", target)

Slippage(entry, exit) ==
    Set("execution", "entry_aggression_ticks", "whole", entry)
    @@ Set("execution", "exit_slippage_ticks", "whole", exit)

Gate(multiple) ==
    Set("execution", "enforce_cost_gate", "boolean", TRUE)
    @@ Set("execution", "min_edge_multiple", "whole", multiple)

DepthWalk == Set("execution", "use_depth_walk", "boolean", TRUE)

Trade ==
    {Launch(document, "trade") :
        document \in {Priced(3) @@ Levels(200, 300),
                      Priced(3) @@ Levels(60, 160) @@ Slippage(50, 50) @@ DepthWalk,
                      Priced(5) @@ Levels(150, 250) @@ Slippage(0, 0) @@ DepthWalk,
                      Priced(2) @@ Levels(200, 200) @@ Slippage(0, 0) @@ Gate(100),
                      Priced(2) @@ Levels(50, 240) @@ Slippage(100, 0) @@ Gate(90)}}

MCLaunches == Ranges \cup Types \cup Files \cup Live \cup Pairs \cup Wire \cup Signal \cup Trade

----------------------------------------------------------------------------
(* Payloads.  Wire prices are paise, of which a tick has five.             *)

Number(n) == [as |-> "number", n |-> n]
Offer(price, quantity) ==
    [mapping |-> TRUE, price |-> price, quantity |-> quantity, orders |-> 1]

Frame(buy, sell) ==
    [form |-> "mapping", token |-> [as |-> "text", n |-> "T1"], exchange |-> "NSE",
     buy |-> buy, sell |-> sell, ltp |-> Number(50), volume |-> Number(7),
     totalBuy |-> Number(6), totalSell |-> Number(3)]

Plain == Frame(<<Offer(45, 2), Offer(40, 1)>>, <<Offer(50, 1), Offer(55, 2)>>)

SideEntries ==
    {Offer(45, 2), Offer(40, 1), Offer(47, 1), Offer(55, 2), Offer(50, 0), Offer(0, 1),
     [mapping |-> FALSE]}

Ladders(entries) == {<< >>} \cup UNION {[1..n -> entries] : n \in 1..4}

PlainFrames ==
    {[Plain EXCEPT !.buy = side] : side \in {l \in Ladders(SideEntries) : Len(l) <= 3}}
    \cup {[Plain EXCEPT !.sell = side] :
            side \in {l \in Ladders({Offer(50, 1), Offer(45, 1), Offer(55, 2), Offer(0, 1)}) :
                        Len(l) <= 4}}
    \cup {[Plain EXCEPT !.token = t] :
            t \in {[as |-> "absent", n |-> ""], [as |-> "blank", n |-> ""],
                   [as |-> "text", n |-> "T2"]}}
    \cup {[Plain EXCEPT !.ltp = v] :
            v \in {[as |-> "text", n |-> 50], [as |-> "other", n |-> 0], Number(0), Number(-1)}}
    \cup {[Plain EXCEPT !.exchange = "CDE"]}

\* What round(rupees * 100) does to half paise up to 512, in IEEE doubles: the rule for
\* halves, but for those whose product falls short of the half or passes it.
MCHalvesDown ==
    ({p \in 1..512 : p % 8 = 2} \ {218, 490, 498}) \cup {230, 406, 414, 502, 510}

\* Prices in quarter paise, among them 100.5, 101.5, 102.5 and 103.5 paise.
CurrencyFrames ==
    {[Frame(buy, sell) EXCEPT !.exchange = "CDE"] :
        buy \in {l \in Ladders({Offer(402, 1), Offer(406, 1), Offer(408, 2)}) : Len(l) <= 2},
        sell \in {l \in Ladders({Offer(409, 1), Offer(410, 1), Offer(414, 2)}) : Len(l) <= 2}}

Forms(p) ==
    {[form |-> "text", says |-> "json", value |-> p],
     [form |-> "bytes", says |-> "json", value |-> p]}

MCPayloads(purpose_) ==
    CASE purpose_ = "ranges" -> {Plain}
      [] purpose_ = "wire" ->
            PlainFrames \cup CurrencyFrames
            \cup UNION {Forms(p) : p \in {Plain, [Plain EXCEPT !.token.as = "absent"]}}
            \cup {[form |-> "none"], [form |-> "list", items |-> <<Plain, Plain>>],
                  [form |-> "list", items |-> <<Plain, [form |-> "text", says |-> "broken"]>>],
                  [form |-> "text", says |-> "keepalive"], [form |-> "bytes", says |-> "prose"]}
      [] purpose_ = "signal" ->
            {Frame(<<Offer(45, a), Offer(40, b), Offer(30, 2)>>,
                   <<Offer(50 + w, c), Offer(60 + w, d), Offer(65 + w, 1)>>) :
                a \in {1, 3}, b \in {1, 2}, c \in {1, 3}, d \in {1, 2}, w \in {0, 5}}
            \cup {Frame(<<Offer(45, 2)>>, <<Offer(50, 1)>>)}
      [] purpose_ = "trade" ->
            {Frame(<<Offer(m, a), Offer(m - 5, 1), Offer(m - 15, 3)>>,
                   <<Offer(m + w, b), Offer(m + w + 10, 2)>>) :
                m \in {40, 50, 60, 65}, w \in {5, 10}, a \in {1, 2}, b \in {1, 2, 4}}
      [] OTHER -> {}

----------------------------------------------------------------------------
(* Surroundings.                                                           *)

Calm ==
    [spread_mean |-> 200, mid_volatility |-> 20, mid_volatility_ready |-> TRUE,
     spread_ready |-> TRUE, touch_stability |-> 100,
     compression |-> [valid |-> FALSE, value |-> 0], warmup |-> 100, relative_depth |-> 150,
     depth_ready |-> TRUE, since_gap |-> 5000, spread_dispersion |-> 10,
     mid_dispersion |-> 10, imbalance_dispersion |-> 10]

Wild ==
    [Calm EXCEPT !.mid_volatility = 300, !.touch_stability = 40, !.spread_dispersion = 200,
                 !.mid_dispersion = 150, !.compression = [valid |-> TRUE, value |-> 20]]

Young == [Calm EXCEPT !.mid_volatility_ready = FALSE, !.spread_ready = FALSE, !.warmup = 50]

Others(momentum, refill) ==
    [momentum |-> momentum, refill |-> refill, acceleration |-> Excluded,
     queue_persistence |-> Value(4, 80)]

Quiet == [regime |-> "RANGE", tape |-> [last |-> 10, reference |-> 9, warm |-> TRUE,
                                        age |-> "fresh"],
          others |-> Others(Value(10, 100), Excluded), s |-> Calm]

MCSurroundings(purpose_) ==
    CASE purpose_ = "signal" ->
            {[regime |-> regime, tape |-> tape, others |-> others, s |-> s] :
                regime \in {"TREND", "RANGE", "UNKNOWN"},
                tape \in {Quiet.tape, [Quiet.tape EXCEPT !.last = 8, !.age = "stale"],
                          [Quiet.tape EXCEPT !.warm = FALSE]},
                others \in {Others(m, r) : m \in {Value(-15, 100), Excluded, Value(20, 60)},
                                           r \in {Value(-20, 50), Excluded}},
                s \in {Calm, Wild, Young}}
      [] purpose_ = "ranges" -> {Quiet, [Quiet EXCEPT !.s = Wild], [Quiet EXCEPT !.s = Young]}
      [] OTHER -> {Quiet}
=============================================================================
