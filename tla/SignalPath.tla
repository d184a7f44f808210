----------------------------- MODULE SignalPath -----------------------------
(***************************************************************************)
(* One instrument from its configuration file to the value of a position:  *)
(* load_config and the construction of the engine, callback payloads       *)
(* parsed and routed, SymbolEngine.process from the validator to the       *)
(* thresholds, and the execution model the state machine calls.            *)
(*                                                                         *)
(* When to enter and to leave is TradingStateMachine's, what the rolling   *)
(* estimators remember SharedStatistics': here either direction may be     *)
(* entered, and what history contributes to a snapshot is a surrounding,   *)
(* [regime, tape, others, s], chosen from a set.                           *)
(***************************************************************************)
EXTENDS PayloadParsing, BookFeatures, Execution, Scoring

CONSTANTS
    Launches,           \* [file, environment, live, purpose]: how a run may start
    Payloads(_),        \* what the feed may deliver, by the purpose of the launch
    Surroundings(_)     \* what history may contribute, by the purpose

----------------------------------------------------------------------------
(* What goes in: documents whose values are what their JSON type says,     *)
(* frames as the client library delivers them, and a history of statistics *)
(* in their ranges.                                                        *)

OfKind(field, v) ==
    CASE field \in Text -> v \in STRING
      [] field \in Boolean -> v \in BOOLEAN
      [] field = "sensitivities" ->
            \A name \in DOMAIN v : \A factor \in DOMAIN NeutralSensitivity :
                factor \in DOMAIN v[name] /\ v[name][factor] \in Int
      [] field = "regime_multipliers" -> \A regime \in DOMAIN v : v[regime] \in Int
      [] field = "weights" ->
            \A regime \in DOMAIN v : \A name \in DOMAIN v[regime] : v[regime][name] \in Int
      [] OTHER -> v \in Int

ASSUME LaunchAssumption ==
    \A launch \in Launches :
        /\ launch.file.holds \in {"nothing", "prose", "list", "object"}
        /\ launch.file.holds = "object" =>
            \A key \in DOMAIN launch.file.document :
                LET value == launch.file.document[key]
                IN Coerces(key[2], value) => OfKind(key[2], value.is)
        /\ \A key \in DOMAIN launch.environment : launch.environment[key] \in STRING

Offers == [mapping : {FALSE}]
          \cup [mapping : {TRUE}, price : Int, quantity : Int, orders : Int]

WireNumbers == [as : {"number", "text", "other"}, n : Int]

WireFrames ==
    [form : {"mapping"}, token : [as : {"absent", "blank", "text"}, n : STRING],
     exchange : STRING, buy : Seq(Offers), sell : Seq(Offers), ltp : WireNumbers,
     volume : WireNumbers, totalBuy : WireNumbers, totalSell : WireNumbers]

ASSUME FeedAssumption ==
    \A launch \in Launches : \A p \in Payloads(launch.purpose) :
        CoercePayloads(p).frames \in Seq(WireFrames)

FeatureValues == [valid : BOOLEAN, value : -20..20, local : 0..100]

Counted == {"spread_mean", "mid_volatility", "relative_depth", "since_gap",
            "spread_dispersion", "mid_dispersion", "imbalance_dispersion"}
Shares == {"touch_stability", "warmup"}
Flags == {"mid_volatility_ready", "spread_ready", "depth_ready"}

IsHistory(around) ==
    /\ \A name \in DOMAIN around.others : around.others[name] \in FeatureValues
    /\ around.tape.last \in Int /\ around.tape.reference \in Int
    /\ around.tape.warm \in BOOLEAN
    /\ around.tape.age \in {"unknown", "stale", "fresh"}
    /\ Counted \cup Shares \cup Flags \cup {"compression"} \subseteq DOMAIN around.s
    /\ \A key \in Counted : around.s[key] \in Nat
    /\ \A key \in Shares : around.s[key] \in 0..100
    /\ \A key \in Flags : around.s[key] \in BOOLEAN
    /\ around.s.compression \in [valid : BOOLEAN, value : 0..100]

ASSUME HistoryAssumption ==
    \A launch \in Launches : \A around \in Surroundings(launch.purpose) : IsHistory(around)

----------------------------------------------------------------------------
VARIABLES
    running,            \* "down", "up", "refused" by the configuration, "crashed"
    purpose,            \* bounds the instance: which payloads and surroundings
    config,             \* AppConfig
    payload,            \* the last callback payload
    pending,            \* snapshots parsed from it
    book,               \* the last book processed, in ticks
    votes,              \* its directional features with their confidence
    score,              \* its composite, before the smoother
    blocks,             \* what the quality filter objects to
    verdict,            \* what became of the last snapshot
    position,           \* the open position
    opened,             \* the book it was opened on
    mark                \* its value at the last book

vars == <<running, purpose, config, payload, pending, book, votes, score, blocks, verdict,
          position, opened, mark>>

None == [none |-> TRUE]
Accepted == {}
Unjudged == {"unjudged"}

Init ==
    /\ running = "down" /\ purpose = "" /\ config = Default
    /\ payload = None /\ pending = << >> /\ verdict = Unjudged
    /\ book = None /\ votes = None /\ score = None /\ blocks = {}
    /\ position = None /\ opened = None /\ mark = None

----------------------------------------------------------------------------
(* Starting.                                                               *)

\* Raised by a constructor; the other scales are reached by the first snapshot.
AtConstruction == {"logging", "registry", "statistics", "features", "composite", "machine",
                   "validator", "latency", "renderer"}

Start(launch) ==
    LET result == LoadConfig(launch.file, launch.environment)
    IN /\ running = "down"
       /\ purpose' = launch.purpose
       /\ config' = result.config
       /\ running' = IF ~result.loaded THEN "refused"
                     ELSE IF Raises(result.config) \cap AtConstruction # {} THEN "crashed"
                     ELSE IF launch.live /\ ~ReadyForLive(result.config) THEN "refused"
                     ELSE "up"
       /\ UNCHANGED <<payload, pending, book, votes, score, blocks, verdict, position,
                      opened, mark>>

\* The process ends; the next start knows nothing of this one.
Shutdown ==
    /\ running # "down"
    /\ running' = "down" /\ purpose' = "" /\ config' = Default
    /\ payload' = None /\ pending' = << >> /\ verdict' = Unjudged
    /\ book' = None /\ votes' = None /\ score' = None /\ blocks' = {}
    /\ position' = None /\ opened' = None /\ mark' = None

----------------------------------------------------------------------------
(* One callback, and one snapshot.                                         *)

\* A bound: without a position nothing here depends on an earlier payload, with
\* one only on the book it was opened on, so that one payload for each is enough.
Deliver(p) ==
    /\ running = "up"
    /\ payload = None \/ position # None
    /\ mark = None
    /\ pending = << >>
    /\ payload' = p
    /\ pending' = OnData(p).put
    /\ verdict' = Unjudged
    /\ UNCHANGED <<running, purpose, config, book, votes, score, blocks, position, opened,
                   mark>>

\* Tick size in quarter paise.
Tick(c) == 4 * c.symbol.tick_size

Ladder(levels, tick) ==
    [i \in DOMAIN levels |-> [price |-> levels[i].price \div tick,
                              quantity |-> levels[i].quantity, orders |-> levels[i].orders]]

InTicks(snapshot, tick) ==
    [bids |-> Ladder(snapshot.bids, tick), asks |-> Ladder(snapshot.asks, tick),
     totalBuy |-> snapshot.totalBuy, totalSell |-> snapshot.totalSell]

OnGrid(snapshot, tick) ==
    \A side \in {snapshot.bids, snapshot.asks} :
        \A i \in DOMAIN side : side[i].price % tick = 0

\* The microprice is its first value after a reset, before it is smoothed.
Features(c, around, b) ==
    [name \in {"microprice", "weighted_obi", "depth_slope", "ltp_confirmation"}
                \cup DOMAIN around.others |->
        CASE name = "microprice" -> Microprice(b)
          [] name = "weighted_obi" -> WeightedObi(c.weighted_obi, b)
          [] name = "depth_slope" -> DepthSlope(c.depth_slope, b)
          [] name = "ltp_confirmation" -> LtpConfirmation(c.ltp_confirmation, around.tape, b)
          [] OTHER -> around.others[name]]

\* The statistics once this book is among them.
Measured(c, around, b) ==
    [key \in {"spread", "usable_levels"} \cup DOMAIN around.s |->
        CASE key = "spread" -> 100 * (b.asks[1].price - b.bids[1].price)
          [] key = "usable_levels" -> UsableBothSides(c, b)
          [] OTHER -> around.s[key]]

Votes(c, around, b) ==
    LET features == Features(c, around, b)
        factors == Factors(c, Measured(c, around, b))
    IN [name \in DOMAIN features |->
            [valid |-> features[name].valid, value |-> features[name].value,
             confidence |-> ConfidenceFor(c, name, features[name], factors, around.regime)]]

\* SymbolEngine.process on a snapshot the validator accepts.
Scored(around, b) ==
    LET v == Votes(config, around, b)
    IN /\ book' = b
       /\ votes' = v
       /\ score' = Composite(config, WeightsFor(config.composite, around.regime), v)
       /\ blocks' = Blocks(config, Measured(config, around, b), b)
       /\ mark' = IF position = None THEN None ELSE MarkToMarket(config, position, b)

\* EngineRegistry.process: a token nobody subscribed to is counted and dropped, an
\* invalid snapshot touches nothing.  Books off the tick grid, which only the
\* alignment check refuses, are followed to the validator and no further.
Process(around) ==
    LET snapshot == Head(pending)
        tick == Tick(config)
        faults == StructuralFaults(config.validation, tick, snapshot)
    IN /\ running = "up"
       /\ pending # << >>
       /\ pending' = Tail(pending)
       /\ UNCHANGED <<purpose, config, payload, position, opened>>
       /\ \/ /\ snapshot.token # config.symbol.token
             /\ verdict' = {"unsubscribed"}
             /\ UNCHANGED <<running, book, votes, score, blocks, mark>>
          \/ /\ snapshot.token = config.symbol.token
             /\ faults # {} \/ ~OnGrid(snapshot, tick)
             /\ verdict' = faults
             /\ UNCHANGED <<running, book, votes, score, blocks, mark>>
          \/ /\ snapshot.token = config.symbol.token
             /\ faults = {} /\ OnGrid(snapshot, tick)
             /\ verdict' = Accepted
             /\ IF Raises(config) # {}
                  THEN running' = "crashed" /\ UNCHANGED <<book, votes, score, blocks, mark>>
                  ELSE UNCHANGED running /\ Scored(around, InTicks(snapshot, tick))

----------------------------------------------------------------------------
(* The position.                                                           *)

Enter(direction) ==
    /\ running = "up" /\ purpose = "trade"
    /\ pending = << >> /\ verdict = Accepted
    /\ position = None /\ mark = None
    /\ book # None /\ blocks = {} /\ score.valid
    /\ ClearsCost(config, book, config.symbol.quantity)
    /\ position' = OpenPosition(config, book, direction, config.symbol.quantity)
    /\ opened' = book
    /\ UNCHANGED <<running, purpose, config, payload, pending, book, votes, score, blocks,
                   verdict, mark>>

\* On a later snapshot, which is not entered on again; the last mark is reported.
Exit ==
    /\ position # None /\ mark # None
    /\ pending = << >> /\ verdict = Accepted
    /\ position' = None /\ opened' = None
    /\ UNCHANGED <<running, purpose, config, payload, pending, book, votes, score, blocks,
                   verdict, mark>>

----------------------------------------------------------------------------
Next ==
    \/ \E launch \in Launches : Start(launch)
    \/ Shutdown
    \/ \E p \in Payloads(purpose) : Deliver(p)
    \/ \E around \in Surroundings(purpose) : Process(around)
    \/ \E direction \in {1, -1} : Enter(direction)
    \/ Exit

Spec == Init /\ [][Next]_vars
=============================================================================
