# snapshot_quant_v4: a TLA+ model

`snapshot_quant_v4` turns a stream of order-book snapshots into simulated long
and short positions.  A feed thread receives snapshots from a broker's
websocket and hands them over a bounded queue to an engine thread; one
`SymbolEngine` per instrument validates each snapshot, updates rolling
statistics, scores the book, and drives a trading state machine.

This directory holds TLA+ modules for the parts in which an order of events, a
timeout, a reset or a race decides whether the program is right, and for the
arithmetic that turns a configuration and a book into a position; the TLC
configurations that check them; and TLAPS proofs about the eight state machines
at the centre.  Paths below are relative to `src/snapshot_quant_v4/`.

To check a run: `tlc -config MCFeedAdapter.cfg MCFeedAdapter`.
To check a proof: `tlapm TradingDisciplineProofs.tla`.

## 1. Inventory

### The system's parts

| Part | State it keeps | Operations | What makes it correct |
|---|---|---|---|
| Live feed adapter, `adapter/angel_v2.py` | supervisor thread, socket, stop and connected events, back-off, attempt and login counters | `start`, `stop`, `_supervise`, `_login`, `_run_socket`, the callbacks `_on_open`, `_on_data`, `_on_error`, `_on_close` | survives every failure of login, socket and session; ends when it is stopped or gives up, and then releases the consumer |
| Snapshot queue, `adapter/queueing.py` | a `queue.Queue`, the closed flag, the drop counter | `put`, `drain`, `close` | never grows, keeps the newest, loses nothing uncounted, keeps order, ends |
| Payload parsing, `adapter/parsing.py` | none | callback payload to `Snapshot`, recorder line to `Snapshot` | the same frame gives the same snapshot in whatever form it comes |
| Replay, recorder, synthetic and scenario sources | file handles, seeds | an iterator of snapshots | deterministic |
| Runner, `runner.py`, `main.py` | the stop event, counters, published outputs, signal handlers, the render thread | `run`, `_consume`, `_handle`, `request_stop`, `_shutdown` | a signal ends the run; every snapshot is handled or accounted for; every exit path stops the source, closes the recorder and restores the handlers |
| Symbol engine, `engine/quant_engine.py` | pending gap, last gap's time, all per-instrument components | `process`, `notify_gap`, `_consume_pending_gap`, `_reset_estimators` | no statistic, and no position, spans a discontinuity of the feed |
| Validator, `engine/validator.py` | the last accepted snapshot | `validate`, `reset` | rejects broken snapshots, notices gaps |
| Market quality, `engine/quality.py` | none | `evaluate` | blocks entries in warm-up, after a gap, on a bad book; does not raise |
| Shared statistics and buffers, `engine/stats.py`, `buffers/` | ring buffers, rolling sums, monotonic deques, EMAs | `update_pre`, `update_post`, `reset` | the incremental value is the value of the window |
| Features, `features/` | per-feature windows, refill episodes | `compute`, `reset` | bounded and mirror-symmetric values, episodes that end, credit only for a refill |
| Composite, confidence, threshold, `engine/` | an EMA each | `update` | a score within its votes, watch and exit levels below the entry level |
| Regime detector, `engine/regime.py` | label, dwell, candidate and its count | `update`, `reset` | a label is neither flapped nor lost |
| Trading state machine, `engine/state_machine.py` | state, position, deadlines, confirmations, re-arm block | `update`, `force_flat`, `reset` | confirmed, re-armed and rested entries; timed exits |
| Execution and costs, `engine/execution.py` | none | fills, stop and target levels, mark to market, charges, cost gate | an aggressive fill is never better than the touch; stop and target lie on their sides of the entry |
| Configuration, `config.py` | frozen dataclasses | `load_config`, `__post_init__` checks | what is accepted also runs |
| Console, views, utilities | output only | formatting, clock, logging, TOTP | |

### How they interact

    websocket callbacks -- put --> SnapshotQueue -- drain --> Runner -> SymbolEngine.process
        (feed thread)                                          (engine thread)
             |                                                      ^
             +------------- notify_gap on every session ------------+

- The supervisor and the callbacks run on the feed thread.  `stop()` runs on
  the main thread, which is also the engine thread; a signal handler may call
  it in the middle of anything that thread does.
- Two channels lead from the feed to the engine: snapshots through the queue,
  and `notify_gap` past it, straight into the engine's fields, without a lock.
- Inside `process()`: validate, note a gap, consume a pending gap
  (`force_flat`, reset of the estimators), `update_pre`, quality, features,
  composite, confidence, threshold, regime, `state_machine.update`,
  `update_post`.
- The queue is closed by the supervisor's last line and by `stop()`, on
  different threads.

### What is hard

`PROJECT.json` lists the hazards one by one with their lines.  In short:
`put`, `close` and `drain` are several atomic calls each, from three threads;
`stop()` reads a socket that the supervisor is about to replace; `notify_gap`
interrupts `process()` at any point; a rejected snapshot does not become the
one the next is compared with; resets happen in the middle of a snapshot; the
state machine has seven early returns, each of which must leave its counters
right for the next watch; deadlines meet snapshots that come late.

## 2. The modules

State machines:

| Module | Models | How |
|---|---|---|
| `TradingStateMachine` | `engine/state_machine.py` | one action per handler of `update()`, `ForceFlat`, and `ClockAdvances` for the injected clock |
| `TradingDiscipline` | the rules in that file's header | adds an observer (history variables) that sees snapshots and positions but none of the machine's counters |
| `PositionLifecycle` | what the rest of the engine relies on | abstract specification; `TradingDiscipline` implements it |
| `TradingLiveness` | the machine under fairness | the observer's beat alternates with every update, so a snapshot that changes nothing is still an arrival |
| `SnapshotQueue` | `adapter/queueing.py` | one action between two calls of the standard library's `queue.Queue` |
| `FeedAdapter` | `adapter/angel_v2.py` | the supervisor's steps, the callbacks, and the steps of `stop()` |
| `EngineRunner` | `runner.py` | the engine thread from `run()` to the last line of `_shutdown()`, the render thread, the feed and signals |
| `SymbolEngine` | `engine/quant_engine.py` with `engine/validator.py` and `engine/quality.py` | the feed, both halves of `notify_gap`, and `process()` step by step between its accesses to the gap flag |
| `RegimeDetector` | `engine/regime.py` | classification on a grid and the hysteresis |
| `RingBuffer` | `buffers/ring_buffer.py` | the slots, the cursor and the count |
| `BoundedWindow` | what every rolling statistic relies on | abstract specification, a bounded sequence; `RingBuffer` implements it |
| `SharedStatistics` | `engine/stats.py`, `buffers/rolling_mean.py`, `buffers/monotonic_queue.py` | `update_pre`, `update_post` and `reset` on a ring buffer, running sums and sliding extremes |
| `RefillAndPersistence` | `features/refill.py`, `features/queue_persistence.py` | one side of the book followed by price from snapshot to snapshot |
| `SignalPath` | one instrument from its configuration file to the value of a position | loads, parses, validates, scores, opens and marks with the operators below |

Pure parts, as operators:

| Module | Models |
|---|---|
| `Configuration` | `config.py`: every section's defaults, checks and types, and `load_config` |
| `Construction` | what the buffers, estimators, features and engine parts raise on when they are built or first used |
| `PayloadParsing` | `adapter/parsing.py`, the structural checks of `engine/validator.py`, the recorder's record form |
| `BookFeatures` | `features/microprice.py`, `weighted_obi.py`, `depth_slope.py`, `spread.py`, `ltp_confirmation.py` |
| `Scoring` | `engine/quality.py`, `confidence.py`, `composite.py`, `threshold.py` |
| `Execution` | `engine/execution.py` |
| `Loops` | what the loops of the source compute: sums, filtered sequences, stable sorts |
| `SignalPromises` | no code: what `SignalPath` promises |

Proofs: `TradingDisciplineProofs`, `SymbolEngineProofs` and
`SnapshotQueueProofs`, each about the module in its name; `StatisticsProofs`
about `RingBuffer` and `SharedStatistics`, `DetectorProofs` about
`RegimeDetector` and `RefillAndPersistence`, `ThreadProofs` about `FeedAdapter`
and `EngineRunner`; `SignalProofs` for everything from the configuration to a
position; and `LoopsProofs`, lemmas about the sums and sorts of `Loops`.

The `MC...` modules and `.cfg` files only give the constants values.  An
operator introduced as "a mutant of X" is a deliberate bug that stands next to
the definition it would replace; `PROJECT.json` pairs each with the property
that notices it.

### Correspondence

**TradingStateMachine.**  The variables are the fields of the class.  Instants
are kept relative to the clock: `watchLeft` is `_watch_deadline_ms - now` and
`coolLeft` is `_cooldown_until_ms - now`, each saturating where the code's
comparison stops telling values apart, and a position carries the time it has
been held.  No run is therefore bounded in length.  Everything the
collaborators report of a snapshot is one record of `Input`.  Scores are
whole steps of that snapshot's own thresholds, because the code compares
them with nothing else.  `_update_rearm` runs at the head of every update, so
`RearmAfter` is part of every action, except where an exit overwrites it.
Stored prices, profit figures and texts of reasons are left out.

**PositionLifecycle.**  An exposure ages with the clock up to `MaxHold`, and a
snapshot that finds it that old may not leave it (`Keep`).  For that the
lifecycle tells snapshots from the passing of time: every snapshot turns the
`beat`, in the lifecycle and in the observer of `TradingDiscipline`.

**SnapshotQueue.**  A `queue.Queue` call is atomic; what lies between two is
not.  `put()` is the closed check (`PutBegins`), the first `put_nowait`
(`PutFirst`), `_make_room`'s `get_nowait` (`MakeRoom`) and its count under the
lock (`CountDrop`), the second `put_nowait` (`PutSecond`) and the count of its
failure (`CountLost`).  `close()` sets the flag, then tries to enqueue the
sentinel.  `drain()` polls; its check of the flag after a timeout is a step of
its own, and so is the final emptying loop.  `behind` and `owed` are history:
what was enqueued after `drain()` last found the queue empty, and what was
waiting when `close()` first set the flag.

**FeedAdapter.**  `sup` is where the supervisor stands in `_supervise`,
`_login` and `_run_socket`; `stopAt` is where `stop()` stands.
`stop()` loads `_socket` into a local and closes that one: `stopHolds` says
whether the local is still the socket the supervisor uses.  The client library
is external.  That a close asked for before `connect()` makes `connect()`
return is how the stand-in of the test suite behaves.  A session ends with or
without `_on_close` having run.  The constructor of a socket may raise, and so
may its `close_connection()`: `stop()` catches that and goes on with the socket
open, which `closeFailed` remembers.

**EngineRunner.**  `at` is the engine thread's position: installing the
handlers, starting the source and the renderer, `pull` (in the source's `get`;
`inside` while it holds the queue's mutex, `polled` after a timeout), `handle`,
then one position for each step of the `finally` clause and of `_shutdown`, and
`over`.  The signal handler runs on that thread between any two of its steps
and ends in one of three ways.  It returns.  It waits for a lock the
interrupted statement itself holds, the queue's mutex in a get or the lock of
an event that is being set, which is the position `stuck`.  Or its
`source.stop()` raises, which nothing in the handler catches: the exception
appears in the interrupted statement, so that the try block, a guarded step of
the shutdown, the recorder's own `except OSError` or nothing at all takes it.
The queue is a number of pending snapshots with what was put (`fed`) and
dropped, its detail being `SnapshotQueue`'s.  `lost`, `looked` (what had been
put when a poll last found the queue empty), `exhausted`, `midway` and
`swallowed` are history.  Every step that may fail has both outcomes: start of
the source and of the renderer, the write of the recorder, `process`, each step
of the shutdown.

**SymbolEngine.**  A snapshot carries its distance in time from the one before
it in the feed; when the queue drops one, its distance and its oddities fall to
the next (`Bridge`), so dropping cannot hide a gap.  `process()` is split where
`notify_gap` can come between: `Accept` (validation and the gap it finds), then
`Continue` or the steps of `_consume_pending_gap` (`FindReason`, `ClearReason`,
`ForceFlat` with the reset), `Assess` (the quality report) and `Decide` (the
state machine, folded to WARMUP, FLAT and OPEN).  `unanswered` and `due` record
the gaps reported since the estimators were reset, in all and before the
snapshot in `process()` was taken up; `spanned` the reconnects that lie inside
what the estimators hold.  The other reasons of a block and all scores are a
choice in `Decide`.  `GapAges` lets `gap_block_ms` end between snapshots only:
that it is longer than one `process()` is an assumption, since `config.py`
accepts 0.

**RegimeDetector.**  Efficiency, volatility and trend are whole numbers around
the thresholds; the comparisons are the code's.  `run`, `runLabel` and
`heldFor` are what an onlooker counts.

**RingBuffer, SharedStatistics.**  The variables of `RingBuffer` are the
fields of the class.  In `SharedStatistics` prices are ticks and a mid price is
the sum of bid and ask, in half ticks.  The mids are a `RingBuffer`; the other
windows are the sequences it implements.  Each update of a running sum may be
off by a member of `Rounding`; the periodic exact recomputation is in the
model.  The sliding extremes keep the code's monotonic candidates with
their ages.  A reset empties every window and leaves `data` as it is, as
`clear()` does.  `spreads`, `unmeasured` and `steady` are history: the plain
windows that the incremental ones are compared with.

**RefillAndPersistence.**  One side of the book, as a quantity per price, the
better prices being the greater: the other side is a second instance over
mirrored prices.  A step is one accepted snapshot: its distance, its traded
volume, the new book, the resolution of a waiting episode, the detection of a
new one and the survival of the previous touch, in the order of the code.
`outcome` is how that snapshot resolved an episode; `traded` and `least` are
history.  Decay of the reported value is left out.

**SignalPath and its operators.**  `Start` is `load_config` followed by the
constructors, `Deliver` one callback, `Process` one snapshot through the
registry, the validator, the features and the scores, with the mark of an open
position; `Enter` and `Exit` open and close one.  In `Configuration`
fractions are per cent, ticks are hundredths of a tick, cost rates thousandths
(GST per cent), weights fiftieths, times milliseconds; a JSON value is what it
holds and as which type.  The list of instruments is whether it has any and
whether one is repeated; `symbol` stands for each of them.  `Construction` lists
for each class what its constructor, or `linear_scale` on first use, raises on,
with the registry's and the logger's own checks.  In `PayloadParsing` a price is
a whole number of quarter paise, exact for the cash and the currency wire
formats, and a text is what it says: nothing, a keep-alive, prose, broken JSON,
or the JSON of a value.  The recorder's line has a price in rupees, which the
replay multiplies by 100 as a double: which half paise that product puts below
the half is the constant set `HalvesDown`.  `BookFeatures` has values in twentieths and
confidences in per cent; the level weights, the logarithm and tanh are
constant operators, of which only order, sign and symmetry are used.
`Scoring` is in per cent with the power function as a constant operator.
`Execution` is in whole ticks, with fractions as pairs and rupees in hundred
thousandths of a tick, so that comparisons are exact and Python's rounding of
halves to even is explicit.

## 3. The runs

| Run | Expected | Shows |
|---|---|---|
| `discipline` | pass | entries are confirmed by as many consecutive qualifying snapshots as configured, the direction just exited waits for the score to leave its side, `min_hold` yields only to a stop or a gap, no position outlives the first snapshot that finds it `max_hold` old (the machine implements `PositionLifecycle`), and every position and cooldown ends |
| `queue` | pass | two producers, two closers and the consumer: nothing lost uncounted, nothing twice, order kept, nothing left behind that `drain()` could have seen, `close()` releases the consumer |
| `queue_shutdown` | violation | a snapshot accepted between the consumer's timeout and its look at the closed flag is left in the queue |
| `adapter` | pass | failures lead to another attempt, giving up closes the queue, `stop()` ends an established session unless closing the socket fails |
| `adapter_stop` | violation | `stop()` between the login and the new socket stops nothing |
| `engine` | pass | no snapshot is counted over a gap reported before it was taken up, a reconnect met idle is never spanned, positions rest on warm statistics, no entry on a known gap |
| `regime` | pass | the label is in force exactly when both hysteresis guards are met: never earlier, never later |
| `statistics` | pass | the incremental windows, extremes and sums agree with their definitions at every eviction; a reset leaves exactly one snapshot judged against forgotten prices; `RingBuffer` implements `BoundedWindow` |
| `refill` | pass | a refill is credited only after a depletion that trades explain; one credited later than the snapshot that consumed it has grown above its least since; a touch that was consumed does not count as surviving |
| `runner` | pass | where each snapshot put ends up, what the shutdown reaches with any of its steps or the signal handler failing, what the last frame shows, and that a signal ends the run |
| `signal` | pass | an accepted configuration fits the parts built from it but for four missing checks, one frame is one snapshot live and replayed (but for half paise), exactly the sound books are accepted, mirrored books mirror the five features of one book, scores follow their votes, fills are adverse, stop and target bracket the entry, the gate covers the costs |
| `config_ranges` | violation | a configuration that passes every `__post_init__` check makes the engine raise; TLC stops at the first of the four missing checks it meets, a configuration that lists no instrument |

Each violation is written up under "findings" in `PROJECT.json` with the line
of documentation it contradicts.

### Bounds, and why they are enough

- *discipline.*  All durations are 1 to 3 ticks with
  `MinHold < MaxHold` and `Cooldown = 2`, so every deadline can be met early,
  exactly and late.  Scores have a weak, a watchable and an entry level on
  both sides of zero.  Two confirmations are the least that can be
  interrupted.  `CriticalBlocks` and `OtherBlocks` have one member each; the
  code distinguishes no more.  Time and counters saturate, so histories of any
  length are covered.
- *queue, queue_shutdown.*  Capacity 2 and three puts by each of two producers
  fill the queue, drop twice and refill it; a single feed thread is what the program has, and
  two producers cover a session's callback overlapping the next one's.
  `queue_shutdown` has one.
- *adapter.*  Two login attempts, three reconnects, delays 1, 2, 3: a retry, a
  capped delay and the limit are each reached.  `CountLimit` saturates the
  counters past the limit.  Two calls of `stop()`; `adapter_stop` has one, and
  no limit of reconnects.
- *engine.*  `MaxSnapshotGap = 2` and `MaxStaleness = 4` leave a distance of
  each kind: ordinary, gap, stale, regressed.  `Warmup = 2`, and the queue of
  two drops.  Three oddities (reconnects included) are enough to put one
  before, inside and after a reset.  The ordinary snapshots are not bounded.
- *regime.*  The grid has a point on, below and above each threshold;
  `ConfirmSnapshots = 3` and `MinDwell = 4` let each of the two guards be the
  last one met; the counters saturate above both.
- *statistics.*  Windows of three and a recomputation every four updates:
  eviction, wrap-around and a recomputation that is not aligned with either.  Bids 2, 3
  and 5 make moves of different size, spreads 1 and 2 differ, and every
  update of a sum but the exact one errs by -1 or +1.  Length is not bounded.
- *refill.*  Two prices are the least at which the touch can move away from an
  episode's price and come back; quantities to 5 and volumes to 4 put the
  shipped fractions 35, 60 and 50 per cent between whole quantities; steps of 1 and 2
  against a window of 3 meet it before, on and after.
- *runner.*  Three snapshots to the limit, four from the feed and a queue of
  two: the limit, an exhausted and a dropping queue are all reached.  Two
  signals, for the one that meets the shutdown.
- *signal, config_ranges.*  A launch has one of four purposes, so that the
  product of all choices stays small.  `ranges` tries each numeric key around
  the bounds of its section and around the shipped value, every JSON type for
  every key, unknown keys, no or repeated instruments, broken files and missing
  secrets; `wire` tries payloads, `signal` books and surroundings, `trade` fills under five sets of
  levels, slippages and gates.  Three levels per side are enough for a hole
  and a level behind it.  One payload is delivered while flat and one while
  open, and either direction may be entered, which is more than the state
  machine allows.  Books off the tick grid are followed to the validator and no
  further.  Currency frames hold prices on, next to and between half paise, of
  which some round down and some up.  The constant operators are tables with the
  order and symmetry of the functions.

### Fairness

- `TradingLiveness`: snapshots arrive (the engine loop) and the monotonic
  clock moves.  Nothing is assumed of what a snapshot shows, nor of gaps.
- `SnapshotQueue`: the consumer's loop goes on.  Producers and closers may stop
  in the middle of a call.
- `FeedAdapter`: both threads are scheduled, calls of the client library other
  than `connect()` return, and a socket that was asked to close, without the
  call raising, closes.  The peer never has to, and no user has to stop.
- `EngineRunner`: the engine thread runs, and the render thread draws its last
  frame.  The feed may fall silent and no signal has to come.
- The other specifications state none: no liveness is claimed of them.

Deadlock is not checked in `queue`, `queue_shutdown`, `adapter` and
`adapter_stop`, whose systems stop: a closed queue and an adapter that has
ended.  All other runs check it; in `runner`, `stuck` and `over` are positions of the engine thread that other
threads may outlive, and the end of a run is an explicit stutter.

## 4. What is proved

The theorems hold for every value of the constants that satisfies the named
assumptions of the modules: `ConfigAssumption` and `RegimeAssumption` are the
orderings `config.py` enforces in `__post_init__` and the ranges of the grid;
`RingAssumption`, `StatisticsAssumption`, `QueueAssumption`,
`AdapterAssumption`, `EngineAssumption`, `RunnerAssumption`, `PricesAssumption`
and `RefillAssumption` say that capacities, limits and delays are numbers of
their range, that every mid of a bid and a spread is a sample, and that among
published prices there is a best one.  `LaunchAssumption`, `FeedAssumption` and
`HistoryAssumption` give the inputs of `SignalPath` their form: a file's values
are JSON values, a wire frame has integer fields and finite ladders, and the
statistics of a history are shares, flags and numbers not below nought
(`IsHistory`).  `DepthAssumption` bounds how deep lists are nested in a payload.

**TradingDisciplineProofs.**  `DisciplineInv` is inductive.  The type invariant
and the two safety invariants alone are not: that `ConfirmationsAreEarned`
survives `Confirm` needs the watched direction to be the counted one, and that
the abstract rest is over at an entry needs the cooldown to have run out in
every flat state.  `ObserverAgrees` supplies both, together with the agreement
of the observer's books with the machine's fields (`uncrossed = rearmBlock`,
`sinceExit = Cooldown - coolLeft`).  Each group of actions (open, waiting, flat,
entry, clock, forced close) has its lemma.  From the
invariant follow, step by step of the machine:

- `EntryIsConfirmedHolds`: only `Enter` opens, `ConfirmationsWith(i)` has
  reached the limit there, and the observer's streak is at least as long;
- `NoReentryBeforeRearmHolds`: `Enter` requires `~RearmBlocked`, and the block
  is the observer's;
- `MinHoldIsOnlyBrokenByStopHolds`: only `HandleOpen` and `ForceFlat` close;
- `ImplementsLifecycleHolds`: initial states map to initial states, and every
  step to a step of `PositionLifecycle` or a stutter.  An update that leaves a
  position open is a `Keep`, and `UpdateEndsOldPosition` shows that it does so
  only before `max_hold`.

**DetectorProofs.**  `HysteresisInv` says that the candidate and its
count *are* the onlooker's run of proposals while the label is not in force,
that `dwell` is `heldFor`, and that nothing but UNKNOWN is in force before the
statistics are ready.  It makes `LabelIsAdopted` inductive and gives
`LabelIsEarned` and `NoRelapse` as step properties.  `MirrorSymmetry` and
`EfficiencyOrdersLabels` are proved from the definition of `Classify` alone.

For the refill, `EpisodeInv` adds `EpisodeIsConsumption` to the type invariant: a
waiting episode was a drop of the configured fraction that trades explain, and
`least` is what remained.  `DelayedCreditHolds` needs in addition
`WaitIsForRecovery`: an episode that a snapshot has left in flight shows less
than its target, so that meeting the target later is growth.  It holds for every
pair of fractions, the shipped 35 and 60 included, and exempts the first snapshot
after the consumption, for which growth is not needed (section 5).
`ConsumedIsNotSurvival` needs no invariant but the type of the sides, and
assumes that a consumption exceeds the tolerance of survival, as the shipped 35
exceeds 15: no rule of `config.py` relates the two.

**SnapshotQueueProofs.**  `ThreadsOK` gives the steps and numbers of the
producers.  `Placed` says that a snapshot in the buffer, delivered or discarded
belongs to a put that is over (`SettledOnly`), that one thread's snapshots wait
in the order it put them and behind those delivered (`InOrder`), and that none
waiting is discarded (`NotBoth`).  That is what `DeliveredInOrder` needs at the
head of the buffer.  `CountsOK` adds the arithmetic of `DropsAreCounted`:
`NotBoth` makes each discarded snapshot a new one.  `Located` says where each
begun snapshot is and gives `NothingIsLost`; the buffer changes in three ways
only, and each has its lemma.  Together with `Placed`, by which a snapshot has
left every place but the one it is in, and `EmptySeen`, by which everything in
the queue came after `drain()` last found it empty, it gives
`EverySnapshotAccountedFor`.

**SymbolEngineProofs.**  `IInv` joins `QueueOK` (the distances and oddities of
the waiting snapshots), `IdleIsPending` (a reconnect that found queue and
engine idle is still known to it as a pending gap, and the snapshot it precedes
is at the head of the queue: `IdleAtHead`), `WarmWhenTradable` (a tradable
assessment and a position have a full sample count), `GapsAreRecent` (a gap
that waits while a snapshot is processed is also recent, so the quality filter
sees it) and `ReportsWait` (a gap not yet answered is pending, or its reset is
under way).  The safety properties of the run are not inductive without them: the
snapshot that meets a gap is not the one that followed it in the feed when the
queue drops, `notify_gap` sets its two fields one after the other, and the engine
reads and clears the second in two steps.  `NoReportIsLostHolds` rests on the
order of those two and the reset: were the reason cleared last, a report made in
between would be forgotten.

**ThreadProofs.**  For the runner, `RunnerInv` joins `RunnerTypeOK`,
`CountersOK` (the counters are numbers), `Accounts` (where each snapshot put is;
nothing is given up while the loop runs, and from a poll that found the queue
empty on, everything put before it was handled or dropped), `ShutdownProgress`
(stop is set and an open recorder closed behind the positions that do so, and
handlers stay installed only past a recorder that failed to close or a handler
that raised) and `LastFrame` (a snapshot handled while stop is set was met
midway; otherwise the last frame shows what is published).

For the adapter, `SupervisorInv` is the type invariant and `SupervisorControl`: the three
safety invariants with what the supervisor's positions say of the login
attempts, the closed queue and the stop event.  `ConnectedOnlyInSession` is not inductive alone,
since neither callback that clears the flag need run.
`OnlyCleanCloseShortensBackoff` needs in addition that a factor of at least
one does not shorten the delay.

**StatisticsProofs.**  `PushAges` computes what each accessor returns after a
push, for each of the four combinations of a wrapping cursor and a wrapping
read; `RingImplementsWindow` follows, and `StatisticsImplementWindow` for the
ring of mids, the one window that is kept in a ring buffer here, since `stats.py`
does nothing to it but push and clear.  For the sliding
extremes the invariant `Extremal` says of the candidates that each is the
sample of its age, that they are strictly ordered by age and by value, and that
every sample of the window has a candidate as recent and not worse.  The head
is then the extreme (`HeadIsExtreme`), and one update keeps all three
(`CandidatesFollowWindow`).  That step needs the last candidate the new sample
does not remove (`GreatestIndex`); it is obtained from the well-founded order of finite sets,
because induction over the numbers is out of reach.  `TouchCompared` keeps the
two touch windows of one length and empty before the first price, which makes
`OnlyTheRestartIsMisjudged` inductive.  For the path, `PathFollowsMoves` bounds
the drift of the running sum by the pushes since it was recomputed, and
`MovesJoinMids` says of each move that it is the distance of two neighbouring
mids; a displacement is then covered by the moves between its ends.  The sums
are those of `Loops`.

**LoopsProofs.**  `Total` is a recursive function on the numbers up to a length,
so its lemmas need induction, for which the library's theorem cannot be used.
`LeastNatural` (a set of naturals with a member has a least one, from the
well-foundedness that finite cardinalities give) takes its place: `UpTo` turns a
step from every number to the next into a statement about all of them, and
`PartialSums` shows that the recursive function exists and obeys its equation.
`Stretch`, `EqualStretches`, `PartialGrows` and `ConstantStretch` compare sums
over stretches.  `StableOrderSorts` shows that the stable sort, defined by counting
what stands before a position, is the one order that sorts: it needs that an
injection of a finite set into itself is onto, which the library has.

**SignalProofs.**  `SignalInv` says what each variable is computed from.
`ConfigInv` gives the configuration its types, for every file and environment,
and what its acceptance means; `IdleInv` keeps everything unset until a launch
has succeeded; `FrameInv` ties payload, put snapshots and verdict; `BookInv`
says that a book has two sorted ladders of whole ticks that do not cross, and
that votes and score are those of that book and one history; `PositionInv` that
a position is the one its opening book gave under the configuration in force,
and its mark the one of the current book.  None of the properties is inductive,
and each follows from the invariant by what the operators compute:

- `AcceptedConfigFitsHolds`: the rules of every section imply what the
  constructors check (`StatisticsAccept`, `FeaturesAccept`), but for the four
  exceptions in the property (`OnlyFourRaise`); the thresholds by `ThresholdsInOrder`;
- `OneFrameOneSnapshotHolds`: `Coerced` of the four wrappings of a frame ends in
  the same mapping within `Nesting`.  Read back from its line, a price is within
  half a paisa of what was written and exact unless it is half way between two
  paise (`NextPaise`), so a side holds the same offers (`RecordedSide`,
  `NothingIsLost`), and off the currency segment, whose prices alone have half
  paise (`WholeUnlessCurrency`), sorting it again changes nothing;
- `LevelsBracketEntryHolds`, `GateCoversCostsHolds`: bounds on the rounding to
  ticks, with the charges monotone in the turnover;
- `QuotesAreAdverseHolds`: the walk is compared with its units one by one.
  `Depths` and `FilledBy` say how much the first levels filled, `UnitsLevel` at
  which level the u-th unit was taken, and `WalkedUnits` that the notional is the
  sum of the units' prices; a sorted ladder then bounds the average on both
  sides, and `RoundedFill` carries it through offset, rounding and clamp.  No
  floor keeps a fill above nought under an offset larger than the price, and
  charges on a negative turnover are negative: the property says so;
- `ScoreFollowsItsVotesHolds`: features and confidences stay in their ranges
  (`FeaturesTyped`, `ConfidenceTyped`), the numerator is bounded term by term
  (`SumBounded`), and both the doubled table and the cap multiply all weights by
  one factor (`CappedScales`, `GroupIsCapped`);
- `MirroredBooksMirrorSignalsHolds`: the image of a book about its mid has the
  same touch and mid (`MirrorReflects`).  The masses, decays and regressions of
  reflected levels are equal (`ReflectedMass`, `ReflectedDecay`,
  `ReflectedRegression`), quotients by them change sign with their numerators,
  and so does an odd tanh; the microprice's tilt is the imbalance of the touch
  once a common factor is cancelled (`FactorCancels`);
- `AcceptedExactlyWhenSoundHolds`: a side the parser made holds the listed prices,
  four quarter paise to each, and as many levels as are listed
  (`SideHoldsPrices`), the first at the best of them (`TouchIsBest`); it is
  strictly sorted exactly when no price repeats (`SortedWhenDistinct`: a
  surjection from a finite set onto one of its size is an injection).  What the
  validator can then still find is what `SoundFrame` excludes (`SoundFrameIff`).

`ScoreFollowsItsVotesHolds` and `MirroredBooksMirrorSignalsHolds` assume `Curves`,
the ranges and signs of exp, log, tanh and powers.  It is a hypothesis of the
theorems and not an assumption of the module because it quantifies over all
numbers; the functions of the library satisfy it in the units of the model, and
so do the tables of the run.

**Only model-checked.**  All liveness properties: TLAPS does not reason about
fairness and ENABLED here.

**Only proved.**  `NoRelapse`, `MirrorSymmetry`, `EfficiencyOrdersLabels`,
`ConfirmationsAreEarned`, `ConnectedOnlyInSession`, `GivesUpOnlyAtLimit`,
`CleanCloseResetsBackoff`, `OnlyCleanCloseShortensBackoff`, and the type
invariants.

## 5. Seen while modelling

Documented otherwise, but not among the runs:

- The re-arm rule says the score must cross zero (`engine/state_machine.py:15`);
  an unusable composite counts as a score of zero and lifts the block (`:189`).
- A missing client library is raised on the supervisor's thread
  (`adapter/angel_v2.py:278`) and not by `start()` (`:223`); the queue stays
  open, and the engine thread polls it for ever.
- A rejected snapshot does not become the one the next is compared with
  (`engine/validator.py:286`).  After a silence beyond `max_staleness_ms`
  everything is rejected for good, after a volume counter that starts again until
  it passes its old value.  The gap each rejection notes is answered by an
  accepted snapshot only, and so is that of a reconnect.
- The reset of the estimators forgets the validator's history
  (`engine/quant_engine.py:470`), so the pair right after a reset is never
  compared, against `engine/validator.py:16`.
- A refill is a price that "recovers its size" (`features/refill.py:8`); with the
  shipped `consumption_fraction` 0.35 and `recovery_fraction` 0.60 a level that
  fell to between 60 and 65 per cent and stayed there is credited by the first
  snapshot after the consumption.  Later ones credit growth only.
- "The recorder and logging handles are closed in a `finally` block"
  (`runner.py:28`): a recorder whose write failed is dropped by `_handle`
  (`:219`) and its file closed by nobody.

Configuration and parsing:

- Accepted, and raising later: `quality.max_signal_spread_ticks` of one tick or
  less (`engine/quality.py:163`), `regime.fast_half_life_ms` of zero
  (`buffers/rolling_ema.py:53`), an empty list of symbols, which is the default
  (`engine/quant_engine.py:556`), and a `runtime.log_level` that logging does not
  know (`utils/logging_utils.py:143`).
- A reconnect multiplier of one is accepted: the back-off never grows.
- Two currency prices a quarter of a paisa apart round to the same paisa
  (`adapter/parsing.py:215`), so a sound ladder is rejected as unsorted or
  locked.
- A currency price half way between two paise may come back from a recording a
  paisa off: the wire path rounds a quotient (`adapter/parsing.py:240`), the
  replay a product of doubles (`:389`), and 101.5 paise is 102 live and 101
  replayed.  The ladder's order and the verdicts LOCKED and UNSORTED may then
  differ.
- A control frame without a token is a heartbeat as a mapping, but a payload
  error as JSON text.
- `allow_partial_fill` is read nowhere.

Arithmetic:

- The collinearity cap is relative to the uncapped total, so a group capped at
  30 per cent can hold 35 per cent of what is left: weaker than the cap
  on a group's joint share of the weight mass that `engine/composite.py:45`
  describes.
- The cost gate judges the requested quantity, and an exit marks the whole
  position at the average price of what the book could fill.
- A stop of half a tick lies where rounding halves to even puts it: at the
  entry or a whole tick away.
- The agreement of the weighted imbalance favours the buy side when the
  imbalance is zero.
- `refill` checks the recovery before the window (`features/refill.py:208`), so
  a recovery first seen after the window is credited in full if no snapshot in
  between expired the episode.

Runner:

- A signal inside the queue's critical section makes `source.stop()` wait for
  the mutex its own thread holds (`runner.py:311`).  The locks of the stop events
  do the same to a signal that arrives while the main thread sets or clears one
  of them, or runs `source.stop()` itself.
- Nothing in the handler catches what `source.stop()` raises (`runner.py:314`).
  During the shutdown that skips the steps left, outside the two guarded ones;
  as an `OSError` inside `recorder.write` it is taken for a failed write, and the
  run goes on until its next snapshot.
- A stop leaves the snapshots that wait in the queue unhandled.
- `request_stop()` alone never ends a run on a quiet feed: the consumer looks
  at the event only after the next snapshot, which it drops (`runner.py:202`).
- The render thread may outlive its `join` of two seconds, and its last frame
  may precede the last output when the stop met a snapshot being handled.
- When closing the recorder fails, the handlers are not restored and no summary
  is given.

Feed and engine:

- A reconnect's gap is not ordered with the snapshots of the old session that
  still wait in the queue: the reset may happen on one of them, and the
  statistics then span the outage.  `IdleReconnectIsNeverSpanned` covers the
  case in which the queue is empty.
- A gap reported between the reading and the clearing of the reason
  (`engine/quant_engine.py:453-456`) is answered by the reset under way.  That
  keeps the snapshot in hand, so the estimators may start on one of the old
  session.
- A gap reported after the quality assessment of a snapshot does not stop an
  entry on that same snapshot.
- `_make_room` may discard the shutdown sentinel and counts it as a dropped
  snapshot; `DropsAreCounted` is stated accordingly.
- The attempt counter is never reset by a good session, so
  `max_reconnect_attempts` limits sessions over the process's life.
- A failed subscription leaves an open session that delivers nothing, is not
  announced and is not retried: only `stop()` ends it.
- A socket whose `close_connection()` raises stays open after `stop()`, and the
  supervisor in its session.
- The heartbeat time-out constant is not used: a half-open connection blocks
  in `connect()` for ever, which the model allows.

## 6. Limits, and what would come next

Not modelled:

- the recurrences of the EMAs and of the variance, and what is only a
  difference or a ratio of them: momentum, acceleration, spread compression,
  the score's smoother, the derived ratios of the statistics.  They are
  floating-point recurrences over unbounded inputs; `SignalPath` takes their
  results as inputs, `Construction` the rules of their constructors;
- iteration and pacing of `ReplaySource`, the latency figures, the summary's
  text and the command line of `main.py`, whose `--log-level` overrides the file;
- the restart of a stopped adapter, whose queue stays closed, and the
  extraction of login tokens;
- console and views (layout), TOTP (cryptography), logging, and the synthetic
  and scenario sources (seeded generators of test data).

Floating point, prices and text are abstracted to the comparisons made with
them, in the units of section 2.

Next would be `ReplaySource` with the recorder's flush interval, and
`EngineRunner` composed with `SnapshotQueue` instead of its count.
