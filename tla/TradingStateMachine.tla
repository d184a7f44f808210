------------------------ MODULE TradingStateMachine ------------------------
(***************************************************************************)
(* engine/state_machine.py: the deterministic entry and exit logic of one  *)
(* instrument.  One Update is one call of update(); ForceFlat is one call  *)
(* of force_flat(); ClockAdvances moves the injected monotonic clock.      *)
(*                                                                         *)
(* What the collaborators report about a snapshot is one input record.     *)
(* The adaptive threshold moves from snapshot to snapshot, so a score is   *)
(* given in steps of that snapshot's thresholds: WatchLevel and EntryLevel *)
(* are threshold.watch and threshold.entry, ReversalLevel is               *)
(* threshold.exit * reversal_ratio.  Times are relative to the clock: the  *)
(* code compares now with a stored instant, the model stores how far away  *)
(* that instant is, so that no bound on the run is needed.                 *)
(***************************************************************************)
EXTENDS Integers

CONSTANTS
    TopLevel,            \* the strongest score
    WatchLevel,          \* threshold.watch
    EntryLevel,          \* threshold.entry
    ReversalLevel,       \* threshold.exit * reversal_ratio
    TopConfidence,       \* full confidence
    MinWatchConfidence,
    MinEntryConfidence,
    ExitConfidence,
    WatchTimeout,
    MinHold,
    MaxHold,
    Cooldown,
    EntryConfirmations,
    CriticalBlocks,      \* _CRITICAL_BLOCKS
    OtherBlocks,         \* the BlockReasons that only stop entries
    UseTarget,
    RequireLtpConfirmation,
    RequireZeroCrossRearm,
    ExitOnQualityLoss

\* What ThresholdConfig and StateMachineConfig enforce in __post_init__:
\* watch_ratio <= 1, min_watch <= min_entry confidence, min_hold < max_hold.
ASSUME ConfigAssumption ==
    /\ {TopLevel, WatchLevel, EntryLevel, ReversalLevel, TopConfidence,
        MinWatchConfidence, MinEntryConfidence, ExitConfidence, WatchTimeout,
        MinHold, MaxHold, Cooldown, EntryConfirmations} \subseteq Nat
    /\ 1 <= WatchLevel /\ WatchLevel <= EntryLevel
    /\ MinWatchConfidence <= MinEntryConfidence
    /\ 1 <= WatchTimeout
    /\ MinHold < MaxHold
    /\ 1 <= EntryConfirmations
    /\ {UseTarget, RequireLtpConfirmation, RequireZeroCrossRearm,
        ExitOnQualityLoss} \subseteq BOOLEAN
    /\ "WARMUP" \in OtherBlocks

VARIABLES
    state,               \* _state
    position,            \* _position: NoPosition or [dir, held]
    watchLeft,           \* _watch_deadline_ms - now, -1 once it has passed
    coolLeft,            \* _cooldown_until_ms - now, 0 once it is reached
    confirmations,       \* _confirmations
    confirmationSign,    \* _confirmation_sign
    rearmBlock           \* _rearm_block_sign

vars == <<state, position, watchLeft, coolLeft, confirmations,
          confirmationSign, rearmBlock>>

----------------------------------------------------------------------------
Direction == {-1, 1}
Signum == {-1, 0, 1}

TradeState == {"WARMUP", "NEUTRAL", "WATCH_LONG", "WATCH_SHORT", "LONG",
               "SHORT", "EXIT_LONG", "EXIT_SHORT", "COOLDOWN"}

NoPosition == [dir |-> 0, held |-> 0]
OpenPositions == [dir : Direction, held : 0..MaxHold]

\* One call's arguments: the CompositeResult (valid, smoothed, confidence), the
\* QualityReport's reasons, what the execution model says of the open position
\* (exec) and of the cost gate (clears), and how the last-traded-price feature
\* stands to the score's direction.
Input == [valid : BOOLEAN, smoothed : -TopLevel..TopLevel,
          confidence : 0..TopConfidence,
          reasons : SUBSET (CriticalBlocks \cup OtherBlocks),
          exec : {"none", "stop", "target"},
          ltp : {"agrees", "contradicts", "missing"},
          clears : BOOLEAN]

Sign(x) == IF x > 0 THEN 1 ELSE IF x < 0 THEN -1 ELSE 0
Magnitude(x) == IF x < 0 THEN -x ELSE x
Along(d, x) == IF d = 1 THEN x ELSE -x

\* An unusable composite reads as a flat score of no confidence.
Score(i) == IF i.valid THEN i.smoothed ELSE 0
Confidence(i) == IF i.valid THEN i.confidence ELSE 0
Tradable(i) == i.reasons = {}

WatchState(d) == IF d = 1 THEN "WATCH_LONG" ELSE "WATCH_SHORT"
OpenState(d) == IF d = 1 THEN "LONG" ELSE "SHORT"
ExitState(d) == IF d = 1 THEN "EXIT_LONG" ELSE "EXIT_SHORT"

\* Mutant: a weak score is taken for a crossed zero.
RearmForgottenWhenWeak(i) ==
    IF Sign(Score(i)) = rearmBlock /\ Magnitude(Score(i)) >= WatchLevel
      THEN rearmBlock ELSE 0

\* _update_rearm, the first thing every update does.
RearmAfter(i) == IF Sign(Score(i)) = rearmBlock THEN rearmBlock ELSE 0

----------------------------------------------------------------------------
Init ==
    /\ state = "WARMUP"
    /\ position = NoPosition
    /\ watchLeft = -1
    /\ coolLeft = 0
    /\ confirmations = 0
    /\ confirmationSign = 0
    /\ rearmBlock = 0

\* The monotonic clock moves one unit on; ages and distances saturate where
\* the code's comparisons stop telling them apart.
ClockAdvances ==
    /\ watchLeft' = IF watchLeft >= 0 THEN watchLeft - 1 ELSE watchLeft
    /\ coolLeft' = IF coolLeft > 0 THEN coolLeft - 1 ELSE coolLeft
    /\ position' = IF position.dir # 0 /\ position.held < MaxHold
                     THEN [position EXCEPT !.held = position.held + 1]
                     ELSE position
    /\ UNCHANGED <<state, confirmations, confirmationSign, rearmBlock>>

----------------------------------------------------------------------------
(* An open position: _handle_open and _exit_reason.                        *)

\* Mutant: no maximum holding time.
ExitWithoutTime(i) ==
    \/ UseTarget /\ i.exec = "target"
    \/ Along(position.dir, Score(i)) <= -ReversalLevel
    \/ Confidence(i) < ExitConfidence
    \/ ExitOnQualityLoss /\ i.reasons \cap CriticalBlocks # {}

\* The reasons that apply once min_hold has passed; the stop never waits.
DiscretionaryExit(i) ==
    \/ UseTarget /\ i.exec = "target"
    \/ position.held >= MaxHold
    \/ Along(position.dir, Score(i)) <= -ReversalLevel
    \/ Confidence(i) < ExitConfidence
    \/ ExitOnQualityLoss /\ i.reasons \cap CriticalBlocks # {}

\* Mutant: min_hold does not shield a young position.
ExitIgnoringMinHold(i) == i.exec = "stop" \/ DiscretionaryExit(i)

\* Mutant: a snapshot that may not be traded on returns before the exits.
ExitOnlyWhenTradable(i) ==
    /\ Tradable(i)
    /\ i.exec = "stop" \/ (position.held >= MinHold /\ DiscretionaryExit(i))

MustExit(i) ==
    \/ i.exec = "stop"
    \/ position.held >= MinHold /\ DiscretionaryExit(i)

HandleOpen(i) ==
    /\ state \in {"LONG", "SHORT"}
    /\ IF position = NoPosition
         THEN /\ state' = "NEUTRAL"
              /\ rearmBlock' = RearmAfter(i)
              /\ UNCHANGED <<position, watchLeft, coolLeft, confirmations,
                             confirmationSign>>
         ELSE IF MustExit(i)
         THEN /\ state' = ExitState(position.dir)
              /\ coolLeft' = Cooldown
              /\ rearmBlock' = position.dir
              /\ position' = NoPosition
              /\ confirmations' = 0
              /\ confirmationSign' = 0
              /\ UNCHANGED watchLeft
         ELSE /\ rearmBlock' = RearmAfter(i)
              /\ UNCHANGED <<state, position, watchLeft, coolLeft,
                             confirmations, confirmationSign>>

----------------------------------------------------------------------------
(* The states that only wait: EXIT, COOLDOWN and WARMUP.                   *)

MoveTo(s, i) ==
    /\ state' = s
    /\ rearmBlock' = RearmAfter(i)
    /\ UNCHANGED <<position, watchLeft, coolLeft, confirmations,
                   confirmationSign>>

\* Mutant: the cooldown restarts with every snapshot.
CooldownRestarting(i) ==
    /\ state = "COOLDOWN"
    /\ state' = IF coolLeft > 0 THEN "COOLDOWN" ELSE "NEUTRAL"
    /\ coolLeft' = IF coolLeft > 0 THEN Cooldown ELSE 0
    /\ rearmBlock' = RearmAfter(i)
    /\ UNCHANGED <<position, watchLeft, confirmations, confirmationSign>>

HandlePostExit(i) ==
    /\ state \in {"EXIT_LONG", "EXIT_SHORT"}
    /\ MoveTo(IF Cooldown > 0 /\ coolLeft > 0 THEN "COOLDOWN" ELSE "NEUTRAL", i)

HandleCooldown(i) ==
    /\ state = "COOLDOWN"
    /\ MoveTo(IF coolLeft > 0 THEN "COOLDOWN" ELSE "NEUTRAL", i)

HandleWarmup(i) ==
    /\ state = "WARMUP"
    /\ MoveTo(IF "WARMUP" \in i.reasons THEN "WARMUP" ELSE "NEUTRAL", i)

----------------------------------------------------------------------------
(* NEUTRAL and the two WATCH states: _handle_flat.                         *)

Flat == state \in {"NEUTRAL", "WATCH_LONG", "WATCH_SHORT"}

RearmBlocked(i) ==
    /\ RequireZeroCrossRearm
    /\ RearmAfter(i) # 0
    /\ RearmAfter(i) = Sign(Score(i))

Watchable(i) ==
    /\ i.valid
    /\ Tradable(i)
    /\ Score(i) # 0
    /\ ~RearmBlocked(i)
    /\ Magnitude(Score(i)) >= WatchLevel
    /\ Confidence(i) >= MinWatchConfidence

\* Mutant: the tape is not asked.
EnterableAgainstTheTape(i) ==
    /\ Magnitude(Score(i)) >= EntryLevel
    /\ Confidence(i) >= MinEntryConfidence
    /\ i.clears

\* _entry_block_reason is None.
Enterable(i) ==
    /\ Magnitude(Score(i)) >= EntryLevel
    /\ Confidence(i) >= MinEntryConfidence
    /\ RequireLtpConfirmation => i.ltp = "agrees"
    /\ i.clears

WatchedDirection(i) == Sign(Score(i))

Disarm(i) ==
    /\ Flat
    /\ \/ ~Watchable(i)
       \/ state = WatchState(WatchedDirection(i)) /\ watchLeft < 0
    /\ state' = "NEUTRAL"
    /\ confirmations' = 0
    /\ rearmBlock' = RearmAfter(i)
    /\ UNCHANGED <<position, watchLeft, coolLeft, confirmationSign>>

Arm(i) ==
    /\ Flat
    /\ Watchable(i)
    /\ state # WatchState(WatchedDirection(i))
    /\ state' = WatchState(WatchedDirection(i))
    /\ watchLeft' = WatchTimeout
    /\ confirmations' = 0
    /\ confirmationSign' = WatchedDirection(i)
    /\ rearmBlock' = RearmAfter(i)
    /\ UNCHANGED <<position, coolLeft>>

Watching(i) ==
    /\ Flat
    /\ Watchable(i)
    /\ state = WatchState(WatchedDirection(i))
    /\ watchLeft >= 0

EntryBlocked(i) ==
    /\ Watching(i)
    /\ ~Enterable(i)
    /\ confirmations' = 0
    /\ rearmBlock' = RearmAfter(i)
    /\ UNCHANGED <<state, position, watchLeft, coolLeft, confirmationSign>>

ConfirmationsWith(i) ==
    IF confirmationSign = WatchedDirection(i) THEN confirmations + 1 ELSE 1

Confirm(i) ==
    /\ Watching(i)
    /\ Enterable(i)
    /\ ConfirmationsWith(i) < EntryConfirmations
    /\ confirmations' = ConfirmationsWith(i)
    /\ confirmationSign' = WatchedDirection(i)
    /\ rearmBlock' = RearmAfter(i)
    /\ UNCHANGED <<state, position, watchLeft, coolLeft>>

Enter(i) ==
    /\ Watching(i)
    /\ Enterable(i)
    /\ ConfirmationsWith(i) >= EntryConfirmations
    /\ state' = OpenState(WatchedDirection(i))
    /\ position' = [dir |-> WatchedDirection(i), held |-> 0]
    /\ confirmations' = 0
    /\ confirmationSign' = WatchedDirection(i)
    /\ rearmBlock' = RearmAfter(i)
    /\ UNCHANGED <<watchLeft, coolLeft>>

----------------------------------------------------------------------------
Update(i) ==
    \/ HandleOpen(i)
    \/ HandlePostExit(i)
    \/ HandleCooldown(i)
    \/ HandleWarmup(i)
    \/ Disarm(i)
    \/ Arm(i)
    \/ EntryBlocked(i)
    \/ Confirm(i)
    \/ Enter(i)

\* Mutant: reset() alone, which does not drop the position.
ForceFlatKeepingPosition ==
    /\ state' = "WARMUP"
    /\ watchLeft' = -1
    /\ coolLeft' = 0
    /\ confirmations' = 0
    /\ confirmationSign' = 0
    /\ rearmBlock' = 0
    /\ UNCHANGED position

\* force_flat: close at the current book, then reset() to WARMUP.
ForceFlat ==
    /\ state' = "WARMUP"
    /\ position' = NoPosition
    /\ watchLeft' = -1
    /\ coolLeft' = 0
    /\ confirmations' = 0
    /\ confirmationSign' = 0
    /\ rearmBlock' = 0

Next ==
    \/ ClockAdvances
    \/ ForceFlat
    \/ \E i \in Input : Update(i)

Spec == Init /\ [][Next]_vars

\* Every variable keeps to the values the code can give it.
TypeOK ==
    /\ state \in TradeState
    /\ position \in OpenPositions \cup {NoPosition}
    /\ watchLeft \in -1..WatchTimeout
    /\ coolLeft \in 0..Cooldown
    /\ confirmations \in 0..EntryConfirmations - 1
    /\ confirmationSign \in Signum
    /\ rearmBlock \in Signum
============================================================================
