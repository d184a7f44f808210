------------------------- MODULE TradingDiscipline -------------------------
(***************************************************************************)
(* What the header of engine/state_machine.py promises about entries and   *)
(* exits, judged by an observer that sees the snapshots and the position   *)
(* but none of the machine's own counters.                                 *)
(***************************************************************************)
EXTENDS TradingStateMachine

VARIABLES
    streakDir,      \* direction the latest snapshots speak for, 0 if none
    streak,         \* how many in a row did, up to EntryConfirmations
    uncrossed,      \* direction of the last managed exit, 0 once the score the
                    \* machine trades on has left that side of zero
    sinceExit,      \* time since the last managed exit, up to Cooldown
    closedBy,       \* what the last close of a position was for
    beat            \* alternates with every snapshot, also one that changes nothing

history == <<streakDir, streak, uncrossed, sinceExit, closedBy, beat>>
hvars == <<vars, history>>

----------------------------------------------------------------------------
\* The snapshot meets every entry condition of the header but the re-arm.
SpeaksFor(i, d) ==
    /\ i.valid
    /\ Along(d, i.smoothed) >= EntryLevel
    /\ i.confidence >= MinEntryConfidence
    /\ i.reasons = {}
    /\ RequireLtpConfirmation => i.ltp = "agrees"
    /\ i.clears

InPosition == position # NoPosition
Opens == ~InPosition /\ InPosition'
Closes == InPosition /\ ~InPosition'

ObserveStreak(i) ==
    /\ beat' = ~beat
    /\ IF \E d \in Direction : SpeaksFor(i, d)
         THEN /\ streakDir' = Sign(i.smoothed)
              /\ streak' = IF streakDir # Sign(i.smoothed) THEN 1
                           ELSE IF streak < EntryConfirmations THEN streak + 1
                           ELSE streak
         ELSE streakDir' = 0 /\ streak' = 0

ObserveExit(i) ==
    IF Closes
      THEN /\ uncrossed' = position.dir
           /\ sinceExit' = 0
           /\ closedBy' = IF i.exec = "stop" THEN "stop" ELSE "discretion"
      ELSE /\ uncrossed' = IF Sign(Score(i)) = uncrossed THEN uncrossed ELSE 0
           /\ UNCHANGED <<sinceExit, closedBy>>

HInit ==
    /\ Init
    /\ streakDir = 0
    /\ streak = 0
    /\ uncrossed = 0
    /\ sinceExit = Cooldown
    /\ closedBy = "nothing"
    /\ beat = FALSE

HUpdate(i) == Update(i) /\ ObserveStreak(i) /\ ObserveExit(i)

HClockAdvances ==
    /\ ClockAdvances
    /\ sinceExit' = IF sinceExit < Cooldown THEN sinceExit + 1 ELSE sinceExit
    /\ UNCHANGED <<streakDir, streak, uncrossed, closedBy, beat>>

\* A forced close invalidates the evidence and starts the machine afresh.
HForceFlat ==
    /\ ForceFlat
    /\ streakDir' = 0
    /\ streak' = 0
    /\ uncrossed' = 0
    /\ sinceExit' = Cooldown
    /\ closedBy' = IF InPosition THEN "force" ELSE closedBy
    /\ UNCHANGED beat

HNext ==
    \/ HClockAdvances
    \/ HForceFlat
    \/ \E i \in Input : HUpdate(i)

HSpec == HInit /\ [][HNext]_hvars

HTypeOK ==
    /\ TypeOK
    /\ streakDir \in Signum
    /\ streak \in 0..EntryConfirmations
    /\ uncrossed \in Signum
    /\ sinceExit \in 0..Cooldown
    /\ closedBy \in {"nothing", "stop", "discretion", "force"}
    /\ beat \in BOOLEAN

----------------------------------------------------------------------------
(* Safety.                                                                 *)

\* The machine is in LONG or SHORT exactly while it holds a position of that
\* direction, so the branch of _handle_open that finds an open state without a
\* position and forces NEUTRAL is never taken.
PositionMatchesState ==
    /\ InPosition <=> state \in {"LONG", "SHORT"}
    /\ InPosition => state = OpenState(position.dir)

\* The confirmations the code counts are all there in the feed: as many
\* consecutive snapshots, up to the last one, spoke for the watched direction.
\* A reset forgotten on any early return of _handle_flat breaks it later, when
\* the same watch is armed again.
ConfirmationsAreEarned ==
    confirmations > 0 =>
        /\ state = WatchState(confirmationSign)
        /\ streakDir = confirmationSign
        /\ streak >= confirmations

\* The observer and the machine keep the same books, and the machine cools down
\* only between an exit and the return to NEUTRAL: what makes the properties
\* below inductive.
ObserverAgrees ==
    /\ uncrossed = rearmBlock
    /\ sinceExit = Cooldown - coolLeft
    /\ state \in TradeState \ {"EXIT_LONG", "EXIT_SHORT", "COOLDOWN"} => coolLeft = 0
    /\ \A d \in Direction : state = WatchState(d) => confirmationSign = d

DisciplineInv ==
    HTypeOK /\ PositionMatchesState /\ ConfirmationsAreEarned /\ ObserverAgrees

\* "The conditions hold for entry_confirmations consecutive snapshots": a
\* position is opened only on the last of that many snapshots in a row, every
\* one of which met every entry condition in the position's direction.
EntryIsConfirmed ==
    [][Opens => /\ streak' = EntryConfirmations
                /\ streakDir' = position'.dir]_hvars

\* After an exit through _handle_open the same direction is not entered again
\* before the score the machine trades on has left that side of zero, however
\* many watches, cooldowns and positions of the other direction lie between.
NoReentryBeforeRearm ==
    [][Opens /\ RequireZeroCrossRearm => position'.dir # uncrossed]_hvars

\* "A minimum hold is a protection against noise, not a licence to sit through
\* a stop": a position younger than min_hold is closed by a stop or a feed gap
\* and by nothing else.
MinHoldIsOnlyBrokenByStop ==
    [][Closes /\ position.held < MinHold => closedBy' \in {"stop", "force"}]_hvars

\* The machine is a PositionLifecycle: one position at a time, never reversed
\* in one step, none left open by a snapshot that finds it max_hold old, whatever
\* blocks, reasons and missing scores the snapshot carries, and after a managed
\* exit none opened for cooldown_ms, although _handle_post_exit may enter the
\* cooldown late or skip it.
Lifecycle == INSTANCE PositionLifecycle WITH
    exposure <- position.dir,
    age <- position.held,
    rest <- Cooldown - sinceExit,
    beat <- beat

ImplementsLifecycle == Lifecycle!Spec
============================================================================
