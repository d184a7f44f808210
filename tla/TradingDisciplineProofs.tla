---------------------- MODULE TradingDisciplineProofs ----------------------
(***************************************************************************)
(* The safety properties of TradingDiscipline, for every configuration     *)
(* that StateMachineConfig and ThresholdConfig accept.  DisciplineInv is   *)
(* the inductive invariant; every theorem follows from it.                 *)
(***************************************************************************)
EXTENDS TradingDiscipline, TLAPS

\* A score has a direction exactly when it is not zero.
LEMMA SignDirection ==
    ASSUME NEW x \in Int
    PROVE  /\ Sign(x) \in Signum
           /\ x # 0 <=> Sign(x) \in Direction
    BY DEF Sign, Signum, Direction

\* Whatever the composite is, the machine trades on an integer score, and the
\* re-arm block stays a sign.
LEMMA ScoreIsASign ==
    ASSUME NEW i \in Input, rearmBlock \in Signum
    PROVE  /\ Score(i) \in Int
           /\ Sign(Score(i)) \in Signum
           /\ RearmAfter(i) \in Signum
           /\ RearmAfter(i) = IF Sign(Score(i)) = rearmBlock THEN rearmBlock ELSE 0
  <1>1. Score(i) \in Int
    BY ConfigAssumption DEF Score, Input
  <1>2. QED
    BY <1>1, SignDirection DEF RearmAfter, Signum

\* The states and their directions: no two of these names coincide.
LEMMA StateNames ==
    ASSUME NEW d \in Direction
    PROVE  /\ WatchState(d) \in {"WATCH_LONG", "WATCH_SHORT"}
           /\ OpenState(d) \in {"LONG", "SHORT"}
           /\ ExitState(d) \in {"EXIT_LONG", "EXIT_SHORT"}
           /\ \A e \in Direction : WatchState(e) = WatchState(d) => e = d
    BY DEF WatchState, OpenState, ExitState, Direction

\* A snapshot on which the watched direction is confirmed speaks for it.
LEMMA ConfirmedSnapshotSpeaks ==
    ASSUME NEW i \in Input, Watchable(i), Enterable(i)
    PROVE  /\ Sign(i.smoothed) \in Direction
           /\ Sign(i.smoothed) = WatchedDirection(i)
           /\ SpeaksFor(i, WatchedDirection(i))
  <1>1. i.valid /\ Score(i) = i.smoothed /\ i.smoothed \in Int
    BY ConfigAssumption DEF Watchable, Score, Input
  <1>2. i.smoothed # 0
    BY <1>1 DEF Watchable
  <1>3. Sign(i.smoothed) \in Direction
    BY <1>1, <1>2, SignDirection
  <1>4. Along(Sign(i.smoothed), i.smoothed) = Magnitude(i.smoothed)
    BY <1>1, <1>2 DEF Along, Sign, Magnitude
  <1>5. Magnitude(i.smoothed) >= EntryLevel /\ i.confidence >= MinEntryConfidence
    BY <1>1 DEF Enterable, Confidence
  <1>6. SpeaksFor(i, Sign(i.smoothed))
    BY <1>1, <1>4, <1>5 DEF SpeaksFor, Watchable, Tradable, Enterable
  <1>7. QED
    BY <1>1, <1>3, <1>6 DEF WatchedDirection

\* What the observer's streak becomes on such a snapshot: one longer than the
\* confirmations it backs, or full.
LEMMA StreakGrows ==
    ASSUME HTypeOK, NEW i \in Input, Watchable(i), Enterable(i), ObserveStreak(i)
    PROVE  /\ streakDir' = WatchedDirection(i)
           /\ streak' \in 1..EntryConfirmations
           /\ streakDir = WatchedDirection(i) => \/ streak' = streak + 1
                                                 \/ streak' = EntryConfirmations
  <1>1. \E d \in Direction : SpeaksFor(i, d)
    BY ConfirmedSnapshotSpeaks
  <1>2. streakDir' = WatchedDirection(i)
    BY <1>1, ConfirmedSnapshotSpeaks DEF ObserveStreak
  <1>3. streak' = IF streakDir # WatchedDirection(i) THEN 1
                  ELSE IF streak < EntryConfirmations THEN streak + 1
                  ELSE streak
    BY <1>1, ConfirmedSnapshotSpeaks DEF ObserveStreak
  <1>4. EntryConfirmations \in Nat /\ 1 <= EntryConfirmations
    BY ConfigAssumption
  <1>5. QED
    BY <1>2, <1>3, <1>4 DEF HTypeOK

----------------------------------------------------------------------------
(* What the observer writes on any update.                                 *)

\* The observer's variables keep their types on every update.
LEMMA ObserverTypes ==
    ASSUME HTypeOK, NEW i \in Input, ObserveStreak(i), ObserveExit(i)
    PROVE  /\ streakDir' \in Signum
           /\ streak' \in 0..EntryConfirmations
           /\ uncrossed' \in Signum
           /\ sinceExit' \in 0..Cooldown
           /\ closedBy' \in {"nothing", "stop", "discretion", "force"}
           /\ beat' \in BOOLEAN
  <1>0. beat' \in BOOLEAN
    BY DEF ObserveStreak
  <1>1. EntryConfirmations \in Nat /\ 1 <= EntryConfirmations /\ Cooldown \in Nat
    BY ConfigAssumption
  <1>2. i.smoothed \in Int
    BY ConfigAssumption DEF Input
  <1>3. Sign(i.smoothed) \in Signum
    BY <1>2, SignDirection
  <1>4. streakDir' \in Signum /\ streak' \in 0..EntryConfirmations
    BY <1>1, <1>3 DEF ObserveStreak, HTypeOK, Signum
  <1>5. CASE Closes
    <2>1. position.dir \in Signum
      BY DEF HTypeOK, TypeOK, OpenPositions, NoPosition, Direction, Signum
    <2>2. QED
      BY <1>0, <1>1, <1>4, <1>5, <2>1 DEF ObserveExit
  <1>6. CASE ~Closes
    BY <1>0, <1>1, <1>4, <1>6 DEF ObserveExit, HTypeOK, Signum
  <1>7. QED
    BY <1>5, <1>6

\* An update that closes nothing keeps the observer's re-arm and cooldown books
\* in step with the machine's.
LEMMA ObserverFollows ==
    ASSUME DisciplineInv, NEW i \in Input, ObserveExit(i), ~Closes,
           rearmBlock' = RearmAfter(i), coolLeft' = coolLeft
    PROVE  uncrossed' = rearmBlock' /\ sinceExit' = Cooldown - coolLeft'
    BY DEF ObserveExit, DisciplineInv, ObserverAgrees, RearmAfter

----------------------------------------------------------------------------
(* DisciplineInv is inductive: one lemma for the updates of each kind.     *)

\* _handle_open: an update of an open position keeps the invariant.
LEMMA OpenKeepsInv ==
    ASSUME DisciplineInv, NEW i \in Input, HandleOpen(i), ObserveStreak(i),
           ObserveExit(i)
    PROVE  DisciplineInv'
  <1>1. position # NoPosition /\ position \in OpenPositions
    BY DEF HandleOpen, DisciplineInv, PositionMatchesState, InPosition, HTypeOK,
           TypeOK
  <1>2. position.dir \in Direction
    BY <1>1 DEF OpenPositions
  <1>3. confirmations = 0
    BY ConfigAssumption DEF HandleOpen, DisciplineInv, ConfirmationsAreEarned,
           WatchState, HTypeOK, TypeOK
  <1>4. CASE MustExit(i)
    <2>1. /\ state' = ExitState(position.dir)
          /\ coolLeft' = Cooldown
          /\ rearmBlock' = position.dir
          /\ position' = NoPosition
          /\ confirmations' = 0
          /\ confirmationSign' = 0
          /\ watchLeft' = watchLeft
      BY <1>1, <1>4 DEF HandleOpen
    <2>2. Closes
      BY <1>1, <2>1 DEF Closes, InPosition
    <2>3. HTypeOK'
      BY <1>2, <2>1, ObserverTypes, ConfigAssumption, StateNames
         DEF DisciplineInv, HTypeOK, TypeOK, TradeState, Signum, Direction
    <2>4. PositionMatchesState' /\ ConfirmationsAreEarned'
      BY <1>2, <2>1, StateNames DEF PositionMatchesState, ConfirmationsAreEarned,
         InPosition
    <2>5. ObserverAgrees'
      <3>1. uncrossed' = position.dir /\ sinceExit' = 0
        BY <2>2 DEF ObserveExit
      <3>2. QED
        BY <1>2, <2>1, <3>1, StateNames, ConfigAssumption DEF ObserverAgrees
    <2>6. QED
      BY <2>3, <2>4, <2>5 DEF DisciplineInv
  <1>5. CASE ~MustExit(i)
    <2>1. /\ rearmBlock' = RearmAfter(i)
          /\ UNCHANGED <<state, position, watchLeft, coolLeft, confirmations,
                         confirmationSign>>
      BY <1>1, <1>5 DEF HandleOpen
    <2>2. HTypeOK'
      BY <2>1, ObserverTypes, ScoreIsASign DEF DisciplineInv, HTypeOK, TypeOK
    <2>3. PositionMatchesState' /\ ConfirmationsAreEarned'
      BY <1>3, <2>1 DEF PositionMatchesState, ConfirmationsAreEarned, InPosition,
         DisciplineInv
    <2>4. ObserverAgrees'
      <3>1. ~Closes
        BY <2>1 DEF Closes, InPosition
      <3>2. QED
        BY <2>1, <3>1, ObserverFollows DEF ObserverAgrees, DisciplineInv
    <2>5. QED
      BY <2>2, <2>3, <2>4 DEF DisciplineInv
  <1>6. QED
    BY <1>4, <1>5

\* The waiting states hold no position and count no confirmations.
LEMMA WaitingKeepsInv ==
    ASSUME DisciplineInv, NEW i \in Input, ObserveStreak(i), ObserveExit(i),
           HandlePostExit(i) \/ HandleCooldown(i) \/ HandleWarmup(i)
    PROVE  DisciplineInv'
  <1>1. /\ position = NoPosition
        /\ confirmations = 0
    BY StateNames DEF DisciplineInv, PositionMatchesState, ConfirmationsAreEarned,
       InPosition, HandlePostExit, HandleCooldown, HandleWarmup, HTypeOK, TypeOK,
       WatchState
  <1>2. /\ state' \in {"WARMUP", "COOLDOWN", "NEUTRAL"}
        /\ state' # "COOLDOWN" => coolLeft = 0
        /\ rearmBlock' = RearmAfter(i)
        /\ UNCHANGED <<position, watchLeft, coolLeft, confirmations,
                       confirmationSign>>
    BY ConfigAssumption DEF HandlePostExit, HandleCooldown, HandleWarmup, MoveTo,
       DisciplineInv, ObserverAgrees, HTypeOK, TypeOK, TradeState
  <1>3. HTypeOK'
    BY <1>2, ObserverTypes, ScoreIsASign
       DEF DisciplineInv, HTypeOK, TypeOK, TradeState
  <1>4. PositionMatchesState' /\ ConfirmationsAreEarned'
    BY <1>1, <1>2 DEF PositionMatchesState, ConfirmationsAreEarned, InPosition
  <1>5. ObserverAgrees'
    <2>1. ~Closes
      BY <1>1 DEF Closes, InPosition
    <2>2. \A d \in Direction : state' # WatchState(d)
      BY <1>2, StateNames
    <2>3. QED
      BY <1>2, <2>1, <2>2, ObserverFollows DEF ObserverAgrees
  <1>6. QED
    BY <1>3, <1>4, <1>5 DEF DisciplineInv

\* _handle_flat without an entry: disarmed, armed, blocked or confirming.
LEMMA FlatKeepsInv ==
    ASSUME DisciplineInv, NEW i \in Input, ObserveStreak(i), ObserveExit(i),
           Disarm(i) \/ Arm(i) \/ EntryBlocked(i) \/ Confirm(i)
    PROVE  DisciplineInv'
  <1>1. /\ position = NoPosition /\ position' = NoPosition
        /\ coolLeft = 0 /\ coolLeft' = 0
        /\ rearmBlock' = RearmAfter(i)
    BY DEF DisciplineInv, PositionMatchesState, ObserverAgrees, InPosition,
       Disarm, Arm, EntryBlocked, Confirm, Watching, Flat, TradeState
  <1>2. ~Closes
    BY <1>1 DEF Closes, InPosition
  <1>3. uncrossed' = rearmBlock' /\ sinceExit' = Cooldown - coolLeft'
    BY <1>1, <1>2, ObserverFollows
  <1>4. WatchedDirection(i) \in Signum
    BY ScoreIsASign DEF WatchedDirection, DisciplineInv, HTypeOK, TypeOK
  <1>5. ASSUME Watchable(i) PROVE WatchedDirection(i) \in Direction
    BY <1>5, ScoreIsASign, SignDirection
       DEF Watchable, WatchedDirection, DisciplineInv, HTypeOK, TypeOK
  <1>6. CASE Disarm(i) \/ Arm(i) \/ EntryBlocked(i)
    <2>1. /\ state' = "NEUTRAL" \/ \E d \in Direction : /\ state' = WatchState(d)
                                                      /\ confirmationSign' = d
          /\ confirmations' = 0
          /\ watchLeft' \in {watchLeft, WatchTimeout}
          /\ confirmationSign' \in {confirmationSign, WatchedDirection(i)}
      BY <1>5, <1>6 DEF Disarm, Arm, EntryBlocked, Watching, DisciplineInv,
         ObserverAgrees
    <2>2. HTypeOK'
      BY <1>1, <1>4, <2>1, ObserverTypes, ScoreIsASign, StateNames, ConfigAssumption
         DEF DisciplineInv, HTypeOK, TypeOK, TradeState
    <2>3. PositionMatchesState' /\ ConfirmationsAreEarned'
      BY <1>1, <2>1, StateNames DEF PositionMatchesState, ConfirmationsAreEarned,
         InPosition
    <2>4. ObserverAgrees'
      BY <1>1, <1>3, <2>1, StateNames DEF ObserverAgrees, TradeState
    <2>5. QED
      BY <2>2, <2>3, <2>4 DEF DisciplineInv
  <1>7. CASE Confirm(i)
    <2>1. /\ WatchedDirection(i) \in Direction
          /\ Watchable(i) /\ Enterable(i)
          /\ state = WatchState(WatchedDirection(i))
          /\ confirmationSign = WatchedDirection(i)
      BY <1>5, <1>7 DEF Confirm, Watching, DisciplineInv, ObserverAgrees
    <2>2. /\ state' = state
          /\ confirmations' = confirmations + 1
          /\ confirmations' < EntryConfirmations
          /\ confirmationSign' = confirmationSign
          /\ watchLeft' = watchLeft
      BY <1>7, <2>1 DEF Confirm, ConfirmationsWith
    <2>3. HTypeOK'
      BY <1>1, <1>4, <2>1, <2>2, ObserverTypes, ScoreIsASign, ConfigAssumption
         DEF DisciplineInv, HTypeOK, TypeOK
    <2>4. PositionMatchesState'
      BY <1>1, <2>1, <2>2, StateNames DEF PositionMatchesState, InPosition
    <2>5. ConfirmationsAreEarned'
      <3>1. confirmations > 0 => /\ streakDir = WatchedDirection(i)
                                 /\ streak >= confirmations
        BY <2>1 DEF DisciplineInv, ConfirmationsAreEarned
      <3>2. /\ streakDir' = WatchedDirection(i)
            /\ streak' \in 1..EntryConfirmations
            /\ streakDir = WatchedDirection(i) => \/ streak' = streak + 1
                                                  \/ streak' = EntryConfirmations
        BY <2>1, StreakGrows DEF DisciplineInv
      <3>3. confirmations \in Nat /\ streak \in Nat
        BY ConfigAssumption DEF DisciplineInv, HTypeOK, TypeOK
      <3>4. QED
        BY <2>1, <2>2, <3>1, <3>2, <3>3, ConfigAssumption
           DEF ConfirmationsAreEarned
    <2>6. ObserverAgrees'
      BY <1>1, <1>3, <2>1, <2>2 DEF ObserverAgrees, DisciplineInv
    <2>7. QED
      BY <2>3, <2>4, <2>5, <2>6 DEF DisciplineInv
  <1>8. QED
    BY <1>6, <1>7

\* What an entry does, and the evidence behind it.
LEMMA EntryFacts ==
    ASSUME DisciplineInv, NEW i \in Input, ObserveStreak(i), ObserveExit(i),
           Enter(i)
    PROVE  /\ position = NoPosition
           /\ position' = [dir |-> WatchedDirection(i), held |-> 0]
           /\ WatchedDirection(i) \in Direction
           /\ coolLeft = 0
           /\ streakDir' = WatchedDirection(i)
           /\ streak' = EntryConfirmations
  <1>1. /\ Watchable(i) /\ Enterable(i)
        /\ state = WatchState(WatchedDirection(i))
        /\ ConfirmationsWith(i) >= EntryConfirmations
        /\ position' = [dir |-> WatchedDirection(i), held |-> 0]
    BY DEF Enter, Watching
  <1>2. /\ position = NoPosition
        /\ coolLeft = 0
    BY DEF Enter, Watching, Flat, DisciplineInv, PositionMatchesState, InPosition,
       ObserverAgrees, TradeState
  <1>3. WatchedDirection(i) \in Direction
    BY <1>1, ConfirmedSnapshotSpeaks
  <1>4. confirmationSign = WatchedDirection(i)
    BY <1>1, <1>3 DEF DisciplineInv, ObserverAgrees
  <1>5. confirmations + 1 >= EntryConfirmations
    BY <1>1, <1>4 DEF ConfirmationsWith
  <1>6. /\ streakDir' = WatchedDirection(i)
        /\ streak' \in 1..EntryConfirmations
        /\ streakDir = WatchedDirection(i) => \/ streak' = streak + 1
                                              \/ streak' = EntryConfirmations
    BY <1>1, StreakGrows DEF DisciplineInv
  <1>7. confirmations > 0 => streakDir = confirmationSign /\ streak >= confirmations
    BY DEF DisciplineInv, ConfirmationsAreEarned
  <1>8. confirmations \in Nat /\ streak \in Nat
    BY ConfigAssumption DEF DisciplineInv, HTypeOK, TypeOK
  <1>9. streak' = EntryConfirmations
    BY <1>4, <1>5, <1>6, <1>7, <1>8, ConfigAssumption
  <1>10. QED
    BY <1>1, <1>2, <1>3, <1>6, <1>9

\* _enter: an entry keeps the invariant.
LEMMA EnterKeepsInv ==
    ASSUME DisciplineInv, NEW i \in Input, ObserveStreak(i), ObserveExit(i),
           Enter(i)
    PROVE  DisciplineInv'
  <1>1. /\ position = NoPosition
        /\ position' = [dir |-> WatchedDirection(i), held |-> 0]
        /\ WatchedDirection(i) \in Direction
        /\ coolLeft = 0
    BY EntryFacts
  <1>2. /\ state' = OpenState(WatchedDirection(i))
        /\ confirmations' = 0
        /\ confirmationSign' = WatchedDirection(i)
        /\ rearmBlock' = RearmAfter(i)
        /\ watchLeft' = watchLeft /\ coolLeft' = coolLeft
    BY DEF Enter
  <1>3. position' \in OpenPositions /\ position' # NoPosition
    BY <1>1, ConfigAssumption DEF OpenPositions, NoPosition, Direction
  <1>4. ~Closes
    BY <1>1 DEF Closes, InPosition
  <1>5. HTypeOK'
    BY <1>1, <1>2, <1>3, ObserverTypes, ScoreIsASign, StateNames, ConfigAssumption
       DEF DisciplineInv, HTypeOK, TypeOK, TradeState, Signum, Direction
  <1>6. PositionMatchesState'
    BY <1>1, <1>2, <1>3, StateNames DEF PositionMatchesState, InPosition
  <1>7. ConfirmationsAreEarned'
    BY <1>2 DEF ConfirmationsAreEarned
  <1>8. ObserverAgrees'
    BY <1>1, <1>2, <1>4, ObserverFollows, StateNames DEF ObserverAgrees
  <1>9. QED
    BY <1>5, <1>6, <1>7, <1>8 DEF DisciplineInv

\* The clock only ages a position and runs the two countdowns.
LEMMA ClockKeepsInv ==
    ASSUME DisciplineInv, HClockAdvances
    PROVE  DisciplineInv'
  <1>1. /\ MaxHold \in Nat /\ Cooldown \in Nat /\ WatchTimeout \in Nat
    BY ConfigAssumption
  <1>2. CASE position = NoPosition
    <2>1. position' = NoPosition
      BY <1>2 DEF HClockAdvances, ClockAdvances, NoPosition
    <2>2. QED
      BY <1>1, <1>2, <2>1 DEF DisciplineInv, HTypeOK, TypeOK, PositionMatchesState,
         InPosition, ConfirmationsAreEarned, ObserverAgrees, HClockAdvances,
         ClockAdvances
  <1>3. CASE position # NoPosition
    <2>1. /\ position' \in OpenPositions
          /\ position'.dir = position.dir
          /\ position' # NoPosition
      BY <1>1, <1>3 DEF HClockAdvances, ClockAdvances, NoPosition, OpenPositions,
         DisciplineInv, HTypeOK, TypeOK, Direction
    <2>2. QED
      BY <1>1, <1>3, <2>1 DEF DisciplineInv, HTypeOK, TypeOK, PositionMatchesState,
         InPosition, ConfirmationsAreEarned, ObserverAgrees, HClockAdvances,
         ClockAdvances
  <1>4. QED
    BY <1>2, <1>3

\* force_flat, from any state, keeps the invariant.
LEMMA ForceFlatKeepsInv ==
    ASSUME DisciplineInv, HForceFlat
    PROVE  DisciplineInv'
    BY ConfigAssumption, StateNames DEF DisciplineInv, HTypeOK, TypeOK, TradeState,
       Signum, PositionMatchesState, InPosition, ConfirmationsAreEarned,
       ObserverAgrees, HForceFlat, ForceFlat

\* Every step of the machine under observation keeps the invariant.
LEMMA DisciplineInductive ==
    ASSUME DisciplineInv, [HNext]_hvars
    PROVE  DisciplineInv'
  <1>1. CASE HClockAdvances
    BY <1>1, ClockKeepsInv
  <1>2. CASE HForceFlat
    BY <1>2, ForceFlatKeepsInv
  <1>3. CASE \E i \in Input : HUpdate(i)
    <2>1. PICK i \in Input : HUpdate(i)
      BY <1>3
    <2>2. QED
      BY <2>1, OpenKeepsInv, WaitingKeepsInv, FlatKeepsInv, EnterKeepsInv
         DEF HUpdate, Update
  <1>4. CASE UNCHANGED hvars
    BY <1>4 DEF hvars, vars, history, DisciplineInv, HTypeOK, TypeOK,
       PositionMatchesState, InPosition, ConfirmationsAreEarned, ObserverAgrees
  <1>5. QED
    BY <1>1, <1>2, <1>3, <1>4 DEF HNext

\* The machine starts in the invariant, on its initial state and countdowns.
LEMMA DisciplineInitially == HInit => DisciplineInv
  <1>1. HInit => beat \in BOOLEAN
    BY DEF HInit
  <1>2. HInit => /\ TypeOK
                 /\ streakDir \in Signum /\ streak \in 0..EntryConfirmations
                 /\ uncrossed \in Signum /\ sinceExit \in 0..Cooldown
                 /\ closedBy \in {"nothing", "stop", "discretion", "force"}
                 /\ PositionMatchesState /\ ConfirmationsAreEarned /\ ObserverAgrees
    BY ConfigAssumption, StateNames DEF HInit, Init, TypeOK, TradeState, Signum,
       PositionMatchesState, InPosition, ConfirmationsAreEarned, ObserverAgrees
  <1>3. QED
    BY <1>1, <1>2 DEF DisciplineInv, HTypeOK

----------------------------------------------------------------------------
(* The theorems.                                                           *)

\* The conjunction of the invariants holds in every reachable state.
THEOREM DisciplineHolds == HSpec => []DisciplineInv
  <1>1. HInit => DisciplineInv
    BY DisciplineInitially
  <1>2. DisciplineInv /\ [HNext]_hvars => DisciplineInv'
    BY DisciplineInductive
  <1>3. QED
    BY <1>1, <1>2, PTL DEF HSpec

\* Type correctness: in particular a watch never counts entry_confirmations
\* without entering, and no age or countdown leaves its range.
THEOREM TypeCorrect == HSpec => []HTypeOK
  <1>1. DisciplineInv => HTypeOK
    BY DEF DisciplineInv
  <1>2. QED
    BY <1>1, DisciplineHolds, PTL

\* LONG and SHORT hold a position of their direction and no other state holds
\* one, so _handle_open's "inconsistent position state" cannot happen.
THEOREM PositionMatchesStateHolds == HSpec => []PositionMatchesState
  <1>1. DisciplineInv => PositionMatchesState
    BY DEF DisciplineInv
  <1>2. QED
    BY <1>1, DisciplineHolds, PTL

\* Every confirmation the machine counts is a snapshot the observer counted.
THEOREM ConfirmationsAreEarnedHolds == HSpec => []ConfirmationsAreEarned
  <1>1. DisciplineInv => ConfirmationsAreEarned
    BY DEF DisciplineInv
  <1>2. QED
    BY <1>1, DisciplineHolds, PTL

\* Only an entry opens a position, whatever else a step may be.
LEMMA OnlyEnterOpens ==
    ASSUME DisciplineInv, [HNext]_hvars, Opens
    PROVE  \E i \in Input : Enter(i) /\ HUpdate(i)
  <1>1. position = NoPosition /\ position' # NoPosition
    BY DEF Opens, InPosition
  <1>2. ~HClockAdvances /\ ~HForceFlat /\ ~UNCHANGED hvars
    BY <1>1 DEF HClockAdvances, ClockAdvances, HForceFlat, ForceFlat, hvars, vars,
       NoPosition
  <1>3. PICK i \in Input : HUpdate(i)
    BY <1>2 DEF HNext
  <1>4. Enter(i)
    BY <1>1, <1>3 DEF HUpdate, Update, HandleOpen, HandlePostExit, HandleCooldown,
       HandleWarmup, MoveTo, Disarm, Arm, EntryBlocked, Confirm
  <1>5. QED
    BY <1>3, <1>4

\* A position is opened only at the end of entry_confirmations consecutive
\* snapshots that each met every entry condition in its direction.
THEOREM EntryIsConfirmedHolds == HSpec => EntryIsConfirmed
  <1>1. ASSUME DisciplineInv, [HNext]_hvars, Opens
        PROVE  streak' = EntryConfirmations /\ streakDir' = position'.dir
    <2>1. PICK i \in Input : Enter(i) /\ HUpdate(i)
      BY <1>1, OnlyEnterOpens
    <2>2. QED
      BY <1>1, <2>1, EntryFacts DEF HUpdate
  <1>2. DisciplineInv /\ [HNext]_hvars
          => [Opens => streak' = EntryConfirmations
                       /\ streakDir' = position'.dir]_hvars
    BY <1>1
  <1>3. QED
    BY <1>2, DisciplineHolds, PTL DEF HSpec, EntryIsConfirmed

\* After a managed exit the same direction is not entered again before the
\* score the machine trades on has left that side of zero.
THEOREM NoReentryBeforeRearmHolds == HSpec => NoReentryBeforeRearm
  <1>1. ASSUME DisciplineInv, [HNext]_hvars, Opens, RequireZeroCrossRearm
        PROVE  position'.dir # uncrossed
    <2>1. PICK i \in Input : Enter(i) /\ HUpdate(i)
      BY <1>1, OnlyEnterOpens
    <2>2. /\ position'.dir = WatchedDirection(i)
          /\ WatchedDirection(i) \in Direction
      BY <1>1, <2>1, EntryFacts DEF HUpdate
    <2>3. ~RearmBlocked(i)
      BY <2>1 DEF Enter, Watching, Watchable
    <2>4. uncrossed = rearmBlock
      BY <1>1 DEF DisciplineInv, ObserverAgrees
    <2>5. QED
      BY <1>1, <2>2, <2>3, <2>4 DEF RearmBlocked, RearmAfter, WatchedDirection,
         Direction
  <1>2. DisciplineInv /\ [HNext]_hvars
          => [Opens /\ RequireZeroCrossRearm => position'.dir # uncrossed]_hvars
    BY <1>1
  <1>3. QED
    BY <1>2, DisciplineHolds, PTL DEF HSpec, NoReentryBeforeRearm

\* Before min_hold a position is closed by a stop or a feed gap only.
THEOREM MinHoldIsOnlyBrokenByStopHolds == HSpec => MinHoldIsOnlyBrokenByStop
  <1>1. ASSUME DisciplineInv, [HNext]_hvars, Closes, position.held < MinHold
        PROVE  closedBy' \in {"stop", "force"}
    <2>1. position # NoPosition /\ position' = NoPosition
      BY <1>1 DEF Closes, InPosition
    <2>2. position.held \in Nat /\ MinHold \in Nat
      BY <2>1, <1>1, ConfigAssumption DEF DisciplineInv, HTypeOK, TypeOK,
         OpenPositions
    <2>3. CASE HForceFlat
      BY <2>1, <2>3 DEF HForceFlat, InPosition
    <2>4. CASE HClockAdvances \/ UNCHANGED hvars
      <3>1. position'.dir = position.dir
        BY <2>4, <1>1 DEF HClockAdvances, ClockAdvances, hvars, vars,
           DisciplineInv, HTypeOK, TypeOK, OpenPositions, NoPosition
      <3>2. position.dir # 0
        BY <2>1, <1>1 DEF DisciplineInv, HTypeOK, TypeOK, OpenPositions, Direction
      <3>3. QED
        BY <3>1, <3>2, <2>1 DEF NoPosition
    <2>5. CASE \E i \in Input : HUpdate(i)
      <3>1. PICK i \in Input : HUpdate(i)
        BY <2>5
      <3>2. state \in {"LONG", "SHORT"}
        BY <2>1, <1>1 DEF DisciplineInv, PositionMatchesState, InPosition
      <3>3. HandleOpen(i)
        BY <3>1, <3>2 DEF HUpdate, Update, HandlePostExit, HandleCooldown,
           HandleWarmup, Disarm, Arm, EntryBlocked, Confirm, Enter, Watching, Flat
      <3>4. MustExit(i)
        BY <3>3, <2>1 DEF HandleOpen
      <3>5. i.exec = "stop"
        BY <3>4, <2>2, <1>1 DEF MustExit
      <3>6. QED
        BY <3>1, <3>5, <1>1 DEF HUpdate, ObserveExit
    <2>6. QED
      BY <1>1, <2>3, <2>4, <2>5 DEF HNext
  <1>2. DisciplineInv /\ [HNext]_hvars
          => [Closes /\ position.held < MinHold
                => closedBy' \in {"stop", "force"}]_hvars
    BY <1>1
  <1>3. QED
    BY <1>2, DisciplineHolds, PTL DEF HSpec, MinHoldIsOnlyBrokenByStop

----------------------------------------------------------------------------
(* The machine implements PositionLifecycle.                               *)

\* No snapshot leaves a position open that it finds max_hold old: min_hold is
\* less than max_hold, so nothing shields it.
LEMMA UpdateEndsOldPosition ==
    ASSUME DisciplineInv, NEW i \in Input, Update(i), position # NoPosition,
           position' = position
    PROVE  position.held < MaxHold
  <1>1. state \in {"LONG", "SHORT"}
    BY DEF DisciplineInv, PositionMatchesState, InPosition
  <1>2. HandleOpen(i)
    BY <1>1 DEF Update, HandlePostExit, HandleCooldown, HandleWarmup, Disarm, Arm,
       EntryBlocked, Confirm, Enter, Watching, Flat
  <1>3. ~MustExit(i)
    BY <1>2 DEF HandleOpen
  <1>4. position \in OpenPositions
    BY DEF DisciplineInv, HTypeOK, TypeOK
  <1>5. MinHold \in Nat /\ MaxHold \in Nat /\ MinHold <= MaxHold
    BY ConfigAssumption
  <1>6. position.held \in Nat
    BY <1>4, <1>5 DEF OpenPositions
  <1>7. QED
    BY <1>3, <1>5, <1>6 DEF MustExit, DiscretionaryExit

\* Every step of the machine is a step of the lifecycle, or changes nothing of it.
LEMMA LifecycleStep ==
    ASSUME DisciplineInv, [HNext]_hvars
    PROVE  [Lifecycle!Next]_(Lifecycle!lifecycle)
  <1> USE DEF Lifecycle!lifecycle
  <1>1. /\ MaxHold \in Nat /\ Cooldown \in Nat
        /\ sinceExit \in 0..Cooldown
        /\ position \in OpenPositions \cup {NoPosition}
        /\ position = NoPosition <=> position.dir = 0
    BY ConfigAssumption DEF DisciplineInv, HTypeOK, TypeOK, OpenPositions,
       NoPosition, Direction
  <1>2. CASE HClockAdvances
    <2>1. Lifecycle!Pass
      BY <1>1, <1>2 DEF HClockAdvances, ClockAdvances, Lifecycle!Pass, NoPosition,
         OpenPositions
    <2>2. QED
      BY <2>1 DEF Lifecycle!Next
  <1>3. CASE HForceFlat
    <2>1. position' = NoPosition /\ sinceExit' = Cooldown /\ beat' = beat
      BY <1>3 DEF HForceFlat, ForceFlat
    <2>2. Lifecycle!Forget
      BY <1>1, <2>1 DEF Lifecycle!Forget, NoPosition
    <2>3. QED
      BY <2>2 DEF Lifecycle!Next
  <1>4. ASSUME NEW i \in Input, HUpdate(i)
        PROVE  [Lifecycle!Next]_(Lifecycle!lifecycle)
    <2>0. beat' = ~beat
      BY <1>4 DEF HUpdate, ObserveStreak
    <2>1. CASE Enter(i)
      <3>1. /\ position = NoPosition
            /\ position' = [dir |-> WatchedDirection(i), held |-> 0]
            /\ WatchedDirection(i) \in Direction
            /\ sinceExit = Cooldown
        BY <1>1, <1>4, <2>1, EntryFacts DEF HUpdate, DisciplineInv, ObserverAgrees
      <3>2. sinceExit' = sinceExit
        BY <1>4, <3>1 DEF HUpdate, ObserveExit, Closes, InPosition
      <3>3. Lifecycle!Open(WatchedDirection(i))
        BY <1>1, <2>0, <3>1, <3>2
           DEF Lifecycle!Open, Lifecycle!Snapshot, NoPosition
      <3>4. QED
        BY <3>1, <3>3 DEF Lifecycle!Next, Direction
    <2>2. CASE position' = NoPosition /\ position # NoPosition
      <3>1. sinceExit' = 0
        BY <1>4, <2>2 DEF HUpdate, ObserveExit, Closes, InPosition
      <3>2. Lifecycle!Close
        BY <1>1, <2>0, <2>2, <3>1
           DEF Lifecycle!Close, Lifecycle!Snapshot, NoPosition
      <3>3. QED
        BY <3>2 DEF Lifecycle!Next
    <2>3. CASE position' = position /\ ~Enter(i)
      <3>1. sinceExit' = sinceExit
        BY <1>4, <2>3 DEF HUpdate, ObserveExit, Closes, InPosition
      <3>2. position.dir # 0 => position.held < MaxHold
        BY <1>1, <1>4, <2>3, UpdateEndsOldPosition DEF HUpdate
      <3>3. Lifecycle!Keep
        BY <2>0, <2>3, <3>1, <3>2 DEF Lifecycle!Keep, Lifecycle!Snapshot
      <3>4. QED
        BY <3>3 DEF Lifecycle!Next
    <2>4. \/ Enter(i)
          \/ position' = NoPosition /\ position # NoPosition
          \/ position' = position
      BY <1>4 DEF HUpdate, Update, HandleOpen, HandlePostExit, HandleCooldown,
         HandleWarmup, MoveTo, Disarm, Arm, EntryBlocked, Confirm
    <2>5. QED
      BY <2>1, <2>2, <2>3, <2>4
  <1>5. CASE UNCHANGED hvars
    BY <1>5 DEF hvars, vars, history
  <1>6. QED
    BY <1>2, <1>3, <1>4, <1>5 DEF HNext

\* The trading state machine implements PositionLifecycle: every behaviour of
\* the machine is, seen through its position alone, one the lifecycle allows.
THEOREM ImplementsLifecycleHolds == HSpec => ImplementsLifecycle
  <1>1. HInit => Lifecycle!Init
    BY ConfigAssumption DEF HInit, Init, Lifecycle!Init, NoPosition
  <1>2. DisciplineInv /\ [HNext]_hvars => [Lifecycle!Next]_(Lifecycle!lifecycle)
    BY LifecycleStep
  <1>3. QED
    BY <1>1, <1>2, DisciplineHolds, PTL DEF HSpec, ImplementsLifecycle,
       Lifecycle!Spec

============================================================================
