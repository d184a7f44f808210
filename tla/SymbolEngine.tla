---------------------------- MODULE SymbolEngine ----------------------------
(***************************************************************************)
(* engine/quant_engine.py with engine/validator.py: how one instrument's   *)
(* engine notices a discontinuity of the feed and starts over.  The feed   *)
(* thread enqueues snapshots and calls notify_gap on every reconnect; the  *)
(* engine thread takes snapshots from the queue, one process() at a time.  *)
(* No lock is shared, so a report may fall between any two of the steps    *)
(* process() takes on the flag.                                            *)
(*                                                                         *)
(* Exchange times are relative: a snapshot carries its distance from the   *)
(* one before it in the feed, and the validator's history is the distance  *)
(* from the snapshot it accepted last.  Distances saturate at Floor and    *)
(* Ceiling, outside everything the validator tells apart.  The trading     *)
(* state machine is folded to WARMUP, FLAT and OPEN: TradingStateMachine   *)
(* has the rest.                                                           *)
(***************************************************************************)
EXTENDS Integers, Sequences

CONSTANTS
    MaxSnapshotGap,     \* max_snapshot_gap_ms
    MaxStaleness,       \* max_staleness_ms
    Warmup,             \* snapshots until stats.warm
    QueueSize,          \* capacity of the hand-off queue
    MaxOddities         \* bound: how often the feed may misbehave

ASSUME EngineAssumption ==
    /\ {MaxSnapshotGap, MaxStaleness, Warmup, QueueSize, MaxOddities} \subseteq Nat
    /\ 1 <= MaxSnapshotGap /\ 1 <= MaxStaleness
    /\ 1 <= Warmup
    /\ 1 <= QueueSize

VARIABLES
    queue,          \* the hand-off queue
    volume,         \* the exchange's cumulative volume, 0 after a restart
    reconnected,    \* a reconnect since the last snapshot the feed enqueued
    notifying,      \* notify_gap has set its timestamp and not yet the flag
    oddities,       \* how often the feed has misbehaved
    hasHistory,     \* the validator's _previous is not None
    distance,       \* the last snapshot taken, from the last one accepted
    lastVolume,     \* volume_traded_today of the last one accepted
    pending,        \* _pending_gap_reason is not None
    inHand,         \* the reconnect that lies before the snapshot in process()
    recent,         \* the last gap lies less than gap_block_ms back
    count,          \* snapshots the estimators hold, up to Warmup
    phase,          \* the state machine: WARMUP, FLAT or OPEN
    step,           \* where process() is
    tradable,       \* the quality report of the snapshot in process()
    knewGap,        \* history: a gap was pending when that report was made
    spanned,        \* history: the reconnects the estimators span
    unanswered,     \* history: a gap reported since the estimators were reset
    due             \* history: the same, of a gap this process() came after

feedVars == <<queue, volume, reconnected, notifying, oddities>>
validatorVars == <<hasHistory, distance, lastVolume>>
reportVars == <<step, tradable, knewGap>>
historyVars == <<spanned, unanswered, due>>
engineVars == <<pending, inHand, recent, count, phase, reportVars, historyVars>>
vars == <<feedVars, validatorVars, engineVars>>

Floor == -2
Ceiling == (IF MaxSnapshotGap > MaxStaleness THEN MaxSnapshotGap ELSE MaxStaleness) + 2
Saturate(d) == IF d < Floor THEN Floor ELSE IF d > Ceiling THEN Ceiling ELSE d

\* Whether a reconnect lies before a snapshot, and whether it found the engine
\* with snapshots of the earlier session still to process.
Reconnect == {"none", "idle", "backlog"}
Volumes == {0, 1}

\* process(): waiting; the validator has accepted the snapshot; the pending reason
\* has been read, and then cleared; the estimators hold the snapshot; its quality
\* has been assessed.
ProcessStep == {"idle", "accepted", "noticed", "cleared", "counted", "assessed"}

\* step: distance from the snapshot before it; sound: passes the structural
\* checks; jump: mid or sequence number out of line.
Raw == [step : Floor..Ceiling, volume : Volumes, sound : BOOLEAN, jump : BOOLEAN,
        reconnect : Reconnect]

Init ==
    /\ queue = <<>>
    /\ volume = 1
    /\ reconnected = "none"
    /\ notifying = FALSE
    /\ oddities = 0
    /\ hasHistory = FALSE
    /\ distance = 0
    /\ lastVolume = 0
    /\ pending = FALSE
    /\ inHand = "none"
    /\ recent = FALSE
    /\ count = 0
    /\ phase = "WARMUP"
    /\ step = "idle"
    /\ tradable = FALSE
    /\ knewGap = FALSE
    /\ spanned = {}
    /\ unanswered = FALSE
    /\ due = FALSE

----------------------------------------------------------------------------
(* The feed thread.                                                        *)

Worse(r, s) == IF "backlog" \in {r, s} THEN "backlog"
               ELSE IF "idle" \in {r, s} THEN "idle" ELSE "none"

\* The queue drops its oldest entry, and what it bridged falls to the next one.
Bridge(old, new) ==
    [new EXCEPT !.step = Saturate(old.step + new.step),
                !.jump = old.jump \/ new.jump,
                !.reconnect = Worse(old.reconnect, new.reconnect)]

Enqueue(q, raw) ==
    LET longer == Append(q, raw) IN
    IF Len(longer) <= QueueSize THEN longer
    ELSE <<Bridge(longer[1], longer[2])>> \o SubSeq(longer, 3, Len(longer))

Emit(distant, vol, sound, jump) ==
    /\ ~notifying
    /\ queue' = Enqueue(queue, [step |-> distant, volume |-> vol, sound |-> sound,
                                jump |-> jump, reconnect |-> reconnected])
    /\ volume' = vol
    /\ reconnected' = "none"
    /\ UNCHANGED <<notifying, validatorVars, engineVars>>

EmitOrdinary == Emit(1, volume, TRUE, FALSE) /\ UNCHANGED oddities

Misbehave == oddities < MaxOddities /\ oddities' = oddities + 1

\* Out of order, late, after a long silence, broken, far off, or counting its
\* volume from zero again.
EmitOdd ==
    /\ Misbehave
    /\ \/ \E distant \in {-1, MaxSnapshotGap + 1, MaxStaleness + 1} :
              Emit(distant, volume, TRUE, FALSE)
       \/ Emit(1, volume, FALSE, FALSE)
       \/ Emit(1, volume, TRUE, TRUE)
       \/ Emit(1, 0, TRUE, FALSE)

\* _on_open calls notify_gap before any snapshot of the new session: first the
\* timestamp, ...
NotifyStamps ==
    /\ Misbehave
    /\ ~notifying
    /\ notifying' = TRUE
    /\ recent' = TRUE
    /\ UNCHANGED <<queue, volume, reconnected, validatorVars, pending, inHand, count, phase,
                   reportVars, historyVars>>

Reconnected == Worse(reconnected, IF queue = <<>> /\ step = "idle" THEN "idle"
                                  ELSE "backlog")

\* A mutant of NotifyFlags: the reconnect is timed, but schedules no reset.
NotifyWithoutFlag ==
    /\ notifying
    /\ notifying' = FALSE
    /\ reconnected' = Reconnected
    /\ UNCHANGED <<queue, volume, oddities, validatorVars, engineVars>>

\* ... then the flag.
NotifyFlags ==
    /\ notifying
    /\ notifying' = FALSE
    /\ pending' = TRUE
    /\ unanswered' = TRUE
    /\ reconnected' = Reconnected
    /\ UNCHANGED <<queue, volume, oddities, validatorVars, inHand, recent, count, phase,
                   reportVars, spanned, due>>

\* gap_block_ms go by.  That they are long against one process() or notify_gap() is
\* assumed: the configuration accepts any number, 0 included.
GapAges ==
    /\ recent
    /\ step = "idle"
    /\ ~notifying
    /\ recent' = FALSE
    /\ UNCHANGED <<feedVars, validatorVars, pending, inHand, count, phase, reportVars,
                   historyVars>>

----------------------------------------------------------------------------
(* The engine thread: process().                                           *)

Delta(raw) == Saturate(distance + raw.step)

\* _validate_temporal: rejected, and a gap.
Regressed(raw) ==
    /\ hasHistory
    /\ \/ Delta(raw) < 0
       \/ Delta(raw) > MaxStaleness
       \/ raw.volume < lastVolume

\* _detect_gap: accepted, and a gap.
OpensGap(raw) ==
    /\ hasHistory
    /\ Delta(raw) > MaxSnapshotGap \/ raw.jump

\* A rejected snapshot leaves nothing but its distance, and what it bridged.
Skip(raw) ==
    /\ distance' = Delta(raw)
    /\ queue' = IF Len(queue) = 1 THEN <<>>
                ELSE <<[queue[2] EXCEPT
                           !.jump = @ \/ (raw.sound /\ raw.jump),
                           !.reconnect = Worse(raw.reconnect, @)]>>
                     \o SubSeq(queue, 3, Len(queue))
    /\ reconnected' = IF Len(queue) = 1 THEN Worse(raw.reconnect, reconnected)
                      ELSE reconnected
    /\ UNCHANGED <<volume, notifying, oddities, hasHistory, lastVolume, inHand, count, phase,
                   reportVars, spanned, due>>

RejectUnsound ==
    /\ step = "idle"
    /\ queue # <<>>
    /\ ~Head(queue).sound
    /\ Skip(Head(queue))
    /\ UNCHANGED <<pending, recent, unanswered>>

RejectWithGap ==
    /\ step = "idle"
    /\ queue # <<>>
    /\ Head(queue).sound
    /\ Regressed(Head(queue))
    /\ Skip(Head(queue))
    /\ pending' = TRUE
    /\ recent' = TRUE
    /\ unanswered' = TRUE

\* _accept, and _note_gap for a snapshot that opens a gap itself.
Accept ==
    /\ step = "idle"
    /\ queue # <<>>
    /\ LET raw == Head(queue) IN
         /\ raw.sound
         /\ ~Regressed(raw)
         /\ lastVolume' = raw.volume
         /\ inHand' = raw.reconnect
         /\ pending' = (pending \/ OpensGap(raw))
         /\ recent' = (recent \/ OpensGap(raw))
         /\ unanswered' = (unanswered \/ OpensGap(raw))
         /\ due' = (unanswered \/ OpensGap(raw))
    /\ queue' = Tail(queue)
    /\ distance' = 0
    /\ hasHistory' = TRUE
    /\ step' = "accepted"
    /\ UNCHANGED <<volume, reconnected, notifying, oddities, count, phase, tradable, knewGap,
                   spanned>>

\* No gap is pending: update_pre adds the snapshot to what the estimators hold.
Continue ==
    /\ step = "accepted"
    /\ ~pending
    /\ step' = "counted"
    /\ count' = IF count < Warmup THEN count + 1 ELSE count
    /\ spanned' = spanned \cup (IF count = 0 THEN {} ELSE {inHand} \ {"none"})
    /\ UNCHANGED <<feedVars, validatorVars, pending, inHand, recent, phase, tradable, knewGap,
                   unanswered, due>>

\* _consume_pending_gap: the reason is read, ...
FindReason ==
    /\ step = "accepted"
    /\ pending
    /\ step' = "noticed"
    /\ UNCHANGED <<feedVars, validatorVars, pending, inHand, recent, count, phase, tradable,
                   knewGap, historyVars>>

\* ... cleared, ...
ClearReason ==
    /\ step = "noticed"
    /\ pending' = FALSE
    /\ step' = "cleared"
    /\ UNCHANGED <<feedVars, validatorVars, inHand, recent, count, phase, tradable, knewGap,
                   historyVars>>

\* What a reset leaves: this snapshot alone, and no history to compare with.
Reset ==
    /\ count' = 1
    /\ hasHistory' = FALSE
    /\ spanned' = {}
    /\ unanswered' = FALSE
    /\ due' = FALSE
    /\ UNCHANGED <<feedVars, distance, lastVolume, inHand, recent, tradable, knewGap>>

\* A mutant of ForceFlat: the estimators are reset under an open position.
KeepPosition ==
    /\ step = "cleared"
    /\ step' = "counted"
    /\ Reset
    /\ UNCHANGED <<pending, phase>>

\* ... and then force_flat and _reset_estimators; update_pre adds the snapshot.
ForceFlat ==
    /\ step = "cleared"
    /\ step' = "counted"
    /\ phase' = "WARMUP"
    /\ Reset
    /\ UNCHANGED pending

\* A mutant of ConsumeGap: the reason is cleared once the reset is done.
ConsumeGapClearingLast ==
    \/ FindReason
    \/ /\ step = "noticed"
       /\ step' = "cleared"
       /\ phase' = "WARMUP"
       /\ Reset
       /\ UNCHANGED pending
    \/ /\ step = "cleared"
       /\ step' = "counted"
       /\ pending' = FALSE
       /\ UNCHANGED <<feedVars, validatorVars, inHand, recent, count, phase, tradable, knewGap,
                      historyVars>>

ConsumeGap == FindReason \/ ClearReason \/ ForceFlat

Warm == count >= Warmup

\* A mutant of Assess: a recent gap does not block.
AssessWithoutGap ==
    /\ step = "counted"
    /\ step' = "assessed"
    /\ tradable' = Warm
    /\ knewGap' = pending
    /\ UNCHANGED <<feedVars, validatorVars, pending, inHand, recent, count, phase, historyVars>>

\* quality.evaluate: WARMUP and FEED_GAP; its other blocks are in Decide's choice.
Assess ==
    /\ step = "counted"
    /\ step' = "assessed"
    /\ tradable' = (Warm /\ ~recent)
    /\ knewGap' = pending
    /\ UNCHANGED <<feedVars, validatorVars, pending, inHand, recent, count, phase, historyVars>>

\* The state machine's update: a block or a weak signal keeps it flat, and an open
\* position may be closed on any snapshot.
Decide ==
    /\ step = "assessed"
    /\ step' = "idle"
    /\ \/ phase = "WARMUP" /\ phase' = IF Warm THEN "FLAT" ELSE "WARMUP"
       \/ phase = "FLAT" /\ phase' \in (IF tradable THEN {"FLAT", "OPEN"} ELSE {"FLAT"})
       \/ phase = "OPEN" /\ phase' \in {"OPEN", "FLAT"}
    /\ tradable' = FALSE
    /\ knewGap' = FALSE
    /\ UNCHANGED <<feedVars, validatorVars, pending, inHand, recent, count, historyVars>>

----------------------------------------------------------------------------
Process ==
    \/ RejectUnsound \/ RejectWithGap \/ Accept \/ Continue \/ ConsumeGap \/ Assess
    \/ Decide

Next ==
    \/ EmitOrdinary
    \/ EmitOdd
    \/ NotifyStamps
    \/ NotifyFlags
    \/ GapAges
    \/ Process

Spec == Init /\ [][Next]_vars

----------------------------------------------------------------------------
TypeOK ==
    /\ queue \in Seq(Raw) /\ Len(queue) <= QueueSize
    /\ volume \in Volumes
    /\ reconnected \in Reconnect
    /\ notifying \in BOOLEAN
    /\ oddities \in 0..MaxOddities
    /\ hasHistory \in BOOLEAN
    /\ distance \in Floor..Ceiling
    /\ lastVolume \in Volumes
    /\ pending \in BOOLEAN
    /\ inHand \in Reconnect
    /\ recent \in BOOLEAN
    /\ count \in 0..Warmup
    /\ phase \in {"WARMUP", "FLAT", "OPEN"}
    /\ step \in ProcessStep
    /\ tradable \in BOOLEAN
    /\ knewGap \in BOOLEAN
    /\ spanned \subseteq Reconnect
    /\ unanswered \in BOOLEAN
    /\ due \in BOOLEAN

\* No report of a gap is lost: a snapshot is counted only if the estimators were
\* reset since every gap that was reported before process() took the snapshot up,
\* wherever among the engine's own steps the feed thread reported it.  (A report
\* that falls between reading and clearing the reason is answered by the reset
\* under way, which keeps the snapshot in hand.)
NoReportIsLost == step = "counted" => ~due

\* A reconnect that finds the engine idle is never spanned by the statistics:
\* the flag is consumed by the first usable snapshot of the new session.
IdleReconnectIsNeverSpanned == "idle" \notin spanned

\* A position rests on statistics that have warmed up since the last reset.
OpenRestsOnWarmStatistics == phase = "OPEN" => Warm

\* No position is opened on a snapshot whose quality was assessed while a gap was
\* waiting, not even if the feed thread reported it in the middle of process().
\* (A gap reported after the assessment comes too late for that snapshot.)
NoEntryOnKnownGap ==
    [][phase # "OPEN" /\ phase' = "OPEN" => ~knewGap]_vars

============================================================================
