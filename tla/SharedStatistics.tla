--------------------------- MODULE SharedStatistics ---------------------------
(***************************************************************************)
(* engine/stats.py on the buffers of buffers/: the mid prices of the last  *)
(* snapshots (a RingBuffer), the path they walked (a RollingMean of        *)
(* absolute moves), the spread's extremes (a MonotonicWindow) and the      *)
(* steadiness of the touch (a RollingMean), from one accepted snapshot to  *)
(* the next and across the resets of engine/quant_engine.py.               *)
(*                                                                         *)
(* Prices are whole ticks and mids half ticks, so a mid is bid + ask.      *)
(* Every update of a running sum may be off by Rounding.  The windows      *)
(* other than the mids' are the sequences RingBuffer implements.           *)
(***************************************************************************)
EXTENDS RingBuffer, Loops, FiniteSetsExt, Functions

CONSTANTS
    Bids,               \* best bids, in ticks, all positive
    Spreads,            \* spreads, in ticks
    Stability,          \* stability_window
    RecomputeInterval,  \* updates between exact recomputations of a sum
    Rounding            \* errors of one update of a running sum, in half ticks

ASSUME StatisticsAssumption ==
    /\ Bids \subseteq Nat \ {0, 1}
    /\ Spreads \subseteq Nat
    /\ Stability \in Nat \ {0}
    /\ RecomputeInterval \in Nat \ {0}
    /\ Rounding \subseteq -1..1
    /\ \A bid \in Bids, spread \in Spreads : 2 * bid + spread \in Samples

VARIABLES
    moves,          \* _mid_delta_abs: the last absolute moves of the mid
    path,           \* its running sum
    since,          \* its updates since the sum was exact
    widest,         \* candidates for the widest spread, oldest first
    narrowest,      \* candidates for the narrowest
    orderly,        \* _touch_stability: was the touch steady?
    previousMid,    \* NoPrice until the first update after a reset
    previousBid,    \* 0 after a reset
    first,          \* the validator has no history: the next snapshot is_first
    restarted,      \* a reset since the last accepted snapshot
    spreads,        \* history: the last Stability spreads since the reset
    unmeasured,     \* history: age of the latest mid whose move is not in moves
    steady          \* history: orderly, had each entry compared two snapshots
                    \* of the same session

accumulator == <<moves, path, since>>
extremes == <<widest, narrowest, spreads>>
touch == <<orderly, previousBid, steady>>
session == <<previousMid, first, restarted, unmeasured>>
vars == <<ring, accumulator, extremes, touch, session>>

NoPrice == -1
Abs(x) == IF x < 0 THEN -x ELSE x
Pushed(w, x, n) == SubSeq(<<x>> \o w, 1, IF Len(w) < n THEN Len(w) + 1 ELSE n)

Init ==
    /\ RingInit
    /\ moves = <<>> /\ path = 0 /\ since = 0
    /\ widest = <<>> /\ narrowest = <<>> /\ spreads = <<>>
    /\ orderly = <<>> /\ steady = <<>>
    /\ previousMid = NoPrice
    /\ previousBid = 0
    /\ first = TRUE /\ restarted = FALSE
    /\ unmeasured = 0

----------------------------------------------------------------------------
(* RollingMean.                                                            *)

\* A mutant of MeasureMove: recomputing does not restart the interval's count.
MeasureMoveOnce(m) ==
    /\ moves' = Pushed(moves, m, Capacity)
    /\ \E e \in Rounding :
        path' = IF since + 1 = RecomputeInterval THEN Total(moves')
                ELSE path + m + e - (IF Len(moves) = Capacity THEN moves[Capacity] ELSE 0)
    /\ since' = IF since <= RecomputeInterval THEN since + 1 ELSE since

\* update(): the sum gains the sample and loses what the buffer evicts, and is
\* recomputed when the interval is over.
MeasureMove(m) ==
    /\ moves' = Pushed(moves, m, Capacity)
    /\ IF since + 1 >= RecomputeInterval
         THEN path' = Total(moves') /\ since' = 0
         ELSE /\ \E e \in Rounding :
                   path' = path + m + e
                           - (IF Len(moves) = Capacity THEN moves[Capacity] ELSE 0)
              /\ since' = since + 1

----------------------------------------------------------------------------
(* MonotonicWindow.  Entries carry their age; the code has their index.    *)

\* What is left of d when its tail has lost the candidates x dominates.  Sense
\* is 1 for maxima and -1 for minima.
Undominated(d, x, sense) ==
    LET kept == {k \in DOMAIN d : sense * d[k].value > sense * x}
    IN  SubSeq(d, 1, IF kept = {} THEN 0 ELSE Max(kept))

\* A mutant of Candidates: a candidate expires one update late.
CandidatesLate(d, x, sense) ==
    LET aged == [k \in DOMAIN d |-> [d[k] EXCEPT !.age = @ + 1]]
        all == Append(Undominated(aged, x, sense), [age |-> 0, value |-> x])
    IN  IF all[1].age > Stability THEN Tail(all) ELSE all

Candidates(d, x, sense) ==
    LET aged == [k \in DOMAIN d |-> [d[k] EXCEPT !.age = @ + 1]]
        all == Append(Undominated(aged, x, sense), [age |-> 0, value |-> x])
    IN  IF all[1].age >= Stability THEN Tail(all) ELSE all

WatchSpread(s) ==
    /\ widest' = Candidates(widest, s, 1)
    /\ narrowest' = Candidates(narrowest, s, -1)
    /\ spreads' = Pushed(spreads, s, Stability)

----------------------------------------------------------------------------
(* update_pre() and reset().                                               *)

\* A mutant of UpdateMid: the move keeps its sign.
UpdateMidSigned(mid, isFirst) ==
    /\ Push(mid)
    /\ previousMid' = mid
    /\ IF previousMid # NoPrice /\ ~isFirst
         THEN MeasureMove(mid - previousMid) ELSE UNCHANGED accumulator
    /\ unmeasured' = IF previousMid = NoPrice \/ isFirst THEN 0
                     ELSE IF unmeasured < Capacity THEN unmeasured + 1 ELSE Capacity

\* The move is measured only with a previous mid and a snapshot the validator
\* had history for; the mid is pushed in any case.
UpdateMid(mid, isFirst) ==
    /\ Push(mid)
    /\ previousMid' = mid
    /\ IF previousMid # NoPrice /\ ~isFirst
         THEN MeasureMove(Abs(mid - previousMid)) ELSE UNCHANGED accumulator
    /\ unmeasured' = IF previousMid = NoPrice \/ isFirst THEN 0
                     ELSE IF unmeasured < Capacity THEN unmeasured + 1 ELSE Capacity

\* Neither touch price moved by more than a tick; after a reset both are
\* compared with 0.
Steady(bid, ask) ==
    /\ Abs(bid - previousBid) <= 1
    /\ Abs(ask - (previousMid - previousBid)) <= 1

UpdateTouch(bid, ask, isFirst) ==
    /\ previousBid' = bid
    /\ IF isFirst THEN UNCHANGED <<orderly, steady>>
       ELSE /\ orderly' = Pushed(orderly, Steady(bid, ask), Stability)
            /\ steady' = Pushed(steady, previousBid = 0 \/ Steady(bid, ask), Stability)

\* update_pre() for an accepted snapshot.  A snapshot accepted right after a
\* reset was validated before it: only the next one finds no history.
Accept(bid, spread) ==
    /\ UpdateMid(2 * bid + spread, first)
    /\ WatchSpread(spread)
    /\ UpdateTouch(bid, bid + spread, first)
    /\ first' = restarted
    /\ restarted' = FALSE

\* A mutant of Reset: the touch's stability outlives the session.
ResetKeepsTouch ==
    /\ ~restarted
    /\ restarted' = TRUE
    /\ Clear
    /\ moves' = <<>> /\ path' = 0 /\ since' = 0
    /\ widest' = <<>> /\ narrowest' = <<>> /\ spreads' = <<>>
    /\ previousMid' = NoPrice
    /\ previousBid' = 0
    /\ unmeasured' = 0
    /\ UNCHANGED <<orderly, steady, first>>

\* A pending gap is consumed: every estimator is cleared, and the snapshot at
\* hand follows.
Reset ==
    /\ ~restarted
    /\ restarted' = TRUE
    /\ Clear
    /\ moves' = <<>> /\ path' = 0 /\ since' = 0
    /\ widest' = <<>> /\ narrowest' = <<>> /\ spreads' = <<>>
    /\ orderly' = <<>> /\ steady' = <<>>
    /\ previousMid' = NoPrice
    /\ previousBid' = 0
    /\ unmeasured' = 0
    /\ UNCHANGED first

Next == Reset \/ \E bid \in Bids, spread \in Spreads : Accept(bid, spread)

Spec == Init /\ [][Next]_vars

----------------------------------------------------------------------------
\* The candidates' heads are the extremes of the last Stability spreads, which
\* no update ever rescans: "The head is therefore always the window maximum".
ExtremesAreExact ==
    spreads # <<>> => /\ widest[1].value = Max(Range(spreads))
                      /\ narrowest[1].value = Min(Range(spreads))

\* Recomputing "bounds the drift to at most interval accumulation steps": the
\* running sum is never further from the sum of the window than the roundings
\* of the updates since, fewer than the interval.
DriftIsBounded ==
    /\ since < RecomputeInterval
    /\ Abs(path - Total(moves)) <= since

\* The efficiency ratio's displacement over a lookback is part of the path it
\* is divided by, so that the ratio cannot exceed 1 -- unless the lookback
\* reaches over the mid pushed without its move, which the second snapshot
\* after a reset is: it is_first for the validator and not for the statistics.
PathCoversDisplacement ==
    \A age \in 1..(count - 1) :
        age <= unmeasured => Abs(At(0) - At(age)) <= Total(moves)

\* Touch stability counts jumps between two snapshots of one session, with one
\* exception: the oldest entry since a reset, made by comparing a price with 0.
OnlyTheRestartIsMisjudged ==
    \A i \in DOMAIN orderly :
        orderly[i] # steady[i] => /\ ~orderly[i]
                                  /\ i = Len(orderly)
============================================================================
