-------------------------- MODULE TradingLiveness --------------------------
(***************************************************************************)
(* What must eventually happen while snapshots keep arriving.  A snapshot  *)
(* that leaves the machine as it is still counts as an arrival, because    *)
(* the observer's beat alternates: fairness promises that updates go on    *)
(* and says nothing of what the market shows.                              *)
(***************************************************************************)
EXTENDS TradingDiscipline

\* Every snapshot turns the beat and nothing else does.
Arrival == beat' = ~beat

\* The feed delivers and the clock runs; a gap may never happen.
LiveSpec == HSpec /\ WF_beat(Arrival) /\ WF_hvars(HClockAdvances)

\* Whatever the scores, the tape and the book say, a position does not stay
\* open forever: max_hold ends it even if no other exit ever applies.
EveryPositionCloses == InPosition ~> ~InPosition

\* After an exit the machine comes back to where it can trade.
EveryExitIsFollowedByFlat ==
    state \in {"EXIT_LONG", "EXIT_SHORT", "COOLDOWN"}
        ~> state \in {"NEUTRAL", "WARMUP"}
============================================================================
