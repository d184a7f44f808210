------------------------- MODULE PositionLifecycle -------------------------
(***************************************************************************)
(* What the trading state machine promises to the rest of the engine about *)
(* positions, with no states, scores or confirmations: the instrument is   *)
(* flat or exposed in one direction, an exposure ages with the clock and   *)
(* never outlives the first snapshot that finds it MaxHold old, and after  *)
(* a managed exit the machine rests before it is exposed again.            *)
(***************************************************************************)
EXTENDS Integers

CONSTANTS MaxHold, Cooldown

VARIABLES
    exposure,       \* -1 short, 0 flat, 1 long
    age,            \* time the exposure has lasted, up to MaxHold
    rest,           \* time until the next exposure may begin
    beat            \* alternates with every snapshot

lifecycle == <<exposure, age, rest, beat>>

Init == exposure = 0 /\ age = 0 /\ rest = 0 /\ beat = FALSE

----------------------------------------------------------------------------
(* What a snapshot may do.                                                 *)

Snapshot == beat' = ~beat

Open(d) ==
    /\ Snapshot
    /\ exposure = 0
    /\ rest = 0
    /\ exposure' = d
    /\ age' = 0
    /\ rest' = 0

\* A managed exit starts the rest.
Close ==
    /\ Snapshot
    /\ exposure # 0
    /\ exposure' = 0
    /\ age' = 0
    /\ rest' = Cooldown

\* The snapshot leaves things as they are: not an exposure that is MaxHold old.
Keep ==
    /\ Snapshot
    /\ exposure # 0 => age < MaxHold
    /\ UNCHANGED <<exposure, age, rest>>

----------------------------------------------------------------------------
(* What happens without one.                                               *)

\* A forced close, or a reset while flat, lifts the rest.
Forget ==
    /\ exposure' = 0
    /\ age' = 0
    /\ rest' = 0
    /\ UNCHANGED beat

Pass ==
    /\ age' = IF exposure # 0 /\ age < MaxHold THEN age + 1 ELSE age
    /\ rest' = IF rest > 0 THEN rest - 1 ELSE rest
    /\ UNCHANGED <<exposure, beat>>

Next == (\E d \in {-1, 1} : Open(d)) \/ Close \/ Keep \/ Forget \/ Pass

Spec == Init /\ [][Next]_lifecycle
============================================================================
