----------------------------- MODULE RingBuffer -----------------------------
(***************************************************************************)
(* buffers/ring_buffer.py: a preallocated circular buffer.  The cursor and *)
(* the accessors wrap by comparison, never by a modulus.                   *)
(***************************************************************************)
EXTENDS Integers, Sequences

CONSTANTS
    Capacity,       \* number of slots
    Samples         \* the samples pushed

ASSUME RingAssumption ==
    /\ Capacity \in Nat \ {0}
    /\ Samples \subseteq Int
    /\ 0 \in Samples

VARIABLES
    data,           \* the slots; clear() leaves them as they are
    index,          \* the slot the next sample goes to
    count           \* how many slots are in use

ring == <<data, index, count>>

Slot == 0..(Capacity - 1)
Full == count = Capacity

RingInit ==
    /\ data = [i \in Slot |-> 0]
    /\ index = 0
    /\ count = 0

\* A mutant of Push: the cursor wraps one slot late, at the last one.
PushWrapsEarly(x) ==
    /\ data' = [data EXCEPT ![index] = x]
    /\ index' = IF index + 1 >= Capacity - 1 THEN 0 ELSE index + 1
    /\ count' = IF Full THEN count ELSE count + 1

Push(x) ==
    /\ data' = [data EXCEPT ![index] = x]
    /\ index' = IF index + 1 = Capacity THEN 0 ELSE index + 1
    /\ count' = IF Full THEN count ELSE count + 1

Clear ==
    /\ index' = 0
    /\ count' = 0
    /\ UNCHANGED data

\* The sample that is age positions behind the newest, for age below count.
At(age) == LET position == index - 1 - age
           IN  data[IF position < 0 THEN position + Capacity ELSE position]

RingNext == Clear \/ \E x \in Samples : Push(x)
RingSpec == RingInit /\ [][RingNext]_ring

----------------------------------------------------------------------------
RingTypeOK ==
    /\ data \in [Slot -> Samples]
    /\ index \in Slot
    /\ count \in 0..Capacity

\* at(0), at(1), ... from the newest sample to the oldest.
Contents == [i \in 1..count |-> At(i - 1)]

Window == INSTANCE BoundedWindow WITH window <- Contents

\* The contract of the header: read by age, the buffer is the last Capacity
\* samples pushed since clear(), wherever the cursor stands and whatever an
\* earlier life of the buffer has left in the slots.
ImplementsWindow == Window!Spec
============================================================================
