--------------------------- MODULE SnapshotQueue ---------------------------
(***************************************************************************)
(* adapter/queueing.py: the bounded, drop-oldest hand-off between the feed *)
(* thread and the engine thread.                                           *)
(*                                                                         *)
(* The calls of the standard library's queue.Queue (put_nowait, get_nowait *)
(* and get with a timeout) are atomic; everything between two of them can  *)
(* be interleaved with the other threads.  put() is up to five steps,      *)
(* close() two, and one turn of drain() two.                               *)
(***************************************************************************)
EXTENDS Integers, Sequences, FiniteSets

CONSTANTS
    Producers,      \* threads that call put()
    Closers,        \* threads that call close(), each once
    Capacity,       \* maxsize
    MaxPuts         \* bound: put() calls of one producer

ASSUME QueueAssumption ==
    /\ Capacity \in Nat \ {0}
    /\ MaxPuts \in Nat
    /\ IsFiniteSet(Producers)
    /\ Closers # {}

VARIABLES
    buffer,         \* _queue
    closed,         \* _closed
    dropped,        \* _dropped
    putAt,          \* producer -> the step of put() it is about to take
    puts,           \* producer -> put() calls begun; the last one's snapshot
    closeAt,        \* closer -> the step of close() it is about to take
    drainAt,        \* the step of drain() the consumer is about to take
    delivered,      \* history: snapshots drain() has yielded
    discarded,      \* history: snapshots given up for want of room
    refused,        \* history: snapshots put() met a closed queue with
    unsent,         \* history: sentinels discarded to make room
    behind,         \* history: snapshots enqueued since drain(), not polling on
                    \* after it, last found the queue empty
    owed            \* history: snapshots waiting when close() first set the flag

queueVars == <<buffer, closed, dropped>>
shutdown == <<behind, owed>>
history == <<delivered, discarded, refused, unsent, shutdown>>
vars == <<queueVars, putAt, puts, closeAt, drainAt, history>>

----------------------------------------------------------------------------
Snapshots == [from : Producers, n : 1..MaxPuts]
Sentinel == [from |-> "SHUTDOWN", n |-> 0]

Full == Len(buffer) >= Capacity
Entries == {buffer[k] : k \in DOMAIN buffer}
Current(p) == [from |-> p, n |-> puts[p]]
InFlight == {p \in Producers : putAt[p] # "idle"}

Init ==
    /\ buffer = <<>>
    /\ closed = FALSE
    /\ dropped = 0
    /\ putAt = [p \in Producers |-> "idle"]
    /\ puts = [p \in Producers |-> 0]
    /\ closeAt = [c \in Closers |-> "flag"]
    /\ drainAt = "get"
    /\ delivered = {}
    /\ discarded = {}
    /\ refused = {}
    /\ unsent = 0
    /\ behind = {}
    /\ owed = {}

----------------------------------------------------------------------------
(* put()                                                                   *)

\* The closed check at the head of put().
PutBegins(p) ==
    /\ putAt[p] = "idle"
    /\ puts[p] < MaxPuts
    /\ puts' = [puts EXCEPT ![p] = @ + 1]
    /\ IF closed
         THEN /\ refused' = refused \cup {[from |-> p, n |-> puts[p] + 1]}
              /\ UNCHANGED putAt
         ELSE /\ putAt' = [putAt EXCEPT ![p] = "first"]
              /\ UNCHANGED refused
    /\ UNCHANGED <<queueVars, closeAt, drainAt, delivered, discarded, unsent,
                   shutdown>>

Enqueue(p) ==
    /\ buffer' = Append(buffer, Current(p))
    /\ behind' = IF drainAt \in {"empty", "done"} THEN behind \cup {Current(p)} ELSE behind

PutFirst(p) ==
    /\ putAt[p] = "first"
    /\ IF Full
         THEN putAt' = [putAt EXCEPT ![p] = "room"] /\ UNCHANGED <<buffer, behind>>
         ELSE putAt' = [putAt EXCEPT ![p] = "idle"] /\ Enqueue(p)
    /\ UNCHANGED <<closed, dropped, puts, closeAt, drainAt, delivered, discarded,
                   refused, unsent, owed>>

\* _make_room: whatever is at the head goes, ...
MakeRoom(p) ==
    /\ putAt[p] = "room"
    /\ IF buffer = <<>>
         THEN /\ putAt' = [putAt EXCEPT ![p] = "second"]
              /\ UNCHANGED <<buffer, discarded, unsent>>
         ELSE /\ putAt' = [putAt EXCEPT ![p] = "count"]
              /\ buffer' = Tail(buffer)
              /\ IF Head(buffer) = Sentinel
                   THEN unsent' = unsent + 1 /\ UNCHANGED discarded
                   ELSE discarded' = discarded \cup {Head(buffer)} /\ UNCHANGED unsent
    /\ UNCHANGED <<closed, dropped, puts, closeAt, drainAt, delivered, refused,
                   shutdown>>

\* A mutant of CountDrop: the entry that made room is not counted.
CountNothing(p) ==
    /\ putAt[p] = "count"
    /\ putAt' = [putAt EXCEPT ![p] = "second"]
    /\ UNCHANGED <<queueVars, puts, closeAt, drainAt, history>>

\* ... and is counted under the lock.
CountDrop(p) ==
    /\ putAt[p] = "count"
    /\ putAt' = [putAt EXCEPT ![p] = "second"]
    /\ dropped' = dropped + 1
    /\ UNCHANGED <<buffer, closed, puts, closeAt, drainAt, history>>

\* The second attempt; another thread may have taken the slot.
PutSecond(p) ==
    /\ putAt[p] = "second"
    /\ IF Full
         THEN putAt' = [putAt EXCEPT ![p] = "lost"] /\ UNCHANGED <<buffer, behind>>
         ELSE putAt' = [putAt EXCEPT ![p] = "idle"] /\ Enqueue(p)
    /\ UNCHANGED <<closed, dropped, puts, closeAt, drainAt, delivered, discarded,
                   refused, unsent, owed>>

\* The newest snapshot is dropped, and counted under the lock.
CountLost(p) ==
    /\ putAt[p] = "lost"
    /\ putAt' = [putAt EXCEPT ![p] = "idle"]
    /\ dropped' = dropped + 1
    /\ discarded' = discarded \cup {Current(p)}
    /\ UNCHANGED <<buffer, closed, puts, closeAt, drainAt, delivered, refused, unsent,
                   shutdown>>

----------------------------------------------------------------------------
(* close()                                                                 *)

CloseFlag(c) ==
    /\ closeAt[c] = "flag"
    /\ closed' = TRUE
    /\ owed' = IF closed THEN owed ELSE Entries \ {Sentinel}
    /\ closeAt' = [closeAt EXCEPT ![c] = "sentinel"]
    /\ UNCHANGED <<buffer, dropped, putAt, puts, drainAt, delivered, discarded, refused,
                   unsent, behind>>

CloseSentinel(c) ==
    /\ closeAt[c] = "sentinel"
    /\ closeAt' = [closeAt EXCEPT ![c] = "closed"]
    /\ buffer' = IF Full THEN buffer ELSE Append(buffer, Sentinel)
    /\ UNCHANGED <<closed, dropped, putAt, puts, drainAt, history>>

----------------------------------------------------------------------------
(* drain(): "get" is the polling get, "empty" the closed check after it    *)
(* timed out, "last" the inner loop that empties the queue after the       *)
(* sentinel.                                                               *)

\* A mutant of Take: the newest entry is taken first.
TakeNewest ==
    /\ buffer # <<>>
    /\ buffer' = SubSeq(buffer, 1, Len(buffer) - 1)
    /\ delivered' = delivered \cup ({buffer[Len(buffer)]} \ {Sentinel})

Take ==
    /\ buffer # <<>>
    /\ buffer' = Tail(buffer)
    /\ delivered' = IF Head(buffer) = Sentinel THEN delivered
                    ELSE delivered \cup {Head(buffer)}

DrainGets ==
    /\ drainAt = "get"
    /\ Take
    /\ drainAt' = IF Head(buffer) = Sentinel THEN "last" ELSE "get"
    /\ UNCHANGED <<closed, dropped, putAt, puts, closeAt, discarded, refused, unsent,
                   shutdown>>

DrainTimesOut ==
    /\ drainAt = "get"
    /\ buffer = <<>>
    /\ drainAt' = "empty"
    /\ UNCHANGED <<queueVars, putAt, puts, closeAt, history>>

\* A mutant of DrainChecksClosed: only the sentinel ends the loop.
DrainIgnoringClosed ==
    /\ drainAt = "empty"
    /\ drainAt' = "get"
    /\ behind' = {}
    /\ UNCHANGED <<queueVars, putAt, puts, closeAt, delivered, discarded, refused, unsent,
                   owed>>

DrainChecksClosed ==
    /\ drainAt = "empty"
    /\ drainAt' = IF closed THEN "done" ELSE "get"
    /\ behind' = IF closed THEN behind ELSE {}
    /\ UNCHANGED <<queueVars, putAt, puts, closeAt, delivered, discarded, refused, unsent,
                   owed>>

\* A mutant of DrainRemaining: drain() returns at the sentinel.
DrainLeavingTheRest ==
    /\ drainAt = "last"
    /\ drainAt' = "done"
    /\ UNCHANGED <<queueVars, putAt, puts, closeAt, history>>

DrainRemaining ==
    /\ drainAt = "last"
    /\ IF buffer = <<>>
         THEN drainAt' = "done" /\ UNCHANGED <<buffer, delivered>>
         ELSE Take /\ UNCHANGED drainAt
    /\ UNCHANGED <<closed, dropped, putAt, puts, closeAt, discarded, refused, unsent,
                   shutdown>>

----------------------------------------------------------------------------
Put(p) ==
    \/ PutBegins(p)
    \/ PutFirst(p)
    \/ MakeRoom(p)
    \/ CountDrop(p)
    \/ PutSecond(p)
    \/ CountLost(p)

Close(c) == CloseFlag(c) \/ CloseSentinel(c)
Drain == DrainGets \/ DrainTimesOut \/ DrainChecksClosed \/ DrainRemaining

Next ==
    \/ \E p \in Producers : Put(p)
    \/ \E c \in Closers : Close(c)
    \/ Drain

Spec == Init /\ [][Next]_vars

\* The consumer keeps pulling.  Nothing is assumed of the other threads: one may
\* stop in the middle of put() or close().
FairSpec == Spec /\ WF_vars(Drain)

----------------------------------------------------------------------------
TypeOK ==
    /\ buffer \in Seq(Snapshots \cup {Sentinel})
    /\ Len(buffer) <= Capacity
    /\ closed \in BOOLEAN
    /\ dropped \in Nat
    /\ putAt \in [Producers -> {"idle", "first", "room", "count", "second", "lost"}]
    /\ puts \in [Producers -> 0..MaxPuts]
    /\ closeAt \in [Closers -> {"flag", "sentinel", "closed"}]
    /\ drainAt \in {"get", "empty", "last", "done"}
    /\ delivered \subseteq Snapshots
    /\ discarded \subseteq Snapshots
    /\ refused \subseteq Snapshots
    /\ unsent \in Nat
    /\ behind \subseteq Snapshots
    /\ owed \subseteq Snapshots

Begun == {s \in Snapshots : s.n <= puts[s.from]}
Pending == {Current(p) : p \in InFlight}

\* Every snapshot handed to put() is somewhere: with the put() still running, in
\* the queue, with the consumer, discarded or refused.
NothingIsLost ==
    Begun = Pending \cup (Entries \ {Sentinel}) \cup delivered \cup discarded \cup refused

Places == <<Pending, Entries \ {Sentinel}, delivered, discarded, refused>>

\* When drain() has returned, the queue holds only what was enqueued after it last
\* found the queue empty, by a final get_nowait or by a poll that timed out.
NothingSeenIsLeft == drainAt = "done" => Entries \ {Sentinel} \subseteq behind

\* It is in exactly one place and there once: nothing is lost uncounted and nothing
\* is delivered twice, whatever the interleaving; and what is still in the queue
\* after drain() came too late for its last look.
EverySnapshotAccountedFor ==
    /\ NothingIsLost
    /\ NothingSeenIsLeft
    /\ \A i, j \in DOMAIN Places : i # j => Places[i] \cap Places[j] = {}
    /\ \A i, j \in DOMAIN buffer : i # j /\ buffer[i] = buffer[j] => buffer[i] = Sentinel

\* The reported drop count is the number of entries given up: the snapshots and
\* the shutdown sentinels, which _make_room counts alike.  It lags by the threads
\* between taking an entry out and the lock.
DropsAreCounted ==
    dropped + Cardinality({p \in Producers : putAt[p] = "count"})
        = Cardinality(discarded) + unsent

\* One thread's snapshots are yielded in the order it put them, across drops,
\* refilled slots and the change from the polling loop to the final one.
DeliveredInOrder ==
    [][\A s \in delivered' \ delivered : \A t \in delivered :
           t.from = s.from => t.n < s.n]_vars

\* "A shutdown never discards snapshots that were already accepted": what waited in
\* the queue when close() set its flag has been yielded, or was dropped and counted,
\* when drain() returns.
AcceptedIsNotDiscarded == drainAt = "done" => owed \subseteq delivered \cup discarded

\* close() releases the consumer, also when the sentinel found the queue full or
\* was itself discarded: the closed flag alone is enough.
CloseReleasesConsumer == closed ~> drainAt = "done"

============================================================================
