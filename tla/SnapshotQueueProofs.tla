-------------------------- MODULE SnapshotQueueProofs --------------------------
(* Proofs about SnapshotQueue, for any number of threads and any capacity. *)
EXTENDS SnapshotQueue, SequenceTheorems, FiniteSetTheorems, TLAPS

Step == {"idle", "first", "room", "count", "second", "lost"}

\* A snapshot whose put() is over, if the producer's last one is not the one.
Settled(s) ==
    /\ s \in Snapshots
    /\ s.n <= puts[s.from]
    /\ putAt[s.from] # "idle" => s.n < puts[s.from]

ThreadsOK ==
    /\ putAt \in [Producers -> Step]
    /\ puts \in [Producers -> 0..MaxPuts]
    /\ \A p \in Producers : putAt[p] # "idle" => puts[p] >= 1

SettledOnly ==
    /\ \A s \in delivered : Settled(s)
    /\ \A s \in discarded : Settled(s)
    /\ \A k \in DOMAIN buffer : buffer[k] # Sentinel => Settled(buffer[k])

\* One thread's snapshots wait in the order it put them, behind those delivered.
InOrder ==
    /\ \A i, j \in DOMAIN buffer :
          i < j /\ buffer[i] # Sentinel /\ buffer[j] # Sentinel
                /\ buffer[i].from = buffer[j].from => buffer[i].n < buffer[j].n
    /\ \A s \in delivered, k \in DOMAIN buffer :
          buffer[k] # Sentinel /\ s.from = buffer[k].from => s.n < buffer[k].n

NotBoth == \A k \in DOMAIN buffer : buffer[k] \notin discarded

BufferOK == buffer \in Seq(Snapshots \cup {Sentinel})

Placed == BufferOK /\ SettledOnly /\ InOrder /\ NotBoth

LEMMA SentinelIsNoSnapshot == Sentinel \notin Snapshots
BY DEF Sentinel, Snapshots

LEMMA InitPlaced == Init => ThreadsOK /\ Placed
BY QueueAssumption DEF Init, ThreadsOK, Step, Placed, BufferOK, SettledOnly, InOrder, NotBoth

----------------------------------------------------------------------------
(* The three ways in which the buffer changes.                             *)

LEMMA InFlightIsNewest ==
    ASSUME ThreadsOK, Placed, NEW p \in Producers, putAt[p] # "idle"
    PROVE  /\ Current(p) \in Snapshots
           /\ Current(p).from = p /\ Current(p).n = puts[p]
           /\ \A s : Settled(s) /\ s.from = p => s.n < Current(p).n
           /\ \A s : Settled(s) => s # Current(p)
<1>1. puts[p] \in 1..MaxPuts
      BY QueueAssumption DEF ThreadsOK
<1>2. Current(p).from = p /\ Current(p).n = puts[p] /\ Current(p) \in Snapshots
      BY <1>1 DEF Current, Snapshots
<1>3. \A s : Settled(s) /\ s.from = p => s.n < Current(p).n
      BY <1>2 DEF Settled
<1>4. \A s : Settled(s) => s # Current(p)
      BY <1>1, <1>2, <1>3
<1> QED BY <1>2, <1>3, <1>4

\* The put() of p is over, and its snapshot has been appended or counted as lost.
LEMMA SettlingKeepsSettled ==
    ASSUME ThreadsOK, NEW p \in Producers, putAt[p] # "idle",
           putAt' = [putAt EXCEPT ![p] = "idle"], puts' = puts
    PROVE  \A s : Settled(s) \/ s = Current(p) => Settled(s)'
<1>1. puts[p] \in 1..MaxPuts
      BY QueueAssumption DEF ThreadsOK
<1>2. \A s : Settled(s) => Settled(s)'
      BY DEF Settled, ThreadsOK, Snapshots
<1>3. Current(p) \in Snapshots /\ Current(p).from = p /\ Current(p).n = puts[p]
      BY <1>1 DEF Current, Snapshots
<1>4. \A s : s = Current(p) => Settled(s)'
      BY <1>1, <1>3 DEF Settled, ThreadsOK
<1> QED BY <1>2, <1>4

LEMMA EnqueueKeepsPlaced ==
    ASSUME ThreadsOK, Placed, NEW p \in Producers, putAt[p] # "idle", Enqueue(p),
           putAt' = [putAt EXCEPT ![p] = "idle"],
           UNCHANGED <<puts, delivered, discarded>>
    PROVE  Placed'
<1> DEFINE c == Current(p)
<1>1. /\ buffer' \in Seq(Snapshots \cup {Sentinel})
      /\ Len(buffer') = Len(buffer) + 1
      /\ \A k \in 1..Len(buffer') : buffer'[k] = IF k <= Len(buffer) THEN buffer[k] ELSE c
      BY InFlightIsNewest DEF Enqueue, Placed, BufferOK
<1>2. /\ c \in Snapshots /\ c.from = p
      /\ \A s : Settled(s) /\ s.from = p => s.n < c.n
      /\ \A s : Settled(s) => s # c
      BY InFlightIsNewest
<1>3. \A s : Settled(s) \/ s = c => Settled(s)'
      BY SettlingKeepsSettled
<1> HIDE DEF c
<1>4. DOMAIN buffer = 1..Len(buffer) /\ DOMAIN buffer' = 1..Len(buffer') /\ Len(buffer) \in Nat
      BY <1>1 DEF Placed, BufferOK
<1>5. SettledOnly'
      BY <1>1, <1>3, <1>4 DEF Placed, SettledOnly
<1>6. NotBoth'
      BY <1>1, <1>2, <1>4 DEF Placed, NotBoth, SettledOnly
<1>7. InOrder'
      BY <1>1, <1>2, <1>4 DEF Placed, InOrder, SettledOnly
<1> QED BY <1>1, <1>5, <1>6, <1>7 DEF Placed, BufferOK

\* The head is taken: delivered, discarded, or a sentinel.
LEMMA TailKeepsPlaced ==
    ASSUME Placed, buffer # <<>>, buffer' = Tail(buffer),
           \A s : Settled(s) => Settled(s)',
           \/ /\ UNCHANGED discarded
              /\ delivered' \in {delivered, delivered \cup ({Head(buffer)} \ {Sentinel})}
           \/ UNCHANGED delivered /\ discarded' \in {discarded, discarded \cup {Head(buffer)}}
                 /\ (Head(buffer) = Sentinel => discarded' = discarded)
    PROVE  Placed'
<1>1. /\ buffer' \in Seq(Snapshots \cup {Sentinel})
      /\ Len(buffer') = Len(buffer) - 1
      /\ DOMAIN buffer = 1..Len(buffer) /\ DOMAIN buffer' = 1..Len(buffer') /\ Len(buffer) \in Nat
      /\ \A k \in 1..Len(buffer') : buffer'[k] = buffer[k + 1]
      /\ Head(buffer) = buffer[1] /\ 1 \in DOMAIN buffer
      BY DEF Placed, BufferOK
<1>2. \A k \in DOMAIN buffer' : k + 1 \in DOMAIN buffer /\ 1 < k + 1
      BY <1>1
<1>3. \A k \in DOMAIN buffer' :
         buffer[k + 1] # Sentinel /\ buffer[1] # Sentinel =>
             buffer[1] # buffer[k + 1]
      BY <1>1, <1>2 DEF Placed, InOrder, SettledOnly, Settled, Snapshots
<1>4. SettledOnly'
      BY <1>1, <1>2 DEF Placed, SettledOnly
<1>5. InOrder'
      BY <1>1, <1>2 DEF Placed, InOrder
<1>6. NotBoth'
      BY <1>1, <1>2, <1>3 DEF Placed, NotBoth
<1> QED BY <1>1, <1>4, <1>5, <1>6 DEF Placed, BufferOK

----------------------------------------------------------------------------
(* The invariant.                                                          *)

\* A thread that has reached "second" or "lost" is still in flight.
LEMMA PutPreserves ==
    ASSUME ThreadsOK, Placed, NEW p \in Producers, Put(p)
    PROVE  ThreadsOK' /\ Placed'
<1>1. CASE PutBegins(p)
  <2>1. /\ putAt[p] = "idle" /\ puts[p] < MaxPuts /\ puts' = [puts EXCEPT ![p] = @ + 1]
        /\ putAt' = putAt \/ putAt' = [putAt EXCEPT ![p] = "first"]
        /\ UNCHANGED <<buffer, delivered, discarded>>
        BY <1>1 DEF PutBegins, queueVars
  <2>2. puts[p] \in Nat /\ puts[p] + 1 \in 1..MaxPuts
        BY <2>1, QueueAssumption DEF ThreadsOK
  <2>3. ThreadsOK'
        BY <2>1, <2>2, QueueAssumption DEF ThreadsOK, Step
  <2>4. \A s : Settled(s) => Settled(s)'
        BY <2>1, <2>2 DEF Settled, ThreadsOK, Snapshots
  <2> QED BY <2>1, <2>3, <2>4 DEF Placed, BufferOK, SettledOnly, InOrder, NotBoth
<1>2. ASSUME putAt[p] # "idle", NEW to \in Step,
             putAt' = [putAt EXCEPT ![p] = to], UNCHANGED puts
      PROVE  ThreadsOK' /\ \A s : Settled(s) => Settled(s)'
      BY <1>2 DEF ThreadsOK, Settled, Snapshots
<1>3. CASE PutFirst(p) \/ PutSecond(p)
  <2>1. /\ putAt[p] \in {"first", "second"}
        /\ UNCHANGED <<puts, delivered, discarded>>
        /\ \/ putAt' = [putAt EXCEPT ![p] = "room"] /\ buffer' = buffer
           \/ putAt' = [putAt EXCEPT ![p] = "lost"] /\ buffer' = buffer
           \/ putAt' = [putAt EXCEPT ![p] = "idle"] /\ Enqueue(p)
        BY <1>3 DEF PutFirst, PutSecond
  <2>2. CASE buffer' = buffer /\ putAt' # [putAt EXCEPT ![p] = "idle"]
    <3>1. ThreadsOK' /\ \A s : Settled(s) => Settled(s)'
          BY <1>2, <2>1, <2>2 DEF Step
    <3> QED BY <2>1, <2>2, <3>1 DEF Placed, BufferOK, SettledOnly, InOrder, NotBoth
  <2>3. CASE putAt' = [putAt EXCEPT ![p] = "idle"] /\ Enqueue(p)
    <3>1. ThreadsOK'
          BY <1>2, <2>1, <2>3 DEF Step
    <3> QED BY <2>1, <2>3, <3>1, EnqueueKeepsPlaced
  <2> QED BY <2>1, <2>2, <2>3 DEF ThreadsOK
<1>4. CASE MakeRoom(p)
  <2>1. /\ putAt[p] = "room" /\ UNCHANGED <<puts, delivered>>
        /\ \/ /\ putAt' = [putAt EXCEPT ![p] = "second"]
              /\ UNCHANGED <<buffer, discarded>>
           \/ /\ putAt' = [putAt EXCEPT ![p] = "count"]
              /\ buffer # <<>> /\ buffer' = Tail(buffer)
              /\ discarded' = IF Head(buffer) = Sentinel THEN discarded
                              ELSE discarded \cup {Head(buffer)}
        BY <1>4 DEF MakeRoom
  <2>2. ThreadsOK' /\ \A s : Settled(s) => Settled(s)'
        BY <1>2, <2>1 DEF Step
  <2>3. CASE UNCHANGED <<buffer, discarded>>
        BY <2>1, <2>2, <2>3 DEF Placed, BufferOK, SettledOnly, InOrder, NotBoth
  <2>4. CASE buffer # <<>> /\ buffer' = Tail(buffer)
               /\ discarded' = IF Head(buffer) = Sentinel THEN discarded
                               ELSE discarded \cup {Head(buffer)}
        BY <2>1, <2>2, <2>4, TailKeepsPlaced
  <2> QED BY <2>1, <2>2, <2>3, <2>4
<1>5. CASE CountDrop(p)
  <2>1. /\ putAt[p] = "count" /\ putAt' = [putAt EXCEPT ![p] = "second"]
        /\ UNCHANGED <<puts, buffer, delivered, discarded>>
        BY <1>5 DEF CountDrop, history
  <2>2. ThreadsOK' /\ \A s : Settled(s) => Settled(s)'
        BY <1>2, <2>1 DEF Step
  <2> QED BY <2>1, <2>2 DEF Placed, BufferOK, SettledOnly, InOrder, NotBoth
<1>6. CASE CountLost(p)
  <2>1. /\ putAt[p] # "idle" /\ putAt' = [putAt EXCEPT ![p] = "idle"]
        /\ UNCHANGED <<puts, buffer, delivered>>
        /\ discarded' = discarded \cup {Current(p)}
        BY <1>6 DEF CountLost
  <2>2. ThreadsOK'
        BY <1>2, <2>1 DEF Step
  <2>3. \A s : Settled(s) \/ s = Current(p) => Settled(s)'
        BY <2>1, SettlingKeepsSettled
  <2>4. \A k \in DOMAIN buffer : buffer[k] # Current(p)
        BY <2>1, InFlightIsNewest, SentinelIsNoSnapshot DEF Placed, SettledOnly
  <2> QED BY <2>1, <2>2, <2>3, <2>4 DEF Placed, BufferOK, SettledOnly, InOrder, NotBoth
<1> QED BY <1>1, <1>3, <1>4, <1>5, <1>6 DEF Put

LEMMA OthersPreserve ==
    ASSUME ThreadsOK, Placed, (\E c \in Closers : Close(c)) \/ Drain \/ UNCHANGED vars
    PROVE  ThreadsOK' /\ Placed'
<1>1. UNCHANGED <<putAt, puts, discarded>>
      BY DEF Close, CloseFlag, CloseSentinel, Drain, DrainGets, DrainTimesOut,
             DrainChecksClosed, DrainRemaining, vars, queueVars, history
<1>2. ThreadsOK' /\ \A s : Settled(s) => Settled(s)'
      BY <1>1 DEF ThreadsOK, Settled
<1>3. \/ UNCHANGED <<buffer, delivered>>
      \/ buffer' = Append(buffer, Sentinel) /\ UNCHANGED delivered
      \/ Take
      BY DEF Close, CloseFlag, CloseSentinel, Drain, DrainGets, DrainTimesOut,
             DrainChecksClosed, DrainRemaining, vars, queueVars, history
<1>4. CASE UNCHANGED <<buffer, delivered>>
      BY <1>1, <1>2, <1>4 DEF Placed, BufferOK, SettledOnly, InOrder, NotBoth
<1>5. CASE buffer' = Append(buffer, Sentinel) /\ UNCHANGED delivered
  <2>1. /\ buffer' \in Seq(Snapshots \cup {Sentinel})
        /\ Len(buffer') = Len(buffer) + 1 /\ Len(buffer) \in Nat
        /\ DOMAIN buffer = 1..Len(buffer) /\ DOMAIN buffer' = 1..Len(buffer')
        /\ \A k \in 1..Len(buffer') : buffer'[k] = IF k <= Len(buffer) THEN buffer[k]
                                                   ELSE Sentinel
        BY <1>5 DEF Placed, BufferOK
  <2>2. Sentinel \notin discarded
        BY SentinelIsNoSnapshot DEF Placed, SettledOnly, Settled
  <2>3. SettledOnly' /\ NotBoth'
        BY <1>1, <1>2, <1>5, <2>1, <2>2 DEF Placed, SettledOnly, NotBoth
  <2>4. InOrder'
        BY <1>5, <2>1 DEF Placed, InOrder
  <2> QED BY <1>2, <2>1, <2>3, <2>4 DEF Placed, BufferOK
<1>6. CASE Take
  <2>1. /\ buffer # <<>> /\ buffer' = Tail(buffer)
        /\ delivered' \in {delivered, delivered \cup ({Head(buffer)} \ {Sentinel})}
        BY <1>6 DEF Take
  <2> QED BY <1>1, <1>2, <2>1, TailKeepsPlaced
<1> QED BY <1>3, <1>4, <1>5, <1>6

LEMMA PlacedInvariant == Spec => [](ThreadsOK /\ Placed)
<1>1. ThreadsOK /\ Placed /\ [Next]_vars => (ThreadsOK /\ Placed)'
      BY PutPreserves, OthersPreserve DEF Next
<1> QED BY <1>1, InitPlaced, PTL DEF Spec

----------------------------------------------------------------------------
(* Counting what is given up.                                              *)

Counting == {q \in Producers : putAt[q] = "count"}

CountsOK ==
    /\ dropped \in Nat /\ unsent \in Nat
    /\ IsFiniteSet(discarded)
    /\ dropped + Cardinality(Counting) = Cardinality(discarded) + unsent

LEMMA CountingIsFinite == IsFiniteSet(Counting) /\ Cardinality(Counting) \in Nat
<1>1. Counting \in SUBSET Producers
      BY DEF Counting
<1> QED BY <1>1, QueueAssumption, FS_Subset, FS_CardinalityType

LEMMA CountingChanges ==
    ASSUME ThreadsOK, NEW p \in Producers, NEW to \in Step, putAt' = [putAt EXCEPT ![p] = to]
    PROVE  /\ putAt[p] # "count" /\ to = "count" =>
                  Cardinality(Counting') = Cardinality(Counting) + 1
           /\ putAt[p] = "count" /\ to # "count" =>
                  Cardinality(Counting') = Cardinality(Counting) - 1
           /\ putAt[p] # "count" /\ to # "count" => Counting' = Counting
<1>1. ASSUME putAt[p] # "count", to = "count"
      PROVE  Cardinality(Counting') = Cardinality(Counting) + 1
  <2>1. Counting' = Counting \cup {p} /\ p \notin Counting
        BY <1>1 DEF Counting, ThreadsOK
  <2> QED BY <2>1, CountingIsFinite, FS_AddElement
<1>2. ASSUME putAt[p] = "count", to # "count"
      PROVE  Cardinality(Counting') = Cardinality(Counting) - 1
  <2>1. Counting' = Counting \ {p} /\ p \in Counting
        BY <1>2 DEF Counting, ThreadsOK
  <2> QED BY <2>1, CountingIsFinite, FS_RemoveElement
<1>3. putAt[p] # "count" /\ to # "count" => Counting' = Counting
      BY DEF Counting, ThreadsOK
<1> QED BY <1>1, <1>2, <1>3

\* An entry given up was not given up before.
LEMMA GivingUp ==
    ASSUME IsFiniteSet(discarded), NEW s, s \notin discarded,
           discarded' = discarded \cup {s}
    PROVE  /\ IsFiniteSet(discarded')
           /\ Cardinality(discarded') = Cardinality(discarded) + 1
BY FS_AddElement

LEMMA CountsPreserved ==
    ThreadsOK /\ Placed /\ CountsOK /\ [Next]_vars => CountsOK'
<1> SUFFICES ASSUME ThreadsOK, Placed, CountsOK, [Next]_vars
             PROVE  CountsOK'
    OBVIOUS
<1>0. /\ Cardinality(Counting) \in Nat /\ Cardinality(discarded) \in Nat
      /\ dropped \in Nat /\ unsent \in Nat /\ IsFiniteSet(discarded)
      /\ dropped + Cardinality(Counting) = Cardinality(discarded) + unsent
      BY CountingIsFinite, FS_CardinalityType DEF CountsOK
<1>1. ASSUME NEW p \in Producers, MakeRoom(p)
      PROVE  CountsOK'
  <2>1. CASE buffer = <<>>
    <3>1. /\ putAt[p] = "room" /\ putAt' = [putAt EXCEPT ![p] = "second"]
          /\ UNCHANGED <<dropped, discarded, unsent>>
          BY <1>1, <2>1 DEF MakeRoom
    <3>2. Counting' = Counting
          BY <3>1, CountingChanges DEF Step
    <3> QED BY <1>0, <3>1, <3>2 DEF CountsOK
  <2>2. CASE buffer # <<>>
    <3>1. /\ putAt[p] = "room" /\ putAt' = [putAt EXCEPT ![p] = "count"]
          /\ dropped' = dropped
          /\ \/ unsent' = unsent + 1 /\ discarded' = discarded
             \/ unsent' = unsent /\ discarded' = discarded \cup {Head(buffer)}
          BY <1>1, <2>2 DEF MakeRoom
    <3>2. Cardinality(Counting') = Cardinality(Counting) + 1
          BY <3>1, CountingChanges DEF Step
    <3>3. Head(buffer) \notin discarded
          BY <2>2 DEF Placed, BufferOK, NotBoth
    <3>4. CASE unsent' = unsent + 1 /\ discarded' = discarded
          BY <1>0, <3>1, <3>2, <3>4 DEF CountsOK
    <3>5. CASE unsent' = unsent /\ discarded' = discarded \cup {Head(buffer)}
      <4>1. /\ IsFiniteSet(discarded')
            /\ Cardinality(discarded') = Cardinality(discarded) + 1
            BY <1>0, <3>3, <3>5, GivingUp
      <4> QED BY <1>0, <3>1, <3>2, <3>5, <4>1 DEF CountsOK
    <3> QED BY <3>1, <3>4, <3>5
  <2> QED BY <2>1, <2>2
<1>2. ASSUME NEW p \in Producers, CountDrop(p)
      PROVE  CountsOK'
  <2>1. /\ putAt[p] = "count" /\ putAt' = [putAt EXCEPT ![p] = "second"]
        /\ dropped' = dropped + 1
        /\ UNCHANGED <<discarded, unsent>>
        BY <1>2 DEF CountDrop, history
  <2>2. Cardinality(Counting') = Cardinality(Counting) - 1
        BY <2>1, CountingChanges DEF Step
  <2> QED BY <1>0, <2>1, <2>2 DEF CountsOK
<1>3. ASSUME NEW p \in Producers, CountLost(p)
      PROVE  CountsOK'
  <2>1. /\ putAt[p] = "lost" /\ putAt' = [putAt EXCEPT ![p] = "idle"]
        /\ dropped' = dropped + 1 /\ unsent' = unsent
        /\ discarded' = discarded \cup {Current(p)}
        BY <1>3 DEF CountLost
  <2>2. Counting' = Counting
        BY <2>1, CountingChanges DEF Step
  <2>3. Current(p) \notin discarded
        BY <2>1, InFlightIsNewest DEF Placed, SettledOnly
  <2>4. /\ IsFiniteSet(discarded')
        /\ Cardinality(discarded') = Cardinality(discarded) + 1
        BY <1>0, <2>1, <2>3, GivingUp
  <2> QED BY <1>0, <2>1, <2>2, <2>4 DEF CountsOK
<1>4. ASSUME NEW p \in Producers, PutBegins(p) \/ PutFirst(p) \/ PutSecond(p)
      PROVE  CountsOK'
  <2>1. /\ putAt[p] # "count" /\ UNCHANGED <<dropped, discarded, unsent>>
        /\ \E to \in Step \ {"count"} : putAt' = [putAt EXCEPT ![p] = to]
    <3>1. putAt = [putAt EXCEPT ![p] = putAt[p]]
          BY DEF ThreadsOK
    <3> QED BY <1>4, <3>1 DEF PutBegins, PutFirst, PutSecond, queueVars, Step
  <2>2. Counting' = Counting
        BY <2>1, CountingChanges
  <2> QED BY <1>0, <2>1, <2>2 DEF CountsOK
<1>5. ASSUME (\E c \in Closers : Close(c)) \/ Drain \/ UNCHANGED vars
      PROVE  CountsOK'
  <2>1. UNCHANGED <<putAt, dropped, discarded, unsent>>
        BY <1>5 DEF Close, CloseFlag, CloseSentinel, Drain, DrainGets, DrainTimesOut,
                    DrainChecksClosed, DrainRemaining, vars, queueVars, history
  <2>2. Counting' = Counting
        BY <2>1 DEF Counting
  <2> QED BY <1>0, <2>1, <2>2 DEF CountsOK
<1> QED BY <1>1, <1>2, <1>3, <1>4, <1>5 DEF Next, Put

----------------------------------------------------------------------------
(* Where a snapshot is.                                                    *)

Flying(s) == putAt[s.from] # "idle" /\ s = Current(s.from)

Located ==
    /\ refused \subseteq Begun
    /\ \A s \in Begun : Flying(s) \/ s \in Entries \cup delivered \cup discarded \cup refused

LEMMA AppendedIsEntry ==
    ASSUME BufferOK, NEW x \in Snapshots \cup {Sentinel}, buffer' = Append(buffer, x)
    PROVE  Entries \cup {x} \subseteq Entries'
<1>1. /\ Len(buffer) \in Nat /\ DOMAIN buffer = 1..Len(buffer)
      /\ DOMAIN buffer' = 1..(Len(buffer) + 1)
      /\ \A k \in 1..(Len(buffer) + 1) : buffer'[k] = IF k <= Len(buffer) THEN buffer[k] ELSE x
      BY DEF BufferOK
<1>2. x = buffer'[Len(buffer) + 1] /\ Len(buffer) + 1 \in DOMAIN buffer'
      BY <1>1
<1>3. \A k \in DOMAIN buffer : k \in DOMAIN buffer' /\ buffer'[k] = buffer[k]
      BY <1>1
<1> QED BY <1>2, <1>3 DEF Entries

LEMMA OnlyHeadLeaves ==
    ASSUME BufferOK, buffer # <<>>, buffer' = Tail(buffer)
    PROVE  Entries \subseteq Entries' \cup {Head(buffer)}
<1>1. /\ Len(buffer) \in Nat /\ DOMAIN buffer = 1..Len(buffer)
      /\ DOMAIN buffer' = 1..(Len(buffer) - 1)
      /\ \A k \in 1..(Len(buffer) - 1) : buffer'[k] = buffer[k + 1]
      /\ Head(buffer) = buffer[1]
      BY DEF BufferOK
<1>2. \A k \in DOMAIN buffer : k = 1 \/ (k - 1 \in DOMAIN buffer' /\ buffer'[k - 1] = buffer[k])
      BY <1>1
<1> QED BY <1>1, <1>2 DEF Entries

\* No thread begins another put() meanwhile.
LEMMA LocatedWhilePutting ==
    ASSUME Located, UNCHANGED <<puts, refused>>, delivered \subseteq delivered',
           discarded \subseteq discarded',
           \A s \in Begun : Flying(s) => Flying(s)' \/ s \in Entries' \cup discarded',
           Entries \subseteq Entries' \cup delivered' \cup discarded' \cup {Sentinel}
    PROVE  Located'
<1>1. Begun' = Begun
      BY DEF Begun
<1>2. Sentinel \notin Begun
      BY SentinelIsNoSnapshot DEF Begun
<1> QED BY <1>1, <1>2 DEF Located

LEMMA LocatedPreserved ==
    ThreadsOK /\ Placed /\ Located /\ [Next]_vars => Located'
<1> SUFFICES ASSUME ThreadsOK, Placed, Located, [Next]_vars
             PROVE  Located'
    OBVIOUS
<1>0. BufferOK /\ \A q \in Producers : puts[q] \in Nat
      BY QueueAssumption DEF Placed, ThreadsOK
<1>1. ASSUME NEW p \in Producers, PutBegins(p)
      PROVE  Located'
  <2>1. /\ putAt[p] = "idle" /\ puts' = [puts EXCEPT ![p] = @ + 1] /\ puts[p] < MaxPuts
        /\ UNCHANGED <<buffer, delivered, discarded>>
        /\ \/ refused' = refused \cup {[from |-> p, n |-> puts[p] + 1]} /\ putAt' = putAt
           \/ refused' = refused /\ putAt' = [putAt EXCEPT ![p] = "first"]
        BY <1>1 DEF PutBegins, queueVars
  <2>2. puts'[p] = puts[p] + 1 /\ puts[p] + 1 \in 1..MaxPuts
        /\ \A q \in Producers : q # p => puts'[q] = puts[q]
        BY <1>0, <2>1, QueueAssumption DEF ThreadsOK
  <2>3. PICK new \in Snapshots : new = [from |-> p, n |-> puts[p] + 1]
        BY <2>2 DEF Snapshots
  <2>4. Begun' = Begun \cup {new}
    <3>1. \A s \in Snapshots : s.from = p /\ s.n <= puts[p] + 1 => s.n <= puts[p] \/ s = new
          BY <1>0, <2>3 DEF Snapshots
    <3>2. \A s \in Snapshots : s.from = p /\ s.n <= puts[p] => s.n <= puts[p] + 1
          BY <1>0 DEF Snapshots
    <3>3. \A s \in Snapshots : s.from \in Producers
          BY DEF Snapshots
    <3>4. new.from = p /\ new.n <= puts'[new.from]
          BY <1>0, <2>2, <2>3
    <3> QED BY <2>2, <2>3, <3>1, <3>2, <3>3, <3>4 DEF Begun
  <2>5. Entries' = Entries
        BY <2>1 DEF Entries
  <2>6. \A s \in Begun : Flying(s) => Flying(s)'
    <3>1. \A s \in Begun : Flying(s) => s.from \in Producers \ {p}
          BY <2>1 DEF Flying, Begun, Snapshots
    <3> QED BY <2>1, <2>2, <3>1 DEF Flying, Current, ThreadsOK
  <2>7. new \in refused' \/ Flying(new)'
    <3>1. new.from = p /\ new = Current(p)'
          BY <2>2, <2>3 DEF Current
    <3>2. CASE putAt' = [putAt EXCEPT ![p] = "first"]
      <4>1. putAt'[p] = "first"
            BY <3>2 DEF ThreadsOK
      <4> QED BY <3>1, <4>1 DEF Flying
    <3> QED BY <2>1, <2>3, <3>2
  <2>8. refused' \subseteq Begun'
        BY <2>1, <2>3, <2>4 DEF Located
  <2>9. \A s \in Begun : Flying(s)' \/ s \in (Entries \cup delivered \cup discarded \cup refused)'
        BY <2>1, <2>5, <2>6 DEF Located
  <2> QED BY <2>4, <2>7, <2>8, <2>9 DEF Located
<1>2. ASSUME NEW p \in Producers, NEW to \in Step, putAt' = [putAt EXCEPT ![p] = to],
             UNCHANGED puts
      PROVE  \A s \in Begun : Flying(s) => Flying(s)' \/ (to = "idle" /\ s = Current(p))
      BY <1>2 DEF Flying, Current, ThreadsOK, Begun, Snapshots
<1>3. ASSUME NEW p \in Producers, PutFirst(p) \/ PutSecond(p)
      PROVE  Located'
  <2>1. /\ putAt[p] # "idle" /\ UNCHANGED <<puts, delivered, discarded, refused>>
        /\ \/ buffer' = buffer /\ \E to \in {"room", "lost"} : putAt' = [putAt EXCEPT ![p] = to]
           \/ putAt' = [putAt EXCEPT ![p] = "idle"] /\ buffer' = Append(buffer, Current(p))
        BY <1>3 DEF PutFirst, PutSecond, Enqueue
  <2>2. CASE buffer' = buffer /\ \E to \in {"room", "lost"} : putAt' = [putAt EXCEPT ![p] = to]
    <3>1. \A s \in Begun : Flying(s) => Flying(s)'
          BY <1>2, <2>1, <2>2 DEF Step
    <3> QED BY <2>1, <2>2, <3>1, LocatedWhilePutting DEF Entries
  <2>3. CASE putAt' = [putAt EXCEPT ![p] = "idle"] /\ buffer' = Append(buffer, Current(p))
    <3>1. Current(p) \in Snapshots
          BY <2>1, InFlightIsNewest
    <3>2. Entries \cup {Current(p)} \subseteq Entries'
          BY <1>0, <2>3, <3>1, AppendedIsEntry
    <3>3. \A s \in Begun : Flying(s) => Flying(s)' \/ s = Current(p)
          BY <1>2, <2>1, <2>3 DEF Step
    <3> QED BY <2>1, <3>2, <3>3, LocatedWhilePutting
  <2> QED BY <2>1, <2>2, <2>3
<1>4. ASSUME NEW p \in Producers, MakeRoom(p)
      PROVE  Located'
  <2>1. /\ UNCHANGED <<puts, delivered, refused>>
        /\ \E to \in {"second", "count"} : putAt' = [putAt EXCEPT ![p] = to]
        /\ \/ UNCHANGED <<buffer, discarded>>
           \/ /\ buffer # <<>> /\ buffer' = Tail(buffer)
              /\ discarded' = IF Head(buffer) = Sentinel THEN discarded
                              ELSE discarded \cup {Head(buffer)}
        BY <1>4 DEF MakeRoom
  <2>2. \A s \in Begun : Flying(s) => Flying(s)'
        BY <1>2, <2>1 DEF Step
  <2>3. Entries \subseteq Entries' \cup discarded' \cup {Sentinel}
        BY <1>0, <2>1, OnlyHeadLeaves DEF Entries
  <2> QED BY <2>1, <2>2, <2>3, LocatedWhilePutting
<1>5. ASSUME NEW p \in Producers, CountDrop(p)
      PROVE  Located'
  <2>1. /\ putAt' = [putAt EXCEPT ![p] = "second"]
        /\ UNCHANGED <<puts, buffer, delivered, discarded, refused>>
        BY <1>5 DEF CountDrop, history
  <2>2. \A s \in Begun : Flying(s) => Flying(s)'
        BY <1>2, <2>1 DEF Step
  <2> QED BY <2>1, <2>2, LocatedWhilePutting DEF Entries
<1>6. ASSUME NEW p \in Producers, CountLost(p)
      PROVE  Located'
  <2>1. /\ putAt' = [putAt EXCEPT ![p] = "idle"]
        /\ UNCHANGED <<puts, buffer, delivered, refused>>
        /\ discarded' = discarded \cup {Current(p)}
        BY <1>6 DEF CountLost
  <2>2. \A s \in Begun : Flying(s) => Flying(s)' \/ s = Current(p)
        BY <1>2, <2>1 DEF Step
  <2> QED BY <2>1, <2>2, LocatedWhilePutting DEF Entries
<1>7. CASE (\E c \in Closers : Close(c)) \/ Drain \/ UNCHANGED vars
  <2>1. UNCHANGED <<putAt, puts, discarded, refused>>
        BY <1>7 DEF Close, CloseFlag, CloseSentinel, Drain, DrainGets, DrainTimesOut,
                    DrainChecksClosed, DrainRemaining, vars, queueVars, history
  <2>2. \/ UNCHANGED <<buffer, delivered>>
        \/ buffer' = Append(buffer, Sentinel) /\ UNCHANGED delivered
        \/ Take
        BY <1>7 DEF Close, CloseFlag, CloseSentinel, Drain, DrainGets, DrainTimesOut,
                    DrainChecksClosed, DrainRemaining, vars, queueVars, history
  <2>3. \A s \in Begun : Flying(s) => Flying(s)'
        BY <2>1 DEF Flying, Current
  <2>4. delivered \subseteq delivered' /\ Entries \subseteq Entries' \cup delivered' \cup {Sentinel}
    <3>1. CASE UNCHANGED <<buffer, delivered>>
          BY <3>1 DEF Entries
    <3>2. CASE buffer' = Append(buffer, Sentinel) /\ UNCHANGED delivered
          BY <1>0, <3>2, AppendedIsEntry
    <3>3. CASE Take
          BY <1>0, <3>3, OnlyHeadLeaves DEF Take
    <3> QED BY <2>2, <3>1, <3>2, <3>3
  <2> QED BY <2>1, <2>3, <2>4, LocatedWhilePutting
<1> QED BY <1>1, <1>3, <1>4, <1>5, <1>6, <1>7 DEF Next, Put

LEMMA LocatedIsWhole == ThreadsOK /\ Placed /\ Located => NothingIsLost
<1> SUFFICES ASSUME ThreadsOK, Placed, Located
             PROVE  NothingIsLost
    OBVIOUS
<1>1. \A s : Settled(s) => s \in Begun
      BY DEF Settled, Begun
<1>2. (Entries \ {Sentinel}) \cup delivered \cup discarded \subseteq Begun
      BY <1>1 DEF Placed, SettledOnly, Entries
<1>3. Pending \subseteq Begun
  <2> SUFFICES ASSUME NEW p \in Producers, putAt[p] # "idle"
               PROVE  Current(p) \in Begun
      BY DEF Pending, InFlight
  <2>1. Current(p) \in Snapshots /\ Current(p).from = p /\ Current(p).n = puts[p]
        BY InFlightIsNewest
  <2>2. puts[p] \in Int
        BY QueueAssumption DEF ThreadsOK
  <2> QED BY <2>1, <2>2 DEF Begun
<1>4. \A s \in Begun : Flying(s) => s \in Pending
      BY DEF Flying, Pending, InFlight, Begun, Snapshots
<1>5. Sentinel \notin Begun
      BY SentinelIsNoSnapshot DEF Begun
<1> QED BY <1>2, <1>3, <1>4, <1>5 DEF NothingIsLost, Located

----------------------------------------------------------------------------
(* One place for each.                                                     *)

Apart ==
    /\ \A s \in refused : Settled(s) /\ s \notin Entries \cup delivered \cup discarded
    /\ delivered \cap discarded = {}

\* A step that adds at most s to what is settled elsewhere than in refused.
LEMMA ApartWhileSettling ==
    ASSUME Apart, UNCHANGED refused, NEW s, s \notin refused,
           \A t : Settled(t) => Settled(t)',
           (Entries \cup delivered \cup discarded)'
               \subseteq Entries \cup delivered \cup discarded \cup {s, Sentinel},
           (delivered \cap discarded)' = {}
    PROVE  Apart'
<1>1. \A t \in refused : t # Sentinel
      BY SentinelIsNoSnapshot DEF Apart, Settled
<1> QED BY <1>1 DEF Apart

LEMMA EntriesAfter ==
    ASSUME BufferOK
    PROVE  /\ \A x \in Snapshots \cup {Sentinel} :
                  buffer' = Append(buffer, x) => Entries' \subseteq Entries \cup {x}
           /\ buffer # <<>> => /\ Head(buffer) \in Entries
                               /\ buffer' = Tail(buffer) => Entries' \subseteq Entries
<1>1. /\ Len(buffer) \in Nat /\ DOMAIN buffer = 1..Len(buffer)
      BY DEF BufferOK
<1>2. ASSUME NEW x \in Snapshots \cup {Sentinel}, buffer' = Append(buffer, x)
      PROVE  Entries' \subseteq Entries \cup {x}
  <2>1. /\ DOMAIN buffer' = 1..(Len(buffer) + 1)
        /\ \A k \in 1..(Len(buffer) + 1) : buffer'[k] = IF k <= Len(buffer) THEN buffer[k] ELSE x
        BY <1>2 DEF BufferOK
  <2> QED BY <1>1, <2>1 DEF Entries
<1>3. ASSUME buffer # <<>>
      PROVE  Head(buffer) \in Entries
  <2>1. Head(buffer) = buffer[1] /\ 1 \in DOMAIN buffer
        BY <1>3 DEF BufferOK
  <2> QED BY <2>1 DEF Entries
<1>4. ASSUME buffer # <<>>, buffer' = Tail(buffer)
      PROVE  Entries' \subseteq Entries
  <2>1. /\ DOMAIN buffer' = 1..(Len(buffer) - 1)
        /\ \A k \in 1..(Len(buffer) - 1) : buffer'[k] = buffer[k + 1]
        BY <1>4 DEF BufferOK
  <2>2. \A k \in DOMAIN buffer' : k + 1 \in DOMAIN buffer /\ buffer'[k] = buffer[k + 1]
        BY <1>1, <2>1
  <2> QED BY <2>2 DEF Entries
<1> QED BY <1>2, <1>3, <1>4

LEMMA ApartPreserved ==
    ThreadsOK /\ ThreadsOK' /\ Placed /\ Apart /\ [Next]_vars => Apart'
<1> SUFFICES ASSUME ThreadsOK, ThreadsOK', Placed, Apart, [Next]_vars
             PROVE  Apart'
    OBVIOUS
<1>0. BufferOK /\ \A q \in Producers : puts[q] \in Nat
      BY QueueAssumption DEF Placed, ThreadsOK
<1>1. ASSUME NEW p \in Producers, PutBegins(p)
      PROVE  Apart'
  <2>1. /\ putAt[p] = "idle" /\ puts' = [puts EXCEPT ![p] = @ + 1]
        /\ UNCHANGED <<buffer, delivered, discarded>>
        /\ \/ refused' = refused \cup {[from |-> p, n |-> puts[p] + 1]} /\ putAt' = putAt
           \/ refused' = refused /\ putAt' = [putAt EXCEPT ![p] = "first"]
        BY <1>1 DEF PutBegins, queueVars
  <2>9. PICK new : new = [from |-> p, n |-> puts[p] + 1]
        OBVIOUS
  <2>2. puts'[p] = puts[p] + 1 /\ puts[p] + 1 \in 1..MaxPuts
        /\ \A q \in Producers : q # p => puts'[q] = puts[q] /\ putAt'[q] = putAt[q]
        BY <1>0, <1>1, <2>1, QueueAssumption DEF ThreadsOK, PutBegins
  <2>3. \A s : Settled(s) => Settled(s)'
    <3> SUFFICES ASSUME NEW s, Settled(s) PROVE Settled(s)'
        OBVIOUS
    <3>1. s \in Snapshots /\ s.from \in Producers /\ s.n \in Nat /\ s.n <= puts[s.from]
          BY DEF Settled, Snapshots
    <3>2. CASE s.from = p
          BY <1>0, <2>2, <3>1, <3>2 DEF Settled
    <3>3. CASE s.from # p
          BY <2>2, <3>1, <3>3 DEF Settled
    <3> QED BY <3>2, <3>3
  <2>4. ~Settled(new)
        BY <1>0, <2>9 DEF Settled
  <2>5. new \notin Entries \cup delivered \cup discarded
    <3>1. new # Sentinel
          BY <2>2, <2>9, SentinelIsNoSnapshot DEF Snapshots
    <3> QED BY <2>4, <3>1 DEF Placed, SettledOnly, Entries
  <2>6. putAt' = putAt => Settled(new)'
        BY <1>0, <2>1, <2>2, <2>9 DEF Settled, Snapshots
  <2>7. Entries' = Entries
        BY <2>1 DEF Entries
  <2>8. refused' = refused \/ (refused' = refused \cup {new} /\ putAt' = putAt)
        BY <2>1, <2>9
  <2> QED BY <2>1, <2>3, <2>5, <2>6, <2>7, <2>8 DEF Apart
<1>2. ASSUME NEW p \in Producers, putAt[p] # "idle", NEW to \in Step,
             putAt' = [putAt EXCEPT ![p] = to], UNCHANGED puts
      PROVE  /\ \A s : Settled(s) => Settled(s)'
             /\ Current(p) \notin refused \cup delivered
             /\ Current(p) \in Snapshots
  <2>1. \A s : Settled(s) => Settled(s)'
        BY <1>2 DEF Settled, ThreadsOK, Snapshots
  <2>2. ~Settled(Current(p)) /\ Current(p) \in Snapshots
        BY <1>2, InFlightIsNewest
  <2> QED BY <2>1, <2>2 DEF Apart, Placed, SettledOnly
<1>3. ASSUME NEW p \in Producers, PutFirst(p) \/ PutSecond(p)
      PROVE  Apart'
  <2>1. /\ putAt[p] # "idle" /\ UNCHANGED <<puts, delivered, discarded, refused>>
        /\ \E to \in Step : putAt' = [putAt EXCEPT ![p] = to]
        /\ buffer' = buffer \/ buffer' = Append(buffer, Current(p))
        BY <1>3 DEF PutFirst, PutSecond, Enqueue, Step
  <2>2. /\ \A s : Settled(s) => Settled(s)'
        /\ Current(p) \notin refused /\ Current(p) \in Snapshots
        BY <1>2, <2>1
  <2>3. Entries' \subseteq Entries \cup {Current(p)}
        BY <1>0, <2>1, <2>2, EntriesAfter DEF Entries
  <2>4. (delivered \cap discarded)' = {}
        BY <2>1 DEF Apart
  <2> QED BY <2>1, <2>2, <2>3, <2>4, ApartWhileSettling
<1>4. ASSUME NEW p \in Producers, MakeRoom(p) \/ CountDrop(p)
      PROVE  Apart'
  <2>1. /\ putAt[p] # "idle" /\ UNCHANGED <<puts, delivered, refused>>
        /\ \E to \in Step : putAt' = [putAt EXCEPT ![p] = to]
        /\ \/ UNCHANGED <<buffer, discarded>>
           \/ /\ buffer # <<>> /\ buffer' = Tail(buffer)
              /\ discarded' = IF Head(buffer) = Sentinel THEN discarded
                              ELSE discarded \cup {Head(buffer)}
        BY <1>4 DEF MakeRoom, CountDrop, history, Step
  <2>2. \A s : Settled(s) => Settled(s)'
        BY <1>2, <2>1
  <2>3. (Entries \cup delivered \cup discarded)' \subseteq Entries \cup delivered \cup discarded
        BY <1>0, <2>1, EntriesAfter DEF Entries
  <2>4. (delivered \cap discarded)' = {}
    <3>1. CASE UNCHANGED discarded
          BY <2>1, <3>1 DEF Apart
    <3>2. CASE buffer # <<>> /\ Head(buffer) # Sentinel
      <4>1. 1 \in DOMAIN buffer /\ Head(buffer) = buffer[1]
            BY <1>0, <3>2 DEF BufferOK
      <4>2. buffer[1].n \in Nat
            BY <3>2, <4>1 DEF Placed, SettledOnly, Settled, Snapshots
      <4>3. Head(buffer) \notin delivered
            BY <3>2, <4>1, <4>2 DEF Placed, InOrder
      <4> QED BY <2>1, <4>3 DEF Apart
    <3> QED BY <2>1, <3>1, <3>2
  <2> QED BY <2>1, <2>2, <2>3, <2>4, ApartWhileSettling, SentinelIsNoSnapshot DEF Apart, Settled
<1>5. ASSUME NEW p \in Producers, CountLost(p)
      PROVE  Apart'
  <2>1. /\ putAt[p] # "idle" /\ UNCHANGED <<puts, buffer, delivered, refused>>
        /\ putAt' = [putAt EXCEPT ![p] = "idle"]
        /\ discarded' = discarded \cup {Current(p)}
        BY <1>5 DEF CountLost
  <2>2. /\ \A s : Settled(s) => Settled(s)'
        /\ Current(p) \notin refused \cup delivered
        BY <1>2, <2>1 DEF Step
  <2>3. (delivered \cap discarded)' = {}
        BY <2>1, <2>2 DEF Apart
  <2>4. Entries' = Entries
        BY <2>1 DEF Entries
  <2> QED BY <2>1, <2>2, <2>3, <2>4, ApartWhileSettling
<1>6. CASE (\E c \in Closers : Close(c)) \/ Drain \/ UNCHANGED vars
  <2>1. UNCHANGED <<putAt, puts, discarded, refused>>
        BY <1>6 DEF Close, CloseFlag, CloseSentinel, Drain, DrainGets, DrainTimesOut,
                    DrainChecksClosed, DrainRemaining, vars, queueVars, history
  <2>2. \/ UNCHANGED <<buffer, delivered>>
        \/ buffer' = Append(buffer, Sentinel) /\ UNCHANGED delivered
        \/ Take
        BY <1>6 DEF Close, CloseFlag, CloseSentinel, Drain, DrainGets, DrainTimesOut,
                    DrainChecksClosed, DrainRemaining, vars, queueVars, history
  <2>3. \A s : Settled(s) => Settled(s)'
        BY <2>1 DEF Settled
  <2>4. (Entries \cup delivered)' \subseteq Entries \cup delivered \cup {Sentinel}
    <3>1. CASE UNCHANGED <<buffer, delivered>>
          BY <3>1 DEF Entries
    <3>2. CASE buffer' = Append(buffer, Sentinel) /\ UNCHANGED delivered
          BY <1>0, <3>2, EntriesAfter
    <3>3. CASE Take
          BY <1>0, <3>3, EntriesAfter DEF Take
    <3> QED BY <2>2, <3>1, <3>2, <3>3
  <2>5. (delivered \cap discarded)' = {}
    <3>1. CASE UNCHANGED delivered
          BY <2>1, <3>1 DEF Apart
    <3>2. CASE Take
      <4>1. 1 \in DOMAIN buffer /\ Head(buffer) = buffer[1]
            BY <1>0, <3>2 DEF Take, BufferOK
      <4>2. Head(buffer) \notin discarded
            BY <4>1 DEF Placed, NotBoth
      <4> QED BY <2>1, <3>2, <4>2 DEF Take, Apart
    <3> QED BY <2>2, <3>1, <3>2
  <2>6. Sentinel \notin refused
        BY SentinelIsNoSnapshot DEF Apart, Settled
  <2> QED BY <2>1, <2>3, <2>4, <2>5, <2>6, ApartWhileSettling
<1> QED BY <1>1, <1>3, <1>4, <1>5, <1>6 DEF Next, Put

LEMMA ApartIsOnePlace ==
    ASSUME ThreadsOK, Placed, Apart
    PROVE  /\ \A i, j \in DOMAIN Places : i # j => Places[i] \cap Places[j] = {}
           /\ \A i, j \in DOMAIN buffer : i # j /\ buffer[i] = buffer[j] => buffer[i] = Sentinel
<1>0. DOMAIN buffer \subseteq Nat
      BY DEF Placed, BufferOK
<1>1. \A k \in DOMAIN buffer : buffer[k] # Sentinel => buffer[k].n \in Nat
      BY DEF Placed, SettledOnly, Settled, Snapshots
<1>2. ASSUME NEW i \in DOMAIN buffer, NEW j \in DOMAIN buffer, i # j, buffer[i] = buffer[j]
      PROVE  buffer[i] = Sentinel
  <2>1. i < j \/ j < i
        BY <1>0, <1>2
  <2> QED BY <1>1, <1>2, <2>1 DEF Placed, InOrder
<1>3. \A s \in Pending : ~Settled(s)
      BY InFlightIsNewest DEF Pending, InFlight
<1>4. \A s \in (Entries \ {Sentinel}) \cup delivered \cup discarded \cup refused : Settled(s)
      BY DEF Apart, Placed, SettledOnly, Entries
<1>5. (Entries \ {Sentinel}) \cap delivered = {}
      BY <1>1 DEF Placed, InOrder, Entries
<1>6. Entries \cap discarded = {}
      BY DEF Placed, NotBoth, Entries
<1>7. \A i \in DOMAIN Places : i \in 1..5
      BY DEF Places
<1>8. /\ Pending \cap (Entries \ {Sentinel}) = {} /\ Pending \cap delivered = {}
      /\ Pending \cap discarded = {} /\ Pending \cap refused = {}
      BY <1>3, <1>4
<1>9. /\ delivered \cap discarded = {} /\ refused \cap delivered = {}
      /\ refused \cap discarded = {} /\ refused \cap Entries = {}
      BY DEF Apart
<1>10. ASSUME NEW i \in 1..5, NEW j \in 1..5, i # j
       PROVE  Places[i] \cap Places[j] = {}
  <2>1. /\ Places[1] = Pending /\ Places[2] = Entries \ {Sentinel} /\ Places[3] = delivered
        /\ Places[4] = discarded /\ Places[5] = refused
        BY DEF Places
  <2>2. i \in {1, 2, 3, 4, 5} /\ j \in {1, 2, 3, 4, 5}
        OBVIOUS
  <2> QED BY ONLY <1>5, <1>6, <1>8, <1>9, <1>10, <2>1, <2>2
<1> QED BY <1>2, <1>7, <1>10

----------------------------------------------------------------------------
(* What is left when drain() returns.                                      *)

\* Once drain() has found the queue empty, everything in it came behind that.
EmptySeen == drainAt \in {"empty", "done"} => Entries \subseteq behind \cup {Sentinel}

LEMMA EmptySeenPreserved == ThreadsOK /\ Placed /\ EmptySeen /\ [Next]_vars => EmptySeen'
<1> SUFFICES ASSUME ThreadsOK, Placed, EmptySeen, [Next]_vars
             PROVE  EmptySeen'
    OBVIOUS
<1>0. BufferOK /\ Sentinel \in Snapshots \cup {Sentinel}
      BY DEF Placed
<1>1. ASSUME NEW p \in Producers, Put(p)
      PROVE  EmptySeen'
  <2>1. drainAt' = drainAt
        BY <1>1 DEF Put, PutBegins, PutFirst, MakeRoom, CountDrop, PutSecond, CountLost
  <2>2. CASE Enqueue(p) /\ putAt[p] # "idle"
    <3>1. Current(p) \in Snapshots
          BY <2>2, InFlightIsNewest
    <3>2. Entries' \subseteq Entries \cup {Current(p)}
          BY <1>0, <2>2, <3>1, EntriesAfter DEF Enqueue
    <3> QED BY <2>1, <2>2, <3>2 DEF EmptySeen, Enqueue
  <2>3. CASE ~(Enqueue(p) /\ putAt[p] # "idle")
    <3>1. behind' = behind /\ (buffer' = buffer \/ (buffer # <<>> /\ buffer' = Tail(buffer)))
          BY <1>1, <2>3 DEF Put, PutBegins, PutFirst, MakeRoom, CountDrop, PutSecond, CountLost,
                            queueVars, history, shutdown
    <3>2. Entries' \subseteq Entries
          BY <1>0, <3>1, EntriesAfter DEF Entries
    <3> QED BY <2>1, <3>1, <3>2 DEF EmptySeen
  <2> QED BY <2>2, <2>3
<1>2. ASSUME NEW c \in Closers, Close(c)
      PROVE  EmptySeen'
  <2>1. UNCHANGED <<drainAt, behind>> /\ (buffer' = buffer \/ buffer' = Append(buffer, Sentinel))
        BY <1>2 DEF Close, CloseFlag, CloseSentinel, history, shutdown
  <2>2. Entries' \subseteq Entries \cup {Sentinel}
        BY <1>0, <2>1, EntriesAfter DEF Entries
  <2> QED BY <2>1, <2>2 DEF EmptySeen
<1>3. CASE Drain
  <2>1. CASE DrainGets
        BY <2>1 DEF DrainGets, EmptySeen
  <2>2. CASE DrainTimesOut
        BY <2>2 DEF DrainTimesOut, queueVars, EmptySeen, Entries
  <2>3. CASE DrainChecksClosed
        BY <2>3 DEF DrainChecksClosed, queueVars, EmptySeen, Entries
  <2>4. CASE DrainRemaining
        BY <2>4 DEF DrainRemaining, EmptySeen, Entries
  <2> QED BY <1>3, <2>1, <2>2, <2>3, <2>4 DEF Drain
<1>4. CASE UNCHANGED vars
      BY <1>4 DEF vars, queueVars, history, shutdown, EmptySeen, Entries
<1> QED BY <1>1, <1>2, <1>3, <1>4 DEF Next

----------------------------------------------------------------------------
(* The type invariant.                                                     *)

LEMMA TypePreserved == ThreadsOK /\ Placed /\ TypeOK /\ [Next]_vars => TypeOK'
<1> SUFFICES ASSUME ThreadsOK, Placed, TypeOK, [Next]_vars
             PROVE  TypeOK'
    OBVIOUS
<1>0. /\ Capacity \in Nat /\ Len(buffer) \in Nat
      /\ \A p \in Producers : puts[p] \in Nat
      BY QueueAssumption DEF TypeOK
<1>1. ASSUME NEW x \in Snapshots \cup {Sentinel}, ~Full
      PROVE  Append(buffer, x) \in Seq(Snapshots \cup {Sentinel})
                /\ Len(Append(buffer, x)) <= Capacity
      BY <1>0, <1>1 DEF TypeOK, Full
<1>2. ASSUME buffer # <<>>
      PROVE  /\ Tail(buffer) \in Seq(Snapshots \cup {Sentinel})
             /\ Len(Tail(buffer)) <= Capacity
             /\ Head(buffer) \in Snapshots \cup {Sentinel}
      BY <1>0, <1>2 DEF TypeOK
<1>3. ASSUME NEW p \in Producers, PutBegins(p)
      PROVE  TypeOK'
  <2>1. puts[p] + 1 \in 1..MaxPuts
        BY <1>0, <1>3, QueueAssumption DEF PutBegins
  <2>2. [from |-> p, n |-> puts[p] + 1] \in Snapshots
        BY <2>1 DEF Snapshots
  <2>3. puts' \in [Producers -> 0..MaxPuts]
        BY <1>3, <2>1 DEF PutBegins, TypeOK
  <2> QED BY <1>3, <2>2, <2>3 DEF PutBegins, TypeOK, queueVars, shutdown
<1>4. ASSUME NEW p \in Producers, PutFirst(p) \/ PutSecond(p) \/ CountLost(p)
      PROVE  TypeOK'
  <2>1. Current(p) \in Snapshots
        BY <1>4, InFlightIsNewest DEF PutFirst, PutSecond, CountLost
  <2>2. CASE PutFirst(p)
        BY <1>0, <1>1, <2>1, <2>2 DEF PutFirst, Enqueue, TypeOK
  <2>3. CASE PutSecond(p)
        BY <1>0, <1>1, <2>1, <2>3 DEF PutSecond, Enqueue, TypeOK
  <2>4. CASE CountLost(p)
        BY <2>1, <2>4 DEF CountLost, TypeOK, shutdown
  <2> QED BY <1>4, <2>2, <2>3, <2>4
<1>5. ASSUME NEW p \in Producers, MakeRoom(p) \/ CountDrop(p)
      PROVE  TypeOK'
  <2>1. CASE MakeRoom(p)
    <3>1. CASE buffer = <<>>
          BY <2>1, <3>1 DEF MakeRoom, TypeOK, shutdown
    <3>2. CASE buffer # <<>> /\ Head(buffer) = Sentinel
      <4>1. /\ unsent' = unsent + 1 /\ buffer' = Tail(buffer)
            /\ putAt' = [putAt EXCEPT ![p] = "count"]
            /\ UNCHANGED <<closed, dropped, puts, closeAt, drainAt, delivered, refused, discarded, shutdown>>
            BY <2>1, <3>2 DEF MakeRoom
      <4> QED BY <1>2, <3>2, <4>1 DEF TypeOK, shutdown
    <3>3. CASE buffer # <<>> /\ Head(buffer) # Sentinel
          BY <1>2, <2>1, <3>3 DEF MakeRoom, TypeOK, shutdown
    <3> QED BY <3>1, <3>2, <3>3
  <2>2. CASE CountDrop(p)
        BY <2>2 DEF CountDrop, history, shutdown, TypeOK
  <2> QED BY <1>5, <2>1, <2>2
<1>6. ASSUME NEW c \in Closers, Close(c)
      PROVE  TypeOK'
  <2>1. Entries \ {Sentinel} \subseteq Snapshots
        BY DEF TypeOK, Entries
  <2>2. CASE CloseFlag(c)
        BY <2>1, <2>2 DEF CloseFlag, TypeOK
  <2>3. CASE CloseSentinel(c)
        BY <1>0, <1>1, <2>3 DEF CloseSentinel, history, shutdown, TypeOK
  <2> QED BY <1>6, <2>2, <2>3 DEF Close
<1>7. CASE Drain
  <2>1. CASE DrainTimesOut \/ DrainChecksClosed
        BY <2>1 DEF DrainTimesOut, DrainChecksClosed, queueVars, history, shutdown, TypeOK
  <2>2. CASE DrainGets \/ DrainRemaining
        BY <1>0, <1>2, <2>2 DEF DrainGets, DrainRemaining, Take, queueVars, history, shutdown,
                                TypeOK
  <2> QED BY <1>7, <2>1, <2>2 DEF Drain
<1>8. CASE UNCHANGED vars
      BY <1>8 DEF vars, queueVars, history, shutdown, TypeOK
<1> QED BY <1>3, <1>4, <1>5, <1>6, <1>7, <1>8 DEF Next, Put

----------------------------------------------------------------------------
(* The theorems.                                                           *)

\* The buffer never exceeds its capacity, and every field has its type
\* (queueing.py:44-62).
THEOREM TypeCorrect == Spec => []TypeOK
<1>1. Init => TypeOK
  <2> SUFFICES ASSUME Init PROVE TypeOK
      OBVIOUS
  <2>1. buffer = <<>> /\ Len(buffer) = 0 /\ buffer \in Seq(Snapshots \cup {Sentinel})
        BY DEF Init
  <2>2. 0 <= Capacity /\ 0 \in 0..MaxPuts
        BY QueueAssumption
  <2> QED BY <2>1, <2>2 DEF Init, TypeOK
<1> QED BY <1>1, TypePreserved, PlacedInvariant, PTL DEF Spec

\* Every snapshot that was put is on its way, waiting, delivered, discarded or
\* refused (queueing.py:64-152).
THEOREM NothingIsLostHolds == Spec => []NothingIsLost
<1>1. Init => Located
  <2>1. Init => Begun = {}
        BY QueueAssumption DEF Init, Begun, Snapshots
  <2> QED BY <2>1 DEF Init, Located
<1> QED BY <1>1, LocatedIsWhole, LocatedPreserved, PlacedInvariant, PTL DEF Spec

\* It is in one of these places only, and once: no snapshot is delivered twice,
\* delivered and counted as dropped, or refused and queued; and drain() leaves
\* behind only what came after its last look (queueing.py:64-152).
THEOREM EverySnapshotAccountedForHolds == Spec => []EverySnapshotAccountedFor
<1>1. Init => Apart
      BY DEF Init, Apart
<1>2. Init => EmptySeen
      BY DEF Init, EmptySeen
<1>3. ThreadsOK /\ Placed /\ Apart /\ NothingIsLost /\ EmptySeen => EverySnapshotAccountedFor
  <2>1. EmptySeen => NothingSeenIsLeft
        BY DEF EmptySeen, NothingSeenIsLeft
  <2> QED BY <2>1, ApartIsOnePlace DEF EverySnapshotAccountedFor
<1> QED BY <1>1, <1>2, <1>3, ApartPreserved, EmptySeenPreserved, PlacedInvariant,
           NothingIsLostHolds, PTL DEF Spec

\* drain() yields one thread's snapshots in the order it put them, across drops,
\* refilled slots and the change to the final loop (queueing.py:128-151).
THEOREM DeliveredInOrderHolds == Spec => DeliveredInOrder
<1>1. Placed /\ [Next]_vars =>
          \A s \in delivered' \ delivered : \A t \in delivered : t.from = s.from => t.n < s.n
  <2> SUFFICES ASSUME Placed, [Next]_vars, NEW s \in delivered' \ delivered,
                      NEW t \in delivered, t.from = s.from
               PROVE  t.n < s.n
      OBVIOUS
  <2>1. Take
        BY DEF Next, Put, PutBegins, PutFirst, MakeRoom, CountDrop, PutSecond, CountLost, Close,
               CloseFlag, CloseSentinel, Drain, DrainGets, DrainTimesOut, DrainChecksClosed,
               DrainRemaining, vars, queueVars, history
  <2>2. buffer # <<>> /\ s = Head(buffer) /\ s # Sentinel
        BY <2>1 DEF Take
  <2>3. 1 \in DOMAIN buffer /\ s = buffer[1]
        BY <2>2 DEF Placed, BufferOK
  <2> QED BY <2>2, <2>3 DEF Placed, InOrder
<1> QED BY <1>1, PlacedInvariant, PTL DEF Spec, DeliveredInOrder

\* The reported drop count is what was given up, sentinels included, but for the
\* threads between taking an entry out and counting it (queueing.py:88-103).
THEOREM DropsAreCountedHolds == Spec => []DropsAreCounted
<1>1. Init => CountsOK
  <2> SUFFICES ASSUME Init PROVE CountsOK
      OBVIOUS
  <2>1. dropped = 0 /\ unsent = 0 /\ discarded = {} /\ Counting = {}
        BY DEF Init, Counting
  <2> QED BY <2>1, FS_EmptySet DEF CountsOK
<1>2. CountsOK => DropsAreCounted
      BY DEF CountsOK, Counting, DropsAreCounted
<1> QED BY <1>1, <1>2, CountsPreserved, PlacedInvariant, PTL DEF Spec
==============================================================================
