-------------------------- MODULE SymbolEngineProofs --------------------------
(* Proofs about SymbolEngine, for every threshold, queue and warm-up.      *)
EXTENDS SymbolEngine, SequenceTheorems, TLAPS

----------------------------------------------------------------------------
(* The queue: what dropping and skipping do to what is waiting.            *)

LEMMA Constants ==
    /\ MaxSnapshotGap \in Nat /\ MaxStaleness \in Nat /\ Warmup \in Nat /\ QueueSize \in Nat
    /\ MaxSnapshotGap >= 1 /\ Warmup >= 1 /\ QueueSize >= 1
    /\ MaxOddities \in Nat
    /\ Floor \in Int /\ Ceiling \in Int /\ Floor <= -2 /\ Ceiling >= 3
    /\ MaxSnapshotGap + 1 <= Ceiling /\ MaxStaleness + 1 <= Ceiling
BY EngineAssumption DEF Floor, Ceiling

LEMMA SaturateInRange == \A d \in Int : Saturate(d) \in Floor..Ceiling
BY Constants DEF Saturate

LEMMA RawFields ==
    \A raw \in Raw : /\ raw.step \in Floor..Ceiling /\ raw.step \in Int
                     /\ raw.volume \in Volumes
                     /\ raw.sound \in BOOLEAN
                     /\ raw.jump \in BOOLEAN
                     /\ raw.reconnect \in Reconnect
BY Constants DEF Raw

LEMMA WorseIsReconnect ==
    \A r, s \in Reconnect : /\ Worse(r, s) \in Reconnect
                            /\ Worse(r, s) = "idle" => r = "idle" \/ s = "idle"
BY DEF Worse, Reconnect

LEMMA BridgeIsRaw ==
    \A old, new \in Raw :
        /\ Bridge(old, new) \in Raw
        /\ Bridge(old, new).reconnect = Worse(old.reconnect, new.reconnect)
<1> SUFFICES ASSUME NEW old \in Raw, NEW new \in Raw
             PROVE  /\ Bridge(old, new) \in Raw
                    /\ Bridge(old, new).reconnect = Worse(old.reconnect, new.reconnect)
    OBVIOUS
<1>1. old.step + new.step \in Int
      BY RawFields
<1>2. Saturate(old.step + new.step) \in Floor..Ceiling
      BY <1>1, SaturateInRange
<1>3. (old.jump \/ new.jump) \in BOOLEAN
      OBVIOUS
<1>4. Worse(old.reconnect, new.reconnect) \in Reconnect
      BY RawFields, WorseIsReconnect
<1> QED BY <1>2, <1>3, <1>4 DEF Bridge, Raw

\* A reconnect that found the engine idle waits at the head, if anywhere.
IdleAtHead(q) == \A i \in DOMAIN q : q[i].reconnect = "idle" => i = 1

\* A snapshot after an idle reconnect finds the queue empty.
LEMMA EnqueueKeepsQueue ==
    ASSUME NEW q \in Seq(Raw), Len(q) <= QueueSize, IdleAtHead(q),
           NEW raw \in Raw, raw.reconnect = "idle" => q = <<>>
    PROVE  /\ Enqueue(q, raw) \in Seq(Raw)
           /\ Len(Enqueue(q, raw)) <= QueueSize
           /\ IdleAtHead(Enqueue(q, raw))
           /\ \A i \in DOMAIN Enqueue(q, raw) :
                 Enqueue(q, raw)[i].reconnect = "idle" =>
                     \/ raw.reconnect = "idle"
                     \/ q # <<>> /\ q[1].reconnect = "idle"
<1> DEFINE longer == Append(q, raw)
<1>1. /\ longer \in Seq(Raw)
      /\ Len(longer) = Len(q) + 1
      /\ \A i \in 1..Len(longer) : longer[i] = IF i <= Len(q) THEN q[i] ELSE raw
      OBVIOUS
<1>2. CASE Len(longer) <= QueueSize
      BY <1>1, <1>2 DEF Enqueue, IdleAtHead
<1>3. CASE ~(Len(longer) <= QueueSize)
  <2> DEFINE b == Bridge(longer[1], longer[2])
             rest == SubSeq(longer, 3, Len(longer))
  <2>1. Len(q) = QueueSize /\ Len(q) >= 1 /\ q # <<>> /\ raw.reconnect # "idle"
        BY <1>1, <1>3, Constants
  <2>2. longer[1] = q[1] /\ longer[1] \in Raw /\ longer[2] \in Raw
        BY <1>1, <2>1, Constants
  <2>3. /\ b \in Raw
        /\ b.reconnect = Worse(longer[1].reconnect, longer[2].reconnect)
        BY <2>2, BridgeIsRaw
  <2>4. longer[2].reconnect # "idle"
        BY <1>1, <2>1, Constants DEF IdleAtHead
  <2>5. b.reconnect = "idle" => q[1].reconnect = "idle"
        BY <2>2, <2>3, <2>4, RawFields, WorseIsReconnect
  <2>6. /\ rest \in Seq(Raw)
        /\ Len(rest) = Len(longer) - 2
        /\ \A i \in 1..Len(rest) : rest[i] = longer[i + 2]
        BY <1>1, <2>1, Constants
  <2> DEFINE e == <<b>> \o rest
  <2> HIDE DEF b, rest
  <2>7. /\ e \in Seq(Raw)
        /\ Len(e) = QueueSize
        /\ \A i \in 1..Len(e) : e[i] = IF i = 1 THEN b ELSE longer[i + 1]
        BY <1>1, <2>1, <2>3, <2>6, Constants
  <2>8. \A i \in 2..QueueSize : longer[i + 1].reconnect # "idle"
        BY <1>1, <2>1, Constants DEF IdleAtHead
  <2>9. Enqueue(q, raw) = e
        BY <1>3 DEF Enqueue, b, rest
  <2> HIDE DEF e
  <2>10. DOMAIN e = 1..QueueSize /\ \A i \in 2..QueueSize : e[i].reconnect # "idle"
        BY <2>1, <2>7, <2>8, Constants
  <2>11. 1 \in DOMAIN e /\ (e[1].reconnect = "idle" => q[1].reconnect = "idle")
        BY <2>5, <2>7, <2>10, Constants
  <2> QED BY <2>1, <2>7, <2>9, <2>10, <2>11 DEF IdleAtHead
<1> QED BY <1>2, <1>3

\* What a rejected snapshot leaves in the queue.
Skipped(q) ==
    IF Len(q) = 1 THEN <<>>
    ELSE <<[q[2] EXCEPT !.jump = @ \/ (q[1].sound /\ q[1].jump),
                        !.reconnect = Worse(q[1].reconnect, @)]>> \o SubSeq(q, 3, Len(q))

LEMMA SkipKeepsQueue ==
    ASSUME NEW q \in Seq(Raw), Len(q) <= QueueSize, IdleAtHead(q), q # <<>>
    PROVE  /\ Skipped(q) \in Seq(Raw)
           /\ Len(Skipped(q)) <= QueueSize
           /\ IdleAtHead(Skipped(q))
           /\ \A i \in DOMAIN Skipped(q) :
                 Skipped(q)[i].reconnect = "idle" => q[1].reconnect = "idle"
<1>0. Len(q) \in Nat /\ DOMAIN q = 1..Len(q) /\ Len(q) >= 1 /\ 1 \in DOMAIN q
      OBVIOUS
<1>3. Len(q) # 1 => Len(q) >= 2 /\ 2 \in DOMAIN q
      BY ONLY <1>0
<1>5. \A i \in DOMAIN q : q[i] \in Raw
      OBVIOUS
<1>6. Len(q) # 1 => q[1] \in Raw /\ q[2] \in Raw
      BY <1>0, <1>3, <1>5
<1>4. ASSUME Len(q) # 1
      PROVE  /\ SubSeq(q, 3, Len(q)) \in Seq(Raw)
             /\ Len(SubSeq(q, 3, Len(q))) = Len(q) - 2
             /\ \A i \in 1..(Len(q) - 2) : SubSeq(q, 3, Len(q))[i] = q[i + 2]
  <2>1. 3 \in 1..(Len(q) + 1) /\ Len(q) \in (3 - 1)..Len(q) /\ Len(q) - 3 + 1 = Len(q) - 2
        BY ONLY <1>0, <1>3, <1>4
  <2>2. \A i \in 1..(Len(q) - 2) : 3 + i - 1 = i + 2
        BY ONLY <1>0
  <2> QED BY ONLY <2>1, <2>2, SubSeqProperties, q \in Seq(Raw)
<1>1. CASE Len(q) = 1
  <2>1. Skipped(q) = <<>>
        BY <1>1 DEF Skipped
  <2> QED BY <2>1, Constants DEF IdleAtHead
<1>2. CASE Len(q) # 1
  <2> DEFINE b == [q[2] EXCEPT !.jump = @ \/ (q[1].sound /\ q[1].jump),
                               !.reconnect = Worse(q[1].reconnect, @)]
             rest == SubSeq(q, 3, Len(q))
             e == <<b>> \o rest
  <2>1. Len(q) >= 2 /\ q[1] \in Raw /\ q[2] \in Raw
        BY <1>2, <1>3, <1>6
  <2>2. q[2].reconnect # "idle"
        BY <2>1 DEF IdleAtHead
  <2>3. (q[2].jump \/ (q[1].sound /\ q[1].jump)) \in BOOLEAN
        OBVIOUS
  <2>4. Worse(q[1].reconnect, q[2].reconnect) \in Reconnect
        BY <2>1, RawFields, WorseIsReconnect
  <2>5. b \in Raw /\ b.reconnect = Worse(q[1].reconnect, q[2].reconnect)
        BY <2>1, <2>3, <2>4 DEF Raw
  <2>6. b.reconnect = "idle" => q[1].reconnect = "idle"
        BY <2>1, <2>2, <2>5, RawFields, WorseIsReconnect
  <2> HIDE DEF b
  <2>7. /\ rest \in Seq(Raw)
        /\ Len(rest) = Len(q) - 2
        /\ \A i \in 1..Len(rest) : rest[i] = q[i + 2]
        BY <1>2, <1>4
  <2> HIDE DEF rest
  <2>8. /\ e \in Seq(Raw)
        /\ Len(e) = Len(q) - 1
        /\ \A i \in 1..Len(e) : e[i] = IF i = 1 THEN b ELSE q[i + 1]
        BY <2>1, <2>5, <2>7
  <2> HIDE DEF e
  <2>9. DOMAIN e = 1..Len(e) /\ \A i \in 2..Len(e) : e[i].reconnect # "idle"
        BY <2>1, <2>8 DEF IdleAtHead
  <2>10. 1 \in DOMAIN e /\ (e[1].reconnect = "idle" => q[1].reconnect = "idle")
        BY <2>1, <2>6, <2>8, <2>9
  <2>11. Skipped(q) = e
        BY <1>2 DEF Skipped, e, b, rest
  <2>12. IdleAtHead(e) /\ Len(e) <= QueueSize
        BY <1>0, <2>8, <2>9, Constants DEF IdleAtHead
  <2>13. \A i \in DOMAIN e : e[i].reconnect = "idle" => q[1].reconnect = "idle"
        BY <2>9, <2>10, <2>12 DEF IdleAtHead
  <2> QED BY <2>8, <2>11, <2>12, <2>13
<1> QED BY <1>1, <1>2

LEMMA TailKeepsQueue ==
    ASSUME NEW q \in Seq(Raw), Len(q) <= QueueSize, IdleAtHead(q), q # <<>>
    PROVE  /\ Tail(q) \in Seq(Raw)
           /\ Len(Tail(q)) <= QueueSize
           /\ \A i \in DOMAIN Tail(q) : Tail(q)[i].reconnect # "idle"
<1>1. /\ Tail(q) \in Seq(Raw)
      /\ Len(Tail(q)) = Len(q) - 1
      /\ DOMAIN Tail(q) = 1..Len(Tail(q))
      /\ \A i \in 1..Len(Tail(q)) : Tail(q)[i] = q[i + 1]
      OBVIOUS
<1> QED BY <1>1, Constants DEF IdleAtHead

----------------------------------------------------------------------------
(* The invariants.                                                         *)

QueueOK ==
    /\ queue \in Seq(Raw) /\ Len(queue) <= QueueSize
    /\ volume \in Volumes
    /\ reconnected \in Reconnect /\ inHand \in Reconnect

\* A reconnect that found the engine idle is known to it, and precedes everything
\* that is waiting, until the snapshot after it is taken up and the reason read.
IdleIsPending ==
    /\ reconnected = "idle" => queue = <<>> /\ pending /\ step = "idle"
    /\ IdleAtHead(queue)
    /\ \A i \in DOMAIN queue : queue[i].reconnect = "idle" => pending /\ step = "idle"
    /\ step \in {"accepted", "noticed"} /\ inHand = "idle" => pending

\* A tradable snapshot comes from a warm engine.
WarmWhenTradable ==
    /\ count \in 0..Warmup
    /\ phase = "OPEN" => count >= Warmup
    /\ step = "assessed" /\ tradable => count >= Warmup

\* While a snapshot is assessed no gap waits that is not also recent.
GapsAreRecent ==
    /\ tradable => step = "assessed"
    /\ notifying => recent
    /\ step \in {"cleared", "counted"} /\ pending => recent
    /\ tradable => ~knewGap

\* A report waits for its reset: as a pending reason, or in the reset under way.
ReportsWait ==
    /\ unanswered => pending \/ step = "cleared"
    /\ due => unanswered /\ step \in {"accepted", "noticed", "cleared"}

IInv == /\ QueueOK /\ IdleIsPending /\ WarmWhenTradable /\ GapsAreRecent /\ ReportsWait
        /\ IdleReconnectIsNeverSpanned

LEMMA InitIInv == Init => IInv
<1> SUFFICES ASSUME Init PROVE IInv
    OBVIOUS
<1>1. QueueOK
      BY Constants DEF Init, QueueOK, Volumes, Reconnect
<1>2. IdleIsPending
      BY DEF Init, IdleIsPending, IdleAtHead
<1>3. WarmWhenTradable
  <2>1. count = 0 /\ phase = "WARMUP" /\ step = "idle"
        BY DEF Init
  <2> QED BY <2>1, Constants DEF WarmWhenTradable
<1>4. GapsAreRecent /\ ReportsWait
      BY DEF Init, GapsAreRecent, ReportsWait
<1>5. IdleReconnectIsNeverSpanned
      BY DEF Init, IdleReconnectIsNeverSpanned
<1> QED BY <1>1, <1>2, <1>3, <1>4, <1>5 DEF IInv

\* What an emission does, whatever is emitted.
LEMMA EmitPreserves ==
    ASSUME IInv, NEW distant \in Floor..Ceiling, NEW vol \in Volumes,
           NEW sound \in BOOLEAN, NEW jump \in BOOLEAN, Emit(distant, vol, sound, jump)
    PROVE  IInv'
<1> DEFINE raw == [step |-> distant, volume |-> vol, sound |-> sound, jump |-> jump,
                   reconnect |-> reconnected]
<1>1. raw \in Raw /\ raw.reconnect = reconnected
      BY DEF Raw, IInv, QueueOK
<1>2. raw.reconnect = "idle" => queue = <<>>
      BY <1>1 DEF IInv, IdleIsPending
<1>3. queue' = Enqueue(queue, raw) /\ volume' = vol /\ reconnected' = "none"
      BY DEF Emit
<1>4. UNCHANGED <<notifying, pending, inHand, recent, count, phase, step, tradable, knewGap,
                  spanned, unanswered, due>>
      BY DEF Emit, validatorVars, engineVars, reportVars, historyVars
<1> HIDE DEF raw
<1>5. /\ queue' \in Seq(Raw) /\ Len(queue') <= QueueSize /\ IdleAtHead(queue')
      /\ \A i \in DOMAIN queue' : queue'[i].reconnect = "idle" =>
             \/ raw.reconnect = "idle"
             \/ queue # <<>> /\ queue[1].reconnect = "idle"
      BY <1>1, <1>2, <1>3, EnqueueKeepsQueue DEF IInv, QueueOK, IdleIsPending
<1>6. QueueOK'
      BY <1>3, <1>4, <1>5 DEF IInv, QueueOK, Reconnect
<1>7. queue # <<>> => 1 \in DOMAIN queue
      BY DEF IInv, QueueOK
<1>8. IdleIsPending'
      BY <1>1, <1>3, <1>4, <1>5, <1>7 DEF IInv, IdleIsPending, IdleAtHead
<1>9. WarmWhenTradable'
      BY <1>4 DEF IInv, WarmWhenTradable
<1>10. GapsAreRecent' /\ ReportsWait'
      BY <1>4 DEF IInv, GapsAreRecent, ReportsWait
<1>11. IdleReconnectIsNeverSpanned'
      BY <1>4 DEF IInv, IdleReconnectIsNeverSpanned
<1> QED BY <1>6, <1>8, <1>9, <1>10, <1>11 DEF IInv

LEMMA FeedPreserves == IInv /\ (EmitOrdinary \/ EmitOdd) => IInv'
<1> SUFFICES ASSUME IInv, EmitOrdinary \/ EmitOdd
             PROVE  IInv'
    OBVIOUS
<1>1. /\ {1, -1, MaxSnapshotGap + 1, MaxStaleness + 1} \subseteq Floor..Ceiling
      /\ 0 \in Volumes /\ TRUE \in BOOLEAN /\ FALSE \in BOOLEAN
      BY Constants DEF Volumes
<1>2. volume \in Volumes
      BY DEF IInv, QueueOK
<1>3. PICK distant \in {1, -1, MaxSnapshotGap + 1, MaxStaleness + 1}, vol \in {volume, 0},
           sound \in BOOLEAN, jump \in BOOLEAN : Emit(distant, vol, sound, jump)
      BY DEF EmitOrdinary, EmitOdd
<1>4. distant \in Floor..Ceiling /\ vol \in Volumes
      BY <1>1, <1>2
<1> QED BY <1>3, <1>4, EmitPreserves

LEMMA NotifyPreserves == IInv /\ (NotifyStamps \/ NotifyFlags \/ GapAges) => IInv'
<1> SUFFICES ASSUME IInv, NotifyStamps \/ NotifyFlags \/ GapAges
             PROVE  IInv'
    OBVIOUS
<1>1. UNCHANGED <<queue, volume, inHand, count, phase, step, tradable, knewGap, spanned, due>>
      BY DEF NotifyStamps, NotifyFlags, GapAges, feedVars, reportVars, historyVars
<1>2. QueueOK'
  <2>1. reconnected' = reconnected \/ reconnected' = Reconnected
        BY DEF NotifyStamps, NotifyFlags, GapAges, feedVars
  <2>2. Reconnected \in Reconnect
        BY WorseIsReconnect DEF IInv, QueueOK, Reconnected, Reconnect
  <2> QED BY <1>1, <2>1, <2>2 DEF IInv, QueueOK
<1>3. IdleIsPending'
  <2>1. CASE NotifyFlags
    <3>1. pending' /\ reconnected' = Reconnected
          BY <2>1 DEF NotifyFlags
    <3>2. Reconnected = "idle" => queue = <<>> /\ step = "idle"
          BY DEF Reconnected, Worse, IInv, IdleIsPending
    <3> QED BY <1>1, <3>1, <3>2 DEF IInv, IdleIsPending, IdleAtHead
  <2>2. CASE NotifyStamps \/ GapAges
        BY <1>1, <2>2 DEF NotifyStamps, GapAges, feedVars, IInv, IdleIsPending, IdleAtHead
  <2> QED BY <2>1, <2>2
<1>4. WarmWhenTradable'
      BY <1>1 DEF IInv, WarmWhenTradable
<1>5. GapsAreRecent'
      BY <1>1 DEF IInv, GapsAreRecent, NotifyStamps, NotifyFlags, GapAges, feedVars
<1>6. ReportsWait'
      BY <1>1 DEF IInv, ReportsWait, NotifyStamps, NotifyFlags, GapAges, feedVars, historyVars
<1>7. IdleReconnectIsNeverSpanned'
      BY <1>1 DEF IInv, IdleReconnectIsNeverSpanned
<1> QED BY <1>2, <1>3, <1>4, <1>5, <1>6, <1>7 DEF IInv

LEMMA RejectPreserves == IInv /\ (RejectUnsound \/ RejectWithGap) => IInv'
<1> SUFFICES ASSUME IInv, RejectUnsound \/ RejectWithGap
             PROVE  IInv'
    OBVIOUS
<1> DEFINE raw == Head(queue)
<1>1. /\ step = "idle" /\ queue # <<>> /\ Skip(raw)
      /\ \/ pending' = pending /\ recent' = recent /\ unanswered' = unanswered
         \/ pending' /\ recent' /\ unanswered'
      BY DEF RejectUnsound, RejectWithGap
<1>2. /\ raw = queue[1] /\ raw \in Raw /\ 1 \in DOMAIN queue
      BY <1>1 DEF IInv, QueueOK
<1>3. /\ queue' = Skipped(queue)
      /\ reconnected' = IF Len(queue) = 1 THEN Worse(raw.reconnect, reconnected)
                        ELSE reconnected
      /\ UNCHANGED <<volume, notifying, inHand, count, phase, step, tradable, knewGap, spanned,
                     due>>
      BY <1>1, <1>2 DEF Skip, Skipped, reportVars
<1>4. /\ queue' \in Seq(Raw) /\ Len(queue') <= QueueSize /\ IdleAtHead(queue')
      /\ \A i \in DOMAIN queue' : queue'[i].reconnect = "idle" => queue[1].reconnect = "idle"
      BY <1>1, <1>3, SkipKeepsQueue DEF IInv, QueueOK, IdleIsPending
<1> HIDE DEF raw
<1>5. raw.reconnect \in Reconnect /\ reconnected \in Reconnect
      BY <1>2, RawFields DEF IInv, QueueOK
<1>6. QueueOK'
      BY <1>3, <1>4, <1>5, WorseIsReconnect DEF IInv, QueueOK
<1>7. queue[1].reconnect = "idle" => pending
      BY <1>2 DEF IInv, IdleIsPending
<1>8. reconnected # "idle"
      BY <1>1 DEF IInv, IdleIsPending
<1>9. reconnected' = "idle" => queue' = <<>> /\ pending
  <2>1. CASE Len(queue) = 1
        BY <1>2, <1>3, <1>5, <1>7, <1>8, <2>1, WorseIsReconnect DEF Skipped
  <2>2. CASE Len(queue) # 1
        BY <1>3, <1>8, <2>2
  <2> QED BY <2>1, <2>2
<1>10. IdleIsPending'
      BY <1>1, <1>3, <1>4, <1>7, <1>9 DEF IdleIsPending
<1>11. WarmWhenTradable'
      BY <1>3 DEF IInv, WarmWhenTradable
<1>12. GapsAreRecent' /\ ReportsWait'
      BY <1>1, <1>3 DEF IInv, GapsAreRecent, ReportsWait
<1>13. IdleReconnectIsNeverSpanned'
      BY <1>3 DEF IInv, IdleReconnectIsNeverSpanned
<1> QED BY <1>6, <1>10, <1>11, <1>12, <1>13 DEF IInv

\* A snapshot is taken up: the mark of an idle reconnect goes from the queue to it.
LEMMA AcceptPreserves == IInv /\ Accept => IInv'
<1> SUFFICES ASSUME IInv, Accept
             PROVE  IInv'
    OBVIOUS
<1>1. /\ step = "idle" /\ queue # <<>>
      /\ queue' = Tail(queue) /\ step' = "accepted" /\ inHand' = Head(queue).reconnect
      /\ (pending => pending') /\ (recent => recent')
      /\ (unanswered' => unanswered \/ pending') /\ (due' => unanswered')
      /\ UNCHANGED <<volume, reconnected, notifying, count, phase, tradable, knewGap, spanned>>
      BY DEF Accept
<1>2. /\ Head(queue) = queue[1] /\ Head(queue) \in Raw /\ 1 \in DOMAIN queue
      BY <1>1 DEF IInv, QueueOK
<1>3. /\ queue' \in Seq(Raw) /\ Len(queue') <= QueueSize
      /\ \A i \in DOMAIN queue' : queue'[i].reconnect # "idle"
      BY <1>1, TailKeepsQueue DEF IInv, QueueOK, IdleIsPending
<1>4. QueueOK'
      BY <1>1, <1>2, <1>3, RawFields DEF IInv, QueueOK
<1>5. inHand' = "idle" => pending
      BY <1>1, <1>2 DEF IInv, IdleIsPending
<1>6. IdleIsPending'
      BY <1>1, <1>3, <1>5 DEF IInv, IdleIsPending, IdleAtHead
<1>7. WarmWhenTradable'
      BY <1>1 DEF IInv, WarmWhenTradable
<1>8. GapsAreRecent' /\ ReportsWait'
      BY <1>1 DEF IInv, GapsAreRecent, ReportsWait
<1>9. IdleReconnectIsNeverSpanned'
      BY <1>1 DEF IInv, IdleReconnectIsNeverSpanned
<1> QED BY <1>4, <1>6, <1>7, <1>8, <1>9 DEF IInv

\* The engine's own steps leave the queue alone; its marks matter only when idle.
LEMMA QueueLeftAlone ==
    ASSUME QueueOK, IdleIsPending, step # "idle",
           UNCHANGED <<queue, volume, reconnected, inHand>>,
           step' \in {"accepted", "noticed"} => step \in {"accepted", "noticed"} /\ pending' = pending
    PROVE  QueueOK' /\ IdleIsPending'
<1>1. QueueOK'
      BY DEF QueueOK
<1>2. reconnected # "idle" /\ \A i \in DOMAIN queue : queue[i].reconnect # "idle"
      BY DEF IdleIsPending
<1>3. IdleIsPending'
      BY <1>2 DEF IdleIsPending, IdleAtHead
<1> QED BY <1>1, <1>3

\* The steps on the pending reason, and the two ways to count a snapshot.
LEMMA CountPreserves == IInv /\ (Continue \/ ConsumeGap) => IInv'
<1> SUFFICES ASSUME IInv, Continue \/ ConsumeGap
             PROVE  IInv'
    OBVIOUS
<1>0. CASE Continue
  <2>1. /\ step = "accepted" /\ ~pending /\ step' = "counted"
        /\ count' = IF count < Warmup THEN count + 1 ELSE count
        /\ spanned' = spanned \cup (IF count = 0 THEN {} ELSE {inHand} \ {"none"})
        /\ UNCHANGED <<queue, volume, reconnected, inHand, notifying, pending, recent, phase,
                       tradable, knewGap, unanswered, due>>
        BY <1>0 DEF Continue, feedVars
  <2>2. QueueOK' /\ IdleIsPending'
        BY <2>1, QueueLeftAlone DEF IInv
  <2>3. inHand # "idle"
        BY <2>1 DEF IInv, IdleIsPending
  <2>4. IdleReconnectIsNeverSpanned'
        BY <2>1, <2>3 DEF IInv, IdleReconnectIsNeverSpanned
  <2>5. WarmWhenTradable'
        BY <2>1, Constants DEF IInv, WarmWhenTradable
  <2>6. GapsAreRecent' /\ ReportsWait'
        BY <2>1 DEF IInv, GapsAreRecent, ReportsWait
  <2> QED BY <2>2, <2>4, <2>5, <2>6 DEF IInv
<1>1. CASE FindReason \/ ClearReason
  <2>1. /\ \/ step = "accepted" /\ pending /\ step' = "noticed" /\ pending' = pending
           \/ step = "noticed" /\ step' = "cleared" /\ pending' = FALSE
        /\ UNCHANGED <<queue, volume, reconnected, inHand, notifying, recent, count, phase,
                       tradable, knewGap, spanned, unanswered, due>>
        BY <1>1 DEF FindReason, ClearReason, feedVars, historyVars
  <2>2. QueueOK' /\ IdleIsPending'
        BY <2>1, QueueLeftAlone DEF IInv
  <2>3. WarmWhenTradable'
        BY <2>1 DEF IInv, WarmWhenTradable
  <2>4. GapsAreRecent' /\ ReportsWait'
        BY <2>1 DEF IInv, GapsAreRecent, ReportsWait
  <2>5. IdleReconnectIsNeverSpanned'
        BY <2>1 DEF IInv, IdleReconnectIsNeverSpanned
  <2> QED BY <2>2, <2>3, <2>4, <2>5 DEF IInv
<1>2. CASE ForceFlat
  <2>1. /\ step = "cleared" /\ step' = "counted" /\ phase' = "WARMUP" /\ count' = 1
        /\ spanned' = {} /\ unanswered' = FALSE /\ due' = FALSE
        /\ UNCHANGED <<queue, volume, reconnected, inHand, notifying, pending, recent,
                       tradable, knewGap>>
        BY <1>2 DEF ForceFlat, Reset, feedVars
  <2>2. QueueOK' /\ IdleIsPending'
        BY <2>1, QueueLeftAlone DEF IInv
  <2>3. WarmWhenTradable'
        BY <2>1, Constants DEF WarmWhenTradable
  <2>4. GapsAreRecent' /\ ReportsWait' /\ IdleReconnectIsNeverSpanned'
        BY <2>1 DEF IInv, GapsAreRecent, ReportsWait, IdleReconnectIsNeverSpanned
  <2> QED BY <2>2, <2>3, <2>4 DEF IInv
<1> QED BY <1>0, <1>1, <1>2 DEF ConsumeGap

LEMMA DecisionPreserves == IInv /\ (Assess \/ Decide) => IInv'
<1> SUFFICES ASSUME IInv, Assess \/ Decide
             PROVE  IInv'
    OBVIOUS
<1>1. /\ step \in {"counted", "assessed"} /\ step' \in {"assessed", "idle"}
      /\ UNCHANGED <<queue, volume, reconnected, inHand, notifying, pending, recent, count,
                     spanned, unanswered, due>>
      BY DEF Assess, Decide, feedVars, validatorVars, historyVars
<1>2. QueueOK' /\ IdleIsPending'
      BY <1>1, QueueLeftAlone DEF IInv
<1>3. ReportsWait' /\ IdleReconnectIsNeverSpanned'
      BY <1>1 DEF IInv, ReportsWait, IdleReconnectIsNeverSpanned
<1>4. CASE Assess
  <2>1. /\ step = "counted" /\ step' = "assessed" /\ phase' = phase
        /\ tradable' = (Warm /\ ~recent) /\ knewGap' = pending
        BY <1>4 DEF Assess
  <2>2. WarmWhenTradable'
    <3>1. tradable' => Warm
          BY <2>1
    <3> QED BY <1>1, <2>1, <3>1 DEF IInv, WarmWhenTradable, Warm
  <2>3. GapsAreRecent'
        BY <1>1, <2>1 DEF IInv, GapsAreRecent
  <2> QED BY <1>2, <1>3, <2>2, <2>3 DEF IInv
<1>5. CASE Decide
  <2>1. /\ step = "assessed" /\ step' = "idle" /\ tradable' = FALSE
        /\ phase' = "OPEN" => phase = "OPEN" \/ tradable
        BY <1>5 DEF Decide
  <2>2. WarmWhenTradable'
        BY <1>1, <2>1 DEF IInv, WarmWhenTradable
  <2>3. GapsAreRecent'
        BY <1>1, <2>1 DEF IInv, GapsAreRecent
  <2> QED BY <1>2, <1>3, <2>2, <2>3 DEF IInv
<1> QED BY <1>4, <1>5

LEMMA NextIInv == IInv /\ [Next]_vars => IInv'
<1> SUFFICES ASSUME IInv, [Next]_vars
             PROVE  IInv'
    OBVIOUS
<1>1. CASE UNCHANGED vars
  <2>1. UNCHANGED <<queue, volume, reconnected, inHand, notifying, pending, recent, count,
                    phase, step, tradable, knewGap, spanned, unanswered, due>>
        BY <1>1 DEF vars, feedVars, engineVars, reportVars, historyVars
  <2>2. QueueOK' /\ IdleIsPending' /\ IdleReconnectIsNeverSpanned'
        BY <2>1 DEF IInv, QueueOK, IdleIsPending, IdleAtHead, IdleReconnectIsNeverSpanned
  <2>3. WarmWhenTradable' /\ GapsAreRecent' /\ ReportsWait'
        BY <2>1 DEF IInv, WarmWhenTradable, GapsAreRecent, ReportsWait
  <2> QED BY <2>2, <2>3 DEF IInv
<1> QED BY <1>1, FeedPreserves, NotifyPreserves, RejectPreserves, AcceptPreserves,
           CountPreserves, DecisionPreserves DEF Next, Process

LEMMA Invariance == Spec => []IInv
BY InitIInv, NextIInv, PTL DEF Spec

----------------------------------------------------------------------------
(* Types: what the invariant says nothing of.                              *)

FlagsOK ==
    /\ notifying \in BOOLEAN /\ hasHistory \in BOOLEAN /\ pending \in BOOLEAN
    /\ recent \in BOOLEAN /\ tradable \in BOOLEAN /\ knewGap \in BOOLEAN
    /\ phase \in {"WARMUP", "FLAT", "OPEN"}
    /\ step \in ProcessStep
    /\ spanned \subseteq Reconnect /\ unanswered \in BOOLEAN /\ due \in BOOLEAN

HistoryOK ==
    /\ oddities \in 0..MaxOddities
    /\ distance \in Floor..Ceiling
    /\ lastVolume \in Volumes

LEMMA FlagsPreserved == QueueOK /\ FlagsOK /\ [Next]_vars => FlagsOK'
<1> SUFFICES ASSUME QueueOK, FlagsOK, [Next]_vars
             PROVE  FlagsOK'
    OBVIOUS
<1> USE DEF FlagsOK, ProcessStep
<1>1. CASE EmitOrdinary \/ EmitOdd
  <2>1. UNCHANGED <<notifying, validatorVars, engineVars>>
        BY <1>1 DEF EmitOrdinary, EmitOdd, Emit
  <2> QED BY <2>1 DEF validatorVars, engineVars, reportVars, historyVars
<1>2. CASE NotifyStamps \/ NotifyFlags \/ GapAges
  <2>1. /\ notifying' = notifying \/ notifying' = TRUE \/ notifying' = FALSE
        /\ pending' = pending \/ pending' = TRUE
        /\ recent' = recent \/ recent' = TRUE \/ recent' = FALSE
        /\ unanswered' = unanswered \/ unanswered' = TRUE
        /\ UNCHANGED <<hasHistory, tradable, knewGap, phase, step, spanned, due>>
        BY <1>2 DEF NotifyStamps, NotifyFlags, GapAges, feedVars, validatorVars, reportVars,
                    historyVars
  <2>2. /\ notifying' \in BOOLEAN /\ pending' \in BOOLEAN /\ recent' \in BOOLEAN
        /\ unanswered' \in BOOLEAN
        BY <2>1
  <2> QED BY <2>1, <2>2
<1>3. CASE RejectUnsound \/ RejectWithGap
      BY <1>3 DEF RejectUnsound, RejectWithGap, Skip, reportVars
<1>4. CASE Accept
  <2>1. /\ step' = "accepted" /\ hasHistory' = TRUE
        /\ UNCHANGED <<notifying, phase, tradable, knewGap, spanned>>
        BY <1>4 DEF Accept
  <2>2. /\ pending' \in BOOLEAN /\ recent' \in BOOLEAN /\ unanswered' \in BOOLEAN
        /\ due' \in BOOLEAN
        BY <1>4, ZenonT(30) DEF Accept
  <2> QED BY <2>1, <2>2
<1>5. CASE Continue
  <2>1. /\ step' = "counted" /\ spanned' \subseteq spanned \cup {inHand}
        /\ UNCHANGED <<notifying, hasHistory, pending, recent, phase, tradable, knewGap,
                       unanswered, due>>
        BY <1>5 DEF Continue, feedVars, validatorVars
  <2>2. spanned' \subseteq Reconnect
        BY <2>1 DEF QueueOK
  <2> QED BY <2>1, <2>2
<1>6. CASE ConsumeGap
      BY <1>6 DEF ConsumeGap, FindReason, ClearReason, ForceFlat, Reset, feedVars,
                  validatorVars, historyVars
<1>7. CASE Assess
  <2>1. /\ step' = "assessed" /\ tradable' \in BOOLEAN /\ knewGap' = pending
        /\ UNCHANGED <<notifying, hasHistory, pending, recent, phase, spanned, unanswered, due>>
        BY <1>7 DEF Assess, feedVars, validatorVars, historyVars
  <2> QED BY <2>1
<1>8. CASE Decide
  <2>1. /\ step' = "idle" /\ tradable' = FALSE /\ knewGap' = FALSE
        /\ phase' \in {"WARMUP", "FLAT", "OPEN"}
        /\ UNCHANGED <<notifying, hasHistory, pending, recent, spanned, unanswered, due>>
        BY <1>8 DEF Decide, feedVars, validatorVars, historyVars
  <2> QED BY <2>1
<1>9. CASE UNCHANGED vars
      BY <1>9 DEF vars, feedVars, validatorVars, engineVars, reportVars, historyVars
<1> QED BY <1>1, <1>2, <1>3, <1>4, <1>5, <1>6, <1>7, <1>8, <1>9 DEF Next, Process

LEMMA HistoryPreserved == QueueOK /\ HistoryOK /\ [Next]_vars => HistoryOK'
<1> SUFFICES ASSUME QueueOK, HistoryOK, [Next]_vars
             PROVE  HistoryOK'
    OBVIOUS
<1> USE DEF HistoryOK
<1>1. ASSUME queue # <<>>
      PROVE  Delta(Head(queue)) \in Floor..Ceiling /\ Head(queue).volume \in Volumes
  <2>1. Head(queue) \in Raw
        BY <1>1 DEF QueueOK
  <2>2. distance + Head(queue).step \in Int
        BY <2>1, RawFields, Constants
  <2> QED BY <2>1, <2>2, RawFields, SaturateInRange DEF Delta
<1>2. oddities' = oddities \/ Misbehave
      BY DEF Next, EmitOrdinary, EmitOdd, NotifyStamps, NotifyFlags, GapAges, Process,
             RejectUnsound, RejectWithGap, Skip, Accept, Continue, ConsumeGap, FindReason,
             ClearReason, ForceFlat, Reset, Assess, Decide, vars,
             feedVars
<1>3. \/ distance' = distance
      \/ distance' = 0
      \/ queue # <<>> /\ distance' = Delta(Head(queue))
      BY DEF Next, EmitOrdinary, EmitOdd, Emit, NotifyStamps, NotifyFlags, GapAges, Process,
             RejectUnsound, RejectWithGap, Skip, Accept, Continue, ConsumeGap, FindReason,
             ClearReason, ForceFlat, Reset, Assess, Decide, vars,
             validatorVars
<1>4. \/ lastVolume' = lastVolume
      \/ queue # <<>> /\ lastVolume' = Head(queue).volume
      BY DEF Next, EmitOrdinary, EmitOdd, Emit, NotifyStamps, NotifyFlags, GapAges, Process,
             RejectUnsound, RejectWithGap, Skip, Accept, Continue, ConsumeGap, FindReason,
             ClearReason, ForceFlat, Reset, Assess, Decide, vars,
             validatorVars
<1>5. oddities' \in 0..MaxOddities
      BY ONLY <1>2, HistoryOK, Constants DEF Misbehave
<1>6. distance' \in Floor..Ceiling
      BY ONLY <1>1, <1>3, HistoryOK, Constants
<1>7. lastVolume' \in Volumes
      BY <1>1, <1>4
<1> QED BY <1>5, <1>6, <1>7

----------------------------------------------------------------------------
(* The theorems.                                                           *)

\* Distances stay within their saturation, the queue within its capacity and the
\* estimators' count within the warm-up.
THEOREM TypeCorrect == Spec => []TypeOK
<1>1. Init => FlagsOK
      BY DEF Init, FlagsOK, ProcessStep
<1>2. Init => HistoryOK
  <2> SUFFICES ASSUME Init PROVE HistoryOK
      OBVIOUS
  <2>1. oddities = 0 /\ distance = 0 /\ lastVolume = 0
        BY DEF Init
  <2> QED BY <2>1, Constants DEF HistoryOK, Volumes
<1>3. IInv => QueueOK
      BY DEF IInv
<1>4. Spec => [](FlagsOK /\ HistoryOK)
      BY <1>1, <1>2, <1>3, Invariance, FlagsPreserved, HistoryPreserved, PTL DEF Spec
<1>5. IInv /\ FlagsOK /\ HistoryOK => TypeOK
  <2> SUFFICES ASSUME IInv, FlagsOK, HistoryOK PROVE TypeOK
      OBVIOUS
  <2>1. count \in 0..Warmup
        BY DEF IInv, WarmWhenTradable
  <2> QED BY <2>1 DEF IInv, QueueOK, FlagsOK, HistoryOK, TypeOK
<1> QED BY <1>4, <1>5, Invariance, PTL

\* Every gap reported before a snapshot was taken up is answered by a reset before
\* that snapshot is counted (quant_engine.py:444, 456-462).
THEOREM NoReportIsLostHolds == Spec => []NoReportIsLost
<1>1. IInv => NoReportIsLost
      BY DEF IInv, ReportsWait, NoReportIsLost
<1> QED BY <1>1, Invariance, PTL

\* A reconnect that found the engine idle is followed by a reset before any
\* snapshot of the new session is counted.
THEOREM IdleReconnectHolds == Spec => []IdleReconnectIsNeverSpanned
<1>1. IInv => IdleReconnectIsNeverSpanned
      BY DEF IInv
<1> QED BY <1>1, Invariance, PTL

\* No position survives on statistics that were reset under it.
THEOREM OpenRestsOnWarmStatisticsHolds == Spec => []OpenRestsOnWarmStatistics
<1>1. IInv => OpenRestsOnWarmStatistics
      BY DEF IInv, WarmWhenTradable, OpenRestsOnWarmStatistics, Warm
<1> QED BY <1>1, Invariance, PTL

\* A position is never opened on an assessment made while a gap was waiting.
THEOREM NoEntryOnKnownGapHolds == Spec => NoEntryOnKnownGap
<1>1. IInv /\ [Next]_vars => (phase # "OPEN" /\ phase' = "OPEN" => ~knewGap)
  <2> SUFFICES ASSUME IInv, [Next]_vars, phase # "OPEN", phase' = "OPEN"
               PROVE  ~knewGap
      OBVIOUS
  <2>1. CASE Decide
        BY <2>1 DEF Decide, IInv, GapsAreRecent
  <2>2. ~ForceFlat
        BY DEF ForceFlat
  <2>3. ~(UNCHANGED phase)
        OBVIOUS
  <2>4. ~(EmitOrdinary \/ EmitOdd \/ NotifyStamps \/ NotifyFlags \/ GapAges \/ RejectUnsound
            \/ RejectWithGap \/ Accept \/ Continue \/ FindReason \/ ClearReason \/ Assess
            \/ UNCHANGED vars)
        BY <2>3 DEF EmitOrdinary, EmitOdd, Emit, NotifyStamps, NotifyFlags, GapAges,
                    RejectUnsound, RejectWithGap, Skip, Accept, Continue, FindReason,
                    ClearReason, Assess, vars, engineVars
  <2> QED BY <2>1, <2>2, <2>4 DEF Next, Process, ConsumeGap
<1> QED BY <1>1, Invariance, PTL DEF Spec, NoEntryOnKnownGap
==============================================================================
