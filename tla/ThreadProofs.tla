----------------------------- MODULE ThreadProofs -----------------------------
(***************************************************************************)
(* Proofs about the threads at either end of the queue: the supervisor of  *)
(* the feed (FeedAdapter) and the engine's thread (EngineRunner).  They    *)
(* share no variable here: what one sees of the other is in each module.   *)
(***************************************************************************)
EXTENDS FeedAdapter, EngineRunner, TLAPS

----------------------------------------------------------------------------
(* FeedAdapter, for every limit, delay and factor.                         *)

\* The session's flag is gone before the supervisor leaves the loop's body; the
\* way out of the loop closes the queue last.
SupervisorControl ==
    /\ ConnectedOnlyInSession
    /\ GivesUpOnlyAtLimit
    /\ CleanCloseResetsBackoff
    /\ sup = "exited" => queueClosed
    /\ sup \in {"login", "retry"} => loginTry >= 1
    /\ sup = "login" => loginTry <= LoginAttempts
    /\ sup = "retry" => loginTry < LoginAttempts
    /\ sup = "none" => ~stopEvent

SupervisorInv == TypeOK /\ SupervisorControl

LEMMA Constants ==
    /\ LoginAttempts \in Nat /\ MaxReconnects \in Nat /\ DelayInitial \in Nat
    /\ DelayMax \in Nat /\ DelayFactor \in Nat /\ MaxStops \in Nat /\ CountLimit \in Nat
    /\ 1 <= LoginAttempts /\ DelayInitial < DelayMax /\ 1 <= DelayFactor
BY AdapterAssumption

LEMMA InitIsGood == Init => SupervisorInv
<1> SUFFICES ASSUME Init PROVE SupervisorInv
    OBVIOUS
<1>1. TypeOK
  <2>1. /\ attempt \in 0..CountLimit /\ loginTry \in 0..LoginAttempts
        /\ sessions \in 0..CountLimit /\ stops \in 0..MaxStops
        /\ delay \in DelayInitial..DelayMax
        BY Constants DEF Init
  <2> QED BY <2>1 DEF Init, TypeOK, SupervisorStep, StopStep
<1>2. SupervisorControl
      BY DEF Init, SupervisorControl, ConnectedOnlyInSession, GivesUpOnlyAtLimit,
             CleanCloseResetsBackoff
<1> QED BY <1>1, <1>2 DEF SupervisorInv

\* min(delay_ms * reconnect_multiplier, reconnect_max_ms) keeps the back-off in
\* its range and never shortens it (angel_v2.py:298).
LEMMA BackoffGrows ==
    ASSUME NEW d \in DelayInitial..DelayMax
    PROVE  Backoff(d) \in DelayInitial..DelayMax /\ d <= Backoff(d)
<1>1. d \in Nat /\ DelayFactor \in Nat /\ DelayInitial \in Nat /\ DelayMax \in Nat
      BY AdapterAssumption
<1>2. d <= d * DelayFactor
  <2>1. PICK k \in Nat : DelayFactor = 1 + k
        BY <1>1, AdapterAssumption
  <2>2. d * DelayFactor = d + d * k /\ d * k \in Nat
        BY <1>1, <2>1
  <2> QED BY <1>1, <2>2
<1>3. d * DelayFactor \in Nat
      BY <1>1
<1> QED BY <1>1, <1>2, <1>3 DEF Backoff

LEMMA NextIsGood == SupervisorInv /\ [Next]_vars => SupervisorInv'
<1> SUFFICES ASSUME SupervisorInv, [Next]_vars PROVE SupervisorInv'
    OBVIOUS
<1> USE Constants
    DEF SupervisorInv, TypeOK, SupervisorControl, ConnectedOnlyInSession, GivesUpOnlyAtLimit,
        CleanCloseResetsBackoff, SupervisorStep, StopStep, supVars, socketVars, stopVars
<1>1. CASE Start
      BY <1>1 DEF Start
<1>2. CASE LoopHead
      BY <1>2 DEF LoopHead, CountUp
<1>3. CASE LibraryMissing
      BY <1>3 DEF LibraryMissing
<1>4. CASE Login
      BY <1>4, ZenonT(30) DEF Login
<1>5. CASE LoginRetry
  <2>1. CASE stopEvent
        BY <1>5, <2>1 DEF LoginRetry
  <2>2. CASE ~stopEvent
    <3>1. loginTry' \in 2..LoginAttempts
          BY <1>5, <2>2 DEF LoginRetry
    <3> QED BY <1>5, <2>2, <3>1 DEF LoginRetry
  <2> QED BY <2>1, <2>2
<1>6. CASE CreateSocket
      BY <1>6 DEF CreateSocket
<1>7. CASE Connect
      BY <1>7 DEF Connect
<1>8. CASE OnOpen
  <2>1. sessions' \in 0..CountLimit
        BY <1>8 DEF OnOpen, CountUp
  <2>2. connected' \in BOOLEAN
        BY <1>8 DEF OnOpen
  <2> QED BY <1>8, <2>1, <2>2 DEF OnOpen
<1>9. CASE OnError
      BY <1>9 DEF OnError
<1>10. CASE \E wanted \in BOOLEAN : SessionEnds(wanted)
      BY <1>10, ZenonT(30) DEF SessionEnds
<1>11. CASE AfterSession
  <2>1. delay' \in DelayInitial..DelayMax
        BY <1>11 DEF AfterSession
  <2>2. clean => delay' = DelayInitial
        BY <1>11 DEF AfterSession
  <2>3. sup' = "finish" => stopEvent \/ (MaxReconnects > 0 /\ attempt >= MaxReconnects)
        BY <1>11 DEF AfterSession, AfterSessionGoesTo
  <2>4. sup' \in {"finish", "wait"} /\ ~connected'
        BY <1>11 DEF AfterSession, AfterSessionGoesTo
  <2> QED BY <1>11, <2>1, <2>2, <2>3, <2>4, ZenonT(60) DEF AfterSession, AfterSessionGoesTo
<1>12. CASE BackoffWait
  <2>1. Backoff(delay) \in DelayInitial..DelayMax
        BY BackoffGrows
  <2> QED BY <1>12, <2>1 DEF BackoffWait
<1>13. CASE Finish
      BY <1>13 DEF Finish
<1>14. CASE StopSetsEvent
  <2>1. closeFailed' = FALSE /\ closeFailed' \in BOOLEAN
        BY <1>14 DEF StopSetsEvent
  <2>2. stops' \in 0..MaxStops
        BY <1>14 DEF StopSetsEvent
  <2>3. UNCHANGED <<supVars, queueClosed>>
        BY <1>14 DEF StopSetsEvent
  <2> QED BY <1>14, <2>1, <2>2, <2>3 DEF StopSetsEvent
<1>15. CASE StopRuns
  <2>1. CASE StopReadsSocket
        BY <2>1 DEF StopReadsSocket
  <2>2. CASE StopClosesSocket
    <3>1. closeAsked' \in BOOLEAN
          BY <2>2, Zenon DEF StopClosesSocket
    <3>2. closeFailed' \in BOOLEAN
          BY <2>2 DEF StopClosesSocket
    <3>3. stopAt' = "queue"
          BY <2>2 DEF StopClosesSocket
    <3>4. UNCHANGED <<supVars, socket, connected, sessions, stopEvent, stopHolds, stops,
                      queueClosed>>
          BY <2>2 DEF StopClosesSocket
    <3> QED BY <3>1, <3>2, <3>3, <3>4
  <2>3. CASE StopClosesQueue
        BY <2>3 DEF StopClosesQueue
  <2>4. CASE StopJoins
        BY <2>4 DEF StopJoins
  <2> QED BY <1>15, <2>1, <2>2, <2>3, <2>4 DEF StopRuns
<1>16. CASE UNCHANGED vars
      BY <1>16 DEF vars
<1> QED BY <1>1, <1>2, <1>3, <1>4, <1>5, <1>6, <1>7, <1>8, <1>9, <1>10, <1>11, <1>12,
           <1>13, <1>14, <1>15, <1>16 DEF Next, SupervisorRuns

LEMMA SupervisorInvariance == Spec => []SupervisorInv
BY InitIsGood, NextIsGood, PTL DEF Spec

----------------------------------------------------------------------------
(* The theorems.                                                           *)

\* Attempts, login tries and back-offs stay in their ranges.
THEOREM TypeCorrect == Spec => []TypeOK
<1>1. SupervisorInv => TypeOK
      BY DEF SupervisorInv
<1> QED BY <1>1, SupervisorInvariance, PTL

\* Although neither callback that clears the connected flag need run, the flag
\* does not outlive its session (the finally of angel_v2.py:282).
THEOREM ConnectedOnlyInSessionHolds == Spec => []ConnectedOnlyInSession
<1>1. SupervisorInv => ConnectedOnlyInSession
      BY DEF SupervisorInv, SupervisorControl
<1> QED BY <1>1, SupervisorInvariance, PTL

\* Without a stop the supervisor ends only at a configured limit
\* (angel_v2.py:286-293).
THEOREM GivesUpOnlyAtLimitHolds == Spec => []GivesUpOnlyAtLimit
<1>1. SupervisorInv => GivesUpOnlyAtLimit
      BY DEF SupervisorInv, SupervisorControl
<1> QED BY <1>1, SupervisorInvariance, PTL

\* The wait after a clean close is the initial one (angel_v2.py:273-276).
THEOREM CleanCloseResetsBackoffHolds == Spec => []CleanCloseResetsBackoff
<1>1. SupervisorInv => CleanCloseResetsBackoff
      BY DEF SupervisorInv, SupervisorControl
<1> QED BY <1>1, SupervisorInvariance, PTL

\* Nothing but a clean close shortens the back-off.
THEOREM OnlyCleanCloseShortensBackoffHolds == Spec => OnlyCleanCloseShortensBackoff
<1>1. SupervisorInv /\ [Next]_vars => [delay' < delay => sup = "after" /\ clean]_vars
  <2> SUFFICES ASSUME SupervisorInv, [Next]_vars, delay' < delay
               PROVE  sup = "after" /\ clean
      OBVIOUS
  <2>0. delay \in DelayInitial..DelayMax /\ delay \in Nat
        BY AdapterAssumption DEF SupervisorInv, TypeOK
  <2>1. CASE AfterSession
        BY <2>0, <2>1 DEF AfterSession, AfterSessionGoesTo
  <2>2. CASE BackoffWait
        BY <2>0, <2>2, BackoffGrows DEF BackoffWait
  <2>3. CASE delay' = delay
        BY <2>0, <2>3
  <2> QED BY <2>1, <2>2, <2>3
          DEF Next, SupervisorRuns, StopRuns, Start, LoopHead, LibraryMissing, Login,
              LoginRetry, CreateSocket, Connect, OnOpen, OnError, SessionEnds, Finish,
              StopSetsEvent, StopReadsSocket, StopClosesSocket, StopClosesQueue,
              StopJoins, vars, supVars
<1> QED BY <1>1, SupervisorInvariance, PTL DEF Spec, OnlyCleanCloseShortensBackoff

----------------------------------------------------------------------------
(* EngineRunner, for every limit, capacity and bound.                      *)

Running == {"install", "start", "pull", "polled", "inside", "handle"}
Guarded == {"stopSource", "join", "stopRenderer", "closeRecorder", "restore"}

RunnerTypeOK ==
    /\ at \in Running \cup {"stuck", "finally", "over"} \cup Guarded
    /\ stop \in BOOLEAN /\ ended \in BOOLEAN /\ installed \in BOOLEAN /\ midway \in BOOLEAN
    /\ recorder \in {"none", "open", "failed", "closed"}
    /\ frames \in {"off", "running", "ended", "failed"}
    /\ raised \in {"", "body", "close", "handler"}

CountersOK ==
    /\ latest \in Nat /\ processed \in Nat /\ shown \in Nat /\ lost \in Nat
    /\ fed \in Nat /\ dropped \in Nat /\ looked \in Nat /\ signals \in Nat
    /\ pending \in Int

\* What the loop owes: nothing is given up while it runs, and from a poll that
\* found the queue empty on, everything put before that poll was handled.
Accounts ==
    /\ fed = processed + InHand + lost + pending + dropped
    /\ at \in Running => lost = 0 /\ ~exhausted
    /\ exhausted => lost = 0
    /\ at = "polled" \/ exhausted => processed + dropped >= looked

\* What the shutdown has behind it at each of its steps.
ShutdownProgress ==
    /\ at \in Guarded \cup {"over"} => stop
    /\ at = "restore" => recorder # "open"
    /\ at = "over" /\ recorder = "open" => raised = "handler"
    /\ at = "over" /\ installed => raised \in {"close", "handler"}

\* A stop met before a snapshot is handled keeps it from being handled, so that
\* after the final frame only a snapshot handled midway can publish an output.
LastFrame ==
    /\ at = "handle" /\ stop => midway
    /\ frames = "ended" => stop
    /\ frames = "ended" /\ ~midway => shown = latest

RunnerControl == RunnerTypeOK /\ ShutdownProgress /\ LastFrame
RunnerInv == RunnerControl /\ CountersOK /\ Accounts

LEMMA RunnerInitIsGood == RunnerInit => RunnerInv
<1> SUFFICES ASSUME RunnerInit PROVE RunnerInv
    OBVIOUS
<1>1. /\ latest = 0 /\ processed = 0 /\ shown = 0 /\ fed = 0 /\ signals = 0 /\ pending = 0
      /\ lost = 0 /\ dropped = 0 /\ looked = 0 /\ exhausted = FALSE /\ at = "install"
      BY DEF RunnerInit
<1>2. CountersOK /\ Accounts
      BY <1>1 DEF CountersOK, Accounts, InHand
<1>3. RunnerControl
      BY DEF RunnerInit, RunnerControl, RunnerTypeOK, ShutdownProgress, LastFrame, Running,
             Guarded
<1> QED BY <1>2, <1>3 DEF RunnerInv

\* The three things a signal handler may do, told by what they change.
LEMMA SignalEffects ==
    ASSUME Signal
    PROVE  /\ at \notin {"over", "stuck"}
           /\ midway' = (midway \/ at = "handle")
           /\ signals' = signals + 1
           /\ UNCHANGED <<exhausted, latest, installed, pending, fed, dropped, looked, frames,
                          shown, renderer>>
           /\ HandlerReturns \/ HandlerBlocks \/ HandlerRaises
BY DEF Signal, Asked, screen

----------------------------------------------------------------------------
(* The counters.                                                           *)

\* A step that leaves the loop, or stays outside of it, and counts nothing.
LEMMA CountsNothing ==
    ASSUME CountersOK, Accounts, at # "handle" \/ at' = "handle", at' = "handle" => at = "handle",
           at' \in Running => at \in Running, at' = "polled" => at = "polled",
           UNCHANGED <<processed, lost, exhausted, pending, fed, dropped, looked>>
    PROVE  Accounts'
BY DEF CountersOK, Accounts, InHand

LEMMA SignalCounts ==
    ASSUME CountersOK, Accounts, Signal
    PROVE  CountersOK' /\ Accounts'
<1>0. /\ UNCHANGED <<exhausted, latest, pending, fed, dropped, looked, shown>>
      /\ signals' = signals + 1
      /\ HandlerReturns \/ HandlerBlocks \/ HandlerRaises
      BY SignalEffects
<1>1. CASE HandlerReturns \/ HandlerBlocks
  <2>1. UNCHANGED <<processed, lost>> /\ at' \in {at, "stuck"}
        BY <1>1 DEF HandlerReturns, HandlerBlocks
  <2>2. CountersOK'
        BY <1>0, <2>1 DEF CountersOK
  <2>3. CASE at' = at
        BY <1>0, <2>1, <2>3 DEF CountersOK, Accounts, InHand, Running
  <2>4. CASE at' = "stuck"
    <3>1. at # "handle"
          BY <1>1, <2>4 DEF HandlerReturns, HandlerBlocks
    <3> QED BY <1>0, <2>1, <2>4, <3>1 DEF CountersOK, Accounts, InHand, Running
  <2> QED BY <2>1, <2>2, <2>3, <2>4
<1>2. CASE HandlerRaises
  <2>1. CASE UNCHANGED <<processed, lost>> /\ (at # "handle" \/ at' = at)
    <3>1. at' = at \/ at' \in {"finally", "over"} \cup Guarded
          BY <1>2, <2>1 DEF HandlerRaises, Abort, Guarded
    <3>2. CountersOK'
          BY <1>0, <2>1 DEF CountersOK
    <3> QED BY <1>0, <2>1, <3>1, <3>2, CountsNothing DEF Running, Guarded
  <2>2. CASE at = "handle" /\ at' = "finally"
    <3>1. \/ processed' = processed + 1 /\ lost' = lost
          \/ lost' = lost + 1 /\ processed' = processed
          BY <1>2, <2>2 DEF HandlerRaises, Abort
    <3>2. CountersOK'
          BY <1>0, <3>1 DEF CountersOK
    <3>3. ~exhausted /\ ~exhausted' /\ InHand = 1 /\ InHand' = 0
          BY <1>0, <2>2 DEF Accounts, InHand, Running
    <3>4. fed' = processed' + InHand' + lost' + pending' + dropped'
          BY <1>0, <3>1, <3>3 DEF CountersOK, Accounts
    <3> QED BY <2>2, <3>2, <3>3, <3>4 DEF Accounts, Running
  <2>3. \/ UNCHANGED <<processed, lost>> /\ (at # "handle" \/ at' = at)
        \/ at = "handle" /\ at' = "finally"
        BY <1>2 DEF HandlerRaises, Abort
  <2> QED BY <2>1, <2>2, <2>3
<1> QED BY <1>0, <1>1, <1>2

LEMMA LoopCounts ==
    ASSUME CountersOK, Accounts, Yield \/ Polls \/ ChecksClosed \/ Handle
    PROVE  CountersOK' /\ Accounts'
<1> USE DEF CountersOK, Accounts, InHand, Running
<1>1. CASE Yield
      BY <1>1 DEF Yield, screen, asked
<1>2. CASE Polls
      BY <1>2 DEF Polls, screen, asked
<1>3. CASE ChecksClosed
      BY <1>3 DEF ChecksClosed, source, screen, asked
<1>4. CASE Handle
  <2>1. /\ at = "handle" /\ at' \in {"pull", "finally"}
        /\ processed' = processed + 1
        /\ latest' = latest \/ latest' = latest + 1
        /\ UNCHANGED <<lost, exhausted, shown, pending, fed, dropped, looked, signals>>
        BY <1>4 DEF Handle, Abort, source, screen, asked
  <2> QED BY <2>1
<1> QED BY <1>1, <1>2, <1>3, <1>4

LEMMA CountersPreserved ==
    ASSUME CountersOK, Accounts, [RunnerNext]_runnerVars
    PROVE  CountersOK' /\ Accounts'
<1>1. CASE Yield \/ Polls \/ ChecksClosed \/ Handle
      BY <1>1, LoopCounts
<1>2. CASE Signal
      BY <1>2, SignalCounts
<1>3. CASE Feed
  <2>1. /\ \/ fed' = fed + 1 /\ pending' = pending + 1 /\ dropped' = dropped
           \/ fed' = fed + 1 /\ pending' = pending /\ dropped' = dropped + 1
           \/ fed' = fed /\ pending' = pending /\ dropped' = dropped
        /\ UNCHANGED <<at, processed, lost, exhausted, latest, shown, looked, signals>>
        BY <1>3 DEF Feed, engine, screen, asked
  <2> QED BY <2>1 DEF CountersOK, Accounts, InHand
<1>4. CASE Render \/ RequestStop \/ UNCHANGED runnerVars
  <2>1. /\ shown' \in {shown, latest}
        /\ UNCHANGED <<at, processed, lost, exhausted, latest, pending, fed, dropped, looked,
                       signals>>
        BY <1>4 DEF Render, Draw, DrawLast, RequestStop, runnerVars, engine, source, screen, asked
  <2> QED BY <2>1 DEF CountersOK, Accounts, InHand
<1>5. CASE InstallHandlers \/ StartAll \/ Take
  <2>1. /\ at \in Running \ {"handle"} /\ at' \in {"start", "pull", "finally", "inside"}
        /\ UNCHANGED <<processed, lost, exhausted, latest, shown, pending, fed, dropped, looked,
                       signals>>
        BY <1>5 DEF InstallHandlers, StartAll, Take, Abort, source, screen, asked, Running
  <2> QED BY <2>1, CountsNothing DEF CountersOK, Running
<1>6. CASE SetStop \/ StopSource \/ Join \/ StopRenderer \/ CloseRecorder \/ RestoreHandlers
  <2>1. /\ at \notin Running /\ at' \in Guarded \cup {"over"}
        /\ UNCHANGED <<processed, lost, exhausted, latest, shown, pending, fed, dropped, looked,
                       signals>>
        BY <1>6 DEF SetStop, StopSource, Join, StopRenderer, CloseRecorder, RestoreHandlers,
                    source, screen, asked, Running, Guarded
  <2> QED BY <2>1, CountsNothing DEF CountersOK, Running, Guarded
<1> QED BY <1>1, <1>2, <1>3, <1>4, <1>5, <1>6 DEF RunnerNext, Engine, Terminating

----------------------------------------------------------------------------
(* The shutdown and the last frame.                                        *)

\* The steps of the engine thread up to the shutdown.
LEMMA LoopPreserves ==
    /\ RunnerControl
    /\ InstallHandlers \/ StartAll \/ Take \/ Yield \/ Polls \/ ChecksClosed \/ Handle
    => RunnerControl'
<1> SUFFICES ASSUME RunnerControl,
                    \/ InstallHandlers \/ StartAll \/ Take \/ Yield \/ Polls
                    \/ ChecksClosed \/ Handle
             PROVE  RunnerControl'
    OBVIOUS
<1> USE DEF RunnerControl, RunnerTypeOK, ShutdownProgress, LastFrame, Running, Guarded
<1>1. CASE InstallHandlers
      BY <1>1 DEF InstallHandlers, source, screen, asked
<1>2. CASE StartAll
      BY <1>2 DEF StartAll, Abort, source, asked
<1>3. CASE Take
      BY <1>3, ZenonT(30) DEF Take, source, screen, asked
<1>4. CASE Yield
      BY <1>4, ZenonT(30) DEF Yield, screen, asked
<1>5. CASE Polls
  <2>1. /\ at = "pull" /\ at' \in {"polled", "finally"}
        /\ UNCHANGED <<stop, ended, installed, midway, recorder, frames, raised, shown, latest>>
        BY <1>5 DEF Polls, screen, asked
  <2> QED BY <2>1
<1>7. CASE ChecksClosed
  <2>1. /\ at = "polled" /\ at' \in {"pull", "finally"}
        /\ UNCHANGED <<stop, ended, installed, midway, recorder, frames, raised, shown, latest>>
        BY <1>7 DEF ChecksClosed, source, screen, asked
  <2> QED BY <2>1
<1>6. CASE Handle
      BY <1>6, ZenonT(30) DEF Handle, Abort, source, screen, asked
<1> QED BY <1>1, <1>2, <1>3, <1>4, <1>5, <1>6, <1>7

LEMMA ShutdownPreserves ==
    /\ RunnerControl
    /\ SetStop \/ StopSource \/ Join \/ StopRenderer \/ CloseRecorder \/ RestoreHandlers
    => RunnerControl'
<1> SUFFICES ASSUME RunnerControl,
                    \/ SetStop \/ StopSource \/ Join \/ StopRenderer \/ CloseRecorder
                    \/ RestoreHandlers
             PROVE  RunnerControl'
    OBVIOUS
<1> USE DEF RunnerControl, RunnerTypeOK, ShutdownProgress, LastFrame, Running, Guarded
<1>0. CASE SetStop
      BY <1>0 DEF SetStop, source, screen, asked
<1>1. CASE StopSource
      BY <1>1 DEF StopSource, screen, asked
<1>2. CASE Join
      BY <1>2 DEF Join, source, screen, asked
<1>3. CASE StopRenderer
      BY <1>3 DEF StopRenderer, source, asked
<1>4. CASE CloseRecorder
      BY <1>4 DEF CloseRecorder, source, screen, asked
<1>5. CASE RestoreHandlers
      BY <1>5 DEF RestoreHandlers, source, screen, asked
<1> QED BY <1>0, <1>1, <1>2, <1>3, <1>4, <1>5

\* The render thread, the feed thread, signals and request_stop().
LEMMA OthersPreserve ==
    RunnerControl /\ (Draw \/ DrawLast \/ Feed \/ Signal \/ RequestStop) => RunnerControl'
<1> SUFFICES ASSUME RunnerControl, Draw \/ DrawLast \/ Feed \/ Signal \/ RequestStop
             PROVE  RunnerControl'
    OBVIOUS
<1> USE DEF RunnerControl, RunnerTypeOK, ShutdownProgress, LastFrame, Running, Guarded
<1>1. CASE Draw
      BY <1>1, ZenonT(30) DEF Draw, engine, source, asked
<1>2. CASE DrawLast
  <2>1. /\ stop
        /\ \/ shown' = latest /\ frames' = "ended"
           \/ frames' = "failed"
        /\ UNCHANGED <<at, stop, ended, installed, midway, recorder, raised, latest>>
        BY <1>2 DEF DrawLast, engine, source, asked
  <2>2. frames' \in {"ended", "failed"}
        BY <2>1
  <2>3. RunnerTypeOK'
        BY <2>1, <2>2, ZenonT(30)
  <2>4. ShutdownProgress'
        BY <2>1
  <2>5. LastFrame'
        BY <2>1
  <2> QED BY <2>3, <2>4, <2>5
<1>3. CASE Feed
  <2>1. /\ ended' = ended \/ ended' = TRUE
        /\ UNCHANGED <<at, stop, installed, midway, recorder, frames, raised, shown,
                       latest>>
        BY <1>3 DEF Feed, engine, screen, asked
  <2>2. ended' \in BOOLEAN
        BY <2>1
  <2>3. RunnerTypeOK'
        BY ONLY <2>1, <2>2, RunnerTypeOK, ZenonT(30) DEF RunnerTypeOK
  <2>4. ShutdownProgress' /\ LastFrame'
        BY <2>1
  <2> QED BY <2>3, <2>4
<1>4. CASE Signal
  <2>1. /\ at \notin {"over", "stuck"}
        /\ midway' = (midway \/ at = "handle")
        /\ UNCHANGED <<installed, frames, shown, latest>>
        /\ HandlerReturns \/ HandlerBlocks \/ HandlerRaises
        BY <1>4, SignalEffects
  <2>2. midway' \in BOOLEAN /\ (midway => midway') /\ (at = "handle" => midway')
        BY <2>1, ZenonT(30)
  <2>3. CASE HandlerReturns
    <3>1. /\ stop' = TRUE /\ ended' = TRUE
          /\ UNCHANGED <<at, raised, recorder>>
          BY <2>3 DEF HandlerReturns
    <3>2. RunnerTypeOK' /\ ShutdownProgress'
          BY <2>1, <2>2, <3>1
    <3>3. LastFrame'
          BY <2>1, <2>2, <3>1
    <3> QED BY <3>2, <3>3
  <2>4. CASE HandlerBlocks
    <3>1. /\ at' = "stuck" /\ (stop => stop') /\ stop' \in BOOLEAN /\ ended' \in BOOLEAN
          /\ UNCHANGED <<raised, recorder>>
          BY <2>4, ZenonT(30) DEF HandlerBlocks
    <3> QED BY <2>1, <2>2, <3>1
  <2>5. CASE HandlerRaises
    <3>1. /\ stop' = TRUE /\ ended' \in {ended, TRUE}
          /\ \/ at' = "finally" /\ raised' = "body" /\ UNCHANGED recorder
             \/ at = "handle" /\ at' = at /\ recorder' = "failed" /\ UNCHANGED raised
             \/ at = "stopSource" /\ at' = "join" /\ UNCHANGED <<raised, recorder>>
             \/ at = "stopRenderer" /\ at' = "closeRecorder" /\ UNCHANGED <<raised, recorder>>
             \/ at' = "over" /\ raised' = "handler" /\ UNCHANGED recorder
          BY <2>5 DEF HandlerRaises, Abort
    <3>2. ended' \in BOOLEAN
          BY <3>1
    <3> QED BY <2>1, <2>2, <3>1, <3>2
  <2> QED BY <2>1, <2>3, <2>4, <2>5
<1>5. CASE RequestStop
      BY <1>5, ZenonT(30) DEF RequestStop, Asked, engine, source, screen
<1> QED BY <1>1, <1>2, <1>3, <1>4, <1>5

LEMMA RunnerNextIsGood == RunnerInv /\ [RunnerNext]_runnerVars => RunnerInv'
<1> SUFFICES ASSUME RunnerInv, [RunnerNext]_runnerVars
             PROVE  RunnerInv'
    OBVIOUS
<1>1. CountersOK' /\ Accounts'
      BY CountersPreserved DEF RunnerInv
<1>2. RunnerControl
      BY DEF RunnerInv
<1>3. RunnerControl'
  <2>1. CASE UNCHANGED runnerVars
        BY <1>2, <2>1, ZenonT(30)
           DEF RunnerControl, RunnerTypeOK, ShutdownProgress, LastFrame, runnerVars, engine,
               source, screen, asked
  <2>2. CASE Engine
        BY <1>2, <2>2, LoopPreserves, ShutdownPreserves DEF Engine
  <2>3. CASE Render \/ Feed \/ Signal \/ RequestStop
        BY <1>2, <2>3, OthersPreserve DEF Render
  <2> QED BY <2>1, <2>2, <2>3 DEF RunnerNext, Terminating
<1> QED BY <1>1, <1>3 DEF RunnerInv

LEMMA RunnerInvariance == RunnerSpec => []RunnerInv
BY RunnerInitIsGood, RunnerNextIsGood, PTL DEF RunnerSpec

\* Every snapshot the feed put is handled, in hand, waiting, dropped by a full queue
\* or given up by a stop or an exception; a run that ends with its source gives up
\* none (queueing.py:128-142, runner.py:198-207).
THEOREM NoSnapshotVanishesHolds == RunnerSpec => []NoSnapshotVanishes
<1>1. RunnerInv => NoSnapshotVanishes
      BY DEF RunnerInv, Accounts, NoSnapshotVanishes
<1> QED BY <1>1, RunnerInvariance, PTL

\* However the run ends, the stop flag is set, a recorder that still records is
\* closed and the handlers are restored, but for a close that fails and a signal
\* handler that raises outside the guarded steps (runner.py:193-195, 325-352).
THEOREM ShutdownIsCompleteHolds == RunnerSpec => []ShutdownIsComplete
<1>1. RunnerInv => ShutdownIsComplete
      BY DEF RunnerInv, RunnerControl, ShutdownProgress, ShutdownIsComplete
<1> QED BY <1>1, RunnerInvariance, PTL

\* The final frame shows every output, unless the stop met a snapshot that was
\* being handled.
THEOREM FinalFrameShowsLastStateHolds == RunnerSpec => []FinalFrameShowsLastState
<1>1. RunnerInv => FinalFrameShowsLastState
      BY DEF RunnerInv, RunnerControl, LastFrame, FinalFrameShowsLastState
<1> QED BY <1>1, RunnerInvariance, PTL
=============================================================================
