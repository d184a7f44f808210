----------------------------- MODULE EngineRunner -----------------------------
(***************************************************************************)
(* runner.py: the engine thread that pulls snapshots out of a source, the  *)
(* render thread that draws what it published, the recorder, the signal    *)
(* handler and the shutdown.  The source is the live one: a queue filled   *)
(* by a feed thread (SnapshotQueue has its detail), here a number of       *)
(* pending snapshots and the mutex a get holds while it takes one.  Of the *)
(* source's stop() the runner itself expects that it may raise.            *)
(***************************************************************************)
EXTENDS Integers

CONSTANTS
    MaxSnapshots,       \* max_snapshots: stop after that many, 0 for no limit
    FeedLimit,          \* bound: snapshots the feed delivers
    QueueSize,          \* capacity of the queue
    MaxSignals          \* bound: signals

ASSUME RunnerAssumption ==
    {MaxSnapshots, FeedLimit, QueueSize, MaxSignals} \subseteq Nat

VARIABLES
    at,             \* where the engine thread is
    stop,           \* the _stop event
    latest,         \* outputs published in _latest
    processed,      \* stats.processed
    lost,           \* history: snapshots pulled and not handled
    exhausted,      \* history: the loop ended because the source did
    midway,         \* history: a stop was asked for while one was handled
    pending,        \* snapshots in the source's queue
    fed,            \* history: snapshots the feed has put
    dropped,        \* of those, how many a full queue cost
    looked,         \* history: fed when a poll last found the queue empty
    ended,          \* the source was stopped, or has no more to deliver
    signals,        \* how many signals were handled
    swallowed,      \* history: the handler raised inside the recorder's write
    installed,      \* this runner's signal handlers are installed
    recorder,       \* "none", "open", "failed" (abandoned unclosed) or "closed"
    frames,         \* the render thread: "off", "running", "ended" or "failed"
    shown,          \* outputs of the last frame drawn
    renderer,       \* the renderer: "off", "on" or "stopped"
    raised          \* what run() raises: "" nothing, "body" an exception of the
                    \* try block, "close" the recorder's, "handler" the handler's

engine == <<at, processed, lost, exhausted, latest, recorder, installed, raised>>
source == <<pending, fed, dropped, looked, ended>>
screen == <<frames, shown, renderer>>
asked == <<signals, midway, swallowed>>
runnerVars == <<engine, source, screen, stop, asked>>

RunnerInit ==
    /\ at = "install"
    /\ stop = FALSE
    /\ latest = 0 /\ processed = 0 /\ lost = 0 /\ midway = FALSE
    /\ exhausted = FALSE
    /\ pending = 0 /\ fed = 0 /\ dropped = 0 /\ looked = 0 /\ ended = FALSE
    /\ signals = 0 /\ swallowed = FALSE
    /\ installed = FALSE
    /\ recorder \in {"none", "open"}
    /\ frames = "off" /\ shown = 0 /\ renderer = "off"
    /\ raised = ""

----------------------------------------------------------------------------
(* run(), up to the consumer loop.                                         *)

InstallHandlers ==
    /\ at = "install"
    /\ installed' \in BOOLEAN
    /\ at' = "start"
    /\ UNCHANGED <<processed, lost, exhausted, latest, recorder, raised, source, screen,
                   stop, asked>>

\* An exception in the try block leads to the finally clause.
Abort == at' = "finally" /\ raised' = "body"

\* source.start(), renderer.start() and the render thread, if there is one.
StartAll ==
    /\ at = "start"
    /\ \/ Abort /\ renderer' \in {"off", "on"} /\ UNCHANGED frames
       \/ /\ at' = "pull"
          /\ renderer' = "on"
          /\ frames' \in {"off", "running"}
          /\ UNCHANGED raised
    /\ UNCHANGED <<shown, processed, lost, exhausted, latest, recorder, installed, source,
                   stop, asked>>

----------------------------------------------------------------------------
(* _consume(), with the polls of drain() it is pulled by, and _handle().   *)

\* A mutant of Yield: the loop skips the snapshot and goes on.
YieldSkips ==
    /\ at = "inside"
    /\ pending' = pending - 1
    /\ IF stop THEN at' = "pull" /\ lost' = lost + 1
               ELSE at' = "handle" /\ UNCHANGED lost
    /\ UNCHANGED <<processed, exhausted, latest, recorder, installed, raised, fed, dropped,
                   looked, ended, screen, stop, asked>>

\* The generator takes the queue's mutex for a waiting snapshot ...
Take ==
    /\ at = "pull"
    /\ pending > 0
    /\ at' = "inside"
    /\ UNCHANGED <<processed, lost, exhausted, latest, recorder, installed, raised, source,
                   screen, stop, asked>>

\* ... and yields it.  A stop requested meanwhile makes the loop break before
\* it handles the snapshot.
Yield ==
    /\ at = "inside"
    /\ pending' = pending - 1
    /\ IF stop THEN at' = "finally" /\ lost' = lost + 1
               ELSE at' = "handle" /\ UNCHANGED lost
    /\ UNCHANGED <<processed, exhausted, latest, recorder, installed, raised, fed, dropped,
                   looked, ended, screen, stop, asked>>

\* A poll of the empty queue times out, or finds the sentinel of a closed one ...
Polls ==
    /\ at = "pull"
    /\ pending = 0
    /\ looked' = fed
    /\ \/ at' = "polled" /\ UNCHANGED exhausted
       \/ ended /\ at' = "finally" /\ exhausted' = TRUE
    /\ UNCHANGED <<processed, lost, latest, recorder, installed, raised, pending, fed,
                   dropped, ended, screen, stop, asked>>

\* ... and only after a timeout the closed flag is read.
ChecksClosed ==
    /\ at = "polled"
    /\ IF ended THEN at' = "finally" /\ exhausted' = TRUE
                ELSE at' = "pull" /\ UNCHANGED exhausted
    /\ UNCHANGED <<processed, lost, latest, recorder, installed, raised, source, screen,
                   stop, asked>>

\* _handle: record, process, publish.  A write that fails abandons the
\* recorder; an unknown token or a rejected snapshot has no output.
Handle ==
    /\ at = "handle"
    /\ processed' = processed + 1
    /\ recorder' \in (IF recorder = "open" THEN {"open", "failed"} ELSE {recorder})
    /\ \/ Abort /\ UNCHANGED latest
       \/ /\ latest' \in {latest, latest + 1}
          /\ UNCHANGED raised
          /\ at' = IF MaxSnapshots > 0 /\ processed' >= MaxSnapshots
                     THEN "finally" ELSE "pull"
    /\ UNCHANGED <<lost, exhausted, installed, source, screen, stop, asked>>

----------------------------------------------------------------------------
(* The finally clause and _shutdown().                                     *)

SetStop ==
    /\ at = "finally"
    /\ stop' = TRUE
    /\ at' = "stopSource"
    /\ UNCHANGED <<processed, lost, exhausted, latest, recorder, installed, raised, source,
                   screen, asked>>

\* An exception of source.stop() is logged; what it stops is stopped or not.
StopSource ==
    /\ at = "stopSource"
    /\ ended' \in {ended, TRUE}
    /\ at' = "join"
    /\ UNCHANGED <<processed, lost, exhausted, latest, recorder, installed, raised, pending,
                   fed, dropped, looked, screen, stop, asked>>

\* join(timeout=2.0): the thread is over, or still draws after two seconds.
Join ==
    /\ at = "join"
    /\ at' = "stopRenderer"
    /\ UNCHANGED <<processed, lost, exhausted, latest, recorder, installed, raised, source,
                   screen, stop, asked>>

\* A mutant of StopRenderer: without the try around renderer.stop().
StopRendererUnguarded ==
    /\ at = "stopRenderer"
    /\ \/ renderer' = "stopped" /\ at' = "closeRecorder" /\ UNCHANGED raised
       \/ UNCHANGED renderer /\ at' = "over" /\ raised' = "body"
    /\ UNCHANGED <<processed, lost, exhausted, latest, recorder, installed, source, frames,
                   shown, stop, asked>>

StopRenderer ==
    /\ at = "stopRenderer"
    /\ renderer' \in {renderer, "stopped"}
    /\ at' = "closeRecorder"
    /\ UNCHANGED <<processed, lost, exhausted, latest, recorder, installed, raised, source,
                   frames, shown, stop, asked>>

\* recorder.close() has no try around it: a flush that fails leaves run() at
\* once.  The file is closed all the same.  A recorder whose write failed is no
\* longer known here.
CloseRecorder ==
    /\ at = "closeRecorder"
    /\ IF recorder = "open"
         THEN /\ recorder' = "closed"
              /\ \/ at' = "restore" /\ UNCHANGED raised
                 \/ at' = "over" /\ raised' = "close"
         ELSE at' = "restore" /\ UNCHANGED <<recorder, raised>>
    /\ UNCHANGED <<processed, lost, exhausted, latest, installed, source, screen, stop,
                   asked>>

RestoreHandlers ==
    /\ at = "restore"
    /\ installed' = FALSE
    /\ at' = "over"
    /\ UNCHANGED <<processed, lost, exhausted, latest, recorder, raised, source, screen, stop,
                   asked>>

----------------------------------------------------------------------------
(* The other threads.                                                      *)

\* The feed thread.  put() waits for the mutex and drops the oldest snapshot
\* of a full queue; the feed may fall silent, or end.
Feed ==
    /\ ~ended
    /\ at \notin {"install", "start", "inside", "over", "stuck"}
    /\ \/ /\ fed < FeedLimit
          /\ fed' = fed + 1
          /\ IF pending < QueueSize
               THEN pending' = pending + 1 /\ UNCHANGED dropped
               ELSE dropped' = dropped + 1 /\ UNCHANGED pending
          /\ UNCHANGED ended
       \/ ended' = TRUE /\ UNCHANGED <<pending, fed, dropped>>
    /\ UNCHANGED <<looked, engine, screen, stop, asked>>

\* A mutant of DrawLast: the loop ends without a last frame.
DrawLastSkipped ==
    /\ frames = "running" /\ stop
    /\ frames' = "ended"
    /\ UNCHANGED <<shown, renderer, engine, source, stop, asked>>

\* One frame: the outputs are copied under the lock.  A frame that fails ends
\* the thread.
Draw ==
    /\ frames = "running" /\ ~stop
    /\ \/ shown' = latest /\ UNCHANGED frames
       \/ frames' = "failed" /\ UNCHANGED shown
    /\ UNCHANGED <<renderer, engine, source, stop, asked>>

\* "One final frame so the last state is visible after shutdown."
DrawLast ==
    /\ frames = "running" /\ stop
    /\ \/ shown' = latest /\ frames' = "ended"
       \/ frames' = "failed" /\ UNCHANGED shown
    /\ UNCHANGED <<renderer, engine, source, stop, asked>>

Asked == midway' = (midway \/ at = "handle")

\* A mutant of Signal: the handler sets the flag and leaves the source alone.
SignalFlagOnly ==
    /\ installed
    /\ signals < MaxSignals
    /\ at \notin {"over", "stuck"}
    /\ signals' = signals + 1
    /\ stop' = TRUE
    /\ Asked
    /\ UNCHANGED <<engine, source, screen, swallowed>>

\* Inside a get this thread holds the queue's mutex, which is not reentrant, and
\* source.stop() needs it to put the sentinel.
HandlerReturns ==
    /\ at # "inside"
    /\ stop' = TRUE
    /\ ended' = TRUE
    /\ UNCHANGED <<at, raised, processed, lost, recorder, swallowed>>

\* The same holds for the locks of the two stop events and of the queue wherever
\* this thread is setting or clearing an event or stopping the source itself.
HandlerBlocks ==
    /\ at \in {"inside", "start", "finally", "stopSource"}
    /\ at' = "stuck"
    /\ stop' \in (IF at = "finally" THEN {stop, TRUE} ELSE {TRUE})
    /\ ended' \in {ended, TRUE}
    /\ UNCHANGED <<raised, processed, lost, recorder, swallowed>>

\* source.stop() raises, and with it the statement that was interrupted: the try
\* block is left, or a step of the shutdown that is guarded, or run() itself.
HandlerRaises ==
    /\ stop' = TRUE
    /\ ended' \in {ended, TRUE}
    /\ \/ /\ at \in {"start", "pull", "polled"}
          /\ Abort
          /\ UNCHANGED <<processed, lost, recorder, swallowed>>
       \/ /\ at = "handle"
          /\ Abort
          /\ \/ processed' = processed + 1 /\ UNCHANGED lost
             \/ lost' = lost + 1 /\ UNCHANGED processed
          /\ UNCHANGED <<recorder, swallowed>>
       \/ /\ at = "handle" /\ recorder = "open"
          /\ recorder' = "failed"
          /\ swallowed' = TRUE
          /\ UNCHANGED <<at, raised, processed, lost>>
       \/ /\ \/ at = "stopSource" /\ at' = "join"
             \/ at = "stopRenderer" /\ at' = "closeRecorder"
          /\ UNCHANGED <<raised, processed, lost, recorder, swallowed>>
       \/ /\ at \in {"start", "finally", "join", "closeRecorder", "restore"}
          /\ at' = "over"
          /\ raised' = "handler"
          /\ UNCHANGED <<processed, lost, recorder, swallowed>>

\* SIGINT or SIGTERM: the handler runs on the engine thread, wherever that is.
Signal ==
    /\ installed
    /\ signals < MaxSignals
    /\ at \notin {"over", "stuck"}
    /\ signals' = signals + 1
    /\ Asked
    /\ HandlerReturns \/ HandlerBlocks \/ HandlerRaises
    /\ UNCHANGED <<exhausted, latest, installed, pending, fed, dropped, looked, screen>>

\* request_stop() from an embedding thread: the flag alone.
RequestStop ==
    /\ at \notin {"install", "over", "stuck"}
    /\ ~stop
    /\ stop' = TRUE
    /\ Asked
    /\ UNCHANGED <<engine, source, screen, signals, swallowed>>

Engine ==
    \/ InstallHandlers \/ StartAll \/ Take \/ Yield \/ Polls \/ ChecksClosed \/ Handle
    \/ SetStop \/ StopSource \/ Join \/ StopRenderer \/ CloseRecorder \/ RestoreHandlers
Render == Draw \/ DrawLast

Over == at \in {"over", "stuck"} /\ frames # "running"
Terminating == Over /\ UNCHANGED runnerVars

RunnerNext == Engine \/ Render \/ Feed \/ Signal \/ RequestStop \/ Terminating

\* The engine thread is never kept from running, the last frame is drawn once
\* stop is set (Event.wait returns), and nothing is promised of the feed.
RunnerSpec ==
    /\ RunnerInit /\ [][RunnerNext]_runnerVars
    /\ WF_runnerVars(Engine) /\ WF_runnerVars(DrawLast)

----------------------------------------------------------------------------
\* A signal ends the run even when the feed is silent.  There are two exceptions:
\* it interrupts the engine thread where that holds a lock the handler waits for;
\* or the handler raises an OSError while a snapshot is written, which the
\* recorder's own except clause takes for a failed write, so that the run goes on
\* to the next snapshot.
SignalEndsRun == signals > 0 ~> (at \in {"over", "stuck"} \/ swallowed)

InHand == IF at = "handle" THEN 1 ELSE 0

\* No snapshot vanishes: each one the feed has put was handled, is being handled,
\* waits in the queue, was dropped by a full one, or was pulled and given up by a
\* stop or an exception.  And a run that ends with its source gives up none: it
\* has handled, but for the drops, everything put before its last look at the
\* queue.  (A stop leaves behind what waits in the queue as well.)
NoSnapshotVanishes ==
    /\ fed = processed + InHand + lost + pending + dropped
    /\ exhausted => lost = 0 /\ processed + dropped >= looked

\* "Stop everything in a deterministic order": however the run ended and
\* whichever of the steps failed, the stop flag is set, a recorder that still
\* records is closed and the previous signal handlers are back.  The exceptions:
\* a recorder's close that fails leaves the handlers, and a signal handler that
\* raises outside the guarded steps leaves whatever is left to do.  A recorder
\* whose write failed is not covered: _handle has dropped it, and no step of the
\* shutdown closes its file.
ShutdownIsComplete ==
    at = "over" => /\ stop
                   /\ recorder = "open" => raised = "handler"
                   /\ installed => raised \in {"close", "handler"}

\* "One final frame so the last state is visible after shutdown": when the run
\* is over and drawing never failed, the screen shows every published output.
\* A stop asked for while a snapshot is handled is the exception: the render
\* thread may draw its final frame before that snapshot's output is published.
FinalFrameShowsLastState ==
    at = "over" /\ frames = "ended" /\ ~midway => shown = latest
==============================================================================
