---------------------------- MODULE FeedAdapter ----------------------------
(***************************************************************************)
(* adapter/angel_v2.py: the connection life cycle of the live feed.  The   *)
(* supervisor thread logs in, runs a websocket session and backs off; the  *)
(* websocket's callbacks run on that thread, inside connect().  The main   *)
(* thread starts it once and may call stop() more than once.               *)
(*                                                                         *)
(* The client library is external: a login succeeds or fails, connect()    *)
(* fails, or opens and blocks until the peer or close_connection ends the  *)
(* session.  A close_connection may raise and leave the session as it is;  *)
(* one that comes before connect() is remembered, as the test suite's      *)
(* stand-in does.  Payloads are SnapshotQueue's.                           *)
(***************************************************************************)
EXTENDS Integers

CONSTANTS
    LoginAttempts,      \* login_retry_attempts
    MaxReconnects,      \* max_reconnect_attempts, 0 for no limit
    DelayInitial,       \* reconnect_initial_ms
    DelayMax,           \* reconnect_max_ms
    DelayFactor,        \* reconnect_multiplier
    MaxStops,           \* bound: calls of stop()
    CountLimit          \* bound: where the counters of attempts and sessions stop

ASSUME AdapterAssumption ==
    /\ {LoginAttempts, MaxReconnects, DelayInitial, DelayMax, DelayFactor,
        MaxStops, CountLimit} \subseteq Nat
    /\ 1 <= LoginAttempts
    /\ 1 <= DelayInitial /\ DelayInitial < DelayMax
    /\ 1 <= DelayFactor
    /\ MaxReconnects <= CountLimit /\ 2 <= CountLimit

VARIABLES
    sup,            \* where the supervisor thread is
    attempt,        \* _supervise's count of sessions tried
    loginTry,       \* _login's attempt
    clean,          \* the last session returned without an exception
    delay,          \* the next back-off
    socket,         \* _socket: "none", "created" or "open"
    closeAsked,     \* close_connection was called on _socket
    connected,      \* _connected_event
    sessions,       \* _sessions
    stopEvent,      \* _stop_event
    queueClosed,    \* the hand-off queue is closed
    stopAt,         \* the step of stop() the main thread is about to take
    stopHolds,      \* stop()'s local socket is the one _socket holds now
    stops,          \* calls of stop() begun
    closeFailed     \* history: close_connection raised in the latest stop()

supVars == <<sup, attempt, loginTry, clean, delay>>
socketVars == <<socket, closeAsked, connected, sessions>>
stopVars == <<stopEvent, stopAt, stopHolds, stops, closeFailed>>
vars == <<supVars, socketVars, stopVars, queueClosed>>

SupervisorStep == {"none", "loop", "login", "retry", "create", "connect", "opening",
                   "session", "after", "wait", "finish", "exited", "raised"}
StopStep == {"idle", "read", "close", "queue", "join", "returned"}

CountUp(n) == IF n < CountLimit THEN n + 1 ELSE n

Backoff(d) == IF d * DelayFactor < DelayMax THEN d * DelayFactor ELSE DelayMax

Init ==
    /\ sup = "none"
    /\ attempt = 0
    /\ loginTry = 0
    /\ clean = FALSE
    /\ delay = DelayInitial
    /\ socket = "none"
    /\ closeAsked = FALSE
    /\ connected = FALSE
    /\ sessions = 0
    /\ stopEvent = FALSE
    /\ queueClosed = FALSE
    /\ stopAt = "idle"
    /\ stopHolds = FALSE
    /\ stops = 0
    /\ closeFailed = FALSE

----------------------------------------------------------------------------
(* The supervisor thread.                                                  *)

Start ==
    /\ sup = "none"
    /\ stopAt = "idle"
    /\ sup' = "loop"
    /\ stopEvent' = FALSE
    /\ UNCHANGED <<attempt, loginTry, clean, delay, socketVars, stopAt, stopHolds,
                   stops, closeFailed, queueClosed>>

LoopHead ==
    /\ sup = "loop"
    /\ IF stopEvent
         THEN sup' = "finish" /\ UNCHANGED <<attempt, loginTry>>
         ELSE sup' = "login" /\ attempt' = CountUp(attempt) /\ loginTry' = 1
    /\ UNCHANGED <<clean, delay, socketVars, stopVars, queueClosed>>

\* The lazy import fails, so the first time it is tried: _supervise lets
\* AdapterUnavailableError pass, through the finally but not through the close
\* of the queue.
LibraryMissing ==
    /\ sup = "login"
    /\ attempt = 1 /\ loginTry = 1
    /\ sup' = "raised"
    /\ connected' = FALSE
    /\ UNCHANGED <<attempt, loginTry, clean, delay, socket, closeAsked, sessions,
                   stopVars, queueClosed>>

\* A login succeeds; or fails, and the last one raises LoginError.
Login ==
    /\ sup = "login"
    /\ \/ sup' = "create" /\ UNCHANGED clean
       \/ loginTry < LoginAttempts /\ sup' = "retry" /\ UNCHANGED clean
       \/ loginTry = LoginAttempts /\ sup' = "after" /\ clean' = FALSE
    /\ UNCHANGED <<attempt, loginTry, delay, socketVars, stopVars, queueClosed>>

\* The pause between login attempts, cut short by stop().
LoginRetry ==
    /\ sup = "retry"
    /\ IF stopEvent
         THEN sup' = "after" /\ clean' = FALSE /\ UNCHANGED loginTry
         ELSE sup' = "login" /\ loginTry' = loginTry + 1 /\ UNCHANGED clean
    /\ UNCHANGED <<attempt, delay, socketVars, stopVars, queueClosed>>

\* _run_socket up to the assignment of _socket; the constructor may raise.
CreateSocket ==
    /\ sup = "create"
    /\ \/ /\ sup' = "connect"
          /\ socket' = "created"
          /\ closeAsked' = FALSE
          /\ stopHolds' = FALSE
          /\ UNCHANGED clean
       \/ /\ sup' = "after"
          /\ clean' = FALSE
          /\ UNCHANGED <<socket, closeAsked, stopHolds>>
    /\ UNCHANGED <<attempt, loginTry, delay, connected, sessions, stopEvent, stopAt,
                   stops, closeFailed, queueClosed>>

\* connect() opens, raises, or returns at once because the socket was closed.
Connect ==
    /\ sup = "connect"
    /\ \/ closeAsked /\ sup' = "after" /\ clean' = TRUE /\ UNCHANGED socket
       \/ ~closeAsked /\ sup' = "opening" /\ socket' = "open" /\ UNCHANGED clean
       \/ sup' = "after" /\ clean' = FALSE /\ UNCHANGED socket
    /\ UNCHANGED <<attempt, loginTry, delay, closeAsked, connected, sessions,
                   stopVars, queueClosed>>

\* _on_open: a failed subscription leaves the session open and unannounced.
OnOpen ==
    /\ sup = "opening"
    /\ sup' = "session"
    /\ \/ connected' = TRUE /\ sessions' = CountUp(sessions)
       \/ UNCHANGED <<connected, sessions>>
    /\ UNCHANGED <<attempt, loginTry, clean, delay, socket, closeAsked, stopVars,
                   queueClosed>>

OnError ==
    /\ sup = "session"
    /\ connected
    /\ connected' = FALSE
    /\ UNCHANGED <<supVars, socket, closeAsked, sessions, stopVars, queueClosed>>

\* connect() returns, or raises when the peer fails, with or without _on_close.
SessionEnds(wanted) ==
    /\ sup = "session"
    /\ closeAsked = wanted
    /\ sup' = "after"
    /\ clean' \in (IF wanted THEN {TRUE} ELSE BOOLEAN)
    /\ connected' \in {FALSE, connected}
    /\ UNCHANGED <<attempt, loginTry, delay, socket, closeAsked, sessions, stopVars,
                   queueClosed>>

AfterSessionGoesTo(limit) ==
    /\ sup = "after"
    /\ sup' = IF stopEvent \/ (limit > 0 /\ attempt >= limit) THEN "finish" ELSE "wait"
    /\ UNCHANGED <<attempt, loginTry, clean, socket, closeAsked, sessions, stopVars,
                   queueClosed>>

\* A mutant of AfterSession: the limit of reconnects is not looked at.
AfterSessionUnlimited ==
    /\ AfterSessionGoesTo(0)
    /\ delay' = IF clean THEN DelayInitial ELSE delay
    /\ connected' = FALSE

\* The rest of the loop body: finally, the stop check and the give-up check.
AfterSession ==
    /\ AfterSessionGoesTo(MaxReconnects)
    /\ delay' = IF clean THEN DelayInitial ELSE delay
    /\ connected' = FALSE

BackoffWait ==
    /\ sup = "wait"
    /\ IF stopEvent
         THEN sup' = "finish" /\ UNCHANGED delay
         ELSE sup' = "loop" /\ delay' = Backoff(delay)
    /\ UNCHANGED <<attempt, loginTry, clean, socketVars, stopVars, queueClosed>>

\* A mutant of Finish: giving up leaves the queue open.
FinishQueueOpen ==
    /\ sup = "finish"
    /\ sup' = "exited"
    /\ UNCHANGED <<attempt, loginTry, clean, delay, socketVars, stopVars, queueClosed>>

Finish ==
    /\ sup = "finish"
    /\ sup' = "exited"
    /\ queueClosed' = TRUE
    /\ UNCHANGED <<attempt, loginTry, clean, delay, socketVars, stopVars>>

----------------------------------------------------------------------------
(* stop(), on the main thread.                                             *)

StopSetsEvent ==
    /\ sup # "none"
    /\ stopAt \in {"idle", "returned"}
    /\ stops < MaxStops
    /\ stops' = stops + 1
    /\ stopEvent' = TRUE
    /\ stopAt' = "read"
    /\ closeFailed' = FALSE
    /\ UNCHANGED <<supVars, socketVars, stopHolds, queueClosed>>

\* A mutant of StopReadsSocket: only an announced session is closed.
StopReadsIfConnected ==
    /\ stopAt = "read"
    /\ stopAt' = "close"
    /\ stopHolds' = connected
    /\ UNCHANGED <<supVars, socketVars, stopEvent, stops, closeFailed, queueClosed>>

StopReadsSocket ==
    /\ stopAt = "read"
    /\ stopAt' = "close"
    /\ stopHolds' = (socket # "none")
    /\ UNCHANGED <<supVars, socketVars, stopEvent, stops, closeFailed, queueClosed>>

\* close_connection of the socket stop() has read; an exception of it is logged and
\* stop() goes on.  Closing an older socket changes nothing, whether it raises or not.
StopClosesSocket ==
    /\ stopAt = "close"
    /\ stopAt' = "queue"
    /\ \/ /\ closeAsked' = (closeAsked \/ stopHolds)
          /\ UNCHANGED closeFailed
       \/ /\ stopHolds
          /\ closeFailed' = TRUE
          /\ UNCHANGED closeAsked
    /\ UNCHANGED <<supVars, socket, connected, sessions, stopEvent, stopHolds, stops,
                   queueClosed>>

StopClosesQueue ==
    /\ stopAt = "queue"
    /\ stopAt' = "join"
    /\ queueClosed' = TRUE
    /\ UNCHANGED <<supVars, socketVars, stopEvent, stopHolds, stops, closeFailed>>

\* join(timeout=5.0): returns when the thread has ended, or anyway.
StopJoins ==
    /\ stopAt = "join"
    /\ stopAt' = "returned"
    /\ UNCHANGED <<supVars, socketVars, stopEvent, stopHolds, stops, closeFailed,
                   queueClosed>>

----------------------------------------------------------------------------
\* What the supervisor thread does by itself, in its own time.
SupervisorRuns ==
    \/ LoopHead
    \/ LibraryMissing
    \/ Login
    \/ LoginRetry
    \/ CreateSocket
    \/ Connect
    \/ OnOpen
    \/ SessionEnds(TRUE)
    \/ AfterSession
    \/ BackoffWait
    \/ Finish

StopRuns ==
    \/ StopReadsSocket
    \/ StopClosesSocket
    \/ StopClosesQueue
    \/ StopJoins

Next ==
    \/ Start
    \/ SupervisorRuns
    \/ OnError
    \/ SessionEnds(FALSE)
    \/ StopSetsEvent
    \/ StopRuns

Spec == Init /\ [][Next]_vars

\* Both threads are scheduled, a login call returns, and a connection that was
\* asked to close closes.  The peer need never close, nor a user ever stop.
FairSpec == Spec /\ WF_vars(SupervisorRuns) /\ WF_vars(StopRuns)

----------------------------------------------------------------------------
TypeOK ==
    /\ sup \in SupervisorStep
    /\ attempt \in 0..CountLimit
    /\ loginTry \in 0..LoginAttempts
    /\ clean \in BOOLEAN
    /\ delay \in DelayInitial..DelayMax
    /\ socket \in {"none", "created", "open"}
    /\ closeAsked \in BOOLEAN
    /\ connected \in BOOLEAN
    /\ sessions \in 0..CountLimit
    /\ stopEvent \in BOOLEAN
    /\ queueClosed \in BOOLEAN
    /\ stopAt \in StopStep
    /\ stopHolds \in BOOLEAN
    /\ stops \in 0..MaxStops
    /\ closeFailed \in BOOLEAN

\* The connected flag never outlives the session it was set in, although neither
\* callback that clears it need run: the supervisor's finally does.
ConnectedOnlyInSession == connected => sup \in {"session", "after"}

\* The feed thread ends by itself only when a limit of reconnects is configured
\* and that many sessions were tried: no login failure, network error or clean
\* close ends it.
GivesUpOnlyAtLimit ==
    sup \in {"finish", "exited"} /\ ~stopEvent
        => MaxReconnects > 0 /\ attempt >= MaxReconnects

\* "Reset the backoff so a single transient close does not inherit a long delay
\* from an earlier outage": every wait after a clean close is the initial one,
\* whatever the outages before it.
CleanCloseResetsBackoff == sup = "wait" /\ clean => delay = DelayInitial

\* Nothing else shortens it: failures, stops and login errors leave the back-off
\* where it was or lengthen it, up to the maximum.
OnlyCleanCloseShortensBackoff == [][delay' < delay => sup = "after" /\ clean]_vars

\* A stop() that finds a session established, announced or not, or the supervisor
\* anywhere but between a login and the new socket, ends the feed thread.  The one
\* exception: close_connection itself raises, which stop() only logs.
StopEndsEstablishedSession ==
    (stopAt = "read" /\ sup \notin {"login", "create"})
        ~> (sup \in {"exited", "raised"} \/ closeFailed)

\* After every session, however it ended, the supervisor comes to the next login,
\* or it ends and releases the engine thread that polls the queue.
SupervisorKeepsTrying ==
    sup = "after" ~> (sup = "login" \/ (sup = "exited" /\ queueClosed))

\* Giving up after max_reconnect_attempts closes the queue: the engine thread is
\* not left polling a feed that will never deliver.
GivingUpReleasesConsumer ==
    (sup = "after" /\ MaxReconnects > 0 /\ attempt >= MaxReconnects) ~> queueClosed

\* "Stop the supervisor, close the socket and release the consumer", unless
\* closing the socket fails.
StopEndsFeedThread == stopAt = "read" ~> (sup \in {"exited", "raised"} \/ closeFailed)

============================================================================
