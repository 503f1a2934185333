---------------------------- MODULE RunLifecycle ----------------------------
(***************************************************************************)
(* server/websocket_middleware.go, Run: what it starts, in which order,    *)
(* and what its deferred calls stop, in the opposite order, wherever it    *)
(* returns.  InputLock is composed with the gesture suppressor, the HTTP   *)
(* server with its connections, and the pool of database connections.      *)
(*                                                                         *)
(* The HTTP server has a goroutine of its own, which tells Run of an error *)
(* through a channel of capacity one, and each connection has another.     *)
(* Shutdown closes the listener and waits for the requests in progress,    *)
(* three seconds at most, so a request may use the database, or begin to,  *)
(* later than that.  It does not wait for websockets.  Closing the pool    *)
(* waits for the database connections in use, without a limit.  The        *)
(* context of an HTTP request expires, that of a websocket's handshake     *)
(* does not.                                                               *)
(***************************************************************************)
EXTENDS Integers, Sequences

CONSTANTS Keys, Escape, Zero, KEY_BUFFER_SIZE, MaxPresses    \* see InputLock
CONSTANTS Conns                                   \* HTTP connections

ASSUME KeysAssumption == Escape \in Keys /\ Zero \notin Keys
ASSUME SizeAssumption == KEY_BUFFER_SIZE \in Nat \ {0, 1}
ASSUME PressesAssumption == MaxPresses \in Nat

VARIABLES
  main, thread, mouseCursorDetached, inputThreadStarted, inputStopRequested,
  initStatus, tap, keyBuffer, keyHead, keyTail,
  drained, handled, accepted, presses, createFailed          \* see InputLock

VARIABLES
  config,              \* "all", "no_gestures" or "no_lock": -disable-...
  stage,               \* where Run is
  suppressed,          \* the gestures are off
  server,              \* the HTTP server's goroutine and its listener
  conn,                \* what each connection is doing
  pool                 \* the database pool

lockVars == <<main, thread, mouseCursorDetached, inputThreadStarted,
              inputStopRequested, initStatus, tap, keyBuffer, keyHead, keyTail,
              drained, handled, accepted, presses, createFailed>>
webVars == <<server, conn>>
vars == <<lockVars, config, stage, suppressed, webVars, pool>>

Lock == INSTANCE InputLock

Init ==
  /\ Lock!Init
  /\ config \in {"all", "no_gestures", "no_lock"}
  /\ stage = CASE config = "all" -> "gestures"
               [] config = "no_gestures" -> "lock"
               [] config = "no_lock" -> "poller"
  /\ suppressed = FALSE
  /\ server = "none"
  /\ conn = [c \in Conns |-> "none"]
  /\ pool = "open"

-----------------------------------------------------------------------------
\* Run's goroutine starts.

\* gestures.Start, which restores what it has changed when it fails.
StartGestures ==
  /\ stage = "gestures"
  /\ \/ suppressed' = TRUE /\ stage' = "lock"
     \/ stage' = "close" /\ UNCHANGED suppressed
  /\ UNCHANGED <<lockVars, config, webVars, pool>>

\* Mutant: when the input lock cannot be had, the gestures are left off.
StartLock_NoDefer ==
  /\ stage = "lock"
  /\ Lock!Start
  /\ stage' = CASE main' = "loop" -> "poller"
                [] main' = "ended" -> "close"
                [] OTHER -> stage
  /\ UNCHANGED <<config, suppressed, webVars, pool>>

\* A step of inputLock.Start.
StartLock ==
  /\ stage = "lock"
  /\ Lock!Start
  /\ stage' = CASE main' = "loop" -> "poller"
                [] main' = "ended" -> "restore"
                [] OTHER -> stage
  /\ UNCHANGED <<config, suppressed, webVars, pool>>

\* The keys are not drained any more.
LeaveKeys == IF config = "no_lock" THEN UNCHANGED lockVars ELSE Lock!Cancel

\* StartStylophonePolling, and the server's goroutine.
StartPoller ==
  /\ stage = "poller"
  /\ \/ /\ stage' = "loop" /\ server' = "starting"
        /\ UNCHANGED lockVars
     \/ /\ stage' = "unlock" /\ UNCHANGED server
        /\ LeaveKeys
  /\ UNCHANGED <<config, suppressed, conn, pool>>

-----------------------------------------------------------------------------
\* Its loop, and the deferred calls.

HandleKeys ==
  /\ stage = "loop"
  /\ Lock!Drain
  /\ stage' = IF main' = "stop" THEN "shutdown" ELSE stage
  /\ UNCHANGED <<config, suppressed, webVars, pool>>

EndLoop ==
  /\ stage = "loop"
  /\ LeaveKeys
  /\ stage' = "shutdown"
  /\ UNCHANGED <<config, suppressed, webVars, pool>>

\* ctx.Done.
Cancelled == EndLoop

\* The error of the HTTP server.
ServerError == server = "failed" /\ EndLoop

\* httpServer.Shutdown closes the listener ...
BeginShutdown ==
  /\ stage = "shutdown"
  /\ stage' = "drain"
  /\ server' = IF server = "failed" THEN server ELSE "closed"
  /\ UNCHANGED <<lockVars, config, suppressed, conn, pool>>

InUse == \E c \in Conns : conn[c] \in {"http", "websocket"}

\* Mutant: every handler is waited for.
EndShutdown_WaitAll ==
  /\ stage = "drain" /\ ~InUse
  /\ stage' = "unlock"
  /\ UNCHANGED <<lockVars, config, suppressed, webVars, pool>>

\* ... and returns, after three seconds at the latest; then hub.closeAll.
EndShutdown ==
  /\ stage = "drain"
  /\ stage' = "unlock"
  /\ UNCHANGED <<lockVars, config, suppressed, webVars, pool>>

\* inputLock.Stop.
Unlock ==
  /\ stage = "unlock"
  /\ IF config = "no_lock" THEN UNCHANGED lockVars ELSE Lock!Stop
  /\ stage' = IF config = "no_lock" \/ main' = "ended" THEN "restore" ELSE stage
  /\ UNCHANGED <<config, suppressed, webVars, pool>>

\* gestures.Stop.
Restore ==
  /\ stage = "restore"
  /\ suppressed' = FALSE
  /\ stage' = "close"
  /\ UNCHANGED <<lockVars, config, webVars, pool>>

\* auth.Close: from now on no connection of the pool can be had, ...
BeginClose ==
  /\ stage = "close"
  /\ pool' = "closing" /\ stage' = "closing"
  /\ UNCHANGED <<lockVars, config, suppressed, webVars>>

\* ... and those in use are waited for.
EndClose ==
  /\ stage = "closing" /\ ~InUse
  /\ pool' = "closed" /\ stage' = "returned"
  /\ UNCHANGED <<lockVars, config, suppressed, webVars>>

-----------------------------------------------------------------------------
\* The HTTP server and its connections.

ListenAndServe ==
  /\ \/ server = "starting" /\ server' = "listening"
     \/ server \in {"starting", "listening"} /\ server' = "failed"
  /\ UNCHANGED <<lockVars, config, stage, suppressed, conn, pool>>

Accept(c) ==
  /\ conn[c] = "none" /\ server = "listening"
  /\ conn' = [conn EXCEPT ![c] = "accepted"]
  /\ UNCHANGED <<lockVars, config, stage, suppressed, server, pool>>

\* A request's statement gets a connection of the pool, if it is still open.
Request(c) ==
  /\ conn[c] = "accepted" /\ stage # "returned"
  /\ \E kind \in IF pool = "open" THEN {"http", "websocket"} ELSE {"over"} :
       conn' = [conn EXCEPT ![c] = kind]
  /\ UNCHANGED <<lockVars, config, stage, suppressed, server, pool>>

\* The database has answered an HTTP request, or its context has expired;
\* the connection is kept alive until the server is shut down.
RequestEnds(c) ==
  /\ conn[c] = "http"
  /\ conn' = [conn EXCEPT ![c] = IF server = "closed" THEN "over" ELSE "accepted"]
  /\ UNCHANGED <<lockVars, config, stage, suppressed, server, pool>>

\* The database has answered RestoreSession.
HandshakeEnds(c) ==
  /\ conn[c] = "websocket"
  /\ conn' = [conn EXCEPT ![c] = "over"]
  /\ UNCHANGED <<lockVars, config, stage, suppressed, server, pool>>

-----------------------------------------------------------------------------
\* The input thread and its callback go on meanwhile.

InputThread == Lock!ThreadSteps /\ UNCHANGED <<config, stage, suppressed, webVars, pool>>

Press == Lock!Callback /\ UNCHANGED <<config, stage, suppressed, webVars, pool>>

\* Everything Run does but leave its loop because of ctx.
RunStep ==
  \/ StartGestures \/ StartLock \/ StartPoller
  \/ HandleKeys \/ ServerError
  \/ BeginShutdown \/ EndShutdown \/ Unlock \/ Restore \/ BeginClose \/ EndClose

Next ==
  \/ RunStep \/ Cancelled
  \/ ListenAndServe
  \/ \E c \in Conns : Accept(c) \/ Request(c) \/ RequestEnds(c) \/ HandshakeEnds(c)
  \/ InputThread \/ Press

Spec == Init /\ [][Next]_vars

\* Goroutines and threads are scheduled, the key ticker fires, and contexts
\* expire.  Nobody has to press a key, to connect or to cancel, and neither
\* has the database to answer.
FairSpec ==
  /\ Spec
  /\ WF_vars(RunStep) /\ WF_vars(HandleKeys) /\ SF_vars(ServerError)
  /\ WF_vars(InputThread)
  /\ \A c \in Conns : WF_vars(RequestEnds(c))

-----------------------------------------------------------------------------

TypeOK ==
  /\ Lock!TypeOK
  /\ config \in {"all", "no_gestures", "no_lock"}
  /\ stage \in {"gestures", "lock", "poller", "loop", "shutdown", "drain",
                "unlock", "restore", "close", "closing", "returned"}
  /\ suppressed \in BOOLEAN
  /\ server \in {"none", "starting", "listening", "failed", "closed"}
  /\ conn \in [Conns -> {"none", "accepted", "http", "websocket", "over"}]
  /\ pool \in {"open", "closing", "closed"}

InOrder == Lock!InOrder

\* The user has everything back that Run takes: the gestures, the keys, which
\* a tap would swallow, and the cursor, unless pthread_create has failed.
Free ==
  /\ ~suppressed
  /\ tap = "null" /\ thread \in {"none", "exited"}
  /\ mouseCursorDetached => createFailed

(***************************************************************************)
(* Run's deferred calls run in the order that matters, wherever it failed: *)
(* the user has keyboard, cursor and gestures back before anything is      *)
(* waited for that a database may hold up, and when Run has returned, the  *)
(* server is down and no goroutine holds a database connection.            *)
(***************************************************************************)
OrderlyReturn ==
  /\ pool # "open" => Free
  /\ stage = "returned" =>
       pool = "closed" /\ ~InUse /\ server \notin {"starting", "listening"}

Stopping ==
  \/ stage \notin {"gestures", "lock", "poller", "loop"}
  \/ server = "failed"
  \/ \E i \in DOMAIN accepted : accepted[i] = Escape

(***************************************************************************)
(* The user gets the inputs back: after an Escape, an error of any part    *)
(* (the port is taken) or a cancellation, the gestures are restored, the   *)
(* thread is joined and the cursor attached, whatever the requests in      *)
(* progress and the database are doing.                                    *)
(***************************************************************************)
InputsGivenBack == Stopping ~> Free /\ stage \in {"close", "closing", "returned"}

(***************************************************************************)
(* Run returns, provided that the database answers the websockets that     *)
(* are being authenticated: nothing else can hold it up.                   *)
(***************************************************************************)
RunReturns ==
  (\A c \in Conns : []<>(conn[c] # "websocket")) => (Stopping ~> stage = "returned")
=============================================================================
