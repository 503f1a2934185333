---------------------------- MODULE WebSocketHub ----------------------------
(***************************************************************************)
(* server/websocket_middleware.go: the websocket clients, the hub that     *)
(* knows the authenticated ones, and the goroutines that write to them.    *)
(*                                                                         *)
(* Each connection has a goroutine: handleWebSocket, which authenticates   *)
(* it, puts it into the hub and sends it the current octave, and then its  *)
(* reader.  Run has another.  Any of them may change the octave and        *)
(* announce it: the change is made under the mapper's lock, the            *)
(* announcement is a broadcast to a copy of the hub's clients, without     *)
(* any lock from one client to the next.  A client that cannot be written  *)
(* to is removed from the hub and closed.                                  *)
(*                                                                         *)
(* hub.mu is only held for longer than a step by closeAll, which waits for *)
(* the lock of each client while it holds it; a client's lock is held for  *)
(* as long as a write to it takes, up to the write deadline.               *)
(*                                                                         *)
(* All messages but the octave are one, `Other': events, drums, pings,     *)
(* replies and status.                                                     *)
(***************************************************************************)
EXTENDS Integers, FiniteSets

CONSTANTS
  Clients,            \* connections, one wsClient and one goroutine each
  Run,                \* the goroutine of Run
  NoClient, Other,
  MinOctave, MaxOctave

ASSUME RunAssumption == Run \notin Clients /\ NoClient \notin Clients
ASSUME OctaveAssumption == MinOctave \in Int /\ MaxOctave \in Int /\ MinOctave <= MaxOctave
ASSUME OtherAssumption == Other \notin Int

VARIABLES
  clients,            \* hub.clients
  authenticated,      \* clients whose authenticated flag is set
  conn,               \* the connections
  currentOctave,      \* of the mapper
  pc,                 \* where each goroutine is
  msg,                \* the message it writes
  targets,            \* broadcast: the clients it has still to write to
  at,                 \* the client it writes to, removes or closes
  stopping,           \* Run has left its loop
  view,               \* history: the octave each peer was last told
  raced               \* history: since the last announcement that was alone,
                      \* two announcements or snapshots have overlapped

hubVars == <<clients, authenticated, conn>>
procVars == <<pc, msg, targets, at>>
vars == <<hubVars, currentOctave, procVars, stopping, view, raced>>

Goroutines == Clients \cup {Run}
Octaves == MinOctave..MaxOctave

clampOctave(octave) ==
  IF octave < MinOctave THEN MinOctave
  ELSE IF octave > MaxOctave THEN MaxOctave ELSE octave

\* The goroutines that hold an octave they have still to write to a client.
Announcing == {p \in Goroutines : msg[p] # Other}

\* Mutant: broadcast removes a client from the hub before it unlocks c.mu.
Holds_UntilRemoved(p, c) ==
  at[p] = c /\ pc[p] \in {"reply", "broadcast", "remove"}

\* A goroutine writing to c holds c.mu.
Holds(p, c) == at[p] = c /\ pc[p] \in {"reply", "broadcast"}

\* closeAll holds hub.mu.
HubLocked == pc[Run] = "closeAll"

ClientLocked(c) == \E p \in Goroutines : Holds(p, c)

Init ==
  /\ clients = {} /\ authenticated = {}
  /\ conn = [c \in Clients |-> "none"]
  /\ currentOctave \in Octaves
  /\ pc = [p \in Goroutines |-> IF p = Run THEN "loop" ELSE "none"]
  /\ msg = [p \in Goroutines |-> Other]
  /\ targets = [p \in Goroutines |-> {}]
  /\ at = [p \in Goroutines |-> NoClient]
  /\ stopping = FALSE
  /\ view = [c \in Clients |-> Other]
  /\ raced = FALSE

Goto(p, label) == pc' = [pc EXCEPT ![p] = label]

-----------------------------------------------------------------------------
\* Broadcasts and writes, by the goroutine p.

\* broadcast copies the hub's clients.
CopyClients(p) ==
  /\ pc[p] = "announce" /\ ~HubLocked
  /\ Goto(p, "broadcast")
  /\ targets' = [targets EXCEPT ![p] = clients]
  /\ UNCHANGED <<hubVars, currentOctave, msg, at, stopping, view, raced>>

\* Mutant: writeJSON writes without taking c.mu.
BeginWrite_Unlocked(p) ==
  /\ pc[p] \in {"reply", "broadcast"} /\ at[p] = NoClient
  /\ \E c \in targets[p] : at' = [at EXCEPT ![p] = c]
  /\ UNCHANGED <<hubVars, currentOctave, pc, msg, targets, stopping, view, raced>>

\* writeJSON takes c.mu.
BeginWrite(p) ==
  /\ pc[p] \in {"reply", "broadcast"} /\ at[p] = NoClient
  /\ \E c \in targets[p] : /\ ~ClientLocked(c)
                           /\ at' = [at EXCEPT ![p] = c]
  /\ UNCHANGED <<hubVars, currentOctave, pc, msg, targets, stopping, view, raced>>

WriteSucceeds(p) ==
  /\ pc[p] \in {"reply", "broadcast"} /\ at[p] # NoClient
  /\ conn[at[p]] = "open"
  /\ view' = [view EXCEPT ![at[p]] = IF msg[p] = Other THEN @ ELSE msg[p]]
  /\ targets' = [targets EXCEPT ![p] = @ \ {at[p]}]
  /\ at' = [at EXCEPT ![p] = NoClient]
  /\ UNCHANGED <<hubVars, currentOctave, pc, msg, stopping, raced>>

\* The deadline of a write passes or the peer is gone; a connection that has
\* failed to write fails from then on.  A reply's error is ignored.
WriteFails(p) ==
  /\ pc[p] \in {"reply", "broadcast"} /\ at[p] # NoClient
  /\ conn' = [conn EXCEPT ![at[p]] = IF @ = "open" THEN "broken" ELSE @]
  /\ targets' = [targets EXCEPT ![p] = @ \ {at[p]}]
  /\ IF pc[p] = "reply"
     THEN at' = [at EXCEPT ![p] = NoClient] /\ UNCHANGED pc
     ELSE Goto(p, "remove") /\ UNCHANGED at
  /\ UNCHANGED <<clients, authenticated, currentOctave, msg, stopping, view, raced>>

\* Mutant: broadcast ends with the first client it cannot write to.
RemoveFailed_Abort(p) ==
  /\ pc[p] = "remove" /\ ~HubLocked
  /\ clients' = clients \ {at[p]}
  /\ targets' = [targets EXCEPT ![p] = {}]
  /\ Goto(p, "close")
  /\ UNCHANGED <<authenticated, conn, currentOctave, msg, at, stopping, view, raced>>

\* broadcast and pingAll: h.remove(c) ...
RemoveFailed(p) ==
  /\ pc[p] = "remove" /\ ~HubLocked
  /\ clients' = clients \ {at[p]}
  /\ Goto(p, "close")
  /\ UNCHANGED <<authenticated, conn, currentOctave, msg, targets, at, stopping,
                 view, raced>>

\* ... and c.close(), under c.mu.
CloseFailed(p) ==
  /\ pc[p] = "close" /\ ~ClientLocked(at[p])
  /\ conn' = [conn EXCEPT ![at[p]] = "closed"]
  /\ at' = [at EXCEPT ![p] = NoClient]
  /\ Goto(p, "broadcast")
  /\ UNCHANGED <<clients, authenticated, currentOctave, msg, targets, stopping,
                 view, raced>>

\* The broadcast or the reply returns.
Written(p) ==
  /\ pc[p] \in {"reply", "broadcast"} /\ at[p] = NoClient /\ targets[p] = {}
  /\ Goto(p, IF p # Run THEN "read" ELSE IF stopping THEN "shutdown" ELSE "loop")
  /\ msg' = [msg EXCEPT ![p] = Other]
  /\ UNCHANGED <<hubVars, currentOctave, targets, at, stopping, view, raced>>

-----------------------------------------------------------------------------
\* The goroutine of a connection.

\* handleWebSocket upgrades the connection.
Connect(c) ==
  /\ pc[c] = "none" /\ pc[Run] \notin {"closeAll", "done"}
  /\ conn' = [conn EXCEPT ![c] = "open"]
  /\ Goto(c, "upgraded")
  /\ UNCHANGED <<clients, authenticated, currentOctave, msg, targets, at,
                 stopping, view, raced>>

Reply(c, message) ==
  /\ Goto(c, "reply")
  /\ msg' = [msg EXCEPT ![c] = message]
  /\ targets' = [targets EXCEPT ![c] = {c}]

\* No token, or RestoreSession refuses it: auth:required.
AuthRequired(c) ==
  /\ pc[c] = "upgraded"
  /\ Reply(c, Other)
  /\ UNCHANGED <<hubVars, currentOctave, at, stopping, view, raced>>

\* RestoreSession accepts the token: markAuthenticated ...
MarkAuthenticated(c) ==
  /\ pc[c] = "upgraded"
  /\ authenticated' = authenticated \cup {c}
  /\ Goto(c, "marked")
  /\ UNCHANGED <<clients, conn, currentOctave, msg, targets, at, stopping, view,
                 raced>>

\* ... hub.add ...
AddToHub(c) ==
  /\ pc[c] = "marked" /\ ~HubLocked
  /\ clients' = clients \cup {c}
  /\ Goto(c, "added")
  /\ UNCHANGED <<authenticated, conn, currentOctave, msg, targets, at, stopping,
                 view, raced>>

\* ... and sendStatusSnapshot, up to its write.
ReadOctave(c) ==
  /\ pc[c] = "added"
  /\ Reply(c, currentOctave)
  /\ raced' = (raced \/ Announcing # {})
  /\ UNCHANGED <<hubVars, currentOctave, at, stopping, view>>

\* A message that is answered to its client alone: ping, an unknown type, a
\* payload that does not decode, or anything while not authenticated.
AnswerMessage(c) ==
  /\ pc[c] = "read" /\ conn[c] # "closed"
  /\ Reply(c, Other)
  /\ UNCHANGED <<hubVars, currentOctave, at, stopping, view, raced>>

\* The octave is changed under the mapper's lock, to be announced.
ChangeOctave(p, octave) ==
  /\ currentOctave' = octave
  /\ msg' = [msg EXCEPT ![p] = octave]
  /\ raced' = (Announcing # {})
  /\ Goto(p, "announce")
  /\ UNCHANGED <<hubVars, targets, at, stopping, view>>

\* shift-octave and set-octave, of an authenticated client.
HandleOctave(c) ==
  /\ pc[c] = "read" /\ conn[c] # "closed" /\ c \in authenticated
  /\ \E octave \in Octaves : ChangeOctave(c, octave)

\* ReadJSON fails: the peer left, was silent for 120 seconds, sent no JSON,
\* or the connection was closed.
ReadFails(c) ==
  /\ pc[c] = "read"
  /\ Goto(c, "leave")
  /\ UNCHANGED <<hubVars, currentOctave, msg, targets, at, stopping, view, raced>>

\* Mutant: the reader leaves the hub to whoever closed the connection.
LeaveHub_IfOpen(c) ==
  /\ pc[c] = "leave" /\ ~HubLocked
  /\ clients' = IF conn[c] = "open" THEN clients \ {c} ELSE clients
  /\ Goto(c, "left")
  /\ UNCHANGED <<authenticated, conn, currentOctave, msg, targets, at, stopping,
                 view, raced>>

\* The reader's deferred hub.remove ...
LeaveHub(c) ==
  /\ pc[c] = "leave" /\ ~HubLocked
  /\ clients' = clients \ {c}
  /\ Goto(c, "left")
  /\ UNCHANGED <<authenticated, conn, currentOctave, msg, targets, at, stopping,
                 view, raced>>

\* ... and conn.Close, without c.mu.
CloseConn(c) ==
  /\ pc[c] = "left"
  /\ conn' = [conn EXCEPT ![c] = "closed"]
  /\ Goto(c, "gone")
  /\ UNCHANGED <<clients, authenticated, currentOctave, msg, targets, at,
                 stopping, view, raced>>

-----------------------------------------------------------------------------
\* Run.

\* An event, a drum key or the ping ticker.
RunBroadcasts ==
  /\ pc[Run] = "loop"
  /\ Goto(Run, "announce")
  /\ UNCHANGED <<hubVars, currentOctave, msg, targets, at, stopping, view, raced>>

\* The keys Up and Down.
RunShiftsOctave ==
  /\ pc[Run] = "loop"
  /\ \E delta \in {-1, 1} : ChangeOctave(Run, clampOctave(currentOctave + delta))

\* ctx.Done or Escape, announced as "stopped"; or the HTTP server's error.
RunStops ==
  /\ pc[Run] = "loop"
  /\ stopping' = TRUE
  /\ \/ Goto(Run, "announce") \/ Goto(Run, "shutdown")
  /\ UNCHANGED <<hubVars, currentOctave, msg, targets, at, view, raced>>

\* httpServer.Shutdown, which does not wait for upgraded connections; then
\* closeAll takes hub.mu.
Shutdown ==
  /\ pc[Run] = "shutdown"
  /\ Goto(Run, "closeAll")
  /\ UNCHANGED <<hubVars, currentOctave, msg, targets, at, stopping, view, raced>>

\* Mutant: closeAll empties the hub without closing the connections.
CloseNext_HubOnly ==
  /\ pc[Run] = "closeAll"
  /\ \E c \in clients : ~ClientLocked(c) /\ clients' = clients \ {c}
  /\ UNCHANGED <<authenticated, conn, currentOctave, procVars, stopping, view, raced>>

\* One iteration of closeAll.
CloseNext ==
  /\ pc[Run] = "closeAll"
  /\ \E c \in clients :
       /\ ~ClientLocked(c)
       /\ conn' = [conn EXCEPT ![c] = "closed"]
       /\ clients' = clients \ {c}
  /\ UNCHANGED <<authenticated, currentOctave, procVars, stopping, view, raced>>

CloseAllReturns ==
  /\ pc[Run] = "closeAll" /\ clients = {}
  /\ Goto(Run, "done")
  /\ UNCHANGED <<hubVars, currentOctave, msg, targets, at, stopping, view, raced>>

-----------------------------------------------------------------------------

Write(p) ==
  \/ CopyClients(p) \/ BeginWrite(p) \/ WriteSucceeds(p) \/ WriteFails(p)
  \/ RemoveFailed(p) \/ CloseFailed(p) \/ Written(p)

Handshake(c) ==
  AuthRequired(c) \/ MarkAuthenticated(c) \/ AddToHub(c) \/ ReadOctave(c)

Close == Shutdown \/ CloseNext \/ CloseAllReturns

Next ==
  \/ \E p \in Goroutines : Write(p)
  \/ \E c \in Clients : \/ Connect(c) \/ Handshake(c)
                        \/ AnswerMessage(c) \/ HandleOctave(c)
                        \/ ReadFails(c) \/ LeaveHub(c) \/ CloseConn(c)
  \/ RunBroadcasts \/ RunShiftsOctave \/ RunStops \/ Close

Spec == Init /\ [][Next]_vars

\* A goroutine that writes goes on when it can: a write ends by its deadline,
\* and a goroutine that waits for a Go mutex gets it in the end even if others
\* keep taking it.  Messages, peers and keys owe nothing; Run need not stop.
FairSpec ==
  /\ Spec
  /\ \A c \in Clients : SF_vars(Write(c))
  /\ SF_vars(Write(Run) \/ Close)

-----------------------------------------------------------------------------

TypeOK ==
  /\ clients \subseteq Clients /\ authenticated \subseteq Clients
  /\ conn \in [Clients -> {"none", "open", "broken", "closed"}]
  /\ currentOctave \in Octaves
  /\ pc \in [Goroutines -> {"none", "upgraded", "marked", "added", "reply",
       "read", "announce", "broadcast", "remove", "close", "leave", "left",
       "gone", "loop", "shutdown", "closeAll", "done"}]
  /\ msg \in [Goroutines -> Octaves \cup {Other}]
  /\ targets \in [Goroutines -> SUBSET Clients]
  /\ at \in [Goroutines -> Clients \cup {NoClient}]
  /\ stopping \in BOOLEAN /\ raced \in BOOLEAN
  /\ view \in [Clients -> Octaves \cup {Other}]
  \* c.mu is held by at most one goroutine.
  /\ \A p, q \in Goroutines : at[p] # NoClient /\ Holds(p, at[p]) /\ Holds(q, at[p]) => p = q

(***************************************************************************)
(* The hub knows no strangers and no ghosts: only an authenticated client  *)
(* is in it or is ever told the octave, and a client whose goroutine has   *)
(* ended is not in it, whoever added, removed or closed it meanwhile.      *)
(***************************************************************************)
HubMembers ==
  /\ clients \subseteq authenticated
  /\ \A c \in Clients : /\ view[c] # Other => c \in authenticated
                        /\ pc[c] \in {"left", "gone"} => c \notin clients

(***************************************************************************)
(* Nobody is forgotten: a session that was accepted is in the hub, and so  *)
(* hears the broadcasts and is found by closeAll, until its connection has *)
(* failed or was closed, whichever goroutines add, remove and close at the *)
(* same time.  This includes the client that is accepted after closeAll    *)
(* has run.  The windows are those of its own goroutine, between the mark  *)
(* and the hub and between the hub and conn.Close.                         *)
(***************************************************************************)
NobodyForgotten ==
  \A c \in authenticated :
    conn[c] = "open" /\ pc[c] \notin {"marked", "left"} => c \in clients

(***************************************************************************)
(* When nothing is being announced, every client that can be written to    *)
(* has last been told the mapper's octave, although it may have joined     *)
(* during a broadcast and other clients may have failed or left during it. *)
(* The exception is a race: goroutines that announced two octaves at the   *)
(* same time may have told a client the older one last.  The next          *)
(* announcement that is alone heals it.                                    *)
(***************************************************************************)
OctaveInStep ==
  Announcing = {} /\ ~raced =>
    \A c \in clients :
      conn[c] = "open" /\ pc[c] # "added" => view[c] = currentOctave

(***************************************************************************)
(* Run returns once it has left its loop: closeAll, which waits for the    *)
(* clients' locks while it holds the hub's, and the broadcasts, which take *)
(* both, never wait for each other.                                        *)
(***************************************************************************)
RunReturns == stopping ~> pc[Run] = "done"
=============================================================================
