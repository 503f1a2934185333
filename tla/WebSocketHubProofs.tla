-------------------------- MODULE WebSocketHubProofs --------------------------
(***************************************************************************)
(* What holds of the hub for any number of connections, whatever their     *)
(* goroutines and Run's do at the same time.  The argument follows a       *)
(* broadcast: whoever it writes to, removes or closes was in the hub, and  *)
(* so is authenticated; and it removes only whom it has failed to write    *)
(* to, whose connection never works again.  Of the octave, it follows an   *)
(* announcement that is alone: each client that can be written to has been *)
(* told it, or is still on the announcement's list.                        *)
(***************************************************************************)
EXTENDS WebSocketHub, TLAPS

\* A goroutine that does not write has nobody to write to.
Quiet ==
  \A p \in Goroutines :
    pc[p] \notin {"reply", "broadcast", "remove", "close"} =>
      targets[p] = {} /\ at[p] = NoClient

\* The octave and all broadcasts are for authenticated clients.
Addressed ==
  \A p \in Goroutines :
    pc[p] \in {"broadcast", "remove", "close"} \/ msg[p] # Other =>
      targets[p] \subseteq authenticated /\ at[p] \in authenticated \cup {NoClient}

\* Whoever is about to be removed has failed.
Failed ==
  \A p \in Goroutines :
    /\ pc[p] \in {"remove", "close"} => at[p] # NoClient
    /\ pc[p] = "remove" => conn[at[p]] # "open"

\* The handshake marks a client before it puts it into the hub.
Handshaken ==
  \A c \in Clients :
    /\ pc[c] \in {"none", "upgraded"} => c \notin authenticated
    /\ pc[c] \in {"marked", "added"} => c \in authenticated

HubInv ==
  TypeOK /\ Quiet /\ Addressed /\ Failed /\ Handshaken /\ HubMembers /\ NobodyForgotten

-----------------------------------------------------------------------------

\* It holds before anyone connects.
LEMMA HubInvInit == Init => HubInv
<1> SUFFICES ASSUME Init PROVE HubInv
  OBVIOUS
<1>1. TypeOK
  BY DEF Init, TypeOK, Goroutines
<1>2. \A p \in Goroutines : pc[p] \in {"loop", "none"} /\ msg[p] = Other
                            /\ targets[p] = {} /\ at[p] = NoClient
  BY DEF Init
<1>3. \A c \in Clients : pc[c] = "none"
  BY RunAssumption DEF Init, Goroutines
<1>4. Quiet /\ Addressed /\ Failed
  BY <1>2 DEF Quiet, Addressed, Failed
<1>5. Handshaken /\ HubMembers /\ NobodyForgotten
  BY <1>3 DEF Init, Handshaken, HubMembers, NobodyForgotten
<1> QED  BY <1>1, <1>4, <1>5 DEF HubInv

\* An octave that has been clamped is one of the instrument's.
LEMMA clampOctaveType ==
  ASSUME NEW octave \in Int
  PROVE  clampOctave(octave) \in Octaves
  BY OctaveAssumption DEF clampOctave, Octaves

(***************************************************************************)
(* The types, and that a client's lock has one holder.                     *)
(***************************************************************************)
LEMMA TypeStep ==
  ASSUME HubInv, [Next]_vars
  PROVE  TypeOK'
<1> USE RunAssumption, OtherAssumption DEF HubInv, TypeOK, Goroutines, Goto, Holds, hubVars
<1>1. CASE UNCHANGED vars
  BY <1>1 DEF vars, procVars
<1>2. ASSUME NEW p \in Goroutines, Write(p) PROVE TypeOK'
  <2>1. CASE CopyClients(p)
    BY <2>1 DEF CopyClients, Quiet
  <2>2. CASE BeginWrite(p)
    BY <2>2 DEF BeginWrite, ClientLocked
  <2>3. CASE WriteSucceeds(p)
    BY <2>3 DEF WriteSucceeds
  <2>4. CASE WriteFails(p)
    BY <2>4 DEF WriteFails
  <2>5. CASE RemoveFailed(p)
    BY <2>5 DEF RemoveFailed
  <2>6. CASE CloseFailed(p)
    BY <2>6 DEF CloseFailed
  <2>7. CASE Written(p)
    BY <2>7 DEF Written
  <2> QED  BY <1>2, <2>1, <2>2, <2>3, <2>4, <2>5, <2>6, <2>7 DEF Write
<1>3. ASSUME NEW c \in Clients, Handshake(c) PROVE TypeOK'
  <2>1. CASE AuthRequired(c)
    BY <2>1 DEF AuthRequired, Reply, Quiet
  <2>2. CASE MarkAuthenticated(c)
    BY <2>2 DEF MarkAuthenticated
  <2>3. CASE AddToHub(c)
    BY <2>3 DEF AddToHub
  <2>4. CASE ReadOctave(c)
    BY <2>4 DEF ReadOctave, Reply, Quiet
  <2> QED  BY <1>3, <2>1, <2>2, <2>3, <2>4 DEF Handshake
<1>4. ASSUME NEW p \in Goroutines, NEW octave \in Octaves, ChangeOctave(p, octave)
      PROVE  TypeOK'
  BY <1>4 DEF ChangeOctave
<1>5. ASSUME NEW c \in Clients,
             \/ Connect(c) \/ AnswerMessage(c) \/ HandleOctave(c)
             \/ ReadFails(c) \/ LeaveHub(c) \/ CloseConn(c)
      PROVE  TypeOK'
  <2>1. CASE Connect(c)
    BY <2>1 DEF Connect
  <2>2. CASE AnswerMessage(c)
    BY <2>2 DEF AnswerMessage, Reply, Quiet
  <2>3. CASE HandleOctave(c)
    BY <1>4, <2>3 DEF HandleOctave
  <2>4. CASE ReadFails(c)
    BY <2>4 DEF ReadFails
  <2>5. CASE LeaveHub(c)
    BY <2>5 DEF LeaveHub
  <2>6. CASE CloseConn(c)
    BY <2>6 DEF CloseConn
  <2> QED  BY <1>5, <2>1, <2>2, <2>3, <2>4, <2>5, <2>6
<1>6. CASE RunBroadcasts \/ RunStops \/ Shutdown \/ CloseAllReturns
  <2>1. CASE RunBroadcasts
    BY <2>1 DEF RunBroadcasts, Quiet
  <2>2. CASE RunStops
    BY <2>2 DEF RunStops, Quiet
  <2>3. CASE Shutdown
    BY <2>3 DEF Shutdown
  <2>4. CASE CloseAllReturns
    BY <2>4 DEF CloseAllReturns
  <2> QED  BY <1>6, <2>1, <2>2, <2>3, <2>4
<1>7. CASE RunShiftsOctave
  <2>1. PICK delta \in {-1, 1} : ChangeOctave(Run, clampOctave(currentOctave + delta))
    BY <1>7 DEF RunShiftsOctave
  <2>2. clampOctave(currentOctave + delta) \in Octaves
    BY clampOctaveType, OctaveAssumption DEF Octaves
  <2> QED  BY <1>4, <2>1, <2>2
<1>8. CASE CloseNext
  BY <1>8 DEF CloseNext, procVars
<1> QED
  BY <1>1, <1>2, <1>3, <1>5, <1>6, <1>7, <1>8 DEF Next, Close

(***************************************************************************)
(* What a goroutine writes, and to whom.                                   *)
(***************************************************************************)
LEMMA WriterStep ==
  ASSUME HubInv, [Next]_vars
  PROVE  Quiet' /\ Addressed' /\ Failed'
<1> USE RunAssumption DEF HubInv, TypeOK, Goroutines, Goto, hubVars, procVars,
                          Quiet, Addressed, Failed
<1> DEFINE WriterInv == Quiet /\ Addressed /\ Failed
<1> SUFFICES WriterInv'
  OBVIOUS
<1>1. CASE UNCHANGED vars
  BY <1>1 DEF vars
<1>2. ASSUME NEW p \in Goroutines, Write(p) PROVE WriterInv'
  <2>1. CASE CopyClients(p)
    BY <2>1 DEF CopyClients, HubMembers
  <2>2. CASE BeginWrite(p)
    BY <2>2 DEF BeginWrite
  <2>3. CASE WriteSucceeds(p)
    BY <2>3 DEF WriteSucceeds
  <2>4. CASE WriteFails(p)
    BY <2>4 DEF WriteFails
  <2>5. CASE RemoveFailed(p)
    BY <2>5 DEF RemoveFailed
  <2>6. CASE CloseFailed(p)
    BY <2>6 DEF CloseFailed
  <2>7. CASE Written(p)
    BY <2>7 DEF Written
  <2> QED  BY <1>2, <2>1, <2>2, <2>3, <2>4, <2>5, <2>6, <2>7 DEF Write
<1>3. ASSUME NEW c \in Clients, Handshake(c) PROVE WriterInv'
  <2>1. CASE AuthRequired(c)
    BY <2>1 DEF AuthRequired, Reply
  <2>2. CASE MarkAuthenticated(c)
    BY <2>2 DEF MarkAuthenticated
  <2>3. CASE AddToHub(c)
    BY <2>3 DEF AddToHub
  <2>4. CASE ReadOctave(c)
    BY <2>4 DEF ReadOctave, Reply, Handshaken
  <2> QED  BY <1>3, <2>1, <2>2, <2>3, <2>4 DEF Handshake
<1>4. ASSUME NEW p \in Goroutines, NEW octave, ChangeOctave(p, octave),
             pc[p] \in {"read", "loop"}
      PROVE  WriterInv'
  BY <1>4 DEF ChangeOctave
<1>5. ASSUME NEW c \in Clients,
             \/ Connect(c) \/ AnswerMessage(c) \/ HandleOctave(c)
             \/ ReadFails(c) \/ LeaveHub(c) \/ CloseConn(c)
      PROVE  WriterInv'
  <2>1. CASE Connect(c)
    BY <2>1 DEF Connect, Handshaken
  <2>2. CASE AnswerMessage(c)
    BY <2>2 DEF AnswerMessage, Reply
  <2>3. CASE HandleOctave(c)
    BY <1>4, <2>3 DEF HandleOctave
  <2>4. CASE ReadFails(c)
    BY <2>4 DEF ReadFails
  <2>5. CASE LeaveHub(c)
    BY <2>5 DEF LeaveHub
  <2>6. CASE CloseConn(c)
    BY <2>6 DEF CloseConn
  <2> QED  BY <1>5, <2>1, <2>2, <2>3, <2>4, <2>5, <2>6
<1>6. CASE RunBroadcasts \/ RunStops \/ Shutdown \/ CloseAllReturns
  <2>1. CASE RunBroadcasts
    BY <2>1 DEF RunBroadcasts
  <2>2. CASE RunStops
    BY <2>2 DEF RunStops
  <2>3. CASE Shutdown
    BY <2>3 DEF Shutdown
  <2>4. CASE CloseAllReturns
    BY <2>4 DEF CloseAllReturns
  <2> QED  BY <1>6, <2>1, <2>2, <2>3, <2>4
<1>7. CASE RunShiftsOctave
  BY <1>4, <1>7 DEF RunShiftsOctave
<1>8. CASE CloseNext
  BY <1>8 DEF CloseNext
<1> QED
  BY <1>1, <1>2, <1>3, <1>5, <1>6, <1>7, <1>8 DEF Next, Close

(***************************************************************************)
(* Who is in the hub.                                                      *)
(***************************************************************************)
LEMMA MemberStep ==
  ASSUME HubInv, [Next]_vars
  PROVE  Handshaken' /\ HubMembers' /\ NobodyForgotten'
<1> USE RunAssumption DEF HubInv, TypeOK, Goroutines, Goto, hubVars, procVars,
                          Handshaken, HubMembers, NobodyForgotten
<1> DEFINE MemberInv == Handshaken /\ HubMembers /\ NobodyForgotten
<1> SUFFICES MemberInv'
  OBVIOUS
<1>1. CASE UNCHANGED vars
  BY <1>1 DEF vars
<1>2. ASSUME NEW p \in Goroutines, Write(p) PROVE MemberInv'
  <2>1. CASE CopyClients(p)
    BY <2>1 DEF CopyClients
  <2>2. CASE BeginWrite(p)
    BY <2>2 DEF BeginWrite
  <2>3. CASE WriteSucceeds(p)
    BY <2>3 DEF WriteSucceeds, Addressed
  <2>4. CASE WriteFails(p)
    BY <2>4 DEF WriteFails
  <2>5. CASE RemoveFailed(p)
    BY <2>5 DEF RemoveFailed, Failed
  <2>6. CASE CloseFailed(p)
    BY <2>6 DEF CloseFailed
  <2>7. CASE Written(p)
    BY <2>7 DEF Written
  <2> QED  BY <1>2, <2>1, <2>2, <2>3, <2>4, <2>5, <2>6, <2>7 DEF Write
<1>3. ASSUME NEW c \in Clients, Handshake(c) PROVE MemberInv'
  <2>1. CASE AuthRequired(c)
    BY <2>1 DEF AuthRequired, Reply
  <2>2. CASE MarkAuthenticated(c)
    BY <2>2 DEF MarkAuthenticated
  <2>3. CASE AddToHub(c)
    BY <2>3 DEF AddToHub
  <2>4. CASE ReadOctave(c)
    BY <2>4 DEF ReadOctave, Reply
  <2> QED  BY <1>3, <2>1, <2>2, <2>3, <2>4 DEF Handshake
<1>4. ASSUME NEW p \in Goroutines, NEW octave, ChangeOctave(p, octave),
             pc[p] \in {"read", "loop"}
      PROVE  MemberInv'
  BY <1>4 DEF ChangeOctave
<1>5. ASSUME NEW c \in Clients,
             \/ Connect(c) \/ AnswerMessage(c) \/ HandleOctave(c)
             \/ ReadFails(c) \/ LeaveHub(c) \/ CloseConn(c)
      PROVE  MemberInv'
  <2>1. CASE Connect(c)
    BY <2>1 DEF Connect
  <2>2. CASE AnswerMessage(c)
    BY <2>2 DEF AnswerMessage, Reply
  <2>3. CASE HandleOctave(c)
    BY <1>4, <2>3 DEF HandleOctave
  <2>4. CASE ReadFails(c)
    BY <2>4 DEF ReadFails
  <2>5. CASE LeaveHub(c)
    BY <2>5 DEF LeaveHub
  <2>6. CASE CloseConn(c)
    BY <2>6 DEF CloseConn
  <2> QED  BY <1>5, <2>1, <2>2, <2>3, <2>4, <2>5, <2>6
<1>6. CASE RunBroadcasts \/ RunStops \/ Shutdown \/ CloseAllReturns
  <2>1. CASE RunBroadcasts
    BY <2>1 DEF RunBroadcasts
  <2>2. CASE RunStops
    BY <2>2 DEF RunStops
  <2>3. CASE Shutdown
    BY <2>3 DEF Shutdown
  <2>4. CASE CloseAllReturns
    BY <2>4 DEF CloseAllReturns
  <2> QED  BY <1>6, <2>1, <2>2, <2>3, <2>4
<1>7. CASE RunShiftsOctave
  BY <1>4, <1>7 DEF RunShiftsOctave
<1>8. CASE CloseNext
  BY <1>8 DEF CloseNext
<1> QED
  BY <1>1, <1>2, <1>3, <1>5, <1>6, <1>7, <1>8 DEF Next, Close

-----------------------------------------------------------------------------

(***************************************************************************)
(* The inductive invariant of any number of connections.                   *)
(***************************************************************************)
THEOREM HubInvariant == Spec => []HubInv
<1>1. HubInv /\ [Next]_vars => HubInv'
  BY TypeStep, WriterStep, MemberStep DEF HubInv
<1> QED  BY <1>1, HubInvInit, PTL DEF Spec

(***************************************************************************)
(* The types, and one writer at a time per connection, whatever the number *)
(* of connections.                                                         *)
(***************************************************************************)
THEOREM TypeCorrect == Spec => []TypeOK
<1>1. HubInv => TypeOK
  BY DEF HubInv
<1> QED  BY <1>1, HubInvariant, PTL

(***************************************************************************)
(* The hub knows no strangers and no ghosts, however many connections      *)
(* come, fail and go at the same time.                                     *)
(***************************************************************************)
THEOREM NoStrangers == Spec => []HubMembers
<1>1. HubInv => HubMembers
  BY DEF HubInv
<1> QED  BY <1>1, HubInvariant, PTL

(***************************************************************************)
(* An accepted session stays in the hub while its connection works,        *)
(* however many goroutines add, remove and close at the same time.         *)
(***************************************************************************)
THEOREM NoneForgotten == Spec => []NobodyForgotten
<1>1. HubInv => NobodyForgotten
  BY DEF HubInv
<1> QED  BY <1>1, HubInvariant, PTL

-----------------------------------------------------------------------------
\* The octave.

\* Whoever holds an octave is on its way to write it.
Speaking ==
  \A p \in Announcing : pc[p] \in {"announce", "reply", "broadcast", "remove", "close"}

\* p will still write to c, or copy the clients first, c among them.
WillTell(p, c) == pc[p] = "announce" \/ c \in targets[p]

\* An announcement that is alone says what the octave is ...
Alone ==
  ~raced => /\ \A p, q \in Announcing : p = q
            /\ \A p \in Announcing : msg[p] = currentOctave

\* ... and whoever has not heard it will.
Followed ==
  ~raced =>
    \A c \in clients :
      conn[c] = "open" /\ pc[c] # "added" =>
        view[c] = currentOctave \/ \E p \in Announcing : WillTell(p, c)

OctaveInv == Speaking /\ Alone /\ Followed

\* It holds before anyone connects.
LEMMA OctaveInvInit == Init => OctaveInv
<1> SUFFICES ASSUME Init PROVE OctaveInv
  OBVIOUS
<1>1. Announcing = {} /\ clients = {}
  BY DEF Init, Announcing
<1> QED  BY <1>1 DEF OctaveInv, Speaking, Alone, Followed

\* Every step of Run and of a connection keeps it.
LEMMA OctaveStep ==
  ASSUME HubInv, OctaveInv, [Next]_vars
  PROVE  OctaveInv'
<1> USE RunAssumption, OtherAssumption
        DEF HubInv, TypeOK, Goroutines, Goto, hubVars, procVars, Announcing, WillTell,
            OctaveInv, Speaking, Alone, Followed
<1>1. CASE UNCHANGED vars
  BY <1>1 DEF vars
<1>2. ASSUME NEW p \in Goroutines, Write(p) PROVE OctaveInv'
  <2>1. CASE CopyClients(p)
    BY <2>1 DEF CopyClients
  <2>2. CASE BeginWrite(p)
    BY <2>2 DEF BeginWrite
  <2>3. CASE WriteSucceeds(p)
    BY <2>3 DEF WriteSucceeds
  <2>4. CASE WriteFails(p)
    BY <2>4 DEF WriteFails
  <2>5. CASE RemoveFailed(p)
    BY <2>5 DEF RemoveFailed
  <2>6. CASE CloseFailed(p)
    BY <2>6 DEF CloseFailed
  <2>7. CASE Written(p)
    BY <2>7 DEF Written
  <2> QED  BY <1>2, <2>1, <2>2, <2>3, <2>4, <2>5, <2>6, <2>7 DEF Write
<1>3. ASSUME NEW c \in Clients, Handshake(c) PROVE OctaveInv'
  <2>1. CASE AuthRequired(c)
    BY <2>1 DEF AuthRequired, Reply
  <2>2. CASE MarkAuthenticated(c)
    BY <2>2 DEF MarkAuthenticated
  <2>3. CASE AddToHub(c)
    BY <2>3 DEF AddToHub
  <2>4. CASE ReadOctave(c)
    <3>1. /\ pc' = [pc EXCEPT ![c] = "reply"] /\ msg' = [msg EXCEPT ![c] = currentOctave]
          /\ targets' = [targets EXCEPT ![c] = {c}] /\ currentOctave # Other
          /\ UNCHANGED <<clients, conn, currentOctave, view>>
      BY <2>4, OctaveAssumption DEF ReadOctave, Reply, Octaves
    <3>2. Speaking'
      BY <3>1
    <3>3. ~raced' => Announcing = {} /\ ~raced
      BY <2>4 DEF ReadOctave
    <3>4. Announcing = {} => Announcing' = {c}
      BY <3>1
    <3>5. Alone'
      BY <3>1, <3>3, <3>4
    <3>6. ASSUME ~raced', NEW d \in clients, conn[d] = "open", pc'[d] # "added"
          PROVE  view[d] = currentOctave \/ \E p \in Announcing' : WillTell(p, d)'
      <4>1. CASE d = c
        BY <3>1, <3>3, <3>4, <4>1
      <4>2. CASE d # c
        BY <3>1, <3>3, <3>6, <4>2
      <4> QED  BY <4>1, <4>2
    <3>7. Followed'
      BY <3>1, <3>6
    <3> QED  BY <3>2, <3>5, <3>7
  <2> QED  BY <1>3, <2>1, <2>2, <2>3, <2>4 DEF Handshake
<1>4. ASSUME NEW p \in Goroutines, NEW octave \in Octaves, ChangeOctave(p, octave),
             pc[p] \in {"read", "loop"}
      PROVE  OctaveInv'
  <2>1. /\ pc' = [pc EXCEPT ![p] = "announce"] /\ msg' = [msg EXCEPT ![p] = octave]
        /\ currentOctave' = octave /\ octave # Other
        /\ ~raced' => Announcing = {}
    <3>1. octave # Other
      BY OctaveAssumption DEF Octaves
    <3> QED  BY <1>4, <3>1, Zenon DEF ChangeOctave
  <2>2. p \in Announcing' /\ pc'[p] = "announce"
    <3>1. pc'[p] = "announce"
      BY <2>1
    <3>2. msg'[p] = octave
      BY <2>1
    <3> QED  BY <2>1, <3>1, <3>2
  <2>3. Announcing = {} => Announcing' = {p}
    BY <2>1
  <2>4. Speaking'
    BY <2>1
  <2>5. Alone'
    BY <2>1, <2>3
  <2>6. Followed'
    <3>1. \A d : WillTell(p, d)'
      BY <2>2
    <3> QED  BY <2>2, <3>1
  <2> QED  BY <2>4, <2>5, <2>6
<1>5. ASSUME NEW c \in Clients,
             \/ Connect(c) \/ AnswerMessage(c) \/ HandleOctave(c)
             \/ ReadFails(c) \/ LeaveHub(c) \/ CloseConn(c)
      PROVE  OctaveInv'
  <2>1. CASE Connect(c)
    BY <2>1 DEF Connect, Handshaken, HubMembers
  <2>2. CASE AnswerMessage(c)
    BY <2>2 DEF AnswerMessage, Reply
  <2>3. CASE HandleOctave(c)
    BY <1>4, <2>3 DEF HandleOctave
  <2>4. CASE ReadFails(c)
    BY <2>4 DEF ReadFails
  <2>5. CASE LeaveHub(c)
    BY <2>5 DEF LeaveHub
  <2>6. CASE CloseConn(c)
    BY <2>6 DEF CloseConn
  <2> QED  BY <1>5, <2>1, <2>2, <2>3, <2>4, <2>5, <2>6
<1>6. CASE RunBroadcasts \/ RunStops \/ Shutdown \/ CloseAllReturns
  <2>1. CASE RunBroadcasts
    BY <2>1 DEF RunBroadcasts
  <2>2. CASE RunStops
    BY <2>2 DEF RunStops
  <2>3. CASE Shutdown
    BY <2>3 DEF Shutdown
  <2>4. CASE CloseAllReturns
    BY <2>4 DEF CloseAllReturns
  <2> QED  BY <1>6, <2>1, <2>2, <2>3, <2>4
<1>7. CASE RunShiftsOctave
  <2>1. PICK delta \in {-1, 1} : ChangeOctave(Run, clampOctave(currentOctave + delta))
    BY <1>7 DEF RunShiftsOctave
  <2>2. clampOctave(currentOctave + delta) \in Octaves
    BY clampOctaveType, OctaveAssumption DEF Octaves
  <2>3. pc[Run] = "loop"
    BY <1>7 DEF RunShiftsOctave
  <2> QED  BY <1>4, <2>1, <2>2, <2>3
<1>8. CASE CloseNext
  BY <1>8 DEF CloseNext
<1> QED
  BY <1>1, <1>2, <1>3, <1>5, <1>6, <1>7, <1>8 DEF Next, Close

(***************************************************************************)
(* What is known of the octave and of those who announce it, for any       *)
(* number of connections.                                                  *)
(***************************************************************************)
THEOREM OctaveInvariant == Spec => []OctaveInv
<1>1. HubInv /\ OctaveInv /\ [Next]_vars => OctaveInv'
  BY OctaveStep
<1> QED  BY <1>1, OctaveInvInit, HubInvariant, PTL DEF Spec

(***************************************************************************)
(* Every client that can be written to knows the octave, once nothing is   *)
(* being announced and no two announcements have overlapped since one that *)
(* was alone, whoever joins, fails and leaves during a broadcast.          *)
(***************************************************************************)
THEOREM ToldTheOctave == Spec => []OctaveInStep
<1>1. OctaveInv => OctaveInStep
  BY DEF OctaveInv, Followed, OctaveInStep
<1> QED  BY <1>1, OctaveInvariant, PTL
=============================================================================
