-------------------------- MODULE RunLifecycleProofs --------------------------
(***************************************************************************)
(* What holds of Run's return for any number of keys and connections, any  *)
(* ring, and wherever a part fails.  The argument follows Run: its stage   *)
(* says which parts have been started, and where inputLock is; a part that *)
(* has been stopped stays so, since only Run starts it.                    *)
(*                                                                         *)
(* Of the ring, it follows the keys: a push appends to what the ring       *)
(* holds, a pop takes its head, and the keys that are on their way stay in *)
(* one line, whose ends the callback and Run work at.                      *)
(***************************************************************************)
EXTENDS RunLifecycle, SequenceTheorems, TLAPS

\* The input lock: what main and the thread say about tap and cursor.
LockInv ==
  /\ main \in {"start", "create"} => thread = "none"
  /\ main = "start" => ~mouseCursorDetached
  /\ main = "ended" => /\ thread \in {"none", "exited"}
                       /\ mouseCursorDetached => createFailed
  /\ thread \in {"none", "create", "exited"} => tap = "null"

\* Where the input lock and the gestures are at each stage.
StageInv ==
  /\ stage = "gestures" => main = "start" /\ ~suppressed
  /\ config = "no_lock" => main = "start" /\ stage \notin {"gestures", "lock"}
  /\ stage \in {"restore", "close", "closing", "returned"} => main \in {"start", "ended"}
  /\ stage \in {"close", "closing", "returned"} => ~suppressed

\* The same of the server and the pool.
ServingInv ==
  /\ server \in {"starting", "listening"} => stage \in {"loop", "shutdown"}
  /\ pool # "open" => stage \in {"closing", "returned"}
  /\ stage = "returned" => pool = "closed" /\ ~InUse

ReturnInv == LockInv /\ StageInv /\ ServingInv

-----------------------------------------------------------------------------

\* It holds when the program is started.
LEMMA ReturnInvInit == Init => ReturnInv
  BY DEF Init, Lock!Init, ReturnInv, LockInv, StageInv, ServingInv

(***************************************************************************)
(* What the input lock's own steps do.                                     *)
(***************************************************************************)
LEMMA StartSteps ==
  ASSUME LockInv, Lock!Start
  PROVE  LockInv'
  BY DEF LockInv, Lock!Start, Lock!StartRefused, Lock!DetachCursor, Lock!CreateThread,
         Lock!CreateThreadFails, Lock!InitSucceeded, Lock!InitFailed, Lock!threadVars

\* Draining a key, or the end of the loop, keeps what is known of the lock.
LEMMA KeySteps ==
  ASSUME LockInv, Lock!Drain \/ Lock!Cancel
  PROVE  LockInv' /\ main \notin {"start", "ended"} /\ main' \notin {"start", "ended"}
  BY DEF LockInv, Lock!Drain, Lock!PopKey, Lock!PopNothing, Lock!HandleKey,
         Lock!Cancel, Lock!mainVars, Lock!threadVars

\* So does its Stop ...
LEMMA StopSteps ==
  ASSUME LockInv, Lock!Stop
  PROVE  LockInv' /\ main # "start"
  BY DEF LockInv, Lock!Stop, Lock!RequestStop, Lock!Join, Lock!threadVars

\* ... and what the input thread and the callback do ...
LEMMA OtherSteps ==
  ASSUME LockInv, Lock!ThreadSteps \/ Lock!Callback
  PROVE  LockInv' /\ main' = main
<1>1. CASE Lock!ThreadSteps
  BY <1>1 DEF LockInv, Lock!ThreadSteps, Lock!TapRefused, Lock!TapCreated, Lock!CheckStop,
              Lock!RunLoopReturns, Lock!ReleaseTap, Lock!mainVars
<1>2. CASE Lock!Callback
  BY <1>2 DEF LockInv, Lock!Callback, Lock!PressKey, Lock!SystemDisablesTap,
              Lock!ReenableTap, Lock!mainVars, Lock!threadVars
<1> QED  BY <1>1, <1>2

\* ... and whatever leaves its variables alone.
LEMMA LockUnchanged ==
  ASSUME LockInv, UNCHANGED lockVars
  PROVE  LockInv' /\ main' = main
  BY DEF LockInv, lockVars

\* Every step keeps it.
LEMMA ReturnInvStep ==
  ASSUME ReturnInv, [Next]_vars
  PROVE  ReturnInv'
<1> USE DEF ReturnInv, StageInv, ServingInv, InUse, webVars
<1>1. CASE UNCHANGED vars
  <2>1. UNCHANGED <<lockVars, config, stage, suppressed, server, conn, pool>>
    BY <1>1 DEF vars
  <2> QED  BY <2>1, LockUnchanged
<1>2. CASE StartGestures
  <2>1. LockInv' /\ main' = main
    BY <1>2, LockUnchanged DEF StartGestures
  <2>2. stage = "gestures" /\ config' = config /\ main = "start" /\ config # "no_lock"
    BY <1>2 DEF StartGestures
  <2>3. stage' = "lock" => StageInv'
    BY <2>1, <2>2
  <2>4. ASSUME stage' = "close", UNCHANGED suppressed PROVE StageInv'
    <3>1. ~suppressed
      BY <2>2
    <3>2. ~suppressed'
      BY <2>4, <3>1
    <3> QED  BY <2>1, <2>2, <2>4, <3>2
  <2>5. StageInv'
    BY <1>2, <2>3, <2>4 DEF StartGestures
  <2>6. ServingInv'
    BY <1>2 DEF StartGestures
  <2> QED  BY <2>1, <2>5, <2>6
<1>3. CASE StartLock
  <2>1. main' \in {"create", "wait", "loop", "ended"}
    BY <1>3 DEF StartLock, Lock!Start, Lock!StartRefused, Lock!DetachCursor,
                Lock!CreateThread, Lock!CreateThreadFails, Lock!InitSucceeded,
                Lock!InitFailed
  <2> QED  BY <1>3, <2>1, StartSteps DEF StartLock
<1>4. ASSUME LeaveKeys PROVE LockInv' /\ (config = "no_lock" => main' = main)
  BY <1>4, LockUnchanged, KeySteps DEF LeaveKeys
<1>5. CASE StartPoller
  BY <1>4, <1>5, LockUnchanged DEF StartPoller
<1>6. CASE HandleKeys
  BY <1>6, KeySteps DEF HandleKeys
<1>7. CASE EndLoop
  BY <1>4, <1>7 DEF EndLoop
<1>8. CASE BeginShutdown
  BY <1>8, LockUnchanged DEF BeginShutdown
<1>9. CASE EndShutdown
  BY <1>9, LockUnchanged DEF EndShutdown
<1>10. CASE Unlock
  <2>1. CASE config = "no_lock"
    BY <1>10, <2>1, LockUnchanged DEF Unlock
  <2>2. CASE config # "no_lock"
    <3>1. LockInv' /\ main # "start"
      BY <1>10, <2>2, StopSteps DEF Unlock
    <3>2. StageInv'
      BY <1>10, <2>2, <3>1 DEF Unlock
    <3>3. ServingInv'
      BY <1>10 DEF Unlock
    <3> QED  BY <3>1, <3>2, <3>3
  <2> QED  BY <2>1, <2>2
<1>11. CASE Restore
  BY <1>11, LockUnchanged DEF Restore
<1>12. CASE BeginClose
  BY <1>12, LockUnchanged DEF BeginClose
<1>13. CASE EndClose
  BY <1>13, LockUnchanged DEF EndClose
<1>14. CASE ListenAndServe
  BY <1>14, LockUnchanged DEF ListenAndServe
<1>15. ASSUME NEW c \in Conns,
              Accept(c) \/ Request(c) \/ RequestEnds(c) \/ HandshakeEnds(c)
       PROVE  ReturnInv'
  <2>1. stage = "returned" => ~InUse'
    BY <1>15 DEF Accept, Request, RequestEnds, HandshakeEnds
  <2>2. UNCHANGED <<lockVars, config, stage, suppressed, server, pool>>
    BY <1>15 DEF Accept, Request, RequestEnds, HandshakeEnds
  <2> HIDE DEF InUse
  <2> QED  BY <2>1, <2>2, LockUnchanged
<1>16. CASE InputThread \/ Press
  <2>1. UNCHANGED <<config, stage, suppressed, server, conn, pool>>
    BY <1>16 DEF InputThread, Press
  <2>2. LockInv' /\ main' = main
    BY <1>16, OtherSteps DEF InputThread, Press
  <2> QED  BY <2>1, <2>2
<1> QED
  BY <1>1, <1>2, <1>3, <1>5, <1>6, <1>7, <1>8, <1>9, <1>10, <1>11, <1>12, <1>13,
     <1>14, <1>15, <1>16
     DEF Next, RunStep, Cancelled, ServerError

(***************************************************************************)
(* The inductive invariant, of any number of keys and connections.         *)
(***************************************************************************)
THEOREM ReturnInvariant == Spec => []ReturnInv
  BY ReturnInvInit, ReturnInvStep, PTL DEF Spec

(***************************************************************************)
(* The user has everything back before anything is waited for that a       *)
(* database may hold up, wherever Run failed and however many connections  *)
(* there are; and nothing uses the database once Run has returned.         *)
(***************************************************************************)
THEOREM ReturnsInOrder == Spec => []OrderlyReturn
<1>1. ReturnInv => OrderlyReturn
  BY DEF ReturnInv, LockInv, StageInv, ServingInv, OrderlyReturn, Free
<1> QED  BY <1>1, ReturnInvariant, PTL

-----------------------------------------------------------------------------
\* The ring.

Size == KEY_BUFFER_SIZE

\* How many places hold keys, between a tail and a head, and where they are.
Held(tail, head) == IF tail <= head THEN head - tail ELSE head - tail + Size
Place(tail, i) == IF tail + i - 1 < Size THEN tail + i - 1 ELSE tail + i - 1 - Size

\* What a position or a distance on the ring is, without the division.
LEMMA Modulo ==
  ASSUME NEW x \in Int
  PROVE  /\ 0 <= x /\ x < Size => x % Size = x
         /\ Size <= x /\ x < 2 * Size => x % Size = x - Size
         /\ -Size <= x /\ x < 0 => x % Size = x + Size
<1>1. ASSUME 0 <= x, x < Size PROVE x % Size = x
  BY <1>1, SizeAssumption, SMTT(20) DEF Size
<1>2. ASSUME Size <= x, x < 2 * Size PROVE x % Size = x - Size
  BY <1>2, SizeAssumption, SMTT(20) DEF Size
<1>3. ASSUME -Size <= x, x < 0 PROVE x % Size = x + Size
  BY <1>3, SizeAssumption, SMTT(20) DEF Size
<1> QED  BY <1>1, <1>2, <1>3

\* The position after one, which pushKeyCode and DrainKeys move to.
LEMMA NextIs ==
  ASSUME NEW p \in Lock!Positions
  PROVE  Lock!NextPosition(p) = IF p + 1 = Size THEN 0 ELSE p + 1
<1>1. p \in Int /\ 0 <= p /\ p + 1 <= Size /\ Size \in Int /\ Size > 1
  BY SizeAssumption DEF Lock!Positions, Size
<1>2. Lock!NextPosition(p) = (p + 1) % Size
  BY DEF Lock!NextPosition, Size
<1> QED  BY <1>1, <1>2, Modulo

\* The places of the ring from its tail to its head, whether it wraps or not.
LEMMA Wraps ==
  ASSUME NEW head \in Lock!Positions, NEW tail \in Lock!Positions
  PROVE  /\ (head - tail) % Size = Held(tail, head) /\ Held(tail, head) \in 0 .. Size - 1
         /\ \A i \in 1 .. Held(tail, head) :
              (tail + i - 1) % Size = Place(tail, i) /\ Place(tail, i) \in Lock!Positions
<1>1. /\ head \in Int /\ 0 <= head /\ head < Size
      /\ tail \in Int /\ 0 <= tail /\ tail < Size
      /\ Size \in Int /\ Size > 1
  BY SizeAssumption DEF Lock!Positions, Size
<1>2. Held(tail, head) \in 0 .. Size - 1
  BY <1>1 DEF Held
<1>3. (head - tail) % Size = Held(tail, head)
  <2>1. head - tail \in Int /\ -Size <= head - tail /\ head - tail < Size
    BY <1>1
  <2> QED  BY <1>1, <2>1, Modulo DEF Held
<1>4. ASSUME NEW i \in 1 .. Held(tail, head)
      PROVE  (tail + i - 1) % Size = Place(tail, i) /\ Place(tail, i) \in Lock!Positions
  <2>1. /\ tail + i - 1 \in Int /\ 0 <= tail + i - 1
        /\ tail + i - 1 < 2 * Size
    BY <1>1, <1>2
  <2>2. (tail + i - 1) % Size = Place(tail, i)
    BY <1>1, <2>1, Modulo DEF Place
  <2>3. Place(tail, i) \in 0 .. Size - 1
    BY <1>1, <2>1 DEF Place
  <2> QED  BY <2>2, <2>3 DEF Lock!Positions, Size
<1> QED  BY <1>2, <1>3, <1>4

\* A push appends to what the ring holds.
LEMMA PushAppends ==
  ASSUME Lock!TypeOK, Lock!Ring \in Seq(Keys), NEW key \in Keys, Lock!pushKeyCode(key),
         Lock!NextPosition(keyHead) # keyTail
  PROVE  keyHead' \in Lock!Positions /\ Lock!Ring' = Append(Lock!Ring, key)
<1> DEFINE held == Held(keyTail, keyHead)
<1>1. /\ keyHead \in Lock!Positions /\ keyTail \in Lock!Positions
      /\ keyTail' = keyTail
      /\ keyHead' = Lock!NextPosition(keyHead)
      /\ keyBuffer' = [keyBuffer EXCEPT ![keyHead] = key]
      /\ DOMAIN keyBuffer = Lock!Positions
  BY DEF Lock!TypeOK, Lock!pushKeyCode
<1>2. /\ keyHead \in Int /\ 0 <= keyHead /\ keyHead < Size
      /\ keyTail \in Int /\ 0 <= keyTail /\ keyTail < Size
      /\ Size \in Int /\ Size > 1
  BY <1>1, SizeAssumption DEF Lock!Positions, Size
<1>3. keyHead' = (IF keyHead + 1 = Size THEN 0 ELSE keyHead + 1) /\ keyHead' # keyTail
  BY <1>1, NextIs
<1>4. keyHead' \in Lock!Positions
  BY <1>2, <1>3 DEF Lock!Positions, Size
<1>5. held \in 0 .. Size - 1 /\ Lock!Ring = [i \in 1 .. held |-> keyBuffer[Place(keyTail, i)]]
  BY <1>1, Wraps DEF Lock!Ring, Size
<1>6. Held(keyTail, keyHead') = held + 1
  BY <1>2, <1>3 DEF Held
<1>7. Lock!Ring' = [i \in 1 .. held + 1 |-> keyBuffer'[Place(keyTail, i)]]
  <2>1. /\ (keyHead' - keyTail') % Size = held + 1
        /\ \A i \in 1 .. held + 1 : (keyTail' + i - 1) % Size = Place(keyTail, i)
    BY <1>1, <1>4, <1>6, Wraps
  <2> HIDE DEF held
  <2>2. Lock!Ring' = [i \in 1 .. held + 1 |-> keyBuffer'[(keyTail' + i - 1) % Size]]
    BY <2>1 DEF Lock!Ring, Size
  <2> QED  BY <2>1, <2>2
<1>8. \A i \in 1 .. held :
        Place(keyTail, i) \in Lock!Positions /\ Place(keyTail, i) # keyHead
  <2>1. \A i \in 1 .. held : Place(keyTail, i) # keyHead
    BY <1>2 DEF Place, Held
  <2> QED  BY <1>1, <2>1, Wraps
<1>9. Place(keyTail, held + 1) = keyHead
  BY <1>2 DEF Place, Held
<1> HIDE DEF held
<1>10. \A i \in 1 .. held : keyBuffer'[Place(keyTail, i)] = keyBuffer[Place(keyTail, i)]
  BY <1>1, <1>8
<1>11. keyBuffer'[Place(keyTail, held + 1)] = key
  BY <1>1, <1>9
<1>12. Len(Lock!Ring) = held /\ held \in Nat
  BY <1>5
<1>13. Lock!Ring' \in Seq(Keys) /\ Len(Lock!Ring') = held + 1
  <2>1. \A i \in 1 .. held : Lock!Ring[i] \in Keys /\ Lock!Ring[i] = keyBuffer[Place(keyTail, i)]
    BY <1>5, <1>12
  <2>2. \A i \in 1 .. held + 1 : keyBuffer'[Place(keyTail, i)] \in Keys
    BY <1>10, <1>11, <1>12, <2>1
  <2> QED  BY <1>7, <1>12, <2>2
<1> QED
  <2>1. /\ Append(Lock!Ring, key) \in Seq(Keys) /\ Len(Append(Lock!Ring, key)) = held + 1
        /\ \A i \in 1 .. held : Append(Lock!Ring, key)[i] = Lock!Ring[i]
        /\ Append(Lock!Ring, key)[held + 1] = key
    BY <1>12, AppendProperties
  <2>2. \A i \in 1 .. held + 1 : Lock!Ring'[i] = Append(Lock!Ring, key)[i]
    BY <1>5, <1>7, <1>10, <1>11, <1>12, <2>1
  <2>3. Lock!Ring' = Append(Lock!Ring, key)
    BY <1>12, <1>13, <2>1, <2>2, SeqEqual
  <2> QED  BY <1>4, <2>3

\* A pop takes the head of what the ring holds.
LEMMA PopTakesHead ==
  ASSUME Lock!TypeOK, Lock!Ring \in Seq(Keys), Lock!PopKey
  PROVE  /\ keyTail' \in Lock!Positions
         /\ Lock!Ring # << >> /\ keyBuffer[keyTail] = Head(Lock!Ring)
         /\ Lock!Ring' = Tail(Lock!Ring)
<1> DEFINE held == Held(keyTail, keyHead)
<1>1. /\ keyHead \in Lock!Positions /\ keyTail \in Lock!Positions /\ keyTail # keyHead
      /\ keyTail' = Lock!NextPosition(keyTail)
      /\ keyHead' = keyHead /\ keyBuffer' = keyBuffer
  BY DEF Lock!TypeOK, Lock!PopKey
<1>2. /\ keyHead \in Int /\ 0 <= keyHead /\ keyHead < Size
      /\ keyTail \in Int /\ 0 <= keyTail /\ keyTail < Size
      /\ Size \in Int /\ Size > 1
  BY <1>1, SizeAssumption DEF Lock!Positions, Size
<1>3. keyTail' = IF keyTail + 1 = Size THEN 0 ELSE keyTail + 1
  BY <1>1, NextIs
<1>4. keyTail' \in Lock!Positions
  BY <1>2, <1>3 DEF Lock!Positions, Size
<1>5. held \in 0 .. Size - 1 /\ Lock!Ring = [i \in 1 .. held |-> keyBuffer[Place(keyTail, i)]]
  BY <1>1, Wraps DEF Lock!Ring, Size
<1>6. held >= 1 /\ Held(keyTail', keyHead) = held - 1
  BY <1>1, <1>2, <1>3 DEF Held
<1>7. Lock!Ring' = [i \in 1 .. held - 1 |-> keyBuffer[Place(keyTail', i)]]
  <2>1. /\ (keyHead' - keyTail') % Size = held - 1
        /\ \A i \in 1 .. held - 1 : (keyTail' + i - 1) % Size = Place(keyTail', i)
    BY <1>1, <1>4, <1>6, Wraps
  <2> HIDE DEF held
  <2>2. Lock!Ring' = [i \in 1 .. held - 1 |-> keyBuffer[(keyTail' + i - 1) % Size]]
    BY <1>1, <2>1 DEF Lock!Ring, Size
  <2> QED  BY <2>1, <2>2
<1>8. \A i \in 1 .. held - 1 : Place(keyTail', i) = Place(keyTail, i + 1)
  BY <1>2, <1>3, <1>5 DEF Place
<1>9. Place(keyTail, 1) = keyTail
  BY <1>2 DEF Place
<1> HIDE DEF held
<1>10. Len(Lock!Ring) = held /\ Lock!Ring # << >> /\ Lock!Ring[1] = keyBuffer[keyTail]
  BY <1>5, <1>6, <1>9
<1>11. /\ Tail(Lock!Ring) \in Seq(Keys) /\ Len(Tail(Lock!Ring)) = held - 1
       /\ \A i \in 1 .. held - 1 : Tail(Lock!Ring)[i] = Lock!Ring[i + 1]
  BY <1>10, HeadTailProperties
<1>12. \A i \in 1 .. held - 1 : keyBuffer[Place(keyTail', i)] = Tail(Lock!Ring)[i]
  BY <1>5, <1>8, <1>11
<1>13. Tail(Lock!Ring) = [i \in 1 .. held - 1 |-> Tail(Lock!Ring)[i]]
  BY <1>11, LenProperties
<1>14. Lock!Ring' = Tail(Lock!Ring)
  BY <1>7, <1>12, <1>13
<1> QED  BY <1>4, <1>10, <1>14

-----------------------------------------------------------------------------
\* Lines of keys.

\* What is appended at the end of two lines is appended to the second.
LEMMA JoinAppend ==
  ASSUME NEW S, NEW s \in Seq(S), NEW t \in Seq(S), NEW e \in S
  PROVE  s \o Append(t, e) = Append(s \o t, e)
  BY AppendIsConcat, ConcatAssociative, ConcatProperties

\* The head of the second line may as well be the last of the first.
LEMMA JoinMove ==
  ASSUME NEW S, NEW s \in Seq(S), NEW t \in Seq(S), t # << >>
  PROVE  Append(s, Head(t)) \o Tail(t) = s \o t
<1>1. Head(t) \in S /\ Tail(t) \in Seq(S) /\ t = <<Head(t)>> \o Tail(t)
  OBVIOUS
<1> QED  BY <1>1, AppendIsConcat, ConcatAssociative

-----------------------------------------------------------------------------
\* Types, and the order of keys.

\* What the ring holds are keys, and it is at its start before the lock is.
RingInv ==
  /\ Lock!Ring \in Seq(Keys)
  /\ main = "start" => keyHead = 0 /\ keyTail = 0

KeyInv == TypeOK /\ RingInv /\ InOrder

\* It holds when the program is started.
LEMMA KeyInvInit == Init => KeyInv
<1> SUFFICES ASSUME Init PROVE KeyInv
  OBVIOUS
<1>1. 0 \in Lock!Positions
  BY SizeAssumption DEF Lock!Positions
<1>2. TypeOK
  <2>1. Lock!TypeOK
    BY <1>1, PressesAssumption DEF Init, Lock!Init, Lock!TypeOK
  <2> QED  BY <2>1 DEF Init, TypeOK
<1>3. Lock!Ring = << >>
  <2>1. Held(0, 0) = 0
    BY DEF Held
  <2> QED  BY <1>1, <2>1, Wraps DEF Init, Lock!Init, Lock!Ring, Size
<1>4. InOrder
  BY <1>3 DEF Init, Lock!Init, InOrder, Lock!InOrder
<1> QED  BY <1>2, <1>3, <1>4 DEF KeyInv, RingInv, Init, Lock!Init

\* A step of Run, of its connections or of its thread is one of the input
\* lock or leaves it alone.
LEMMA LockSteps == [Next]_vars => Lock!Next \/ UNCHANGED lockVars
  BY DEF Next, RunStep, StartGestures, StartLock, StartPoller, LeaveKeys, HandleKeys,
         Cancelled, ServerError, EndLoop, BeginShutdown, EndShutdown, Unlock, Restore,
         BeginClose, EndClose, ListenAndServe, Accept, Request, RequestEnds,
         HandshakeEnds, InputThread, Press, Lock!Next, vars

\* The ring only depends on its places and its two positions.
LEMMA RingUnchanged ==
  ASSUME UNCHANGED <<keyBuffer, keyHead, keyTail>>
  PROVE  Lock!Ring' = Lock!Ring
  BY DEF Lock!Ring

\* The input lock's steps keep its types.
LEMMA LockTypesStep ==
  ASSUME Lock!TypeOK, RingInv, Lock!Next
  PROVE  Lock!TypeOK'
<1> USE DEF Lock!TypeOK, Lock!mainVars, Lock!threadVars, Lock!ringVars, Lock!keyVars
<1>1. CASE Lock!Start
  <2>1. 0 \in Lock!Positions
    BY SizeAssumption DEF Lock!Positions
  <2>2. CASE Lock!StartRefused
    BY <2>2 DEF Lock!StartRefused
  <2>3. CASE Lock!DetachCursor
    <3>0. 0 \in -1 .. 1
      OBVIOUS
    <3>1. keyHead' \in Lock!Positions /\ keyTail' \in Lock!Positions /\ initStatus' \in -1 .. 1
      BY <2>1, <2>3, <3>0, Zenon DEF Lock!DetachCursor
    <3>2. /\ mouseCursorDetached' \in BOOLEAN /\ inputStopRequested' \in BOOLEAN
          /\ UNCHANGED <<inputThreadStarted, createFailed>>
      BY <2>3 DEF Lock!DetachCursor
    <3> QED  BY <2>3, <3>1, <3>2, Zenon DEF Lock!DetachCursor
  <2>4. CASE Lock!CreateThread
    BY <2>4 DEF Lock!CreateThread
  <2>5. CASE Lock!CreateThreadFails
    BY <2>5 DEF Lock!CreateThreadFails
  <2>6. CASE Lock!InitSucceeded \/ Lock!InitFailed
    BY <2>6 DEF Lock!InitSucceeded, Lock!InitFailed
  <2> QED  BY <1>1, <2>2, <2>3, <2>4, <2>5, <2>6 DEF Lock!Start
<1>2. CASE Lock!PopKey
  <2>1. keyTail' \in Lock!Positions /\ keyBuffer[keyTail] \in Keys
    BY <1>2, PopTakesHead, HeadTailProperties DEF RingInv
  <2> QED  BY <1>2, <2>1, AppendProperties DEF Lock!PopKey
<1>3. CASE Lock!PopNothing
  BY <1>3 DEF Lock!PopNothing
<1>4. CASE Lock!HandleKey
  <2>1. Head(drained) \in Keys /\ Tail(drained) \in Seq(Keys)
    BY <1>4, HeadTailProperties DEF Lock!HandleKey
  <2> QED  BY <1>4, <2>1, AppendProperties DEF Lock!HandleKey
<1>5. CASE Lock!Cancel \/ Lock!Stop
  BY <1>5 DEF Lock!Cancel, Lock!Stop, Lock!RequestStop, Lock!Join
<1>6. CASE Lock!ThreadSteps
  BY <1>6 DEF Lock!ThreadSteps, Lock!TapRefused, Lock!TapCreated, Lock!CheckStop,
              Lock!RunLoopReturns, Lock!ReleaseTap
<1>7. ASSUME NEW key \in Keys, Lock!PressKey(key) PROVE Lock!TypeOK'
  <2>1. Lock!pushKeyCode(key) /\ presses' \in 0 .. MaxPresses
    BY <1>7, PressesAssumption DEF Lock!PressKey
  <2>2. keyHead' \in Lock!Positions
    BY <2>1, PushAppends DEF RingInv, Lock!pushKeyCode
  <2>3. Append(accepted, key) \in Seq(Keys)
    OBVIOUS
  <2>4. [keyBuffer EXCEPT ![keyHead] = key] \in [Lock!Positions -> Keys \cup {Zero}]
    OBVIOUS
  <2>5. /\ keyBuffer' \in [Lock!Positions -> Keys \cup {Zero}]
        /\ accepted' \in Seq(Keys) /\ keyTail' = keyTail
    BY <2>1, <2>3, <2>4 DEF Lock!pushKeyCode
  <2> QED  BY <1>7, <2>1, <2>2, <2>5 DEF Lock!PressKey
<1>8. CASE Lock!SystemDisablesTap \/ Lock!ReenableTap
  BY <1>8 DEF Lock!SystemDisablesTap, Lock!ReenableTap
<1> QED
  BY <1>1, <1>2, <1>3, <1>4, <1>5, <1>6, <1>7, <1>8
     DEF Lock!Next, Lock!Drain, Lock!Callback

\* Every step of Run keeps the types.
LEMMA TypesStep ==
  ASSUME TypeOK, RingInv, [Next]_vars
  PROVE  TypeOK'
<1>1. Lock!TypeOK'
  BY LockSteps, LockTypesStep DEF TypeOK, lockVars, Lock!TypeOK
<1>2. UNCHANGED vars => TypeOK'
  BY <1>1 DEF TypeOK, vars, webVars
<1>3. RunStep \/ Cancelled => TypeOK'
  BY <1>1 DEF TypeOK, RunStep, Cancelled, StartGestures, StartLock, StartPoller,
       HandleKeys, ServerError, EndLoop, BeginShutdown, EndShutdown, Unlock, Restore,
       BeginClose, EndClose, webVars
<1>4. ListenAndServe \/ InputThread \/ Press => TypeOK'
  BY <1>1 DEF TypeOK, ListenAndServe, InputThread, Press, webVars
<1>5. ASSUME NEW c \in Conns,
             Accept(c) \/ Request(c) \/ RequestEnds(c) \/ HandshakeEnds(c)
      PROVE  TypeOK'
  BY <1>1, <1>5 DEF TypeOK, Accept, Request, RequestEnds, HandshakeEnds
<1> QED  BY <1>2, <1>3, <1>4, <1>5 DEF Next

\* Every step keeps the order of the keys.
LEMMA OrderStep ==
  ASSUME KeyInv, LockInv, [Next]_vars
  PROVE  RingInv' /\ InOrder'
<1> USE DEF KeyInv, RingInv, InOrder, Lock!InOrder
<1>1. Lock!TypeOK
  BY DEF TypeOK
<1>2. /\ drained \in Seq(Keys) /\ handled \in Seq(Keys) /\ accepted \in Seq(Keys)
      /\ keyHead \in Lock!Positions /\ keyTail \in Lock!Positions
  BY <1>1 DEF Lock!TypeOK
<1>3. handled \o drained \in Seq(Keys)
  BY <1>2, ConcatProperties
<1>4. ASSUME UNCHANGED <<keyBuffer, keyHead, keyTail, drained, handled, accepted>>,
             main' = "start" => main = "start"
      PROVE  RingInv' /\ InOrder'
  BY <1>4, RingUnchanged
<1>5. CASE UNCHANGED lockVars
  BY <1>4, <1>5 DEF lockVars
<1>6. CASE Lock!Start
  <2>1. CASE Lock!DetachCursor
    BY <1>4, <2>1 DEF Lock!DetachCursor, Lock!keyVars
  <2> QED
    BY <1>4, <1>6, <2>1 DEF Lock!Start, Lock!StartRefused, Lock!CreateThread,
         Lock!CreateThreadFails, Lock!InitSucceeded, Lock!InitFailed, Lock!ringVars, Lock!keyVars
<1>7. CASE Lock!PopKey
  <2>1. /\ drained' = Append(drained, keyBuffer[keyTail])
        /\ UNCHANGED <<handled, accepted, main>> /\ main = "loop"
    BY <1>7 DEF Lock!PopKey, Lock!mainVars
  <2>2. /\ Lock!Ring # << >> /\ keyBuffer[keyTail] = Head(Lock!Ring)
        /\ Lock!Ring' = Tail(Lock!Ring)
    BY <1>1, <1>7, PopTakesHead
  <2>3. Head(Lock!Ring) \in Keys /\ Tail(Lock!Ring) \in Seq(Keys)
    BY <2>2, HeadTailProperties
  <2>4. handled' \o drained' = Append(handled \o drained, Head(Lock!Ring))
    BY <1>2, <2>1, <2>2, <2>3, JoinAppend
  <2> QED  BY <1>3, <2>1, <2>2, <2>3, <2>4, JoinMove
<1>8. CASE Lock!HandleKey
  <2>1. /\ drained # << >> /\ main = "handle" /\ main' # "start"
        /\ handled' = Append(handled, Head(drained)) /\ drained' = Tail(drained)
        /\ UNCHANGED <<keyBuffer, keyHead, keyTail, accepted>>
    BY <1>8 DEF Lock!HandleKey, Lock!ringVars
  <2>2. handled' \o drained' = handled \o drained
    BY <1>2, <2>1, JoinMove
  <2> QED  BY <2>1, <2>2, RingUnchanged
<1>9. CASE Lock!PopNothing \/ Lock!Cancel \/ Lock!Stop
  BY <1>4, <1>9 DEF Lock!PopNothing, Lock!Cancel, Lock!Stop, Lock!RequestStop, Lock!Join,
       Lock!ringVars, Lock!keyVars
<1>10. CASE Lock!ThreadSteps
  BY <1>4, <1>10 DEF Lock!ThreadSteps, Lock!TapRefused, Lock!TapCreated, Lock!CheckStop,
       Lock!RunLoopReturns, Lock!ReleaseTap, Lock!ringVars, Lock!keyVars, Lock!mainVars
<1>11. ASSUME NEW key \in Keys, Lock!PressKey(key) PROVE RingInv' /\ InOrder'
  <2>1. /\ Lock!pushKeyCode(key) /\ UNCHANGED <<handled, drained, main>>
        /\ main # "start"
    BY <1>11 DEF Lock!PressKey, Lock!mainVars, LockInv
  <2>2. CASE Lock!NextPosition(keyHead) # keyTail
    <3>1. accepted' = Append(accepted, key)
      BY <2>1, <2>2 DEF Lock!pushKeyCode
    <3>2. Lock!Ring' = Append(Lock!Ring, key)
      BY <1>1, <2>1, <2>2, PushAppends
    <3>3. Lock!Ring' \in Seq(Keys)
      BY <3>2, AppendProperties
    <3>4. (handled \o drained) \o Append(Lock!Ring, key)
             = Append((handled \o drained) \o Lock!Ring, key)
      BY <1>3, JoinAppend
    <3> QED  BY <2>1, <3>1, <3>2, <3>3, <3>4
  <2>3. CASE Lock!NextPosition(keyHead) = keyTail
    BY <1>4, <2>1, <2>3 DEF Lock!pushKeyCode
  <2> QED  BY <2>2, <2>3
<1>12. CASE Lock!SystemDisablesTap \/ Lock!ReenableTap
  BY <1>4, <1>12 DEF Lock!SystemDisablesTap, Lock!ReenableTap, Lock!ringVars, Lock!keyVars,
       Lock!mainVars
<1> QED
  BY <1>5, <1>6, <1>7, <1>8, <1>9, <1>10, <1>11, <1>12, LockSteps
     DEF Lock!Next, Lock!Drain, Lock!Callback

(***************************************************************************)
(* The types, and the order of keys, as an invariant of any ring and any   *)
(* number of keys and connections.                                         *)
(***************************************************************************)
THEOREM KeyInvariant == Spec => []KeyInv
<1>1. LockInv /\ KeyInv /\ [Next]_vars => KeyInv'
  BY TypesStep, OrderStep DEF KeyInv
<1>2. ReturnInv => LockInv
  BY DEF ReturnInv
<1> QED  BY <1>1, <1>2, KeyInvInit, ReturnInvariant, PTL DEF Spec

(***************************************************************************)
(* Every variable of Run and of the input lock keeps its type: the ring's  *)
(* positions stay within it, and what is drained from it are keys, never   *)
(* what it was filled with.                                                *)
(***************************************************************************)
THEOREM TypeCorrect == Spec => []TypeOK
<1>1. KeyInv => TypeOK
  BY DEF KeyInv
<1> QED  BY <1>1, KeyInvariant, PTL

(***************************************************************************)
(* Run handles the keys that were accepted, in their order, each once,     *)
(* for a ring of any size, wherever it wraps and however the callback's    *)
(* pushes and the pops of DrainKeys interleave.                            *)
(***************************************************************************)
THEOREM HandlesInOrder == Spec => []InOrder
<1>1. KeyInv => InOrder
  BY DEF KeyInv
<1> QED  BY <1>1, KeyInvariant, PTL
=============================================================================
