----------------------- MODULE MultitouchPollerProofs -----------------------
(***************************************************************************)
(* What holds of the poller for every set of fingers, number of slots and  *)
(* set of touch states: its types, and that it implements NoteLifecycle.   *)
(***************************************************************************)
EXTENDS MultitouchPoller, TLAPS

DriverTouch == [id : Fingers, state : TouchStates]

\* touchCallback keeps a prefix of the frame, of at most MaxTouches touches.
LEMMA KeptType ==
  ASSUME NEW frame \in Seq(DriverTouch)
  PROVE  /\ Kept(frame) \in Seq(DriverTouch)
         /\ Len(Kept(frame)) \in 0..MaxTouches
         /\ Len(Kept(frame)) <= Len(frame)
         /\ DOMAIN Kept(frame) = 1..Len(Kept(frame))
         /\ \A i \in DOMAIN Kept(frame) : /\ i \in Slots
                                          /\ i \in 1..Len(frame)
                                          /\ Kept(frame)[i] = frame[i]
                                          /\ frame[i] \in DriverTouch
  BY MaxTouchesAssumption DEF Kept, Slots

\* The empty sequence is a sequence over any set.
LEMMA EmptySeq == \A S : << >> \in Seq(S)
  OBVIOUS

\* A touch of the driver fits into a slot of touchBuffer.
LEMMA DriverTouchIsTouch == DriverTouch \subseteq Touch
  BY DEF DriverTouch, Touch, Ids

\* The driver's frames are sequences of its touches.
LEMMA DriverFramesType == DriverFrames \subseteq Seq(DriverTouch)
<1> SUFFICES ASSUME NEW n \in 0..Cardinality(Fingers),
                    NEW frame \in [1..n -> DriverTouch]
             PROVE  frame \in Seq(DriverTouch)
  BY DEF DriverFrames, DriverTouch
<1> QED  OBVIOUS

(***************************************************************************)
(* The types of the poller's state, whatever the interleaving of the       *)
(* callback's stores with readFrames.                                      *)
(***************************************************************************)
THEOREM TypeCorrect == Spec => []TypeOK
<1>1. Init => TypeOK
  <2> SUFFICES ASSUME Init PROVE TypeOK
    OBVIOUS
  <2>1. empty \in Touch
    BY DEF empty, Touch, Ids
  <2>2. touchBuffer \in [Slots -> Touch]
    BY <2>1 DEF Init
  <2>3. touchCount \in 0..MaxTouches /\ count \in 0..MaxTouches
    BY MaxTouchesAssumption DEF Init
  <2>4. /\ touches \in Seq([id : Fingers, state : TouchStates])
        /\ snapshot \in Seq([id : Fingers, state : TouchStates])
        /\ frames \in Seq(Touch) /\ events \in Seq(MusicEvents)
    BY EmptySeq DEF Init
  <2> QED
    BY <2>2, <2>3, <2>4 DEF Init, TypeOK
<1>2. TypeOK /\ [Next]_vars => TypeOK'
  <2> SUFFICES ASSUME TypeOK, [Next]_vars PROVE TypeOK'
    OBVIOUS
  <2> USE DEF TypeOK
  <2>1. CASE Start
    BY <2>1 DEF Start, driverVars, sharedVars, readVars, eventVars, ghostVars
  <2>2. CASE Cancel
    BY <2>2 DEF Cancel, driverVars, sharedVars, readVars, eventVars, ghostVars
  <2>3. ASSUME NEW frame \in DriverFrames, Deliver(frame) PROVE TypeOK'
    <3>1. frame \in Seq(DriverTouch)
      BY DriverFramesType
    <3>2. touches' \in Seq([id : Fingers, state : TouchStates])
      BY <2>3, <3>1 DEF Deliver, DriverTouch
    <3>3. pending' \subseteq ({"id", "state"} \X DOMAIN Kept(touches'))
                               \cup {<<"count", 0>>, <<"flag", 0>>}
      BY <2>3 DEF Deliver, Stores
    <3> QED
      BY <2>3, <3>2, <3>3 DEF Deliver, sharedVars, readVars, eventVars
  <2>4. ASSUME NEW i \in Slots, NEW field \in {"id", "state"},
               StoreField(i, field)
        PROVE  TypeOK'
    <3>1. i \in DOMAIN Kept(touches)
      BY <2>4 DEF StoreField
    <3>2. touches[i] \in Touch
      BY <3>1, KeptType, DriverTouchIsTouch DEF DriverTouch
    <3>3. [touchBuffer[i] EXCEPT ![field] = touches[i][field]] \in Touch
      BY <3>2 DEF Touch
    <3>4. touchBuffer' \in [Slots -> Touch]
      BY <2>4, <3>3 DEF StoreField
    <3> QED
      BY <2>4, <3>4 DEF StoreField, readVars, eventVars, ghostVars
  <2>5. CASE StoreCount
    <3>1. touchCount' \in 0..MaxTouches
      BY <2>5, KeptType DEF StoreCount, DriverTouch
    <3> QED
      BY <2>5, <3>1 DEF StoreCount, readVars, eventVars, ghostVars
  <2>6. CASE StoreFlag
    BY <2>6 DEF StoreFlag, readVars, eventVars, ghostVars
  <2>7. CASE Poll
    <3>1. Kept(touches) \in Seq(DriverTouch)
      BY KeptType DEF DriverTouch
    <3>2. snapshot' \in Seq([id : Fingers, state : TouchStates])
      BY <2>7, <3>1 DEF Poll, DriverTouch
    <3> QED
      BY <2>7, <3>2 DEF Poll, driverVars, sharedVars, readVars, eventVars
  <2>8. CASE ReadCount
    BY <2>8 DEF ReadCount, driverVars, sharedVars, eventVars, ghostVars
  <2>9. CASE CopyTouch
    <3>1. getTouchAt(Len(frames) + 1) \in Touch
      BY MaxTouchesAssumption DEF getTouchAt, Slots, empty, Touch, Ids
    <3> QED
      BY <2>9, <3>1 DEF CopyTouch, driverVars, sharedVars, eventVars, ghostVars
  <2>10. CASE ClearFlag
    BY <2>10, MaxTouchesAssumption DEF ClearFlag, driverVars, eventVars, ghostVars
  <2>11. CASE ProcessFrame
    <3>1. Head(frames) \in Touch /\ Tail(frames) \in Seq(Touch)
      BY <2>11 DEF ProcessFrame
    <3>2. Head(frames).id \in Ids
      BY <3>1 DEF Touch
    <3>3. \A type \in {"SynthStart", "SynthMove", "SynthEnd"} :
            makeEvent(type, Head(frames).id) \in MusicEvents
      BY <3>2 DEF makeEvent, MusicEvents
    <3>4. events' \in Seq(MusicEvents)
      <4>1. CASE events' = events
        BY <4>1
      <4>2. ASSUME NEW type \in {"SynthStart", "SynthMove", "SynthEnd"},
                   events' = Append(events, makeEvent(type, Head(frames).id))
            PROVE  events' \in Seq(MusicEvents)
        BY <3>3, <4>2
      <4> QED
        BY <2>11, <4>1, <4>2 DEF ProcessFrame, HandleFrame
    <3>5. lastFrames' \subseteq Ids
      BY <2>11, <3>2 DEF ProcessFrame, HandleFrame
    <3> QED
      BY <2>11, <3>1, <3>2, <3>4, <3>5
      DEF ProcessFrame, driverVars, sharedVars, ghostVars
  <2>12. ASSUME NEW f \in Ids, EndVanished(f) PROVE TypeOK'
    <3>1. makeEvent("SynthEnd", f) \in MusicEvents
      BY DEF makeEvent, MusicEvents
    <3> QED
      BY <2>12, <3>1
      DEF EndVanished, driverVars, sharedVars, readVars, ghostVars
  <2>13. CASE EndProcess
    <3>1. snapshot' \in Seq([id : Fingers, state : TouchStates])
      BY <2>13, EmptySeq DEF EndProcess
    <3> QED
      BY <2>13, <3>1 DEF EndProcess, driverVars, sharedVars, readVars
  <2>14. CASE SendEvent
    BY <2>14 DEF SendEvent, driverVars, sharedVars, readVars, ghostVars
  <2>15. CASE UNCHANGED vars
    BY <2>15 DEF vars, driverVars, sharedVars, readVars, eventVars, ghostVars
  <2> QED
    BY <2>1, <2>2, <2>3, <2>4, <2>5, <2>6, <2>7, <2>8, <2>9, <2>10, <2>11,
       <2>12, <2>13, <2>14, <2>15
    DEF Next, Callback, EventLoop
<1> QED
  BY <1>1, <1>2, PTL DEF Spec

-----------------------------------------------------------------------------

(***************************************************************************)
(* The poller implements the life cycle of a sound for every number of     *)
(* fingers and slots: an attack only of a silent finger, a modulation only *)
(* of a sounding one, whatever readFrames copied.                          *)
(***************************************************************************)
THEOREM ImplementsLifecycle == Spec => LifecycleSpec
<1>1. Init => Lifecycle!Init
  BY DEF Init, Lifecycle!Init
<1>2. TypeOK /\ [Next]_vars => [Lifecycle!Next]_(Lifecycle!lifecycleVars)
  <2> SUFFICES ASSUME TypeOK, [Next]_vars
               PROVE  [Lifecycle!Next]_(Lifecycle!lifecycleVars)
    OBVIOUS
  <2> USE DEF Lifecycle!lifecycleVars
  <2>1. CASE ProcessFrame
    <3> DEFINE frame == Head(frames)
    <3> frame \in Touch
      BY <2>1 DEF ProcessFrame, TypeOK
    <3>1. frame.id \in Ids
      BY DEF Touch
    <3>2. CASE IsTouching(frame.state) /\ frame.id \notin lastFrames
      <4>1. Lifecycle!Attack(frame.id)
        BY <2>1, <3>2
        DEF ProcessFrame, HandleFrame, makeEvent, Lifecycle!Attack,
            Lifecycle!makeEvent
      <4> QED
        BY <3>1, <4>1 DEF Lifecycle!Next
    <3>3. CASE IsTouching(frame.state) /\ frame.id \in lastFrames
      <4>1. Lifecycle!Modulate(frame.id)
        BY <2>1, <3>3
        DEF ProcessFrame, HandleFrame, makeEvent, Lifecycle!Modulate,
            Lifecycle!makeEvent
      <4> QED
        BY <3>1, <4>1 DEF Lifecycle!Next
    <3>4. CASE ~IsTouching(frame.state) /\ frame.state = Lifted
      <4>1. Lifecycle!Release(frame.id)
        BY <2>1, <3>4
        DEF ProcessFrame, HandleFrame, makeEvent, Lifecycle!Release,
            Lifecycle!makeEvent
      <4> QED
        BY <3>1, <4>1 DEF Lifecycle!Next
    <3>5. CASE ~IsTouching(frame.state) /\ frame.state # Lifted
      BY <2>1, <3>5 DEF ProcessFrame, HandleFrame
    <3> QED
      BY <3>2, <3>3, <3>4, <3>5
  <2>2. ASSUME NEW f \in Ids, EndVanished(f)
        PROVE  Lifecycle!Next
    <3>1. Lifecycle!Release(f)
      BY <2>2 DEF EndVanished, makeEvent, Lifecycle!Release, Lifecycle!makeEvent
    <3> QED
      BY <3>1 DEF Lifecycle!Next
  <2>3. CASE SendEvent
    <3>1. Lifecycle!HandOver
      BY <2>3 DEF SendEvent, Lifecycle!HandOver
    <3> QED
      BY <3>1 DEF Lifecycle!Next
  <2>4. CASE Start \/ Cancel
    BY <2>4 DEF Start, Cancel, eventVars
  <2>5. CASE \E frame \in DriverFrames : Deliver(frame)
    BY <2>5 DEF Deliver, eventVars
  <2>6. CASE Callback
    BY <2>6 DEF Callback, StoreField, StoreCount, StoreFlag, eventVars
  <2>7. CASE Poll \/ ReadCount \/ CopyTouch \/ ClearFlag \/ EndProcess
    BY <2>7
    DEF Poll, ReadCount, CopyTouch, ClearFlag, EndProcess, eventVars
  <2>8. CASE UNCHANGED vars
    BY <2>8 DEF vars, eventVars
  <2> QED
    BY <2>1, <2>2, <2>3, <2>4, <2>5, <2>6, <2>7, <2>8 DEF Next, EventLoop
<1> QED
  BY <1>1, <1>2, TypeCorrect, PTL DEF Spec, LifecycleSpec, Lifecycle!Spec

-----------------------------------------------------------------------------

\* Cutting a frame off at MAX_TOUCHES does not show a finger twice.
LEMMA KeptDistinct ==
  ASSUME NEW frame \in Seq(DriverTouch), DistinctIDs(frame)
  PROVE  DistinctIDs(Kept(frame))
  BY KeptType DEF DistinctIDs

\* The driver shows each finger at most once in a frame.
LEMMA DriverFramesDistinct ==
  \A frame \in DriverFrames : DistinctIDs(frame)
  BY DEF DriverFrames, DistinctIDs

\* In a frame with distinct identifiers, StateIn finds the touch's own state.
LEMMA StateInFound ==
  ASSUME NEW frame, DistinctIDs(frame), NEW i \in DOMAIN frame
  PROVE  StateIn(frame, frame[i].id) = frame[i].state
  BY DEF StateIn, DistinctIDs

\* StateIn tells a finger that a frame does not show.
LEMMA StateInAbsent ==
  ASSUME NEW frame, NEW f, \A i \in DOMAIN frame : frame[i].id # f
  PROVE  StateIn(frame, f) = Absent
  BY DEF StateIn

\* The states that can be met in a slot.
LEMMA TouchState == \A t \in Touch : t.state \in 0..7
  <1> SUFFICES ASSUME NEW t \in Touch PROVE t.state \in 0..7
    OBVIOUS
  <1>1. t.state \in TouchStates \cup {0}
    BY DEF Touch
  <1>2. \A s \in TouchStates : s \in 0..7
    BY TouchStatesAssumption
  <1> QED
    BY <1>1, <1>2

\* The inductive invariant holds before p.Start.
LEMMA PollInvInit == Init => PollInv
  <1> SUFFICES ASSUME Init PROVE PollInv
    OBVIOUS
  <1>1. DistinctIDs(<< >>)
    BY DEF DistinctIDs
  <1>2. touches \in Seq(DriverTouch) /\ Len(touches) = 0
    BY EmptySeq DEF Init
  <1>3. Len(Kept(touches)) = 0 /\ DOMAIN Kept(touches) = {}
    <2>1. Len(Kept(touches)) \in 0..MaxTouches /\ Len(Kept(touches)) <= 0
      BY <1>2, KeptType
    <2>2. Len(Kept(touches)) = 0
      BY <2>1, MaxTouchesAssumption
    <2> QED
      BY <1>2, <2>2, KeptType
  <1>4. Stored
    BY <1>3 DEF Init, Stored
  <1> QED
    BY <1>1, <1>4 DEF Init, PollInv, Copying

\* One iteration over the frames: the next slot of the snapshot is processed.
LEMMA ProcessFrameStep ==
  ASSUME TypeOK, DistinctIDs(snapshot), Processing, ProcessFrame
  PROVE  Processing'
  <1> DEFINE n == Len(snapshot) - Len(frames)
             frame == Head(frames)
  <1>1. /\ frames \in Seq(Touch) /\ frames # << >> /\ frame \in Touch
        /\ frames' = Tail(frames) /\ snapshot' = snapshot
        /\ currentIDs' = currentIDs \cup {frame.id}
        /\ HandleFrame(frame)
        /\ snapshot \in Seq(DriverTouch)
    BY DEF ProcessFrame, TypeOK, ghostVars, DriverTouch
  <1> HIDE DEF frame
  <1>2. /\ Len(frames) \in Nat \ {0} /\ Len(frames') = Len(frames) - 1
        /\ Len(snapshot) \in Nat
        /\ \A i \in 1..Len(frames') : frames'[i] = frames[i + 1]
    BY <1>1
  <1>3. n \in Nat /\ n + 1 \in DOMAIN snapshot
    BY <1>1, <1>2 DEF Processing
  <1>4. frame = snapshot[n + 1]
    BY <1>1, <1>2 DEF Processing, frame
  <1>5. \A i \in 1..n : snapshot[i].id # frame.id
    BY <1>1, <1>3, <1>4 DEF DistinctIDs
  <1>6. frame.state \in 0..7
    BY <1>1, TouchState
  <1>7. /\ frame.state \in 1..6 => frame.id \in lastFrames'
        /\ frame.id \in lastFrames' => frame.state \in 0..6
    BY <1>1, <1>6 DEF HandleFrame, IsTouching, Lifted
  <1>8. \A f : f # frame.id => (f \in lastFrames' <=> f \in lastFrames)
    BY <1>1 DEF HandleFrame
  <1>9. Len(snapshot') - Len(frames') = n + 1
    BY <1>1, <1>2
  <1>10. \A i \in 1..Len(frames') : frames'[i] = snapshot[(n + 1) + i]
    <2> SUFFICES ASSUME NEW i \in 1..Len(frames')
                 PROVE  frames'[i] = snapshot[(n + 1) + i]
      OBVIOUS
    <2>1. frames[i + 1] = snapshot[n + (i + 1)]
      BY <1>2 DEF Processing
    <2>2. n + (i + 1) = (n + 1) + i
      BY <1>2, <1>3
    <2> QED
      BY <1>2, <2>1, <2>2
  <1>11. \A i \in 1..(n + 1) :
           /\ snapshot[i].id \in currentIDs'
           /\ snapshot[i].state \in 1..6 => snapshot[i].id \in lastFrames'
           /\ snapshot[i].id \in lastFrames' => snapshot[i].state \in 0..6
    <2> SUFFICES ASSUME NEW i \in 1..(n + 1)
                 PROVE  /\ snapshot[i].id \in currentIDs'
                        /\ snapshot[i].state \in 1..6 => snapshot[i].id \in lastFrames'
                        /\ snapshot[i].id \in lastFrames' => snapshot[i].state \in 0..6
      OBVIOUS
    <2>1. CASE i = n + 1
      BY <1>1, <1>4, <1>7, <2>1
    <2>2. CASE i \in 1..n
      BY <1>1, <1>5, <1>8, <2>2 DEF Processing
    <2> QED
      BY <1>3, <2>1, <2>2
  <1>12. \A f \in currentIDs' : \E i \in 1..(n + 1) : snapshot[i].id = f
    <2> SUFFICES ASSUME NEW f \in currentIDs'
                 PROVE  \E i \in 1..(n + 1) : snapshot[i].id = f
      OBVIOUS
    <2>1. CASE f = frame.id
      BY <1>3, <1>4, <2>1
    <2>2. CASE f \in currentIDs
      <3>1. PICK i \in 1..n : snapshot[i].id = f
        BY <2>2 DEF Processing
      <3> QED
        BY <1>3, <3>1
    <2> QED
      BY <1>1, <2>1, <2>2
  <1> HIDE DEF n
  <1> QED
    BY <1>1, <1>3, <1>9, <1>10, <1>11, <1>12 DEF Processing

\* Every step of the callback and of the event loop keeps the invariant.
LEMMA PollInvStep == TypeOK /\ TypeOK' /\ PollInv /\ [Next]_vars => PollInv'
  <1> SUFFICES ASSUME TypeOK, TypeOK', PollInv, [Next]_vars PROVE PollInv'
    OBVIOUS
  <1>a. touches \in Seq(DriverTouch) /\ snapshot \in Seq(DriverTouch)
    BY DEF TypeOK, DriverTouch
  <1>1. CASE Start \/ Cancel
    BY <1>1
    DEF Start, Cancel, PollInv, Stored, Copying, Processing, driverVars,
        sharedVars, readVars, eventVars, ghostVars
  <1>2. ASSUME NEW frame \in DriverFrames, Deliver(frame) PROVE PollInv'
    <2>1. /\ touches' = frame /\ pending' = Stores(Kept(frame))
          /\ pc' = pc /\ torn' = (torn \/ pc \in {"count", "copy"})
          /\ UNCHANGED <<sharedVars, readVars, eventVars, snapshot>>
      BY <1>2 DEF Deliver
    <2>2. DistinctIDs(touches')
      BY <2>1, DriverFramesDistinct
    <2>3. Stored'
      BY <2>1 DEF Stored, Stores
    <2>4. ~torn' => Copying' /\ (pc' = "process" => Processing')
      BY <2>1 DEF PollInv, Copying, Processing, readVars, eventVars
    <2> QED
      BY <2>1, <2>2, <2>3, <2>4 DEF PollInv, readVars, eventVars
  <1>3. ASSUME NEW i \in Slots, NEW field \in {"id", "state"},
               StoreField(i, field)
        PROVE  PollInv'
    <2>1. /\ <<field, i>> \in pending
          /\ pending' = pending \ {<<field, i>>}
          /\ touchBuffer' = [touchBuffer EXCEPT ![i][field] = touches[i][field]]
          /\ UNCHANGED <<touches, touchCount, newDataAvailable, pc, readVars,
                         eventVars, ghostVars>>
      BY <1>3 DEF StoreField
    <2>2. Stored'
      <3>1. \A j \in Slots, other \in {"id", "state"} :
              touchBuffer'[j][other] =
                IF j = i /\ other = field THEN touches[i][field]
                ELSE touchBuffer[j][other]
        BY <2>1 DEF TypeOK, Touch
      <3>2. \A j \in DOMAIN Kept(touches) : j \in Slots
        BY <1>a, KeptType
      <3>3. \A j \in DOMAIN Kept(touches) :
              /\ <<"id", j>> \notin pending' => touchBuffer'[j]["id"] = touches[j]["id"]
              /\ <<"state", j>> \notin pending' => touchBuffer'[j]["state"] = touches[j]["state"]
        BY <2>1, <3>1, <3>2 DEF PollInv, Stored
      <3> QED
        BY <2>1, <3>3 DEF PollInv, Stored
    <2>3. ~torn' => Copying' /\ (pc' = "process" => Processing')
      BY <2>1 DEF PollInv, Copying, Processing, readVars, eventVars, ghostVars
    <2> QED
      BY <2>1, <2>2, <2>3 DEF PollInv, readVars, eventVars, ghostVars
  <1>4. CASE StoreCount \/ StoreFlag
    <2>1. Stored'
      BY <1>4 DEF StoreCount, StoreFlag, PollInv, Stored
    <2>2. ~torn' => Copying' /\ (pc' = "process" => Processing')
      BY <1>4
      DEF StoreCount, StoreFlag, PollInv, Copying, Processing, readVars,
          eventVars, ghostVars
    <2> QED
      BY <1>4, <2>1, <2>2
      DEF StoreCount, StoreFlag, PollInv, readVars, eventVars, ghostVars
  <1>5. CASE Poll
    <2>1. DistinctIDs(snapshot')
      <3>1. CASE snapshot' = << >>
        BY <3>1 DEF DistinctIDs
      <3>2. CASE snapshot' = Kept(touches)
        BY <1>a, <3>2, KeptDistinct DEF PollInv
      <3> QED
        BY <1>5, <3>1, <3>2 DEF Poll
    <2>2. Stored'
      BY <1>5 DEF Poll, PollInv, Stored, driverVars, sharedVars
    <2>3. CASE newDataAvailable = 0
      <3>1. pc' = "process" /\ frames' = << >> /\ currentIDs' = {} /\ snapshot' = << >>
        BY <1>5, <2>3 DEF Poll, PollInv, readVars, eventVars
      <3>2. Processing'
        BY <3>1 DEF Processing
      <3> QED
        BY <1>5, <2>1, <2>2, <3>1, <3>2 DEF Poll, PollInv, Copying, driverVars
    <2>4. CASE newDataAvailable # 0
      <3>1. newDataAvailable = 1
        BY <2>4 DEF TypeOK
      <3>2. ~torn' => Copying'
        BY <1>5, <3>1 DEF Poll, Copying, driverVars
      <3> QED
        BY <1>5, <2>1, <2>2, <3>1, <3>2
        DEF Poll, PollInv, driverVars, readVars, eventVars
    <2> QED
      BY <2>3, <2>4
  <1>6. CASE ReadCount
    <2>1. Stored'
      BY <1>6 DEF ReadCount, PollInv, Stored, driverVars, sharedVars
    <2>2. ~torn' => Copying'
      BY <1>6, <1>a, KeptType
      DEF ReadCount, PollInv, Stored, Copying, driverVars, ghostVars
    <2> QED
      BY <1>6, <2>1, <2>2
      DEF ReadCount, PollInv, driverVars, eventVars, ghostVars
  <1>7. CASE CopyTouch
    <2>1. Stored'
      BY <1>7 DEF CopyTouch, PollInv, Stored, driverVars, sharedVars
    <2>2. ASSUME ~torn' PROVE Copying'
      <3> DEFINE next == Len(frames) + 1
      <3>1. /\ ~torn /\ pending = {} /\ snapshot = Kept(touches)
            /\ count = Len(snapshot) /\ next <= count /\ next \in Nat \ {0}
            /\ frames \in Seq(Touch)
            /\ \A i \in 1..Len(frames) : frames[i] = snapshot[i]
        BY <1>7, <2>2 DEF CopyTouch, PollInv, Copying, TypeOK, ghostVars
      <3>2. next \in DOMAIN Kept(touches) /\ next \in Slots
        BY <1>a, <3>1, KeptType
      <3>3. touchCount = Len(snapshot)
        BY <3>1 DEF PollInv, Stored
      <3>4. getTouchAt(next) = touchBuffer[next]
        BY <3>1, <3>3 DEF getTouchAt
      <3>5. /\ touchBuffer[next].id = touches[next].id
            /\ touchBuffer[next].state = touches[next].state
            /\ touchBuffer[next] \in Touch
        BY <3>1, <3>2 DEF PollInv, Stored, TypeOK
      <3>6. touches[next] \in Touch /\ snapshot[next] = touches[next]
        BY <1>a, <3>1, <3>2, KeptType, DriverTouchIsTouch
      <3>7. touchBuffer[next] = snapshot[next]
        BY <3>5, <3>6 DEF Touch
      <3>8. frames' = Append(frames, snapshot[next])
        BY <1>7, <3>4, <3>7 DEF CopyTouch
      <3>9. Len(frames') = next
            /\ \A i \in 1..Len(frames') : frames'[i] = snapshot[i]
        BY <3>1, <3>8
      <3> QED
        BY <1>7, <3>1, <3>9 DEF CopyTouch, Copying, driverVars, ghostVars
    <2> QED
      BY <1>7, <2>1, <2>2
      DEF CopyTouch, PollInv, driverVars, eventVars, ghostVars
  <1>8. CASE ClearFlag
    <2>1. Stored'
      BY <1>8 DEF ClearFlag, PollInv, Stored, driverVars
    <2>2. ASSUME ~torn' PROVE Copying' /\ Processing'
      <3>1. /\ Len(frames) = Len(snapshot) /\ currentIDs' = {}
            /\ \A i \in 1..Len(frames) : frames[i] = snapshot[i]
            /\ frames' = frames /\ snapshot' = snapshot /\ pc' = "process"
        BY <1>8, <2>2
        DEF ClearFlag, PollInv, Copying, eventVars, ghostVars
      <3>2. Len(snapshot) \in Nat
        BY <1>a
      <3> QED
        BY <3>1, <3>2 DEF Copying, Processing
    <2> QED
      BY <1>8, <2>1, <2>2
      DEF ClearFlag, PollInv, driverVars, eventVars, ghostVars
  <1>9. CASE ProcessFrame
    <2>1. Stored'
      BY <1>9 DEF ProcessFrame, PollInv, Stored, driverVars, sharedVars
    <2>2. ASSUME ~torn' PROVE Processing'
      BY <1>9, <2>2, ProcessFrameStep DEF ProcessFrame, PollInv, ghostVars
    <2> QED
      BY <1>9, <2>1, <2>2 DEF ProcessFrame, PollInv, Copying, driverVars, ghostVars
  <1>10. ASSUME NEW f \in Ids, EndVanished(f) PROVE PollInv'
    <2>1. Stored'
      BY <1>10 DEF EndVanished, PollInv, Stored, driverVars, sharedVars
    <2>2. ASSUME ~torn' PROVE Processing'
      BY <1>10, <2>2 DEF EndVanished, PollInv, Processing, readVars, ghostVars
    <2> QED
      BY <1>10, <2>1, <2>2
      DEF EndVanished, PollInv, Copying, driverVars, readVars, ghostVars
  <1>11. CASE EndProcess
    <2>1. Stored'
      BY <1>11 DEF EndProcess, PollInv, Stored, driverVars, sharedVars
    <2>2. DistinctIDs(snapshot')
      BY <1>11 DEF EndProcess, DistinctIDs
    <2> QED
      BY <1>11, <2>1, <2>2
      DEF EndProcess, Processed, PollInv, Copying, driverVars, readVars
  <1>12. CASE SendEvent
    BY <1>12
    DEF SendEvent, PollInv, Stored, Copying, Processing, driverVars,
        sharedVars, readVars, ghostVars
  <1>13. CASE UNCHANGED vars
    BY <1>13
    DEF vars, PollInv, Stored, Copying, Processing, driverVars, sharedVars,
        readVars, eventVars, ghostVars
  <1> QED
    BY <1>1, <1>2, <1>3, <1>4, <1>5, <1>6, <1>7, <1>8, <1>9, <1>10, <1>11,
       <1>12, <1>13
    DEF Next, Callback, EventLoop

\* The invariant, at the end of processEvents, is FaithfulPoll.
LEMMA PollInvGivesFaithful == TypeOK /\ PollInv => FaithfulPoll
  <1> SUFFICES ASSUME TypeOK, PollInv, Processed, ~torn, NEW f \in Ids
               PROVE  /\ StateIn(snapshot, f) \in 1..6 => f \in lastFrames
                      /\ f \in lastFrames => StateIn(snapshot, f) \in 0..6
    BY DEF FaithfulPoll
  <1>1. /\ frames = << >> /\ lastFrames \subseteq currentIDs
        /\ snapshot \in Seq(DriverTouch) /\ Len(snapshot) \in Nat
        /\ Processing /\ DistinctIDs(snapshot)
    BY DEF Processed, PollInv, TypeOK, DriverTouch
  <1>2. CASE \E i \in DOMAIN snapshot : snapshot[i].id = f
    <2>1. PICK i \in DOMAIN snapshot : snapshot[i].id = f
      BY <1>2
    <2>2. StateIn(snapshot, f) = snapshot[i].state
      BY <1>1, <2>1, StateInFound
    <2> QED
      BY <1>1, <2>1, <2>2 DEF Processing
  <1>3. CASE \A i \in DOMAIN snapshot : snapshot[i].id # f
    <2>1. StateIn(snapshot, f) = Absent
      BY <1>3, StateInAbsent
    <2>2. f \notin currentIDs
      BY <1>1, <1>3 DEF Processing
    <2> QED
      BY <1>1, <2>1, <2>2 DEF Absent
  <1> QED
    BY <1>2, <1>3

(***************************************************************************)
(* The inductive invariant: while no callback overlaps the poll, what has  *)
(* been copied is the beginning of the driver's frame, and what has been   *)
(* processed is tracked as that frame says, for any fingers and slots.     *)
(***************************************************************************)
THEOREM PollInvariant == Spec => []PollInv
<1>1. Init => PollInv
  BY PollInvInit
<1>2. TypeOK /\ TypeOK' /\ PollInv /\ [Next]_vars => PollInv'
  BY PollInvStep
<1> QED
  BY <1>1, <1>2, TypeCorrect, PTL DEF Spec

(***************************************************************************)
(* When no callback overlaps the copy, a poll leaves exactly the fingers   *)
(* tracked that the frame it read shows as touching (or leaves undecided), *)
(* for every number of fingers and slots.                                  *)
(***************************************************************************)
THEOREM PollIsFaithful == Spec => []FaithfulPoll
<1>1. TypeOK /\ PollInv => FaithfulPoll
  BY PollInvGivesFaithful
<1> QED
  BY <1>1, PollInvariant, TypeCorrect, PTL
=============================================================================
