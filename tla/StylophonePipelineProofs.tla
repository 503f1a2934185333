----------------------- MODULE StylophonePipelineProofs -----------------------
(***************************************************************************)
(* What holds of the pipeline for any number of fingers, any capacity of   *)
(* the channels and any size of the batches.                               *)
(***************************************************************************)
EXTENDS StylophonePipeline, SequenceTheorems, FiniteSetTheorems, WellFoundedInduction,
        TLAPS

\* An octave that has been clamped is one of the instrument's.
LEMMA clampOctaveType ==
  ASSUME NEW octave \in Int
  PROVE  clampOctave(octave) \in Octaves
  BY OctaveAssumption DEF clampOctave, Octaves

\* A batch of no events is a sequence.
LEMMA EmptyBatch == \A S : << >> \in Seq(S) /\ Len(<< >>) = 0
  OBVIOUS

(***************************************************************************)
(* The variables keep their types: neither channel ever holds more than    *)
(* its capacity.                                                           *)
(***************************************************************************)
THEOREM TypeCorrect == Spec => []TypeOK
<1>1. Init => TypeOK
  <2> SUFFICES ASSUME Init PROVE TypeOK
    OBVIOUS
  <2>1. /\ outbox \in Seq(Notes!MusicEvent)
        /\ rawEventChan \in Seq(Notes!MusicEvent) /\ Len(rawEventChan) = 0
        /\ stylophoneChan \in Seq(StylophoneEvent) /\ Len(stylophoneChan) = 0
    BY EmptyBatch DEF Init, Notes!Init
  <2>2. currentOctave \in Octaves
    BY clampOctaveType, InitialAssumption DEF Init
  <2>3. 0 <= RawCapacity /\ 0 <= MappedCapacity
    BY CapacityAssumption
  <2> QED  BY <2>1, <2>2, <2>3 DEF Init, TypeOK, Notes!Init
<1>2. TypeOK /\ [Next]_vars => TypeOK'
  <2> SUFFICES ASSUME TypeOK, [Next]_vars PROVE TypeOK'
    OBVIOUS
  <2> USE DEF TypeOK
  <2>1. CASE Produce
    <3>1. PICK f \in Fingers : Notes!Attack(f) \/ Notes!Modulate(f) \/ Notes!Release(f)
      BY <2>1 DEF Produce
    <3>2. \A type \in Notes!EventTypes : Notes!makeEvent(type, f) \in Notes!MusicEvent
      BY DEF Notes!makeEvent, Notes!MusicEvent
    <3>3. \E event \in Notes!MusicEvent : outbox' = Append(outbox, event)
      BY <3>1, <3>2 DEF Notes!Attack, Notes!Modulate, Notes!Release, Notes!EventTypes
    <3>4. outbox' \in Seq(Notes!MusicEvent)
      BY <3>3
    <3>5. sounding' \subseteq Fingers
      BY <3>1 DEF Notes!Attack, Notes!Modulate, Notes!Release
    <3> QED  BY <2>1, <3>4, <3>5 DEF Produce, mapperVars, lostVars
  <2>2. CASE EndPoll
    BY <2>2 DEF EndPoll, mapperVars, lostVars
  <2>3. CASE Offer
    <3>1. Head(outbox) \in Notes!MusicEvent /\ outbox' \in Seq(Notes!MusicEvent)
      BY <2>3 DEF Offer, Notes!HandOver
    <3>2. lostRaw' \subseteq Fingers
      BY <2>3, <3>1 DEF Offer, LostAfter, Notes!MusicEvent
    <3>3. /\ rawEventChan' \in Seq(Notes!MusicEvent)
          /\ Len(rawEventChan') <= RawCapacity
      BY <2>3, <3>1, CapacityAssumption DEF Offer
    <3> QED  BY <2>3, <3>1, <3>2, <3>3 DEF Offer, Notes!HandOver, mapperVars
  <2>4. CASE Receive
    <3>1. Head(rawEventChan) \in Notes!MusicEvent
      BY <2>4 DEF Receive
    <3>2. /\ rawEventChan' \in Seq(Notes!MusicEvent)
          /\ Len(rawEventChan') <= RawCapacity
      BY <2>4, CapacityAssumption DEF Receive
    <3> QED  BY <2>4, <3>1, <3>2 DEF Receive, pollerVars, lostVars
  <2>5. CASE MapEvent
    <3>1. taken \in Notes!MusicEvent
      BY <2>5 DEF MapEvent
    <3>2. mappedEvent' \in StylophoneEvent
      BY <2>5, <3>1 DEF MapEvent, StylophoneEvent, Notes!MusicEvent
    <3> QED  BY <2>5, <3>2 DEF MapEvent, pollerVars, lostVars
  <2>6. CASE Forward
    <3>1. mappedEvent \in StylophoneEvent
      BY <2>6 DEF Forward
    <3>2. lostMapped' \subseteq Fingers
      BY <2>6, <3>1 DEF Forward, LostAfter, StylophoneEvent
    <3>3. /\ stylophoneChan' \in Seq(StylophoneEvent)
          /\ Len(stylophoneChan') <= MappedCapacity
      BY <2>6, <3>1, CapacityAssumption DEF Forward
    <3> QED  BY <2>6, <3>2, <3>3 DEF Forward, pollerVars
  <2>7. CASE Broadcast
    <3>1. Head(stylophoneChan) \in StylophoneEvent
      BY <2>7 DEF Broadcast
    <3>2. heard' \subseteq Fingers
      BY <2>7, <3>1 DEF Broadcast, StylophoneEvent
    <3>3. /\ stylophoneChan' \in Seq(StylophoneEvent)
          /\ Len(stylophoneChan') <= MappedCapacity
      BY <2>7, CapacityAssumption DEF Broadcast
    <3> QED  BY <2>7, <3>2, <3>3 DEF Broadcast, pollerVars, mapperVars, lostVars
  <2>8. CASE \E delta \in -1..1 : ShiftOctave(delta)
    <3>1. currentOctave \in Int
      BY OctaveAssumption DEF Octaves
    <3>2. currentOctave' \in Octaves
      BY <2>8, <3>1, clampOctaveType DEF ShiftOctave
    <3> QED  BY <2>8, <3>2 DEF ShiftOctave, pollerVars, mapperVars, lostVars
  <2>9. CASE \E octave \in MinOctave - 1 .. MaxOctave + 1 : SetOctave(octave)
    <3>1. currentOctave' \in Octaves
      BY <2>9, clampOctaveType, OctaveAssumption DEF SetOctave
    <3> QED  BY <2>9, <3>1 DEF SetOctave, pollerVars, mapperVars, lostVars
  <2>10. CASE \E goroutine \in {"eventLoop", "mapper", "run"} : Cancel(goroutine)
    BY <2>10 DEF Cancel, pollerVars, mapperVars, lostVars
  <2>11. CASE UNCHANGED vars
    BY <2>11 DEF vars, pollerVars, mapperVars, lostVars
  <2> QED  BY <2>1, <2>2, <2>3, <2>4, <2>5, <2>6, <2>7, <2>8, <2>9, <2>10, <2>11
           DEF Next, Forwarding
<1> QED  BY <1>1, <1>2, PTL DEF Spec

-----------------------------------------------------------------------------
\* What a sequence of events makes of a note.

Event == Notes!MusicEvent \cup StylophoneEvent

\* Whether a finger's note is on, as the event that its state resulted from.
Voice(f, fingers) == IF f \in fingers THEN "SynthStart" ELSE "SynthEnd"

\* The event is an attack or a release of f.
Turns(event, f) == event.finger = f /\ IsTransition(event)

After(event, f, voice) == IF Turns(event, f) THEN event.type ELSE voice

\* s[i] is the last attack or release of f in s.
LastTurn(s, f, i) ==
  /\ i \in DOMAIN s /\ Turns(s[i], f)
  /\ \A j \in DOMAIN s : Turns(s[j], f) => j <= i

\* The note of f, when all of s has been applied to it.
Result(s, f, voice) ==
  IF \E i \in DOMAIN s : LastTurn(s, f, i)
  THEN s[CHOOSE i \in DOMAIN s : LastTurn(s, f, i)].type
  ELSE voice

\* A set of natural numbers has a least element.
LEMMA Smallest ==
  ASSUME NEW T \in SUBSET Nat, T # {}
  PROVE  \E x \in T : \A y \in T : x <= y
<1> DEFINE R == OpToRel(<, Nat)
<1>1. PICK x \in T : \A y \in T : ~(<<y, x>> \in R)
  <2>1. IsWellFoundedOn(R, Nat)
    BY NatLessThanWellFounded
  <2> HIDE DEF R
  <2> QED  BY <2>1, WFMin
<1>2. \A y \in T : ~(y < x)
  BY <1>1 DEF OpToRel
<1> HIDE DEF R
<1> QED  BY <1>1, <1>2

\* Of several attacks and releases one is the last.
LEMMA LastTurnExists ==
  ASSUME NEW s \in Seq(Event), NEW f, NEW k \in DOMAIN s, Turns(s[k], f)
  PROVE  \E i \in DOMAIN s : LastTurn(s, f, i)
<1> DEFINE T == {Len(s) - i : i \in {j \in DOMAIN s : Turns(s[j], f)}}
<1>1. T \subseteq Nat /\ Len(s) - k \in T
  OBVIOUS
<1>2. PICK x \in T : \A y \in T : x <= y
  <2> HIDE DEF T
  <2> QED  BY <1>1, Smallest
<1>3. PICK i \in DOMAIN s : Turns(s[i], f) /\ x = Len(s) - i
  BY <1>2
<1>4. ASSUME NEW j \in DOMAIN s, Turns(s[j], f) PROVE j <= i
  <2>1. Len(s) - j \in T
    BY <1>4
  <2>2. x <= Len(s) - j
    BY <1>2, <2>1
  <2> QED  BY <1>3, <2>2, LenProperties
<1> QED  BY <1>3, <1>4 DEF LastTurn

\* The last one decides.
LEMMA ResultIs ==
  ASSUME NEW s \in Seq(Event), NEW f, NEW voice, NEW i, LastTurn(s, f, i)
  PROVE  Result(s, f, voice) = s[i].type
<1>1. \A k \in DOMAIN s : LastTurn(s, f, k) => k = i
  BY DEF LastTurn
<1>2. i \in DOMAIN s
  BY DEF LastTurn
<1>3. (CHOOSE k \in DOMAIN s : LastTurn(s, f, k)) = i
  BY <1>1, <1>2
<1> QED  BY <1>2, <1>3 DEF Result

\* Without attacks and releases a note stays as it is.
LEMMA ResultIsNot ==
  ASSUME NEW s, NEW f, NEW voice, \A i \in DOMAIN s : ~Turns(s[i], f)
  PROVE  Result(s, f, voice) = voice
  BY DEF Result, LastTurn

\* No events change nothing.
LEMMA ResultOfNothing ==
  ASSUME NEW f, NEW voice
  PROVE  Result(<< >>, f, voice) = voice
  BY ResultIsNot

\* One event makes of a note what it says.
LEMMA ResultOfOne ==
  ASSUME NEW event \in Event, NEW f, NEW voice
  PROVE  Result(<<event>>, f, voice) = After(event, f, voice)
<1> DEFINE one == <<event>>
<1>1. one \in Seq(Event) /\ DOMAIN one = {1} /\ one[1] = event
  OBVIOUS
<1> HIDE DEF one
<1>2. CASE Turns(event, f)
  <2>1. LastTurn(one, f, 1)
    BY <1>1, <1>2 DEF LastTurn
  <2>2. Result(one, f, voice) = one[1].type
    BY <1>1, <2>1, ResultIs
  <2> QED  BY <1>1, <1>2, <2>2 DEF After, one
<1>3. CASE ~Turns(event, f)
  <2>1. Result(one, f, voice) = voice
    BY <1>1, <1>3, ResultIsNot
  <2> QED  BY <1>3, <2>1 DEF After, one
<1> QED  BY <1>2, <1>3

\* One sequence after another.
LEMMA ResultOfBoth ==
  ASSUME NEW s \in Seq(Event), NEW t \in Seq(Event), NEW f, NEW voice
  PROVE  Result(s \o t, f, voice) = Result(t, f, Result(s, f, voice))
<1> DEFINE u == s \o t
<1>1. /\ u \in Seq(Event)
      /\ DOMAIN u = 1 .. Len(s) + Len(t) /\ DOMAIN s = 1 .. Len(s) /\ DOMAIN t = 1 .. Len(t)
      /\ Len(s) \in Nat /\ Len(t) \in Nat
      /\ \A i \in DOMAIN s : u[i] = s[i]
      /\ \A i \in DOMAIN t : u[Len(s) + i] = t[i]
      /\ \A i \in DOMAIN u : i \in DOMAIN s \/ (i - Len(s) \in DOMAIN t /\ u[i] = t[i - Len(s)])
  OBVIOUS
<1> HIDE DEF u
<1>2. CASE \E k \in DOMAIN t : Turns(t[k], f)
  <2>1. PICK i \in DOMAIN t : LastTurn(t, f, i)
    BY <1>2, LastTurnExists
  <2>2. LastTurn(u, f, Len(s) + i)
    BY <1>1, <2>1 DEF LastTurn
  <2>3. Result(u, f, voice) = u[Len(s) + i].type
    BY <1>1, <2>2, ResultIs
  <2>4. Result(t, f, Result(s, f, voice)) = t[i].type
    BY <2>1, ResultIs
  <2> QED  BY <1>1, <2>3, <2>4 DEF u
<1>3. CASE \A k \in DOMAIN t : ~Turns(t[k], f)
  <2>1. Result(t, f, Result(s, f, voice)) = Result(s, f, voice)
    BY <1>3, ResultIsNot
  <2>2. CASE \E k \in DOMAIN s : Turns(s[k], f)
    <3>1. PICK i \in DOMAIN s : LastTurn(s, f, i)
      BY <2>2, LastTurnExists
    <3>2. LastTurn(u, f, i)
      BY <1>1, <1>3, <3>1 DEF LastTurn
    <3>3. Result(u, f, voice) = u[i].type /\ Result(s, f, voice) = s[i].type
      BY <1>1, <3>1, <3>2, ResultIs
    <3> QED  BY <1>1, <2>1, <3>3 DEF u
  <2>3. CASE \A k \in DOMAIN s : ~Turns(s[k], f)
    <3>1. \A k \in DOMAIN u : ~Turns(u[k], f)
      BY <1>1, <1>3, <2>3
    <3>2. Result(u, f, voice) = voice /\ Result(s, f, voice) = voice
      BY <2>3, <3>1, ResultIsNot
    <3> QED  BY <2>1, <3>2 DEF u
  <2> QED  BY <2>2, <2>3
<1> QED  BY <1>2, <1>3

\* Sending, and receiving.
LEMMA ResultOfAppend ==
  ASSUME NEW s \in Seq(Event), NEW event \in Event, NEW f, NEW voice
  PROVE  Result(Append(s, event), f, voice) = After(event, f, Result(s, f, voice))
<1> DEFINE one == <<event>>
<1>1. one \in Seq(Event) /\ Append(s, event) = s \o one
  BY AppendIsConcat
<1>2. Result(one, f, Result(s, f, voice)) = After(event, f, Result(s, f, voice))
  BY ResultOfOne
<1> HIDE DEF one
<1> QED  BY <1>1, <1>2, ResultOfBoth

\* Of several events the first may be taken off and applied.
LEMMA ResultOfTail ==
  ASSUME NEW s \in Seq(Event), s # << >>, NEW f, NEW voice
  PROVE  Result(s, f, voice) = Result(Tail(s), f, After(Head(s), f, voice))
<1> DEFINE one == <<Head(s)>>
           rest == Tail(s)
<1>1. Head(s) \in Event /\ rest \in Seq(Event) /\ s = one \o rest
  OBVIOUS
<1>2. one \in Seq(Event)
  BY <1>1
<1>3. Result(one, f, voice) = After(Head(s), f, voice)
  BY <1>1, ResultOfOne
<1> HIDE DEF one, rest
<1>4. Result(s, f, voice) = Result(rest, f, Result(one, f, voice))
  BY <1>1, <1>2, ResultOfBoth
<1> QED  BY <1>3, <1>4 DEF rest

-----------------------------------------------------------------------------
\* The client is in step.

\* The note of f when what is between the two channels, and in the first, has
\* been applied to it.
Passed(f, voice) ==
  Result(rawEventChan, f, Result(InHand(taken), f, Result(InHand(mappedEvent), f, voice)))

(***************************************************************************)
(* The poller's state of a finger is what comes of its batch, applied to   *)
(* what has gone before it, `offered'; that is what comes of the first     *)
(* channel, unless this has lost something, applied to what has gone       *)
(* before, `forwarded'; and that is what comes of the second channel,      *)
(* unless this has lost something, applied to what the client hears.       *)
(***************************************************************************)
InStep(f) ==
  \E offered, forwarded \in Notes!EventTypes :
    /\ Voice(f, sounding) = Result(outbox, f, offered)
    /\ f \notin lostRaw => offered = Passed(f, forwarded)
    /\ f \notin lostMapped => forwarded = Result(stylophoneChan, f, Voice(f, heard))

\* The mapper has one event in its hands.
OneInHand == taken = NoEvent \/ mappedEvent = NoEvent

StepInv == OneInHand /\ \A f \in Fingers : InStep(f)

\* Events, of the poller and of the mapper, and the one in hand.
LEMMA EventsAre ==
  /\ Notes!MusicEvent \subseteq Event /\ StylophoneEvent \subseteq Event
  /\ NoEvent \notin Event
  /\ \A event \in Event : event.type \in Notes!EventTypes
  /\ \A event \in Event : InHand(event) = <<event>>
  /\ InHand(NoEvent) = << >>
  BY NoEventAssumption DEF Event, Notes!MusicEvent, StylophoneEvent, InHand

\* What TypeOK says, in terms of Event.
LEMMA EventSequences ==
  ASSUME TypeOK
  PROVE  /\ outbox \in Seq(Event) /\ rawEventChan \in Seq(Event)
         /\ stylophoneChan \in Seq(Event)
         /\ InHand(taken) \in Seq(Event) /\ InHand(mappedEvent) \in Seq(Event)
  BY EventsAre DEF TypeOK, InHand

\* An event leaves a note that is sounding, changed or not, or silent.
LEMMA AfterType ==
  ASSUME NEW event \in Event, NEW f, NEW voice \in Notes!EventTypes
  PROVE  After(event, f, voice) \in Notes!EventTypes
  BY EventsAre DEF After

\* It holds before the first touch.
LEMMA StepInvInit == Init => StepInv
<1> SUFFICES ASSUME Init, NEW f \in Fingers PROVE InStep(f)
  BY DEF StepInv, OneInHand, Init
<1>1. Voice(f, sounding) = "SynthEnd" /\ Voice(f, heard) = "SynthEnd"
  BY DEF Init, Notes!Init, Voice
<1>2. /\ Result(outbox, f, "SynthEnd") = "SynthEnd"
      /\ Result(stylophoneChan, f, "SynthEnd") = "SynthEnd"
      /\ Passed(f, "SynthEnd") = "SynthEnd"
  BY ResultOfNothing, EventsAre DEF Init, Notes!Init, Passed
<1> QED  BY <1>1, <1>2 DEF InStep, Notes!EventTypes

\* A poll keeps every note in step.
LEMMA ProduceStep ==
  ASSUME TypeOK, NEW f \in Fingers, InStep(f), Produce
  PROVE  InStep(f)'
<1>1. PICK offered \in Notes!EventTypes, forwarded \in Notes!EventTypes :
        /\ Voice(f, sounding) = Result(outbox, f, offered)
        /\ f \notin lostRaw => offered = Passed(f, forwarded)
        /\ f \notin lostMapped => forwarded = Result(stylophoneChan, f, Voice(f, heard))
  BY DEF InStep
<1>2. PICK g \in Fingers : Notes!Attack(g) \/ Notes!Modulate(g) \/ Notes!Release(g)
  BY DEF Produce
<1>3. PICK event \in Notes!MusicEvent :
        /\ outbox' = Append(outbox, event)
        /\ Voice(f, sounding') = After(event, f, Voice(f, sounding))
  BY <1>2 DEF Notes!Attack, Notes!Modulate, Notes!Release, Notes!makeEvent,
       Notes!MusicEvent, Notes!EventTypes, Voice, After, Turns, IsTransition
<1>4. Voice(f, sounding') = Result(outbox', f, offered)
  BY <1>1, <1>3, EventsAre, EventSequences, ResultOfAppend
<1>5. UNCHANGED <<rawEventChan, taken, mappedEvent, stylophoneChan, heard, lostRaw, lostMapped>>
  BY DEF Produce, mapperVars, lostVars
<1> QED  BY <1>1, <1>4, <1>5 DEF InStep, Passed

\* Offering an event keeps it so, taken or dropped.
LEMMA OfferStep ==
  ASSUME TypeOK, NEW f \in Fingers, InStep(f), Offer
  PROVE  InStep(f)'
<1>1. PICK offered \in Notes!EventTypes, forwarded \in Notes!EventTypes :
        /\ Voice(f, sounding) = Result(outbox, f, offered)
        /\ f \notin lostRaw => offered = Passed(f, forwarded)
        /\ f \notin lostMapped => forwarded = Result(stylophoneChan, f, Voice(f, heard))
  BY DEF InStep
<1> DEFINE event == Head(outbox)
           next == After(event, f, offered)
           before == Result(InHand(taken), f, Result(InHand(mappedEvent), f, forwarded))
<1>2. /\ outbox # << >> /\ outbox' = Tail(outbox)
      /\ UNCHANGED <<sounding, taken, mappedEvent, stylophoneChan, heard, lostMapped>>
  BY DEF Offer, Notes!HandOver, mapperVars
<1>3. event \in Event
  BY <1>2, EventSequences
<1>4. next \in Notes!EventTypes
  BY <1>3, AfterType
<1>5. Voice(f, sounding') = Result(outbox', f, next)
  BY <1>1, <1>2, EventSequences, ResultOfTail
<1>6. ASSUME f \notin lostRaw' PROVE next = Passed(f, forwarded)'
  <2>1. CASE Len(rawEventChan) < RawCapacity
    <3>1. rawEventChan' = Append(rawEventChan, event)
      BY <2>1 DEF Offer
    <3>2. Passed(f, forwarded)' = After(event, f, Passed(f, forwarded))
      BY <1>2, <1>3, <3>1, EventSequences, ResultOfAppend DEF Passed
    <3>3. Turns(event, f) \/ f \notin lostRaw
      BY <1>6, <2>1 DEF Offer, LostAfter, Turns
    <3> QED  BY <1>1, <3>2, <3>3 DEF After
  <2>2. CASE ~(Len(rawEventChan) < RawCapacity)
    <3>1. rawEventChan' = rawEventChan
      BY <2>2 DEF Offer
    <3>2. f \notin lostRaw /\ ~Turns(event, f)
      BY <1>6, <2>2 DEF Offer, LostAfter, Turns
    <3> QED  BY <1>1, <1>2, <3>1, <3>2 DEF After, Passed
  <2> QED  BY <2>1, <2>2
<1> HIDE DEF next
<1> QED  BY <1>1, <1>2, <1>4, <1>5, <1>6 DEF InStep

\* The mapper's taking of an event keeps it so.
LEMMA ReceiveStep ==
  ASSUME TypeOK, NEW f \in Fingers, InStep(f), Receive
  PROVE  InStep(f)'
<1> DEFINE event == Head(rawEventChan)
<1>1. /\ rawEventChan # << >> /\ rawEventChan' = Tail(rawEventChan)
      /\ taken = NoEvent /\ taken' = event
      /\ UNCHANGED <<sounding, outbox, mappedEvent, stylophoneChan, heard, lostRaw, lostMapped>>
  BY DEF Receive, pollerVars, lostVars
<1>2. event \in Event
  BY <1>1, EventSequences
<1>3. ASSUME NEW voice PROVE Passed(f, voice)' = Passed(f, voice)
  <2> DEFINE before == Result(InHand(mappedEvent), f, voice)
  <2>1. Passed(f, voice) = Result(rawEventChan, f, before)
    BY <1>1, EventsAre, ResultOfNothing DEF Passed
  <2>2. Result(rawEventChan, f, before) = Result(rawEventChan', f, After(event, f, before))
    BY <1>1, EventSequences, ResultOfTail
  <2>3. Result(InHand(taken'), f, before) = After(event, f, before)
    BY <1>1, <1>2, EventsAre, ResultOfOne
  <2> QED  BY <1>1, <2>1, <2>2, <2>3 DEF Passed, InHand
<1> QED  BY <1>1, <1>3 DEF InStep

\* Mapping an event keeps it so.
LEMMA MapEventStep ==
  ASSUME TypeOK, OneInHand, NEW f \in Fingers, InStep(f), MapEvent
  PROVE  InStep(f)'
<1>1. /\ taken \in Notes!MusicEvent /\ taken' = NoEvent
      /\ mappedEvent = NoEvent
      /\ mappedEvent' = [type |-> taken.type, finger |-> taken.finger, octave |-> currentOctave]
      /\ UNCHANGED <<sounding, outbox, rawEventChan, stylophoneChan, heard, lostRaw, lostMapped>>
  BY DEF MapEvent, OneInHand, TypeOK, pollerVars, lostVars
<1>2. mappedEvent' \in StylophoneEvent
  BY <1>1 DEF TypeOK, StylophoneEvent, Notes!MusicEvent
<1>3. ASSUME NEW voice PROVE Passed(f, voice)' = Passed(f, voice)
  <2>1. After(mappedEvent', f, voice) = After(taken, f, voice)
    BY <1>1 DEF After, Turns, IsTransition
  <2>2. /\ Result(InHand(mappedEvent), f, voice) = voice
        /\ Result(InHand(taken), f, voice) = After(taken, f, voice)
    BY <1>1, EventsAre, ResultOfNothing, ResultOfOne
  <2>3. /\ Result(InHand(mappedEvent'), f, voice) = After(mappedEvent', f, voice)
        /\ \A v : Result(InHand(taken'), f, v) = v
    BY <1>1, <1>2, EventsAre, ResultOfNothing, ResultOfOne
  <2> QED  BY <1>1, <2>1, <2>2, <2>3 DEF Passed, InHand
<1> QED  BY <1>1, <1>3 DEF InStep

\* So does offering it to the second channel, taken or dropped.
LEMMA ForwardStep ==
  ASSUME TypeOK, NEW f \in Fingers, InStep(f), Forward
  PROVE  InStep(f)'
<1>1. PICK offered \in Notes!EventTypes, forwarded \in Notes!EventTypes :
        /\ Voice(f, sounding) = Result(outbox, f, offered)
        /\ f \notin lostRaw => offered = Passed(f, forwarded)
        /\ f \notin lostMapped => forwarded = Result(stylophoneChan, f, Voice(f, heard))
  BY DEF InStep
<1>2. /\ mappedEvent # NoEvent /\ mappedEvent' = NoEvent
      /\ UNCHANGED <<sounding, outbox, rawEventChan, taken, heard, lostRaw>>
  BY DEF Forward, pollerVars
<1>3. mappedEvent \in Event
  BY <1>2, EventsAre DEF TypeOK
<1>4. PICK next \in Notes!EventTypes : next = After(mappedEvent, f, forwarded)
  BY <1>3, AfterType
<1>5. Passed(f, next)' = Passed(f, forwarded)
  <2>1. Result(InHand(mappedEvent), f, forwarded) = next
    BY <1>3, <1>4, EventsAre, ResultOfOne
  <2>2. Result(InHand(mappedEvent'), f, next) = next
    BY <1>2, EventsAre, ResultOfNothing
  <2> QED  BY <1>2, <2>1, <2>2 DEF Passed, InHand
<1>6. ASSUME f \notin lostMapped' PROVE next = Result(stylophoneChan', f, Voice(f, heard'))
  <2>1. CASE Len(stylophoneChan) < MappedCapacity
    <3>1. stylophoneChan' = Append(stylophoneChan, mappedEvent)
      BY <2>1 DEF Forward
    <3>2. Result(stylophoneChan', f, Voice(f, heard'))
            = After(mappedEvent, f, Result(stylophoneChan, f, Voice(f, heard)))
      BY <1>2, <1>3, <3>1, EventSequences, ResultOfAppend
    <3>3. Turns(mappedEvent, f) \/ f \notin lostMapped
      BY <1>6, <2>1 DEF Forward, LostAfter, Turns
    <3> QED  BY <1>1, <1>4, <3>2, <3>3 DEF After
  <2>2. CASE ~(Len(stylophoneChan) < MappedCapacity)
    <3>1. stylophoneChan' = stylophoneChan
      BY <2>2 DEF Forward
    <3>2. f \notin lostMapped /\ ~Turns(mappedEvent, f)
      BY <1>6, <2>2 DEF Forward, LostAfter, Turns
    <3> QED  BY <1>1, <1>2, <1>4, <3>1, <3>2 DEF After
  <2> QED  BY <2>1, <2>2
<1> QED  BY <1>1, <1>2, <1>5, <1>6 DEF InStep

\* A broadcast keeps it so.
LEMMA BroadcastStep ==
  ASSUME TypeOK, NEW f \in Fingers, InStep(f), Broadcast
  PROVE  InStep(f)'
<1> DEFINE event == Head(stylophoneChan)
<1>1. /\ stylophoneChan # << >> /\ stylophoneChan' = Tail(stylophoneChan)
      /\ UNCHANGED <<sounding, outbox, rawEventChan, taken, mappedEvent, lostRaw, lostMapped>>
  BY DEF Broadcast, pollerVars, mapperVars, lostVars
<1>2. Voice(f, heard') = After(event, f, Voice(f, heard))
  <2>1. event.type \in Notes!EventTypes
    BY <1>1, EventSequences, EventsAre
  <2> QED  BY <2>1 DEF Broadcast, Voice, After, Turns, IsTransition, Notes!EventTypes
<1>3. Result(stylophoneChan', f, Voice(f, heard')) = Result(stylophoneChan, f, Voice(f, heard))
  BY <1>1, <1>2, EventSequences, ResultOfTail
<1> QED  BY <1>1, <1>3 DEF InStep, Passed

(***************************************************************************)
(* InStep is kept, for every finger and by every step.                     *)
(***************************************************************************)
THEOREM StepInvariant == Spec => []StepInv
<1>1. TypeOK /\ StepInv /\ [Next]_vars => StepInv'
  <2> SUFFICES ASSUME TypeOK, StepInv, [Next]_vars PROVE StepInv'
    OBVIOUS
  <2>1. OneInHand'
    BY DEF StepInv, OneInHand, Next, Forwarding, Produce, EndPoll, Offer, Receive, MapEvent,
         Forward, Broadcast, ShiftOctave, SetOctave, Cancel, vars, mapperVars
  <2>2. ASSUME NEW f \in Fingers PROVE InStep(f)'
    <3>1. InStep(f) /\ OneInHand
      BY DEF StepInv
    <3>2. CASE Produce \/ Offer \/ Receive \/ MapEvent \/ Forward \/ Broadcast
      BY <3>1, <3>2, ProduceStep, OfferStep, ReceiveStep, MapEventStep, ForwardStep,
         BroadcastStep
    <3>3. CASE ~(Produce \/ Offer \/ Receive \/ MapEvent \/ Forward \/ Broadcast)
      <4>1. UNCHANGED <<sounding, outbox, rawEventChan, taken, mappedEvent, stylophoneChan,
                        heard, lostRaw, lostMapped>>
        BY <3>3 DEF Next, Forwarding, EndPoll, ShiftOctave, SetOctave, Cancel, vars,
             pollerVars, mapperVars, lostVars
      <4> QED  BY <3>1, <4>1 DEF InStep, Passed
    <3> QED  BY <3>2, <3>3
  <2> QED  BY <2>1, <2>2 DEF StepInv
<1> QED  BY <1>1, StepInvInit, TypeCorrect, PTL DEF Spec

(***************************************************************************)
(* Whatever the channels drop, the client is only wrong about a finger     *)
(* whose own latest attack or release was dropped.                         *)
(***************************************************************************)
THEOREM ClientStaysInStep == Spec => []ClientInStep
<1>1. TypeOK /\ StepInv => ClientInStep
  <2> SUFFICES ASSUME TypeOK, StepInv, NEW f \in Fingers \ (lostRaw \cup lostMapped)
               PROVE  f \in sounding <=>
                 \/ \E i \in DOMAIN inFlight : Decides(i, f) /\ inFlight[i].type = "SynthStart"
                 \/ f \in heard /\ ~ \E i \in DOMAIN inFlight : Decides(i, f)
    BY DEF ClientInStep
  <2>1. Voice(f, sounding)
          = Result(outbox, f, Passed(f, Result(stylophoneChan, f, Voice(f, heard))))
    BY DEF StepInv, InStep
  <2>2. inFlight \in Seq(Event) /\ Voice(f, sounding) = Result(inFlight, f, Voice(f, heard))
    <3> DEFINE a == stylophoneChan
               b == InHand(mappedEvent)
               c == InHand(taken)
               d == rawEventChan
               e == outbox
    <3>1. /\ a \in Seq(Event) /\ b \in Seq(Event) /\ c \in Seq(Event)
          /\ d \in Seq(Event) /\ e \in Seq(Event)
      BY EventSequences
    <3>2. inFlight = a \o b \o c \o d \o e
      BY DEF inFlight
    <3>3. Voice(f, sounding)
            = Result(e, f, Result(d, f, Result(c, f, Result(b, f, Result(a, f, Voice(f, heard))))))
      BY <2>1 DEF Passed
    <3> DEFINE ab == a \o b
               abc == ab \o c
               abcd == abc \o d
    <3> HIDE DEF a, b, c, d, e
    <3>4. ab \in Seq(Event) /\ \A v : Result(ab, f, v) = Result(b, f, Result(a, f, v))
      BY <3>1, ResultOfBoth
    <3> HIDE DEF ab
    <3>5. abc \in Seq(Event) /\ \A v : Result(abc, f, v) = Result(c, f, Result(ab, f, v))
      BY <3>1, <3>4, ResultOfBoth
    <3> HIDE DEF abc
    <3>6. abcd \in Seq(Event) /\ \A v : Result(abcd, f, v) = Result(d, f, Result(abc, f, v))
      BY <3>1, <3>5, ResultOfBoth
    <3> HIDE DEF abcd
    <3>7. /\ abcd \o e \in Seq(Event)
          /\ \A v : Result(abcd \o e, f, v) = Result(e, f, Result(abcd, f, v))
      BY <3>1, <3>6, ResultOfBoth
    <3>8. inFlight = abcd \o e
      BY <3>2 DEF ab, abc, abcd
    <3> QED  BY <3>3, <3>4, <3>5, <3>6, <3>7, <3>8
  <2>3. \A i \in DOMAIN inFlight : Decides(i, f) <=> LastTurn(inFlight, f, i)
    BY DEF Decides, LastTurn, Turns
  <2>4. CASE \E i \in DOMAIN inFlight : Decides(i, f)
    <3>1. PICK i \in DOMAIN inFlight : LastTurn(inFlight, f, i)
      BY <2>3, <2>4
    <3>2. \A j \in DOMAIN inFlight : LastTurn(inFlight, f, j) => j = i
      BY <2>2, <3>1 DEF LastTurn
    <3>3. Voice(f, sounding) = inFlight[i].type
      BY <2>2, <3>1, ResultIs
    <3> QED  BY <2>3, <2>4, <3>1, <3>2, <3>3 DEF Voice
  <2>5. CASE ~ \E i \in DOMAIN inFlight : Decides(i, f)
    <3>1. Voice(f, sounding) = Voice(f, heard)
      BY <2>2, <2>3, <2>5 DEF Result
    <3> QED  BY <2>5, <3>1 DEF Voice
  <2> QED  BY <2>4, <2>5
<1> QED  BY <1>1, StepInvariant, TypeCorrect, PTL

-----------------------------------------------------------------------------
\* The notes.

\* Division by a positive number.
LEMMA Quotient ==
  ASSUME NEW a \in Int, NEW b \in Nat \ {0}
  PROVE  /\ a \div b \in Int
         /\ b * (a \div b) <= a /\ a < b * (a \div b) + b
  OBVIOUS

\* The index into the scale is that of the key under x, also at the pad's
\* edges and beyond them.
LEMMA IndexCountsKeys ==
  ASSUME NEW x \in Int
  PROVE  noteIndexFromX(x) = KeysBefore(x) /\ noteIndexFromX(x) \in 0 .. 11
<1> USE PadAssumption DEF notesPerOctave
<1> DEFINE q == (clamp01(x) * notesPerOctave) \div Width
           n == IF q >= 12 THEN 11 ELSE q
           keys == {key \in 1 .. 11 : key * Width <= 12 * x}
<1>1. clamp01(x) \in 0 .. Width
  BY DEF clamp01
<1>2. q \in Int /\ Width * q <= 12 * clamp01(x) /\ 12 * clamp01(x) < Width * q + Width
  <2>1. clamp01(x) * notesPerOctave \in Int /\ clamp01(x) * notesPerOctave = 12 * clamp01(x)
    BY <1>1
  <2> HIDE DEF notesPerOctave
  <2> QED  BY <2>1, Quotient
<1>3. q \in 0 .. 12
  <2> HIDE DEF q
  <2>1. q >= 0
    <3>1. q < 0 => Width * q + Width <= 0
      BY <1>2
    <3> QED  BY <1>1, <1>2, <3>1
  <2>2. q <= 12
    <3>1. q > 12 => Width * q >= Width * 13
      BY <1>2
    <3> QED  BY <1>1, <1>2, <3>1
  <2> QED  BY <1>2, <2>1, <2>2
<1>4. n \in 0 .. 11
  BY <1>3
<1>5. ASSUME NEW key \in 1 .. 11 PROVE key * Width <= 12 * x <=> key <= n
  <2> HIDE DEF q
  <2>1. key * Width <= 12 * clamp01(x) <=> key <= q
    <3>1. key <= q => key * Width <= q * Width
      BY <1>2
    <3>2. key > q => key * Width >= q * Width + Width
      BY <1>2
    <3> QED  BY <1>1, <1>2, <3>1, <3>2
  <2>2. key * Width <= 12 * x <=> key * Width <= 12 * clamp01(x)
    <3>1. key * Width >= Width /\ key * Width <= 11 * Width
      OBVIOUS
    <3> QED  BY <3>1 DEF clamp01
  <2> QED  BY <1>3, <2>1, <2>2
<1>6. keys = 1 .. n
  <2> HIDE DEF n
  <2> QED  BY <1>4, <1>5
<1>7. Cardinality(1 .. n) = n
  <2> HIDE DEF n
  <2>1. n \in Int /\ (1 > n => n = 0)
    BY <1>4
  <2>2. Cardinality(1 .. n) = IF 1 > n THEN 0 ELSE n - 1 + 1
    BY <1>4, FS_Interval
  <2> QED  BY <1>4, <2>1, <2>2
<1>8. noteIndexFromX(x) = n
  BY DEF noteIndexFromX
<1>9. KeysBefore(x) = Cardinality(keys)
  BY DEF KeysBefore
<1> HIDE DEF n, keys
<1> QED  BY <1>4, <1>6, <1>7, <1>8, <1>9

\* Rounding halves up is rounding to a nearest whole number.
LEMMA LevelIsNearest ==
  ASSUME NEW y \in Int
  PROVE  Nearest(effectLevelFromY(y), y)
<1> USE PadAssumption
<1> DEFINE v == clamp01(y)
           level == (200 * v + Width) \div (2 * Width)
<1>1. v \in 0 .. Width /\ (y \in 0 .. Width => v = y)
      /\ (y < 0 => v = 0) /\ (y > Width => v = Width)
  BY DEF clamp01
<1>2. /\ level \in Int /\ (2 * Width) * level <= 200 * v + Width
      /\ 200 * v + Width < (2 * Width) * level + 2 * Width
  <2>1. 200 * v + Width \in Int /\ 2 * Width \in Nat \ {0}
    BY <1>1
  <2> DEFINE a == 200 * v + Width
             b == 2 * Width
  <2>2. a \in Int /\ b \in Nat \ {0}
    BY <2>1
  <2> HIDE DEF a, b
  <2>3. a \div b \in Int /\ b * (a \div b) <= a /\ a < b * (a \div b) + b
    BY <2>2, Quotient
  <2> QED  BY <2>3 DEF a, b
<1> HIDE DEF v, level
<1>3. (2 * Width) * level = 2 * level * Width
  BY <1>2
<1>4. CASE y < 0
  <2>1. 2 * level * Width <= Width /\ Width < 2 * level * Width + 2 * Width
    BY <1>1, <1>2, <1>3, <1>4
  <2>2. level >= 1 => 2 * level * Width >= 2 * Width
    BY <1>2
  <2>3. level <= -1 => 2 * level * Width <= -2 * Width
    BY <1>2
  <2>4. level = 0
    BY <1>2, <2>1, <2>2, <2>3
  <2> QED  BY <1>4, <2>4 DEF Nearest, effectLevelFromY, level, v
<1>5. CASE y > Width
  <2>1. 2 * level * Width <= 201 * Width /\ 201 * Width < 2 * level * Width + 2 * Width
    BY <1>1, <1>2, <1>3, <1>5
  <2>2. level >= 101 => 2 * level * Width >= 202 * Width
    BY <1>2
  <2>3. level <= 99 => 2 * level * Width <= 198 * Width
    BY <1>2
  <2>4. level = 100
    BY <1>2, <2>1, <2>2, <2>3
  <2> QED  BY <1>5, <2>4 DEF Nearest, effectLevelFromY, level, v
<1>6. CASE y \in 0 .. Width
  <2>1. 200 * y - Width <= 2 * level * Width /\ 2 * level * Width <= 200 * y + Width
    BY <1>1, <1>2, <1>3, <1>6
  <2> QED  BY <1>6, <2>1 DEF Nearest, effectLevelFromY, level, v
<1> QED  BY <1>4, <1>5, <1>6

(***************************************************************************)
(* Every touch gets the note of its key and the level nearest to its       *)
(* height, for any resolution of the pad, any coordinates on it or beyond  *)
(* it, and any octaves.                                                    *)
(***************************************************************************)
THEOREM EveryTouchIsTuned == Spec => []Tuned
<1>1. TypeOK => Tuned
  <2> SUFFICES ASSUME TypeOK, NEW c \in Coordinates
               PROVE  /\ \E octave \in Octaves :
                           Note(c, currentOctave) = notesPerOctave * octave + KeysBefore(c)
                      /\ Nearest(effectLevelFromY(c), c)
    BY DEF Tuned
  <2>1. c \in Int
    BY PadAssumption
  <2>2. Note(c, currentOctave) = notesPerOctave * currentOctave + KeysBefore(c)
    BY <2>1, IndexCountsKeys DEF Note
  <2> QED  BY <2>1, <2>2, LevelIsNearest DEF TypeOK
<1> QED  BY <1>1, TypeCorrect, PTL
=============================================================================
