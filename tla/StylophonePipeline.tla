------------------------- MODULE StylophonePipeline -------------------------
(***************************************************************************)
(* From the poller to a client: hardware/multitouch_darwin.go (eventLoop), *)
(* hardware/stylophone_mapper.go and the loop of Run in                    *)
(* server/websocket_middleware.go.                                         *)
(*                                                                         *)
(* Three goroutines are joined by two bounded channels.  The event loop    *)
(* produces a batch of events (NoteLifecycle says which) and offers them   *)
(* to rawEventChan; the mapper's goroutine takes an event, gives it the    *)
(* current octave and offers it to stylophoneChan; Run takes it and        *)
(* broadcasts it.  (What note and effect it gets is in TouchpadMapper.)    *)
(* Both offers drop the event when the channel is full, whatever its type: *)
(* a dropped SynthEnd leaves a note on.  Meanwhile the keyboard and the    *)
(* websocket's clients change the octave.                                  *)
(*                                                                         *)
(* `heard' is the view of one client that stays connected: the fingers     *)
(* whose notes the events it has received leave on.                        *)
(***************************************************************************)
EXTENDS TouchpadMapper, Sequences

CONSTANTS
  Fingers,
  RawCapacity,             \* 256 in the code
  MappedCapacity,          \* 512 in the code
  InitialOctave,
  MaxBatch,                \* bound: events of one poll
  NoEvent

ASSUME CapacityAssumption == RawCapacity \in Nat \ {0} /\ MappedCapacity \in Nat \ {0}
ASSUME InitialAssumption == InitialOctave \in Int

VARIABLES
  sounding, outbox,        \* the poller: see NoteLifecycle
  sending,                 \* eventLoop is offering its batch
  rawEventChan,
  taken,                   \* the mapper's event: as received, ...
  mappedEvent,             \* ... and as mapped
  stylophoneChan,
  currentOctave,
  heard,                   \* the client's view
  lostRaw, lostMapped,     \* history: fingers whose latest attack or release
                           \* was dropped by the first, the second channel
  done                     \* ctx.Done: who has noticed it

pollerVars == <<sounding, outbox, sending>>
mapperVars == <<taken, mappedEvent>>
lostVars == <<lostRaw, lostMapped>>
vars == <<pollerVars, rawEventChan, mapperVars, stylophoneChan, currentOctave,
          heard, lostVars, done>>

Notes == INSTANCE NoteLifecycle WITH Ids <- Fingers

StylophoneEvent == [type : Notes!EventTypes, finger : Fingers, octave : Octaves]

ASSUME NoEventAssumption == NoEvent \notin Notes!MusicEvent \cup StylophoneEvent

IsTransition(event) == event.type \in {"SynthStart", "SynthEnd"}

\* Which fingers have lost their latest transition, after `event' was sent
\* into a channel or dropped.
LostAfter(lost, event, sent) ==
  IF ~IsTransition(event) THEN lost
  ELSE IF sent THEN lost \ {event.finger} ELSE lost \cup {event.finger}

Init ==
  /\ Notes!Init
  /\ sending = FALSE
  /\ rawEventChan = << >> /\ stylophoneChan = << >>
  /\ taken = NoEvent /\ mappedEvent = NoEvent
  /\ currentOctave = clampOctave(InitialOctave)
  /\ heard = {} /\ lostRaw = {} /\ lostMapped = {}
  /\ done = {}

Running(goroutine) == goroutine \notin done

-----------------------------------------------------------------------------

\* processEvents appends an event to the batch.
Produce ==
  /\ Running("eventLoop") /\ ~sending
  /\ Len(outbox) < MaxBatch
  /\ \E f \in Fingers : Notes!Attack(f) \/ Notes!Modulate(f) \/ Notes!Release(f)
  /\ UNCHANGED <<sending, rawEventChan, mapperVars, stylophoneChan,
                 currentOctave, heard, lostVars, done>>

\* processEvents returns.
EndPoll ==
  /\ ~sending /\ outbox # << >>
  /\ sending' = TRUE
  /\ UNCHANGED <<sounding, outbox, rawEventChan, mapperVars, stylophoneChan,
                 currentOctave, heard, lostVars, done>>

\* Mutant: the oldest event of a full channel makes room for the new one.
Offer_DropOldest ==
  /\ sending /\ Notes!HandOver
  /\ LET sent == Len(rawEventChan) < RawCapacity IN
       /\ rawEventChan' = IF sent THEN Append(rawEventChan, Head(outbox))
                          ELSE Append(Tail(rawEventChan), Head(outbox))
       /\ lostRaw' = LostAfter(lostRaw, Head(outbox), TRUE)
  /\ sending' = (Len(outbox) > 1)
  /\ UNCHANGED <<mapperVars, stylophoneChan, currentOctave, heard, lostMapped,
                 done>>

\* eventChan <- event, or default.
Offer ==
  /\ sending /\ Notes!HandOver
  /\ LET sent == Len(rawEventChan) < RawCapacity IN
       /\ rawEventChan' = IF sent THEN Append(rawEventChan, Head(outbox))
                          ELSE rawEventChan
       /\ lostRaw' = LostAfter(lostRaw, Head(outbox), sent)
  /\ sending' = (Len(outbox) > 1)
  /\ UNCHANGED <<mapperVars, stylophoneChan, currentOctave, heard, lostMapped,
                 done>>

-----------------------------------------------------------------------------

Receive ==
  /\ Running("mapper")
  /\ taken = NoEvent /\ mappedEvent = NoEvent /\ rawEventChan # << >>
  /\ taken' = Head(rawEventChan)
  /\ rawEventChan' = Tail(rawEventChan)
  /\ UNCHANGED <<pollerVars, mappedEvent, stylophoneChan, currentOctave, heard,
                 lostVars, done>>

\* mapper.MapEvent reads the octave under the mapper's lock.
MapEvent ==
  /\ taken # NoEvent
  /\ mappedEvent' = [type |-> taken.type, finger |-> taken.finger,
                     octave |-> currentOctave]
  /\ taken' = NoEvent
  /\ UNCHANGED <<pollerVars, rawEventChan, stylophoneChan, currentOctave, heard,
                 lostVars, done>>

Forward ==
  /\ mappedEvent # NoEvent
  /\ LET sent == Len(stylophoneChan) < MappedCapacity IN
       /\ stylophoneChan' = IF sent THEN Append(stylophoneChan, mappedEvent)
                            ELSE stylophoneChan
       /\ lostMapped' = LostAfter(lostMapped, mappedEvent, sent)
  /\ mappedEvent' = NoEvent
  /\ UNCHANGED <<pollerVars, rawEventChan, taken, currentOctave, heard, lostRaw,
                 done>>

-----------------------------------------------------------------------------

\* Run takes an event and broadcasts it; the client applies it.
Broadcast ==
  /\ Running("run") /\ stylophoneChan # << >>
  /\ LET event == Head(stylophoneChan) IN
       heard' = IF event.type = "SynthStart" THEN heard \cup {event.finger}
                ELSE IF event.type = "SynthEnd" THEN heard \ {event.finger}
                ELSE heard
  /\ stylophoneChan' = Tail(stylophoneChan)
  /\ UNCHANGED <<pollerVars, rawEventChan, mapperVars, currentOctave, lostVars,
                 done>>

\* ShiftOctave: the keyboard's Up and Down, a client's request.
ShiftOctave(delta) ==
  /\ currentOctave' = clampOctave(currentOctave + delta)
  /\ UNCHANGED <<pollerVars, rawEventChan, mapperVars, stylophoneChan, heard,
                 lostVars, done>>

\* SetOctave: a client's request, with any number.
SetOctave(octave) ==
  /\ currentOctave' = clampOctave(octave)
  /\ UNCHANGED <<pollerVars, rawEventChan, mapperVars, stylophoneChan, heard,
                 lostVars, done>>

\* ctx is cancelled; each goroutine notices it in its select.
Cancel(goroutine) ==
  /\ goroutine \notin done
  /\ goroutine = "eventLoop" => outbox = << >> /\ ~sending
  /\ goroutine = "mapper" => taken = NoEvent /\ mappedEvent = NoEvent
  /\ done' = done \cup {goroutine}
  /\ UNCHANGED <<pollerVars, rawEventChan, mapperVars, stylophoneChan,
                 currentOctave, heard, lostVars>>

Forwarding == EndPoll \/ Offer \/ Receive \/ MapEvent \/ Forward \/ Broadcast

Next ==
  \/ Produce
  \/ Forwarding
  \/ \E delta \in -1..1 : ShiftOctave(delta)
  \/ \E octave \in MinOctave - 1 .. MaxOctave + 1 : SetOctave(octave)
  \/ \E goroutine \in {"eventLoop", "mapper", "run"} : Cancel(goroutine)

Spec == Init /\ [][Next]_vars

\* Each goroutine is scheduled while it can run.  Run's select chooses among
\* its ready cases at random, so an event that waits is taken in the end.
FairSpec ==
  /\ Spec
  /\ WF_vars(EndPoll \/ Offer)
  /\ WF_vars(Receive \/ MapEvent \/ Forward)
  /\ WF_vars(Broadcast)

-----------------------------------------------------------------------------

TypeOK ==
  /\ sounding \subseteq Fingers /\ heard \subseteq Fingers
  /\ lostRaw \subseteq Fingers /\ lostMapped \subseteq Fingers
  /\ outbox \in Seq(Notes!MusicEvent)
  /\ sending \in BOOLEAN
  /\ rawEventChan \in Seq(Notes!MusicEvent) /\ Len(rawEventChan) <= RawCapacity
  /\ stylophoneChan \in Seq(StylophoneEvent) /\ Len(stylophoneChan) <= MappedCapacity
  /\ taken \in Notes!MusicEvent \cup {NoEvent}
  /\ mappedEvent \in StylophoneEvent \cup {NoEvent}
  /\ currentOctave \in Octaves
  /\ done \subseteq {"eventLoop", "mapper", "run"}

InHand(event) == IF event = NoEvent THEN << >> ELSE <<event>>

\* What is on its way to the client, oldest first.
inFlight ==
  stylophoneChan \o InHand(mappedEvent) \o InHand(taken) \o rawEventChan \o outbox

\* inFlight[i] is the last attack or release of f on its way.
Decides(i, f) ==
  /\ inFlight[i].finger = f /\ IsTransition(inFlight[i])
  /\ \A j \in DOMAIN inFlight :
       inFlight[j].finger = f /\ IsTransition(inFlight[j]) => j <= i

(***************************************************************************)
(* The client is never wrong for good about a finger unless that finger's  *)
(* latest attack or release was itself dropped: otherwise, once everything *)
(* on its way has arrived, the client hears the finger if and only if the  *)
(* poller has it sounding.  So a drop is healed by the finger's next       *)
(* attack or release that gets through, and neither the mapper nor the     *)
(* octave ever changes the order of a finger's events.                     *)
(***************************************************************************)
ClientInStep ==
  \A f \in Fingers \ (lostRaw \cup lostMapped) :
    f \in sounding <=>
      \/ \E i \in DOMAIN inFlight : Decides(i, f) /\ inFlight[i].type = "SynthStart"
      \/ f \in heard /\ ~ \E i \in DOMAIN inFlight : Decides(i, f)

(***************************************************************************)
(* The client falls silent: when a finger is released for good, its note   *)
(* ends at the client, unless a channel dropped its latest transition or   *)
(* the goroutines were cancelled.                                          *)
(***************************************************************************)
ReleasedFallsSilent ==
  \A f \in Fingers :
    <>[](f \notin sounding)
      => <>[](f \notin heard \/ f \in lostRaw \cup lostMapped \/ done # {})

(***************************************************************************)
(* Wherever the touch of an event lies that the mapper has taken, on the   *)
(* pad, at its right edge or beyond it, and whatever has become of the     *)
(* octave by then, the event gets the note of the key under the touch, or  *)
(* of the first or last key, in an octave that the instrument has, and the *)
(* per cent nearest to its height.                                         *)
(***************************************************************************)
Tuned ==
  taken # NoEvent =>
    \A c \in Coordinates :
      /\ \E octave \in Octaves : Note(c, currentOctave) = notesPerOctave * octave + KeysBefore(c)
      /\ Nearest(effectLevelFromY(c), c)
=============================================================================
