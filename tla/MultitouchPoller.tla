-------------------------- MODULE MultitouchPoller --------------------------
(***************************************************************************)
(* hardware/multitouch_darwin.go: the touchpad, read by two threads that   *)
(* share C memory without a lock.                                          *)
(*                                                                         *)
(* The driver's thread runs touchCallback for each frame of touches: it    *)
(* fills touchBuffer, then touchCount, then newDataAvailable.  The event   *)
(* loop's goroutine runs readFrames on each tick of the ticker: it reads   *)
(* the flag, the count, the slots one by one, and clears the flag; then    *)
(* processEvents turns the copy into SynthStart, SynthMove and SynthEnd    *)
(* and the loop offers these to the event channel.                         *)
(*                                                                         *)
(* The accesses race.  Neither side uses a barrier, so the callback's      *)
(* stores may become visible in any order: a callback puts its stores in   *)
(* `pending' and each becomes visible at a moment of its own.  A copied    *)
(* slot can therefore mix fields of two frames, and the reader can miss a  *)
(* frame or meet one twice.                                                *)
(*                                                                         *)
(* Coordinates, pressure and timestamps are left out: no decision of this  *)
(* file depends on them.                                                   *)
(***************************************************************************)
EXTENDS Integers, Sequences, FiniteSets

CONSTANTS
  Fingers,       \* identifiers the driver gives to touches
  MaxTouches,    \* MAX_TOUCHES, the slots of touchBuffer
  TouchStates    \* the driver's touch states that are distinguished

ASSUME FingersAssumption == Fingers \subseteq Nat \ {0}
ASSUME MaxTouchesAssumption == MaxTouches \in Nat \ {0}
ASSUME TouchStatesAssumption == TouchStates \subseteq 0..7

VARIABLES
  touches,           \* the driver's latest frame, in the order of its array
  pending,           \* stores of touchCallback that are not yet visible
  touchBuffer, touchCount, newDataAvailable,   \* the shared C variables
  pc,                \* where the event loop's goroutine is
  count, frames,     \* readFrames: the count it read, the slots it copied
  currentIDs,        \* processEvents: the fingers seen in this poll
  events,            \* events of this poll, not yet offered to the channel
  lastFrames,        \* fingers with an entry in p.lastFrames
  snapshot, torn     \* history: the frame this poll found complete, and
                     \* whether a callback overlapped the copy

driverVars == <<touches, pending>>
sharedVars == <<touchBuffer, touchCount, newDataAvailable>>
readVars == <<count, frames>>
eventVars == <<currentIDs, events, lastFrames>>
ghostVars == <<snapshot, torn>>
vars == <<driverVars, sharedVars, pc, readVars, eventVars, ghostVars>>

Lifted == 7
Absent == -1
Slots == 1..MaxTouches

\* Zeroed memory, and the empty TouchData of getTouchAt, show finger 0.
empty == [id |-> 0, state |-> 0]
Ids == Fingers \cup {0}
Touch == [id : Ids, state : TouchStates \cup {0}]

\* Mutant: the state of a lifted finger counts as touching.
IsTouching_InclLifted(state) == state >= 1 /\ state <= 7

IsTouching(state) == state >= 1 /\ state <= 6

StateIn(frame, f) ==
  IF \E i \in DOMAIN frame : frame[i].id = f
  THEN frame[CHOOSE i \in DOMAIN frame : frame[i].id = f].state
  ELSE Absent

\* A frame of the driver lists each finger at most once.
DriverFrames ==
  {frame \in UNION {[1..n -> [id : Fingers, state : TouchStates]] :
                      n \in 0..Cardinality(Fingers)} :
     \A i, j \in DOMAIN frame : frame[i].id = frame[j].id => i = j}

\* Mutant: touchCallback does not cap numTouches.
Kept_Uncapped(frame) == frame

\* touchCallback keeps the first MAX_TOUCHES touches.
Kept(frame) ==
  SubSeq(frame, 1, IF Len(frame) > MaxTouches THEN MaxTouches ELSE Len(frame))

Stores(frame) ==
  ({"id", "state"} \X DOMAIN frame) \cup {<<"count", 0>>, <<"flag", 0>>}

getTouchAt(i) == IF i <= touchCount THEN touchBuffer[i] ELSE empty

makeEvent(type, f) == [type |-> type, finger |-> f]

MusicEvents == [type : {"SynthStart", "SynthMove", "SynthEnd"}, finger : Ids]

-----------------------------------------------------------------------------

Init ==
  /\ touches = << >> /\ pending = {}
  /\ touchBuffer = [i \in Slots |-> empty]
  /\ touchCount = 0 /\ newDataAvailable = 0
  /\ pc = "new"
  /\ count = 0 /\ frames = << >>
  /\ currentIDs = {} /\ events = << >> /\ lastFrames = {}
  /\ snapshot = << >> /\ torn = FALSE

\* p.Start: the callback is registered and the event loop begins.
Start ==
  /\ pc = "new"
  /\ pc' = "loop"
  /\ UNCHANGED <<driverVars, sharedVars, readVars, eventVars, ghostVars>>

\* ctx.Done: the loop returns and p.Stop stops the device.
Cancel ==
  /\ pc = "loop" /\ events = << >>
  /\ pc' = "stopped"
  /\ UNCHANGED <<driverVars, sharedVars, readVars, eventVars, ghostVars>>

\* The driver calls touchCallback with its next frame.  A finger is
\* reported as lifted only after it was reported as touching.
Deliver(frame) ==
  /\ pc \notin {"new", "stopped"} /\ pending = {}
  /\ \A i \in DOMAIN frame :
       frame[i].state = Lifted => IsTouching(StateIn(touches, frame[i].id))
  /\ touches' = frame
  /\ pending' = Stores(Kept(frame))
  /\ torn' = (torn \/ pc \in {"count", "copy"})
  /\ UNCHANGED <<sharedVars, pc, readVars, eventVars, snapshot>>

StoreField(i, field) ==
  /\ <<field, i>> \in pending
  /\ pending' = pending \ {<<field, i>>}
  /\ touchBuffer' = [touchBuffer EXCEPT ![i][field] = touches[i][field]]
  /\ UNCHANGED <<touches, touchCount, newDataAvailable, pc, readVars, eventVars,
                 ghostVars>>

StoreCount ==
  /\ <<"count", 0>> \in pending
  /\ pending' = pending \ {<<"count", 0>>}
  /\ touchCount' = Len(Kept(touches))
  /\ UNCHANGED <<touches, touchBuffer, newDataAvailable, pc, readVars, eventVars,
                 ghostVars>>

StoreFlag ==
  /\ <<"flag", 0>> \in pending
  /\ pending' = pending \ {<<"flag", 0>>}
  /\ newDataAvailable' = 1
  /\ UNCHANGED <<touches, touchBuffer, touchCount, pc, readVars, eventVars,
                 ghostVars>>

-----------------------------------------------------------------------------

\* Mutant: a tick that finds no new data does not process anything.
Poll_SkipWhenNoData ==
  /\ pc = "loop" /\ events = << >>
  /\ newDataAvailable = 1
  /\ pc' = "count"
  /\ snapshot' = Kept(touches)
  /\ torn' = (pending # {})
  /\ UNCHANGED <<driverVars, sharedVars, readVars, eventVars>>

\* A tick: readFrames returns no frames unless the flag is set.
Poll ==
  /\ pc = "loop" /\ events = << >>
  /\ pc' = IF newDataAvailable = 0 THEN "process" ELSE "count"
  /\ snapshot' = IF newDataAvailable = 0 THEN << >> ELSE Kept(touches)
  /\ torn' = (newDataAvailable = 1 /\ pending # {})
  /\ UNCHANGED <<driverVars, sharedVars, readVars, eventVars>>

ReadCount ==
  /\ pc = "count"
  /\ pc' = "copy"
  /\ count' = touchCount
  /\ UNCHANGED <<driverVars, sharedVars, frames, eventVars, ghostVars>>

\* Mutant: the slots are read from the one after the first.
CopyTouch_SkipFirst ==
  /\ pc = "copy" /\ Len(frames) < count
  /\ frames' = Append(frames, getTouchAt(Len(frames) + 2))
  /\ UNCHANGED <<driverVars, sharedVars, pc, count, eventVars, ghostVars>>

CopyTouch ==
  /\ pc = "copy" /\ Len(frames) < count
  /\ frames' = Append(frames, getTouchAt(Len(frames) + 1))
  /\ UNCHANGED <<driverVars, sharedVars, pc, count, eventVars, ghostVars>>

ClearFlag ==
  /\ pc = "copy" /\ Len(frames) = count
  /\ pc' = "process"
  /\ newDataAvailable' = 0
  /\ count' = 0
  /\ UNCHANGED <<driverVars, touchBuffer, touchCount, frames, eventVars,
                 ghostVars>>

\* One iteration of processEvents' loop over the frames it was given.
HandleFrame(frame) ==
  \/ /\ IsTouching(frame.state)
     /\ events' = Append(events,
          makeEvent(IF frame.id \in lastFrames THEN "SynthMove"
                    ELSE "SynthStart", frame.id))
     /\ lastFrames' = lastFrames \cup {frame.id}
  \/ /\ ~IsTouching(frame.state) /\ frame.state = Lifted
     /\ events' = Append(events, makeEvent("SynthEnd", frame.id))
     /\ lastFrames' = lastFrames \ {frame.id}
  \/ /\ ~IsTouching(frame.state) /\ frame.state # Lifted
     /\ UNCHANGED <<events, lastFrames>>

ProcessFrame ==
  /\ pc = "process" /\ frames # << >>
  /\ HandleFrame(Head(frames))
  /\ currentIDs' = currentIDs \cup {Head(frames).id}
  /\ frames' = Tail(frames)
  /\ UNCHANGED <<driverVars, sharedVars, pc, count, ghostVars>>

\* Mutant: the insurance does not delete the entry it has ended.
EndVanished_NoDelete(f) ==
  /\ pc = "process" /\ frames = << >>
  /\ f \in lastFrames \ currentIDs
  /\ events' = Append(events, makeEvent("SynthEnd", f))
  /\ currentIDs' = currentIDs \cup {f}
  /\ UNCHANGED <<driverVars, sharedVars, pc, readVars, lastFrames, ghostVars>>

\* The insurance: a tracked finger that this poll did not see is released,
\* in the order Go's map iteration happens to take.
EndVanished(f) ==
  /\ pc = "process" /\ frames = << >>
  /\ f \in lastFrames \ currentIDs
  /\ events' = Append(events, makeEvent("SynthEnd", f))
  /\ lastFrames' = lastFrames \ {f}
  /\ UNCHANGED <<driverVars, sharedVars, pc, readVars, currentIDs, ghostVars>>

\* Both loops of processEvents have run to their end.
Processed == pc = "process" /\ frames = << >> /\ lastFrames \subseteq currentIDs

\* processEvents returns; its locals are forgotten.
EndProcess ==
  /\ Processed
  /\ pc' = "loop"
  /\ currentIDs' = {} /\ snapshot' = << >> /\ torn' = FALSE
  /\ UNCHANGED <<driverVars, sharedVars, readVars, events, lastFrames>>

\* The loop offers the next event to the channel; whether the channel has
\* room makes no difference here (StylophonePipeline models the channel).
SendEvent ==
  /\ pc = "loop" /\ events # << >>
  /\ events' = Tail(events)
  /\ UNCHANGED <<driverVars, sharedVars, pc, readVars, currentIDs, lastFrames,
                 ghostVars>>

-----------------------------------------------------------------------------

Callback ==
  \/ \E i \in Slots, field \in {"id", "state"} : StoreField(i, field)
  \/ StoreCount
  \/ StoreFlag

EventLoop ==
  \/ Poll \/ ReadCount \/ CopyTouch \/ ClearFlag
  \/ ProcessFrame \/ EndProcess \/ SendEvent
  \/ \E f \in Ids : EndVanished(f)

Next ==
  \/ Start
  \/ Cancel
  \/ \E frame \in DriverFrames : Deliver(frame)
  \/ Callback
  \/ EventLoop

Spec == Init /\ [][Next]_vars

\* The ticker keeps firing and the callback's stores become visible.  The
\* driver owes nothing: it may stop sending frames at any time.
FairSpec == Spec /\ WF_vars(EventLoop) /\ WF_vars(Callback)

-----------------------------------------------------------------------------

TypeOK ==
  /\ touches \in Seq([id : Fingers, state : TouchStates])
  /\ pending \subseteq ({"id", "state"} \X DOMAIN Kept(touches))
                         \cup {<<"count", 0>>, <<"flag", 0>>}
  /\ touchBuffer \in [Slots -> Touch]
  /\ touchCount \in 0..MaxTouches
  /\ newDataAvailable \in {0, 1}
  /\ pc \in {"new", "loop", "count", "copy", "process", "stopped"}
  /\ count \in 0..MaxTouches
  /\ frames \in Seq(Touch)
  /\ currentIDs \subseteq Ids
  /\ events \in Seq(MusicEvents)
  /\ lastFrames \subseteq Ids
  /\ snapshot \in Seq([id : Fingers, state : TouchStates])
  /\ torn \in BOOLEAN

(***************************************************************************)
(* When no callback overlapped the copy, the fingers tracked at the end of *)
(* processEvents agree with the frame that was read: every finger touching *)
(* in it is tracked, and none is tracked that it shows as lifted or does   *)
(* not show.  This ties the Go state to the driver's frame across the      *)
(* shared buffer, the flag and the two loops of processEvents.             *)
(***************************************************************************)
FaithfulPoll ==
  Processed /\ ~torn =>
    \A f \in Ids :
      /\ StateIn(snapshot, f) \in 1..6 => f \in lastFrames
      /\ f \in lastFrames => StateIn(snapshot, f) \in 0..6

DistinctIDs(frame) ==
  \A i, j \in DOMAIN frame : frame[i].id = frame[j].id => i = j

\* What is no longer pending is in the shared variables.
Stored ==
  /\ \A i \in DOMAIN Kept(touches) :
       /\ <<"id", i>> \notin pending => touchBuffer[i].id = touches[i].id
       /\ <<"state", i>> \notin pending => touchBuffer[i].state = touches[i].state
  /\ <<"count", 0>> \notin pending => touchCount = Len(Kept(touches))

\* The slots copied so far are the snapshot's.
Copying ==
  /\ pc \in {"count", "copy"} => pending = {} /\ snapshot = Kept(touches)
  /\ pc = "copy" => /\ count = Len(snapshot) /\ Len(frames) <= count
                    /\ \A i \in 1..Len(frames) : frames[i] = snapshot[i]

\* The frames left are the end of the snapshot; what comes before them has
\* been processed.
Processing ==
  LET n == Len(snapshot) - Len(frames) IN
  /\ n >= 0
  /\ \A i \in 1..Len(frames) : frames[i] = snapshot[n + i]
  /\ \A i \in 1..n :
       /\ snapshot[i].id \in currentIDs
       /\ snapshot[i].state \in 1..6 => snapshot[i].id \in lastFrames
       /\ snapshot[i].id \in lastFrames => snapshot[i].state \in 0..6
  /\ \A f \in currentIDs : \E i \in 1..n : snapshot[i].id = f

(***************************************************************************)
(* The inductive invariant behind FaithfulPoll: as long as no callback     *)
(* overlaps the copy, what readFrames copies and processEvents has done    *)
(* with it follow the driver's frame slot by slot.                         *)
(***************************************************************************)
PollInv ==
  /\ DistinctIDs(touches) /\ DistinctIDs(snapshot)
  /\ Stored
  /\ pc \in {"new", "loop", "count", "stopped"} => frames = << >>
  /\ pc # "process" => currentIDs = {}
  /\ ~torn => Copying /\ (pc = "process" => Processing)

(***************************************************************************)
(* The poller implements the life cycle of a sound, whatever the race      *)
(* does: no attack of a sounding finger and no modulation of a silent one  *)
(* is ever put in a batch, even when a torn copy shows a finger twice.     *)
(***************************************************************************)
Lifecycle == INSTANCE NoteLifecycle WITH sounding <- lastFrames, outbox <- events

LifecycleSpec == Lifecycle!Spec

(***************************************************************************)
(* A finger that the driver has stopped reporting, or reports as lifted,   *)
(* for good is eventually released for good: neither a frame lost in the   *)
(* race nor a torn slot leaves its note on (unless the loop was            *)
(* cancelled).  The finger 0 of zeroed memory gets the promise only once   *)
(* the driver reports no touch at all: a copy that keeps meeting a         *)
(* shrinking count reads empty slots, whose state 0 keeps finger 0 on.     *)
(***************************************************************************)
GoneFingerReleased ==
  /\ \A f \in Fingers :
       <>[](StateIn(touches, f) \in {Absent, Lifted})
         => <>[](f \notin lastFrames \/ pc = "stopped")
  /\ <>[](touches = << >>) => <>[](lastFrames = {} \/ pc = "stopped")

(***************************************************************************)
(* The insurance is described as being for a finger that has "disappeared  *)
(* from the radar of macOS": when it releases a finger and no frame has    *)
(* come since, the driver's latest frame does not show it touching.  The   *)
(* code breaks this whenever two ticks fall between two frames.            *)
(***************************************************************************)
InsuranceOnlyWhenVanished ==
  [][\A f \in lastFrames :
       EndVanished(f) /\ pending = {} /\ newDataAvailable = 0
         => ~IsTouching(StateIn(touches, f))]_vars
=============================================================================
