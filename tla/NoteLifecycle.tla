--------------------------- MODULE NoteLifecycle ---------------------------
(***************************************************************************)
(* What the touchpad poller promises to the goroutine that sends its      *)
(* events on: EventType "reflects the life cycle of a sound", so for each  *)
(* finger an attack (SynthStart) is only emitted for a silent finger, a    *)
(* modulation (SynthMove) only for a sounding one, and a release           *)
(* (SynthEnd) leaves the finger silent.  A release of a finger that is     *)
(* already silent is allowed: a tap shorter than the poll interval is seen *)
(* only as a lifted finger.                                                *)
(*                                                                         *)
(* MultitouchPoller implements this specification; StylophonePipeline is   *)
(* built on it.                                                            *)
(***************************************************************************)
EXTENDS Sequences

CONSTANT Ids            \* finger identifiers an event can carry

VARIABLES
  sounding,             \* fingers whose note is on
  outbox                \* events produced and not yet offered to the channel

lifecycleVars == <<sounding, outbox>>

EventTypes == {"SynthStart", "SynthMove", "SynthEnd"}

MusicEvent == [type : EventTypes, finger : Ids]

makeEvent(type, f) == [type |-> type, finger |-> f]

Init ==
  /\ sounding = {}
  /\ outbox = << >>

Attack(f) ==
  /\ f \notin sounding
  /\ sounding' = sounding \cup {f}
  /\ outbox' = Append(outbox, makeEvent("SynthStart", f))

Modulate(f) ==
  /\ f \in sounding
  /\ outbox' = Append(outbox, makeEvent("SynthMove", f))
  /\ UNCHANGED sounding

Release(f) ==
  /\ sounding' = sounding \ {f}
  /\ outbox' = Append(outbox, makeEvent("SynthEnd", f))

HandOver ==
  /\ outbox # << >>
  /\ outbox' = Tail(outbox)
  /\ UNCHANGED sounding

Next ==
  \/ \E f \in Ids : Attack(f) \/ Modulate(f) \/ Release(f)
  \/ HandOver

Spec == Init /\ [][Next]_lifecycleVars
=============================================================================
