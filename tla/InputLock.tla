----------------------------- MODULE InputLock -----------------------------
(***************************************************************************)
(* hardware/input_lock_darwin.go, with the keyboard side of Run: while the *)
(* program runs, the cursor is detached from the touchpad and an event tap *)
(* takes the keys that play drums, shift the octave or end the program.    *)
(*                                                                         *)
(* Start detaches the cursor, creates the input thread and waits on a      *)
(* condition variable until the thread says whether it got its tap.  The   *)
(* thread's callback pushes key codes into a ring, from which the loop of  *)
(* Run drains them at each tick; a key that meets a full ring is dropped.  *)
(* Stop asks the thread to end, wakes its run loop, joins it and attaches  *)
(* the cursor again.                                                       *)
(*                                                                         *)
(* The keys of a kind are one: what matters is which of them is Escape.    *)
(***************************************************************************)
EXTENDS Integers, Sequences

CONSTANTS
  Keys, Escape,        \* the handled keys
  Zero,                \* what keyBuffer holds before a key is pushed
  KEY_BUFFER_SIZE,     \* 64 in the code
  MaxPresses           \* bound: keys pressed while the tap is enabled

VARIABLES
  main, thread,        \* where Run's goroutine and the input thread are
  mouseCursorDetached, \* the cursor; the C variable always agrees with it
  inputThreadStarted, inputStopRequested, initStatus,
  tap,                 \* inputTap
  keyBuffer, keyHead, keyTail,
  drained,             \* DrainKeys: the keys popped, not yet handled
  handled, accepted,   \* history: the keys handled, and pushed
  presses,             \* history: how many keys were pressed
  createFailed         \* history: pthread_create failed

mainVars == <<main, mouseCursorDetached, inputThreadStarted, inputStopRequested,
              createFailed>>
threadVars == <<thread, initStatus, tap>>
ringVars == <<keyBuffer, keyHead, keyTail>>
keyVars == <<drained, handled, accepted, presses>>
vars == <<mainVars, threadVars, ringVars, keyVars>>

Positions == 0 .. KEY_BUFFER_SIZE - 1

\* Mutant: the ring wraps one place too late.
NextPosition_Late(i) == (i + 1) % (KEY_BUFFER_SIZE + 1)

NextPosition(i) == (i + 1) % KEY_BUFFER_SIZE

Init ==
  /\ main = "start" /\ thread = "none"
  /\ mouseCursorDetached = FALSE
  /\ inputThreadStarted = FALSE /\ inputStopRequested = FALSE
  /\ initStatus = 0
  /\ tap = "null"
  /\ keyBuffer = [i \in Positions |-> Zero] /\ keyHead = 0 /\ keyTail = 0
  /\ drained = << >> /\ handled = << >> /\ accepted = << >> /\ presses = 0
  /\ createFailed = FALSE

-----------------------------------------------------------------------------
\* startInputLock, by the goroutine of Run.

\* No Accessibility rights (-3), or the cursor cannot be detached (-4).
StartRefused ==
  /\ main = "start"
  /\ main' = "ended"
  /\ UNCHANGED <<mouseCursorDetached, inputThreadStarted, inputStopRequested,
                 createFailed, threadVars, ringVars, keyVars>>

DetachCursor ==
  /\ main = "start"
  /\ main' = "create"
  /\ mouseCursorDetached' = TRUE
  /\ inputStopRequested' = FALSE
  /\ keyHead' = 0 /\ keyTail' = 0
  /\ initStatus' = 0
  /\ UNCHANGED <<inputThreadStarted, createFailed, thread, tap, keyBuffer,
                 keyVars>>

CreateThread ==
  /\ main = "create"
  /\ main' = "wait" /\ thread' = "create"
  /\ UNCHANGED <<mouseCursorDetached, inputThreadStarted, inputStopRequested,
                 createFailed, initStatus, tap, ringVars, keyVars>>

\* pthread_create fails (-2); Run returns the error, with no Stop deferred.
CreateThreadFails ==
  /\ main = "create"
  /\ main' = "ended" /\ createFailed' = TRUE
  /\ UNCHANGED <<mouseCursorDetached, inputThreadStarted, inputStopRequested,
                 threadVars, ringVars, keyVars>>

\* pthread_cond_wait until initStatus is set.
InitSucceeded ==
  /\ main = "wait" /\ initStatus = 1
  /\ main' = "loop" /\ inputThreadStarted' = TRUE
  /\ UNCHANGED <<mouseCursorDetached, inputStopRequested, createFailed,
                 threadVars, ringVars, keyVars>>

\* No tap (-1): the thread is joined and the cursor attached.
InitFailed ==
  /\ main = "wait" /\ initStatus = -1 /\ thread = "exited"
  /\ main' = "ended" /\ mouseCursorDetached' = FALSE
  /\ UNCHANGED <<inputThreadStarted, inputStopRequested, createFailed,
                 threadVars, ringVars, keyVars>>

-----------------------------------------------------------------------------
\* The input thread.

\* The tap or its run loop source cannot be created.
TapRefused ==
  /\ thread = "create"
  /\ initStatus' = -1 /\ thread' = "exited"
  /\ UNCHANGED <<mainVars, tap, ringVars, keyVars>>

TapCreated ==
  /\ thread = "create"
  /\ tap' = "enabled"
  /\ initStatus' = 1 /\ thread' = "check"
  /\ UNCHANGED <<mainVars, ringVars, keyVars>>

\* The condition of the loop.
CheckStop ==
  /\ thread = "check"
  /\ thread' = IF inputStopRequested THEN "release" ELSE "run"
  /\ UNCHANGED <<mainVars, initStatus, tap, ringVars, keyVars>>

\* CFRunLoopRunInMode returns: 0.2 seconds have passed, or it was stopped.
RunLoopReturns ==
  /\ thread = "run"
  /\ thread' = "check"
  /\ UNCHANGED <<mainVars, initStatus, tap, ringVars, keyVars>>

ReleaseTap ==
  /\ thread = "release"
  /\ tap' = "null" /\ thread' = "exited"
  /\ UNCHANGED <<mainVars, initStatus, ringVars, keyVars>>

\* Mutant: a full ring is not noticed.
pushKeyCode_NoFullCheck(key) ==
  /\ keyBuffer' = [keyBuffer EXCEPT ![keyHead] = key]
  /\ keyHead' = NextPosition(keyHead)
  /\ accepted' = Append(accepted, key)
  /\ UNCHANGED keyTail

\* Under keyMutex.
pushKeyCode(key) ==
  /\ IF NextPosition(keyHead) # keyTail
     THEN /\ keyBuffer' = [keyBuffer EXCEPT ![keyHead] = key]
          /\ keyHead' = NextPosition(keyHead)
          /\ accepted' = Append(accepted, key)
     ELSE UNCHANGED <<keyBuffer, keyHead, accepted>>
  /\ UNCHANGED keyTail

\* inputTapCallback gets a key: an unhandled one is passed on.
PressKey(key) ==
  /\ thread = "run" /\ tap = "enabled" /\ presses < MaxPresses
  /\ presses' = presses + 1
  /\ pushKeyCode(key)
  /\ UNCHANGED <<mainVars, threadVars, drained, handled>>

\* The system turns off a tap that is too slow ...
SystemDisablesTap ==
  /\ thread = "run" /\ tap = "enabled"
  /\ tap' = "disabled"
  /\ UNCHANGED <<mainVars, thread, initStatus, ringVars, keyVars>>

\* ... and the callback is told, and turns it on again.
ReenableTap ==
  /\ thread = "run" /\ tap = "disabled"
  /\ tap' = "enabled"
  /\ UNCHANGED <<mainVars, thread, initStatus, ringVars, keyVars>>

-----------------------------------------------------------------------------
\* Run: handleInputKeys at each tick, until Escape or ctx.Done.

\* DrainKeys pops a key, under keyMutex.
PopKey ==
  /\ main = "loop" /\ keyTail # keyHead
  /\ drained' = Append(drained, keyBuffer[keyTail])
  /\ keyTail' = NextPosition(keyTail)
  /\ UNCHANGED <<mainVars, threadVars, keyBuffer, keyHead, handled, accepted, presses>>

\* DrainKeys finds the ring empty and returns.
PopNothing ==
  /\ main = "loop" /\ keyTail = keyHead /\ drained # << >>
  /\ main' = "handle"
  /\ UNCHANGED <<mouseCursorDetached, inputThreadStarted, inputStopRequested,
                 createFailed, threadVars, ringVars, keyVars>>

\* One iteration of handleInputKeys; Escape leaves the others unhandled.
HandleKey ==
  /\ main = "handle" /\ drained # << >>
  /\ handled' = Append(handled, Head(drained))
  /\ drained' = Tail(drained)
  /\ main' = IF Head(drained) = Escape THEN "stop"
             ELSE IF Len(drained) = 1 THEN "loop" ELSE "handle"
  /\ UNCHANGED <<mouseCursorDetached, inputThreadStarted, inputStopRequested,
                 createFailed, threadVars, ringVars, accepted, presses>>

\* ctx.Done, an error of the HTTP server or of the poller's start.
Cancel ==
  /\ main = "loop" /\ drained = << >>
  /\ main' = "stop"
  /\ UNCHANGED <<mouseCursorDetached, inputThreadStarted, inputStopRequested,
                 createFailed, threadVars, ringVars, keyVars>>

\* Mutant: the thread is woken but not asked to end.
RequestStop_WakeOnly ==
  /\ main = "stop" /\ main' = "join"
  /\ UNCHANGED <<mouseCursorDetached, inputThreadStarted, inputStopRequested,
                 createFailed, threadVars, ringVars, keyVars>>

\* stopInputLock, the deferred inputLock.Stop: the flag, and CFRunLoopStop,
\* which makes RunLoopReturns happen sooner.
RequestStop ==
  /\ main = "stop" /\ main' = "join"
  /\ inputStopRequested' = TRUE
  /\ UNCHANGED <<mouseCursorDetached, inputThreadStarted, createFailed,
                 threadVars, ringVars, keyVars>>

\* pthread_join, and the cursor is attached.
Join ==
  /\ main = "join" /\ thread = "exited"
  /\ main' = "ended"
  /\ inputThreadStarted' = FALSE /\ mouseCursorDetached' = FALSE
  /\ UNCHANGED <<inputStopRequested, createFailed, threadVars, ringVars, keyVars>>

-----------------------------------------------------------------------------

Start ==
  \/ StartRefused \/ DetachCursor \/ CreateThread \/ CreateThreadFails
  \/ InitSucceeded \/ InitFailed

Drain == PopKey \/ PopNothing \/ HandleKey

Stop == RequestStop \/ Join

ThreadSteps ==
  \/ TapRefused \/ TapCreated \/ CheckStop \/ RunLoopReturns \/ ReleaseTap

Callback ==
  \/ \E key \in Keys : PressKey(key)
  \/ SystemDisablesTap \/ ReenableTap

Next == Start \/ Drain \/ Cancel \/ Stop \/ ThreadSteps \/ Callback

Spec == Init /\ [][Next]_vars

-----------------------------------------------------------------------------

TypeOK ==
  /\ main \in {"start", "create", "wait", "loop", "handle", "stop", "join", "ended"}
  /\ thread \in {"none", "create", "check", "run", "release", "exited"}
  /\ mouseCursorDetached \in BOOLEAN
  /\ inputThreadStarted \in BOOLEAN /\ inputStopRequested \in BOOLEAN
  /\ initStatus \in -1..1
  /\ tap \in {"null", "enabled", "disabled"}
  /\ keyBuffer \in [Positions -> Keys \cup {Zero}]
  /\ keyHead \in Positions /\ keyTail \in Positions
  /\ drained \in Seq(Keys) /\ handled \in Seq(Keys) /\ accepted \in Seq(Keys)
  /\ presses \in 0..MaxPresses
  /\ createFailed \in BOOLEAN

\* The keys in the ring, oldest first.
Ring ==
  [i \in 1 .. ((keyHead - keyTail) % KEY_BUFFER_SIZE) |->
     keyBuffer[(keyTail + i - 1) % KEY_BUFFER_SIZE]]

(***************************************************************************)
(* The keys that Run handles are the keys pressed, in their order, each    *)
(* once: what was pushed is what has been handled, followed by what Run    *)
(* has drained and what the ring still holds, while it wraps around and    *)
(* the callback pushes between two pops.                                   *)
(***************************************************************************)
InOrder == handled \o drained \o Ring = accepted
=============================================================================
