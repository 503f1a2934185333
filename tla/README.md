# Verification of the stylophone middleware

The repository is a macOS program (Go with C through cgo) that turns a MacBook's
touchpad into a stylophone.  It reads raw touches, maps them to notes and effects,
and sends the events to browsers over websockets; it also registers users, logs them
in with two factors and keeps their synth configurations and melodies in PostgreSQL.
This directory holds TLA+ models of it, the TLC configurations that check them, and
theorems that TLAPS proves.

Run from this directory: `tlc -config X.cfg M` for a run of the table below, and
`tlapm M.tla` for each module M whose name ends in `Proofs`.

## Inventory

### Parts, their state and operations

| Part | Source | State | Operations |
|---|---|---|---|
| touchpad poller | `hardware/multitouch_darwin.go` | C: `touchBuffer`, `touchCount`, `newDataAvailable`, shared without a lock between the driver's thread and the event loop; Go: `lastFrames` | `touchCallback` (driver's thread); `readFrames`, `processEvents`, send (event loop); `Start`, `Stop` |
| mapper | `hardware/stylophone_mapper.go` | `currentOctave` under a mutex; channels of 256 and 512 events | `MapEvent` (note and effect of a coordinate), `ShiftOctave`, `SetOctave`, `CurrentOctave`, the mapper's goroutine |
| middleware | `server/websocket_middleware.go`, `Run` | its select loop, tickers, deferred calls; the HTTP server's goroutine | start and stop the parts, broadcast an event, handle keys, ping |
| hub and clients | `server/websocket_middleware.go` | `clients` under `hub.mu`; per client a connection, `mu`, `authenticated` | upgrade and authenticate, read messages, broadcast, remove, closeAll |
| input lock | `hardware/input_lock_darwin.go`, `drumpad.go` | the cursor's attachment, the tap thread, a ring of 64 key codes | start, tap callback, drain, stop |
| gesture suppressor | `hardware/gesture_suppressor_darwin.go` | the user's preferences, backup files, `backups` | start, stop, restore |
| login | `auth/service.go`, `challenges.go`, `jwt.go`, `google.go` | challenges in memory under a mutex; tokens held by clients | StartLogin, CompleteLogin, RestoreSession |
| user items | `auth/postgres.go`, `auth/service.go`, migration 002 | two JSONB arrays per user | add (melodies are validated), delete, list |
| accounts | `auth/service.go`, `postgres.go`, `validation.go`, `password.go` | the users table with three unique keys | register, check a nickname |
| migrations | `auth/postgres.go`, `auth/migrations/` | `schema_migrations` | applyMigrations |
| HTTP API | `server/auth_http.go` | none | decode, call the service, encode |
| start-up | `cmd/stylophone-middleware/` | none | flags, environment, `.env` |

### How they interact

```
driver thread --C memory--> event loop --rawEventChan(256)--> mapper goroutine
     --stylophoneChan(512)--> Run --hub.broadcast--> every client
tap thread --key ring--> Run;   client readers --ShiftOctave/SetOctave--> mapper
client readers --hub.broadcast--> every client;  HTTP goroutines --> auth.Service --> PostgreSQL, Google
```

All goroutines run concurrently.  `Run` is the only consumer of the second channel and
of the key ring.  Octaves are changed by `Run` (keys) and by each client's reader.
Several programs may start, migrate and serve on one database at the same time.

### What is hard

Unsynchronised reads of C memory; channels that drop; lock orders between the hub and
its clients; announcements made after the change they announce; deferred calls that stop
parts which others still use; a clock, an in-memory store and restarts in the login;
transactions that meet in the database, time-outs whose statement takes effect later;
statements that are not one transaction; commands that fail or a program that dies
between two writes to the user's preferences.  The list, line by line, is under `hazards`
in `PROJECT.json`.

### What makes each part correct

- poller: the events are a life cycle per finger; an undisturbed poll follows the
  driver's frame; a finger that is gone is released.
- pipeline: the client ends up with the poller's notes unless a drop hit the finger's
  last transition; a touch gets the note under it, also at and beyond the pad's edges.
- hub: only authenticated, living clients are in it, and none of these is missing; clients
  are told the mapper's octave; the shutdown ends.
- input lock and Run: keys in order, each once; after Escape, an error or a cancellation
  the user has keyboard, cursor and gestures back, whatever the database does.
- suppressor: what the user had set is given back, or never lost.
- login: one session per challenge, both factors of one user, a token accepted for as
  long as advertised; nothing survives a restart that should not.
- migrations: however many programs start and wherever they fail, the schema is whole.
- accounts: names, emails and Google accounts are given once, in any spelling, and what
  a client was answered is true.
- items: nothing is lost, deleted items stay deleted, a delete hits its item only; a
  melody's notes refer to sounds that it brings along.

## Modules

| Module | Role |
|---|---|
| `NoteLifecycle` | abstract: attack, modulate, release per finger, with an outbox |
| `MultitouchPoller` | the callback, the poll, `processEvents`; implements `NoteLifecycle` |
| `TouchpadMapper` | the pure part of the mapper: octave, note, effect |
| `StylophonePipeline` | `NoteLifecycle` composed with the two channels, the mapper, `Run` and a client's ear |
| `WebSocketHub` | connections, hub, broadcasts, octave announcements, shutdown |
| `InputLock` | start and stop of the tap thread, the key ring, `Run`'s key handling |
| `RunLifecycle` | `Run` from its start to its return; composes `InputLock` with the gestures, the HTTP server, its connections and the database pool |
| `GestureSuppressor` | preferences, backups, failures, death and restart |
| `OneTimeGrant` | abstract: a grant is used at most once, while live |
| `AuthLogin` | challenge store, both login requests, tokens, clock, restart; implements `OneTimeGrant` |
| `UserRegistry` | abstract: accounts that differ in every key and never change |
| `Accounts` | normalisation, registration, the nickname check |
| `Migrations` | `applyMigrations` in several programs, with PostgreSQL's locks and visibility |
| `AuthDatabase` | `Migrations` composed with `Accounts`; implements `UserRegistry` |
| `UserItems` | concurrent appends and two-statement deletes, the validation of melodies |
| `...Proofs` | the theorems of `MultitouchPoller`, `StylophonePipeline`, `WebSocketHub`, `RunLifecycle`, `GestureSuppressor`, `AuthLogin`, `AuthDatabase` (with its parts `Migrations` and `Accounts`) and `UserItems` |
| `MC...` | the instances that the configurations use |

Operators ending in `_Something` and marked "Mutant" are faulty variants of the
definition that follows them; no specification uses them.  Each property of each
passing run fails when its mutant takes the definition's place (`mutants` in
`PROJECT.json`), which shows that the run can tell.

### State and actions against the code

`map` in `PROJECT.json` names the lines of each definition.  The choices behind them:

**MultitouchPoller.**  `touchCallback` writes plain C variables that another thread
reads, with no barrier.  A callback therefore puts its stores into `pending`, and they
become visible in any order (`StoreField`, `StoreCount`, `StoreFlag`); the next frame
comes after the last store.  On the reading side each cgo call is a step: `Poll` reads
the flag, `ReadCount`, `CopyTouch` once per slot, `ClearFlag`.  `ProcessFrame` is one
iteration of the first loop of `processEvents`, `EndVanished` one of the second (in any
order, as Go's maps iterate), `SendEvent` one of the send loop.  `snapshot` and `torn`
are history: what the driver's frame was when the poll began, and whether a callback
overlapped the copy.  Zeroed slots show a finger 0 of state 0, which the driver never
uses.  Assumed of the driver: it lists a finger once per frame and lifts only a finger
that it showed touching.  Coordinates are left out, since no decision reads them;
`Start` and `Stop` happen once, as in `Run`.

**TouchpadMapper.**  Coordinates are floating-point numbers between 0 and 1 in the code
and Width-ths here.  Where they are multiples of 1/24 (the run's), the code's product and
rounding are those of the integers, up to the rounding error of a float just at a key's
border.  `clamp01`, `noteIndexFromX` and `effectLevelFromY` are translated; `KeysBefore` and
`Nearest` are the reference that `Tuned` compares them with.  The name of a note is its
index and octave (`Note`).

**StylophonePipeline.**  The poller is its abstraction, `NoteLifecycle`: a batch of
events is produced, then offered one by one.  Each channel is a bounded sequence with
the code's `select`/`default`.  `heard` is one client that stays connected.  `lostRaw`
and `lostMapped` are history: the fingers whose latest attack or release a channel
dropped.

**WebSocketHub.**  One process per connection (the handler, then the reader that it
starts at its end) and one for `Run`.  A broadcast copies the hub's clients, then takes
each client's lock, writes and unlocks; after an error it removes the client under
`hub.mu` and closes it under the client's lock.  Only `closeAll` holds `hub.mu` for more
than a step.  An octave is changed in one step (under the mapper's lock) and announced
later.  `view` is what each peer was told last; `raced` records that two announcements
or snapshots overlapped since the last announcement that was alone.  A write may fail at
any time (the deadline, the peer) and a connection that has failed once fails always, as
gorilla/websocket's do.

**InputLock.**  `main` is `Run`'s goroutine from `inputLock.Start` to the deferred
`Stop`, `thread` the input thread.  What happens under `initMutex` or `keyMutex` is one
step.  Only handled keys are modelled.  `CFRunLoopStop` only makes the run loop return
sooner, so it is part of `RequestStop` and `RunLoopReturns` may happen at any time.

**RunLifecycle.**  `stage` is where `Run` is, from `gestures.Start` to the last deferred
call; each deferred call is a step, or several where it waits.  A part that fails to start
leaves for the deferred calls of those before it.  `InputLock` is instantiated on the same
variables, and its actions are conjuncts of `Run`'s: `StartLock` takes the steps of its
`Start`, `HandleKeys` those of the drain, `Unlock` those of its `Stop`, and `LeaveKeys` its
`Cancel`.  The gestures are on or off here (what that means is in `GestureSuppressor`).
The HTTP server may fail at once (the port is taken) or later; a connection is idle, uses
the database for a request with a deadline, or for a websocket's handshake, which has
none.  `Shutdown` gives up after three seconds, so `EndShutdown` has no guard.  The events
that `Run` broadcasts are in `StylophonePipeline` and `WebSocketHub`.

**GestureSuppressor.**  Each `defaults` command, each loop of writes and each removal of
a file is a step, with death possible between any two.  A failing loop leaves any subset
of its keys written.  Whether `defaults import` drops keys that the file lacks is not
documented, so both are allowed (`Imported`).  `failed` records a failure that the code
ignores: a `defaults read` taken for a missing domain, an import, a removal, a delete.
The refresh of the system's services, an empty temporary file left by a death, and the
user's own edits while the program runs are left out.

**AuthLogin.**  A request is a record with the step it is at; the store's mutex makes
`Create` and `Consume` one step, and everything may happen between the others.  `now` is
wall-clock time in ticks and only moves forward (a clock set back is not modelled).  The
library's check `nbf <= now < exp` is external.  Two ticks make a second, so that
truncated dates show.  A failed StartLogin changes nothing and is a stutter.

**Accounts.**  A text is a word and how it was typed: with an upper-case letter, with
blanks (or a display name) around it.  Lowering and trimming are what `validation.go` does
to these; which words the rules accept is a constant, and the password's rules and hash are
part of the same verdict.  `CreateUser` is the INSERT with its three unique constraints,
of which any that is violated may be reported.  `Lose` is the context's end or a lost
connection: before the row is there, after it, or while the database is still busy, when
the INSERT takes effect later (`late`).  The user's second try is another request.
`checked` is history: what the latest check of a nickname said.  The row's id, a new UUID,
is the request.

**Migrations.**  `database` is what has been committed, `made` what each transaction has
made besides, `locked` who has the exclusive lock that both files leave on `auth_users`
(001 by its `CREATE INDEX` and `CREATE TABLE`, 002 by its `ALTER TABLE`).  What PostgreSQL
does is modelled from the statements that `applyMigrations` sends: `CREATE TABLE IF NOT
EXISTS` looks first and creates then, so it fails when another has committed in between
(`LookUp`, `Create`); an INSERT waits for the same key of another transaction and fails if
that one commits (`Register`).  `Fail` is the ten seconds' end, a lost connection or the
program's death: the start has failed, but its transaction remains until `Rollback`, and a
COMMIT that was sent may still happen (`Commit`).  `refused` is history.

**AuthDatabase.**  Both modules side by side: requests come once a server is ready
(`Serving`), and statements on `auth_users` wait while a migration has its lock
(`Unlocked`).  No other variable is shared.  `Registry` is the mapping to `UserRegistry`: a
row's name and email are the words that were typed.

**UserItems.**  An `UPDATE` is atomic in PostgreSQL and `jsonb_agg` keeps the array's
order.  A delete is two statements; between them any other request may run, or the
request may die.  A request that loses its answer after the commit needs no step of its
own, since the state does not hold answers.  A melody is the ids of its snapshots and the
references of its notes and of its tracks' notes; a reference may be absent, or not a
name.  `AddMelody`'s checks are its guard.  `KeptItems` is the UPDATE's subquery: its k-th
item is at the place with k kept places up to it (`Rank`), a definition without recursion
so that it can be reasoned about.

## Runs

| Run | Configuration | Shows |
|---|---|---|
| `poller` | `MCMultitouchPoller.cfg`: 2 fingers, 1 slot, states 4 and 7, fair | types, `FaithfulPoll`, the inductive `PollInv` and the refinement `LifecycleSpec` under every interleaving, with frames longer than the buffer; `GoneFingerReleased`, lost frames included |
| `poller_insurance` | `MCMultitouchInsurance.cfg` | **violation**, see below |
| `pipeline` | `MCStylophonePipeline.cfg`: 2 fingers, channels of 1, batches of 1, fair | `ClientInStep` with drops in both channels and cancellation; `Tuned`; `ReleasedFallsSilent` |
| `hub` | `MCWebSocketHub.cfg`: 2 connections, 2 octaves | `HubMembers`, `NobodyForgotten`, `OctaveInStep`, one writer at a time |
| `hub_shutdown` | `MCWebSocketShutdown.cfg`: 2 connections, 1 octave, fair | `RunReturns`: no deadlock between the hub's lock and the clients' |
| `run_lifecycle` | `MCRunLifecycle.cfg`: a ring of 3, 4 presses of 2 keys, 2 connections, every configuration, fair | `InOrder`, `OrderlyReturn`, `InputsGivenBack`, `RunReturns` |
| `login` | `MCAuthLogin.cfg`: 2 users, 2 requests, 2 challenges, 1 restart, 5 ticks | one session per challenge, both factors, restart, token times, cleanup, `OneTimeGrantSpec` |
| `auth_database` | `MCAuthDatabase.cfg`: 2 programs, 2 requests, 4 forms, fair | `WholeVersions`, `LoserHasWinner`, `AnswersAreTrue`, `CheckAgrees`, `RegistrySpec`; `StartEnds`, `RegistrationEnds` |
| `items` | `MCUserItems.cfg`: 2 collections, 2 deletes, 4 items, 3 melodies | `KeptUntilDeleted`, `DeletedStaysDeleted`, `SoundsResolve` |
| `items_delete` | `MCUserItemsDelete.cfg` | **violation**, see below |
| `gestures` | `MCGestureSuppressor.cfg`: 2 domains, 2 starts | `GivenBack`, `NeverLost` |
| `gestures_temporarily` | `MCGestureTemporarily.cfg` | **violation**, see below |

### Why the bounds are enough

Two fingers and one slot make the callback truncate its frame and the slot change owner.
Two slots, with which a copy can mix two fingers or show one twice, are left to the proofs,
which cover all numbers.  A channel of one event overflows with the second event that
comes before the consumer runs; longer channels and batches only delay this, and the
proof of `ClientInStep` covers them.  The pipeline's ten coordinates lie on the first two
keys, around the middle, on the last key with the pad's edge, and beyond both sides; one
octave suffices, as `clampOctave` is also tried with the two next to it.

Two connections are the least with which one fails or leaves while another is written
to, and `Run` is a third party that announces.  A ring of three places fills with two
keys and wraps within four presses.  Of `Run`'s two connections one can be in a handshake
while the other makes a request or waits.  In the login, `MaxTime` lets a challenge expire
and a token end, with requests started before and after; two requests race for a
challenge.

Two programs are the least that meet in the database; it begins as new, with the first
file or as current.  The four forms conflict in each single key, in another spelling, and
in none, one of them is invalid, and two requests may submit the same one, as a retry
does.  Of the melodies, one is valid, one refers from its second track to a sound that it
does not bring along, one has a snapshot without a name.  Two starts of the suppressor let
the second find what the first left.

`MaxBatch`, `MaxPresses`, `MaxItems`, `MaxStarts`, `MaxTime` and `MaxRestarts` are bounds of
the models; the rest are the code's parameters made small.

Deadlock is checked in `pipeline`, where some event can always come.  In the other runs it
is not, since these systems may stop (the program ends, users stop asking, the bounds are
reached); that nothing hangs is the business of the liveness properties.

### Fairness

- `MultitouchPoller!FairSpec`: the ticker keeps firing and the loop runs; a callback's
  stores become visible.  Nothing is asked of the driver or the fingers.
- `StylophonePipeline!FairSpec`: weak fairness per goroutine.  `Run`'s `select` chooses
  at random among its ready cases, so an event that waits is taken.
- `WebSocketHub!FairSpec`: strong fairness of each goroutine that writes, since it
  competes for mutexes, which Go hands to a waiter that has starved for a millisecond;
  a write ends because of `SetWriteDeadline`.  Clients need not send or read anything.
- `RunLifecycle!FairSpec`: weak fairness of `Run`'s steps, of the key ticker, and of the
  input thread (`CFRunLoopRunInMode` returns after 0.2 seconds); contexts of HTTP requests
  expire.  Strong fairness of `ServerError`: its case of `Run`'s select is ready for good,
  and select chooses at random.  Pressing, connecting and cancelling are not fair, and
  neither is the database's answer to a handshake: `InputsGivenBack` holds without it,
  `RunReturns` has it as its premise.
- `AuthDatabase!FairSpec`: weak fairness of each program's statements, of the end of a
  transaction whose client has gone, and of each registration's statements.  It suffices
  for those that wait for a lock because a start takes each lock at most once, so a lock is
  free in the end for good.  Nobody need start a program or submit a form, and no context
  need expire.

### Where the code departs from what it says

- `InsuranceOnlyWhenVanished`: `multitouch_darwin.go:365` presents the second loop of
  `processEvents` as an insurance for a finger that has disappeared from the system's
  radar.  A tick that finds no new frame sees no fingers at all and releases all of
  them, touching or not; the next frame attacks them again.
- `DeletesOnlyTheItem`: the filter `item->>'id' <> $2` is NULL for an item without an
  id, so a delete also drops all of these.  `AddSynthConfig` accepts such items.
- `OnlyTemporarily`: the log says the gestures are turned off temporarily.  `Stop` first
  restores the Dock's preferences and then deletes the four gesture keys from them.

## Proofs

`MultitouchPollerProofs` proves, for every set of fingers of positive identifiers, every
number of slots and every set of touch states in 0..7 (the named assumptions of
`MultitouchPoller`):

- `TypeCorrect`: `Spec => []TypeOK`, inductive as it stands.  The lemmas about `Kept`
  bound the slots that a callback writes; the rest goes action by action.
- `ImplementsLifecycle`: `Spec => LifecycleSpec`.  Each iteration over the frames maps to
  an attack, a modulation or a release, `EndVanished` to a release, `SendEvent` to
  handing over, and every other step to a stutter, so a torn copy cannot matter.
- `PollIsFaithful`: `Spec => []FaithfulPoll`.  `FaithfulPoll` only speaks of the end of
  a poll, so it is not inductive.  `PollInv` follows the poll: what is not pending is in
  the shared variables (`Stored`); while no callback overlaps, what has been copied is
  the beginning of the driver's frame (`Copying`), and what has been processed is the
  part of it before the frames left (`Processing`), with its fingers tracked or not as
  their states say.  That a frame shows a finger once is needed in the second: otherwise
  a later touch could undo an earlier one.  `PollInvInit`, `PollInvStep` and
  `PollInvGivesFaithful` are the three facts; TLC checks `PollInv` in `poller`, and
  `PollInvariant` states it for itself: `Spec => []PollInv`.

`StylophonePipelineProofs` proves, for any fingers, batches and capacities:

- `TypeCorrect`: types, and that no channel exceeds its capacity.
- `ClientStaysInStep`: `Spec => []ClientInStep`.  The property speaks of fingers that have
  lost nothing and says nothing of the others, so it is not inductive: the next attack that
  gets through heals a finger, and the proof must know to what.  `Result` is what a sequence
  of events makes of a note, `InStep` follows a note from the client upstream: through the
  second channel to `forwarded`, the mapper and the first channel to `offered`, and the batch
  to the poller, where a channel that has lost the finger's latest transition breaks the
  chain at its place.  A transition that is sent makes both sides of a broken link equal,
  since it does not matter what it is applied to.  The lemmas `ResultOf...` are about
  sequences; that several transitions have a last one (`LastTurnExists`) needs the
  well-foundedness of the natural numbers.
- `EveryTouchIsTuned`: `Spec => []Tuned`, for any resolution of the pad and any
  coordinates.  `IndexCountsKeys` shows that multiplying, dividing and cutting at the last
  key counts the keys whose left edge is at or before the touch; `LevelIsNearest` that
  rounding halves up finds a nearest level.

`WebSocketHubProofs` proves, for any connections and octaves, from the inductive `HubInv`:

- `TypeCorrect`, with at most one goroutine writing to a client, `NoStrangers` (`HubMembers`)
  and `NoneForgotten` (`NobodyForgotten`).  The argument follows a broadcast: whom it writes
  to, removes or closes was in the hub and is authenticated (`Addressed`), and it removes
  only whom it has failed to write to (`Failed`), who never works again.  `Handshaken` is the
  order of a client's own steps.
- `ToldTheOctave` (`OctaveInStep`), from `OctaveInv`.  The property speaks of the time when
  nothing is being announced, so it is not inductive: before that, a client may still have
  to be told.  Unless announcements have overlapped, `Alone` says that there is at most one,
  of the present octave, and `Followed` that whoever has not heard it will: the announcement
  has not copied the hub's clients yet, or the client is among those left to write to.

`RunLifecycleProofs` proves, for any keys, ring, presses and connections:

- `ReturnsInOrder`: `Spec => []OrderlyReturn`, from `ReturnInv`: `LockInv` is what `InputLock`'s
  variables say of tap and cursor, `StageInv` what has been started and stopped at each
  stage, `ServingInv` the same of server and pool.
- `TypeCorrect` and `HandlesInOrder` (`InOrder`), from `KeyInv`: besides these two, what the
  ring holds are keys, never what it was filled with (`RingInv`).  `Wraps` takes the division
  out of the ring's arithmetic; with it `PushAppends` and `PopTakesHead` show that a push
  appends one key and a pop takes the oldest, wherever the ring wraps.

`AuthLoginProofs` proves, for all sets of users, requests and challenges, all times to
live, any clock and any number of restarts (the named assumptions of `AuthLogin`):

- `LoginTypes`: `Spec => []TypeOK`.  Its part about requests (one in progress knows its
  user, one past `Consume` its challenge) is what the other proofs start from.
- `LoginInvariant`: `Spec => []LoginInv`.  `SingleUse` speaks of finished logins only
  and is not inductive: two requests might hold one challenge.  `LoginInv` follows a
  challenge from the store to one request to one login: it is never at two of these
  (`OnePlace`), it can be traced to the grant that made it (`Traceable`), and the
  request that holds it has the grant's user (`Holding`).  `RequestStep`, `CreateStep`,
  `ConsumeStep` and `IssueStep` are its steps.
- `ChallengesAreSingleUse`, `SessionsNeedBothFactors`: consequences of `LoginInv`.
- `ImplementsOneTimeGrant`: `Spec => OneTimeGrantSpec`.  `Create` maps to giving out,
  `Consume` to a use or a stutter, the clock and a restart to a lapse; the lazy cleanup
  is invisible since a challenge is live only until its time is over, stored or not.
- `CleanupLeavesNoExpired`: `Spec => NoExpiredLeftBehind`, step by step from the types.
- `RestartVoidsEveryLogin`: `Spec => []RestartVoidsLogin`.  `BootInv` says of challenges
  under way that they are of this run of the process: a restart empties the store and the
  requests, and a challenge's name is given once (`LoginInv`).
- `TokensLastAsAdvertised`: `Spec => []AcceptedAsAdvertised`.  `DatesInv` keeps each
  session's dates as truncations of its login's; `NumericDateBounds` says by how much.

`GestureSuppressorProofs` proves, for any number of domains without repetition, any keys and
any number of starts, from the inductive `GestureInv`:

- `TypeCorrect`, `GivesEverythingBack` (`GivenBack`) and `LosesNothing` (`NeverLost`).
  Neither promise is inductive, since each speaks of the end or of places.  The argument
  follows one start.  `StartInv`: the domains it has not come to are as they were, and where
  it has been all is off.  `BackupInv` and `FileInv`: what it has overwritten is in a file of
  its own, with the values of before, or did not exist.  `RestoreInv`: the domains it has
  restored, the last first, are as they were again, as far as an import can do that.
  `KeysInv`: no step touches other keys, and no value becomes the user's that was not.
  Files of earlier starts only matter as places where the user's value may be; nobody
  removes them.

`AuthDatabaseProofs` proves, for any number of programs, registrations and words, and any
forms (`FormsOK`), first that the composition keeps its parts: `KeepsMigrations`
(`Spec => Schema!Spec`) and `KeepsAccounts` (`Spec => Users!Spec`), step by step.  Then:

- of `Migrations`: `SchemaInvariant`, and from it `ServedSchemaIsWhole` (`WholeVersions`) and
  `ServedRaceHasWinner` (`LoserHasWinner`).  `Alone` is the reason: only one transaction at a
  time has made anything, on a new database the one that has created `schema_migrations`, on
  an old one the one that has the lock.  So the only step from one version to another is a
  commit, and it leads to the last.  `StageInv` says what a transaction has made by where its
  start is, `TransactionInv` the same of one whose client has gone.
- of `Accounts`: `AccountInvariant` and `CheckInvariant`, and from them
  `ServedAnswersAreTrue` (`AnswersAreTrue`), `ServedChecksAreTrue` (`CheckAgrees`) and
  `ImplementsRegistry` (`RegistrySpec`).  A row is in its normal form, which says as much of
  a text as its word (`NormalForm`, `SameWord`); so the unique keys, which compare rows,
  compare words.  `Progress` says who has a row, by the state of the request, also of one
  whose answer was lost; `CheckInv` counts the rows since the check.
- of both: `TypeCorrect`.

`UserItemsProofs` proves, for any collections, requests, sounds and melodies, from the
inductive `ItemsInv`:

- `NothingIsLost` (`KeptUntilDeleted`), `DeletesAreFinal` (`DeletedStaysDeleted`) and
  `MelodiesCanBePlayed` (`SoundsResolve`).  `RankNumbers` is the lemma that they rest on:
  counting the places of a finite set numbers them from 1 to their number, in order and
  without a gap, for an injection between sets of one size is a surjection.  `KeptItemsAre`
  follows: a DELETE keeps the items whose id is different, all of them, in their order.
  `TypeInv` and `TagInv` say that tags are what additions were counted with, so that a new
  item's is greater than that of any item or delete before; `CheckedInv` that every melody
  has passed `AddMelody`'s checks.

What the proofs assume of the constants are the named assumptions of the modules.  Most say
what the code's parameters are; `PressesAssumption`, `StartsAssumption` and
`ItemsAssumption` say that a bound of a model is a number, of any size.  `DomainsAssumption`
says that `dockGestureDomains` lists no domain twice, `CollectionsAssumption` that melodies
are kept in collections.

Every invariant, refinement and action property of a passing run is thus a theorem.  Only
model-checked are:

- all liveness (`GoneFingerReleased`, `ReleasedFallsSilent`, both `RunReturns`,
  `InputsGivenBack`, `StartEnds`, `RegistrationEnds`): fairness and ENABLED are beyond the
  prover;
- that the three promises under "Where the code departs" are broken: TLC's counterexamples
  show this.

Induction over data is beyond the provers, so no module with a theorem folds or recurses
over a sequence; where the code loops, the model steps, counts or quantifies.

## Not modelled

- Flags, environment and `.env`, `withDefaults`: sequential handling of text before anything
  runs concurrently.
- Methods, paths, CORS, JSON and status codes of the HTTP API, and the requests that only
  read: they keep no state.
- Passwords, hashes and signatures: library cryptography; a token is its claims.
- `DrumpadMapper`, a constant table; the stubs for other systems, which do nothing.
- `stopInputLock` uses the run loop while the input thread may release it: the lifetime of
  a Core Foundation object, below what `InputLock` distinguishes.
- The end of a websocket's session when its token expires: the code does not check again,
  and nothing promises it.
- The trimming and double decoding of an item's id in a DELETE.
- A second `Run`, and a start of the program on other hardware: `Run` is called once.
