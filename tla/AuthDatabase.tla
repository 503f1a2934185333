---------------------------- MODULE AuthDatabase ----------------------------
(***************************************************************************)
(* Programs that start on one database and serve registrations: Migrations *)
(* and Accounts together.  A server serves once its migrations have been   *)
(* committed; while it does, others may start, and the exclusive lock that *)
(* a migration holds on auth_users keeps every statement on it waiting.    *)
(***************************************************************************)
EXTENDS Naturals, Sequences, FiniteSets

CONSTANTS Servers, Requests, Words, ValidWords, GoogleAccounts, Forms

VARIABLES database, made, locked, tx, stage, entry, refused
VARIABLES users, state, form, answer, checked

Schema == INSTANCE Migrations
Users == INSTANCE Accounts

ASSUME WordsAssumption == ValidWords \subseteq Words

ASSUME FormsAssumption == Users!FormsOK

migrationVars == <<database, made, locked, tx, stage, entry, refused>>
accountVars == <<users, state, form, answer, checked>>
vars == <<migrationVars, accountVars>>

Init == Schema!Init /\ Users!Init

-----------------------------------------------------------------------------

\* NewService has returned in one of the programs.
Serving == \E s \in Servers : stage[s] = "ready"

\* Statements on auth_users do not wait.
Unlocked == locked = {}

Start(s) == (Schema!Begin(s) \/ Schema!Fail(s)) /\ UNCHANGED accountVars

Migrate(s) == Schema!Migrate(s) /\ UNCHANGED accountVars

Submit(r) ==
  Serving /\ Users!Submit(r) /\ UNCHANGED migrationVars

Register(r) ==
  /\ (Unlocked /\ Users!CreateUser(r)) \/ Users!issueSession(r)
  /\ UNCHANGED migrationVars

Lose(r) == Users!Lose(r) /\ UNCHANGED migrationVars

CheckNickname(n) ==
  Serving /\ Unlocked /\ Users!CheckNickname(n) /\ UNCHANGED migrationVars

Next ==
  \/ \E s \in Servers : Start(s) \/ Migrate(s)
  \/ \E r \in Requests : Submit(r) \/ Register(r) \/ Lose(r)
  \/ \E n \in Users!Nicknames : CheckNickname(n)

Spec == Init /\ [][Next]_vars

\* Statements that can be executed are; nobody has to start a program or to
\* fill in a form, and no context has to expire.
FairSpec ==
  /\ Spec
  /\ \A s \in Servers : WF_vars(Migrate(s))
  /\ \A r \in Requests : WF_vars(Register(r))

-----------------------------------------------------------------------------
\* What Migrations and Accounts say, of the two together.

TypeOK == Schema!TypeOK /\ Users!TypeOK
WholeVersions == Schema!WholeVersions
LoserHasWinner == Schema!LoserHasWinner
StartEnds == Schema!StartEnds
AnswersAreTrue == Users!AnswersAreTrue
CheckAgrees == Users!CheckAgrees

(***************************************************************************)
(* The table implements the registry, whose nicknames and emails are words *)
(* and not spellings: however two users type what is the same name or      *)
(* address, and however late the database executes an INSERT, one of them  *)
(* gets the account, and nothing that follows changes it.                  *)
(***************************************************************************)
Registry ==
  INSTANCE UserRegistry WITH
    Ids <- Requests, Nicknames <- Words, Emails <- Words,
    accounts <- {[id |-> u.id, nickname |-> form[u.id].nickname.word,
                  email |-> form[u.id].email.word, google |-> u.google] : u \in users}

RegistrySpec == Registry!Spec

(***************************************************************************)
(* A registration that was submitted is answered, without any time-out: it *)
(* never waits for ever behind the lock of a migration, be it that of a    *)
(* start that found the work already done or that of one that has died.    *)
(***************************************************************************)
RegistrationEnds ==
  \A r \in Requests : state[r] = "insert" ~> state[r] = "done"
=============================================================================
