----------------------------- MODULE Migrations -----------------------------
(***************************************************************************)
(* auth/postgres.go, newPostgresStore and applyMigrations: every start of  *)
(* the program brings the database's schema up to date, in one             *)
(* transaction, before it serves anything.  Several programs may start at  *)
(* the same time on one database.                                          *)
(*                                                                         *)
(* PostgreSQL is modelled by what the statements rely on.  What a          *)
(* transaction has made is seen by it alone until it commits.  CREATE      *)
(* TABLE IF NOT EXISTS first looks for the table; if it is not there, it   *)
(* waits for another transaction that is creating it, and fails if that    *)
(* one commits.  ALTER TABLE waits for an exclusive lock on the table and  *)
(* looks for its columns under it.  An INSERT waits for another            *)
(* transaction's row of the same key, and fails if that one commits.  A    *)
(* statement that fails ends its transaction at once.                      *)
(*                                                                         *)
(* Ten seconds after it began, or when the connection is lost or the       *)
(* program dies, a start has failed; its transaction lives on until the    *)
(* database notices, and a COMMIT that was sent may still take effect.     *)
(***************************************************************************)
EXTENDS Naturals, Sequences

CONSTANTS Servers       \* starts of the program

VARIABLES
  database,             \* committed tables, columns and rows of schema_migrations
  made,                 \* made[s]: the same, of the transaction of s
  locked,               \* the transactions with an exclusive lock on auth_users
  tx,                   \* whether s has a transaction, and has sent its COMMIT
  stage,                \* where s is in applyMigrations ...
  entry,                \* ... and at which file
  refused               \* history: the starts that a failing statement ended

migrationVars == <<database, made, locked, tx, stage, entry, refused>>

\* The files in their order, each named as its row of schema_migrations, and
\* what each makes: the table of users, and its columns for user assets.
Files == <<"001_auth.sql", "002_user_assets.sql">>
Made == <<"auth_users", "assets">>

\* The versions of the schema, oldest first.
Versions ==
  << {}, {"schema_migrations", Files[1], Made[1]},
     {"schema_migrations", Files[1], Made[1], Files[2], Made[2]} >>

Objects == Versions[3]

Visible(s) == database \cup made[s]

\* No other transaction has made the object.
Undisputed(s, object) == \A t \in Servers \ {s} : object \notin made[t]

Init ==
  /\ database \in {Versions[i] : i \in DOMAIN Versions}
  /\ made = [s \in Servers |-> {}] /\ locked = {}
  /\ tx = [s \in Servers |-> "none"]
  /\ stage = [s \in Servers |-> "off"]
  /\ entry = [s \in Servers |-> 1]
  /\ refused = {}

Goto(s, label) == stage' = [stage EXCEPT ![s] = label]

\* A statement of s fails.
Refuse(s) ==
  /\ Goto(s, "failed")
  /\ refused' = refused \cup {s}
  /\ tx' = [tx EXCEPT ![s] = "none"]
  /\ made' = [made EXCEPT ![s] = {}]
  /\ locked' = locked \ {s}
  /\ UNCHANGED <<database, entry>>

\* A statement of s makes an object in its transaction.
Make(s, object, label) ==
  /\ Goto(s, label)
  /\ made' = [made EXCEPT ![s] = @ \cup {object}]

-----------------------------------------------------------------------------
\* One start.

\* The pool is created and pinged, and the transaction begun.
Begin(s) ==
  /\ stage[s] = "off"
  /\ Goto(s, "lookup")
  /\ tx' = [tx EXCEPT ![s] = "open"]
  /\ UNCHANGED <<database, made, locked, entry, refused>>

\* CREATE TABLE IF NOT EXISTS schema_migrations: the look, ...
LookUp(s) ==
  /\ stage[s] = "lookup"
  /\ Goto(s, IF "schema_migrations" \in Visible(s) THEN "check" ELSE "create")
  /\ UNCHANGED <<database, made, locked, tx, entry, refused>>

\* ... and the creation.
Create(s) ==
  /\ stage[s] = "create" /\ Undisputed(s, "schema_migrations")
  /\ IF "schema_migrations" \in database
     THEN Refuse(s)
     ELSE /\ Make(s, "schema_migrations", "check")
          /\ UNCHANGED <<database, locked, tx, entry, refused>>

\* The next file: SELECT EXISTS, in schema_migrations.
Check(s) ==
  /\ stage[s] = "check" /\ entry[s] \in DOMAIN Files
  /\ IF Files[entry[s]] \in Visible(s)
     THEN entry' = [entry EXCEPT ![s] = @ + 1] /\ UNCHANGED stage
     ELSE Goto(s, "apply") /\ UNCHANGED entry
  /\ UNCHANGED <<database, made, locked, tx, refused>>

\* Mutant: the file is executed on the pool, not in the transaction.
Apply_OnPool(s) ==
  /\ stage[s] = "apply" /\ locked \subseteq {s}
  /\ Goto(s, "register")
  /\ database' = database \cup {Made[entry[s]]}
  /\ UNCHANGED <<made, locked, tx, entry, refused>>

\* The file's statements.  Their IF NOT EXISTS makes nothing twice; both
\* leave an exclusive lock on auth_users.
Apply(s) ==
  /\ stage[s] = "apply" /\ locked \subseteq {s}
  /\ locked' = locked \cup {s}
  /\ IF Made[entry[s]] \in Visible(s)
     THEN Goto(s, "register") /\ UNCHANGED made
     ELSE Make(s, Made[entry[s]], "register")
  /\ UNCHANGED <<database, tx, entry, refused>>

\* Mutant: each file is committed on its own.
Register_CommitEach(s) ==
  /\ stage[s] = "register" /\ Undisputed(s, Files[entry[s]])
  /\ IF Files[entry[s]] \in database
     THEN Refuse(s)
     ELSE /\ Goto(s, "check")
          /\ database' = database \cup made[s] \cup {Files[entry[s]]}
          /\ made' = [made EXCEPT ![s] = {}]
          /\ entry' = [entry EXCEPT ![s] = @ + 1]
          /\ UNCHANGED <<locked, tx, refused>>

\* INSERT INTO schema_migrations.
Register(s) ==
  /\ stage[s] = "register" /\ Undisputed(s, Files[entry[s]])
  /\ IF Files[entry[s]] \in database
     THEN Refuse(s)
     ELSE /\ Make(s, Files[entry[s]], "check")
          /\ entry' = [entry EXCEPT ![s] = @ + 1]
          /\ UNCHANGED <<database, locked, tx, refused>>

\* Every file has been seen to: COMMIT is sent ...
SendCommit(s) ==
  /\ stage[s] = "check" /\ entry[s] \notin DOMAIN Files
  /\ Goto(s, "commit")
  /\ tx' = [tx EXCEPT ![s] = "sent"]
  /\ UNCHANGED <<database, made, locked, entry, refused>>

EndTransaction(s) ==
  /\ tx' = [tx EXCEPT ![s] = "none"]
  /\ made' = [made EXCEPT ![s] = {}]
  /\ locked' = locked \ {s}
  /\ UNCHANGED <<stage, entry, refused>>

\* ... the database commits, whether or not anybody waits for it, ...
Commit(s) ==
  /\ tx[s] = "sent"
  /\ database' = database \cup made[s]
  /\ EndTransaction(s)

\* ... and the answer arrives: the server goes on to serve.
Ready(s) ==
  /\ stage[s] = "commit" /\ tx[s] = "none"
  /\ Goto(s, "ready")
  /\ UNCHANGED <<database, made, locked, tx, entry, refused>>

\* The context's ten seconds are over, the connection is lost, or the
\* program dies.
Fail(s) ==
  /\ stage[s] \notin {"off", "ready", "failed"}
  /\ Goto(s, "failed")
  /\ UNCHANGED <<database, made, locked, tx, entry, refused>>

\* Mutant: a failed start returns without a rollback and leaves its pool open.
Rollback_Missing(s) ==
  /\ stage[s] = "failed" /\ tx[s] = "sent"
  /\ UNCHANGED database
  /\ EndTransaction(s)

\* The deferred Rollback, or the end of the connection, reaches the database.
Rollback(s) ==
  /\ stage[s] = "failed" /\ tx[s] # "none"
  /\ UNCHANGED database
  /\ EndTransaction(s)

-----------------------------------------------------------------------------

Migrate(s) ==
  \/ LookUp(s) \/ Create(s) \/ Check(s) \/ Apply(s) \/ Register(s)
  \/ SendCommit(s) \/ Commit(s) \/ Ready(s) \/ Rollback(s)

Next == \E s \in Servers : Begin(s) \/ Migrate(s) \/ Fail(s)

Spec == Init /\ [][Next]_migrationVars

\* A statement that can be executed is, and a transaction whose client has
\* gone is ended in the end.
Fairness == \A s \in Servers : WF_migrationVars(Migrate(s))

FairSpec == Spec /\ Fairness

-----------------------------------------------------------------------------

TypeOK ==
  /\ database \subseteq Objects
  /\ made \in [Servers -> SUBSET Objects]
  /\ locked \subseteq Servers
  /\ tx \in [Servers -> {"none", "open", "sent"}]
  /\ stage \in [Servers -> {"off", "lookup", "create", "check", "apply",
                            "register", "commit", "ready", "failed"}]
  /\ entry \in [Servers -> 1 .. Len(Files) + 1]
  /\ refused \subseteq Servers

(***************************************************************************)
(* However many servers start at once, and wherever one of them fails, the *)
(* schema is one of its versions, whole: a file is registered if and only  *)
(* if what it makes is there, and a server only serves with the last.      *)
(***************************************************************************)
WholeVersions ==
  /\ \E i \in DOMAIN Versions : database = Versions[i]
  /\ (\E s \in Servers : stage[s] = "ready") => database = Objects

(***************************************************************************)
(* When servers that start at once get into each other's way, one of them  *)
(* has got through: a start that one of its statements ended leaves a      *)
(* schema that is up to date, and the next start need not change it.       *)
(***************************************************************************)
LoserHasWinner == refused # {} => database = Objects

(***************************************************************************)
(* No start waits for ever for the transaction of another, be it one that  *)
(* has died or timed out: it ends, one way or the other.                   *)
(***************************************************************************)
StartEnds ==
  \A s \in Servers : stage[s] = "lookup" ~> stage[s] \in {"ready", "failed"}
=============================================================================
