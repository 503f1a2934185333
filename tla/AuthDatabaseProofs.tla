-------------------------- MODULE AuthDatabaseProofs --------------------------
(***************************************************************************)
(* What holds of any number of programs that start on one database and     *)
(* serve any number of registrations.  The composition restricts its parts *)
(* and adds nothing to them: it behaves as Migrations and as Accounts say, *)
(* so what is proved of each of these holds of the two together.           *)
(*                                                                         *)
(* Migrations: only one transaction at a time has made anything.  On a new *)
(* database it is the one that has created schema_migrations, on an old    *)
(* one the one that holds the lock of auth_users; nothing is left to make  *)
(* on a current one.  So the only step from one version to another is a    *)
(* commit, and it leads to the last.                                       *)
(*                                                                         *)
(* Accounts: a row is in its normal form, which says as much of a text as  *)
(* its word; so the table's unique keys, which compare rows, compare words.*)
(***************************************************************************)
EXTENDS AuthDatabase, FiniteSetTheorems, TLAPS

(***************************************************************************)
(* Whatever the registrations do, and whenever they are kept waiting, the  *)
(* schema's part of a behaviour is one of Migrations.                      *)
(***************************************************************************)
THEOREM KeepsMigrations == Spec => Schema!Spec
<1>1. Init => Schema!Init
  BY DEF Init
<1>2. [Next]_vars => [Schema!Next]_(Schema!migrationVars)
  <2> USE DEF migrationVars, Schema!migrationVars
  <2>1. CASE UNCHANGED vars
    BY <2>1 DEF vars
  <2>2. CASE \E s \in Servers : Start(s) \/ Migrate(s)
    BY <2>2 DEF Start, Migrate, Schema!Next
  <2>3. CASE \E r \in Requests : Submit(r) \/ Register(r) \/ Lose(r)
    BY <2>3 DEF Submit, Register, Lose
  <2>4. CASE \E n \in Users!Nicknames : CheckNickname(n)
    BY <2>4 DEF CheckNickname
  <2> QED  BY <2>1, <2>2, <2>3, <2>4 DEF Next
<1> QED  BY <1>1, <1>2, PTL DEF Spec, Schema!Spec

(***************************************************************************)
(* Whatever the migrations do, the users' part of a behaviour is one of    *)
(* Accounts: locks and starts only delay its steps.                        *)
(***************************************************************************)
THEOREM KeepsAccounts == Spec => Users!Spec
<1>1. Init => Users!Init
  BY DEF Init
<1>2. [Next]_vars => [Users!Next]_(Users!accountVars)
  <2> USE DEF accountVars, Users!accountVars
  <2>1. CASE UNCHANGED vars
    BY <2>1 DEF vars
  <2>2. CASE \E s \in Servers : Start(s) \/ Migrate(s)
    BY <2>2 DEF Start, Migrate
  <2>3. CASE \E r \in Requests : Submit(r) \/ Register(r) \/ Lose(r)
    BY <2>3 DEF Submit, Register, Lose, Users!Next, Users!Register
  <2>4. CASE \E n \in Users!Nicknames : CheckNickname(n)
    BY <2>4 DEF CheckNickname, Users!Next
  <2> QED  BY <2>1, <2>2, <2>3, <2>4 DEF Next
<1> QED  BY <1>1, <1>2, PTL DEF Spec, Users!Spec

-----------------------------------------------------------------------------
\* Migrations.

Table == "schema_migrations"

\* The first version that has tables.
First == {Table, Schema!Files[1], Schema!Made[1]}

\* What the transaction of s has made for the files before the next one.
Caught(s, done) ==
  \/ database = {} /\ made[s] = done
  \/ database # {} /\ made[s] = {}

\* Where s is says what its transaction has made.
StageInv(s) ==
  /\ stage[s] = "off" => tx[s] = "none" /\ entry[s] = 1
  /\ stage[s] \in {"lookup", "create", "check", "apply", "register"} => tx[s] = "open"
  /\ stage[s] \in {"lookup", "create"} => made[s] = {} /\ entry[s] = 1
  /\ stage[s] = "create" => database # First
  /\ stage[s] = "check" =>
       /\ entry[s] = 1 => Caught(s, {Table})
       /\ entry[s] = 2 => Caught(s, First)
       /\ entry[s] = 3 => Schema!Visible(s) = Schema!Objects
  /\ stage[s] = "apply" =>
       \/ entry[s] = 1 /\ database = {} /\ made[s] = {Table}
       \/ entry[s] = 2 /\ Caught(s, First)
  /\ stage[s] = "register" =>
       /\ s \in locked
       /\ \/ entry[s] = 1 /\ database = {} /\ made[s] = {Table, Schema!Made[1]}
          \/ entry[s] = 2 /\ database = {} /\ made[s] = First \cup {Schema!Made[2]}
          \/ entry[s] = 2 /\ database = First /\ made[s] = {Schema!Made[2]}
          \/ entry[s] = 2 /\ database = Schema!Objects /\ made[s] = {}
  /\ stage[s] = "commit" => tx[s] \in {"sent", "none"}
  /\ stage[s] = "commit" /\ tx[s] = "none" => database = Schema!Objects
  /\ stage[s] = "ready" => database = Schema!Objects /\ tx[s] = "none"

\* What a transaction says, whether or not its client is there.
TransactionInv(s) ==
  /\ tx[s] = "none" => made[s] = {} /\ s \notin locked
  /\ tx[s] = "sent" => Schema!Visible(s) = Schema!Objects
  /\ made[s] # {} => \/ database = {} /\ Table \in made[s]
                     \/ database = First /\ s \in locked

\* Only one at a time.
Alone ==
  /\ \A s, t \in Servers : made[s] # {} /\ made[t] # {} => s = t
  /\ \A s, t \in locked : s = t

SchemaInv ==
  /\ Schema!TypeOK
  /\ database \in {{}, First, Schema!Objects}
  /\ \A s \in Servers : StageInv(s) /\ TransactionInv(s)
  /\ Alone
  /\ Schema!LoserHasWinner

-----------------------------------------------------------------------------

\* The two migrations, and what they make.
LEMMA FilesAre ==
  /\ Schema!Files[1] = "001_auth.sql" /\ Schema!Files[2] = "002_user_assets.sql"
  /\ Schema!Made[1] = "auth_users" /\ Schema!Made[2] = "assets"
  /\ DOMAIN Schema!Files = {1, 2} /\ Len(Schema!Files) = 2
  BY DEF Schema!Files, Schema!Made

\* The versions of the schema.
LEMMA VersionsAre ==
  /\ DOMAIN Schema!Versions = {1, 2, 3}
  /\ Schema!Versions[1] = {} /\ Schema!Versions[2] = First /\ Schema!Versions[3] = Schema!Objects
  /\ Schema!Objects = First \cup {Schema!Files[2], Schema!Made[2]}
  BY DEF Schema!Versions, Schema!Objects, First, Table

\* The names are different.
LEMMA NamesDiffer ==
  /\ First = {"schema_migrations", "001_auth.sql", "auth_users"}
  /\ Schema!Objects = First \cup {"002_user_assets.sql", "assets"}
  /\ First # {} /\ Schema!Objects # {} /\ First # Schema!Objects
  BY FilesAre, VersionsAre DEF First, Table

\* The invariant of the migrations holds when the first program starts.
LEMMA InitSchema == Schema!Init => SchemaInv
<1> SUFFICES ASSUME Schema!Init PROVE SchemaInv
  OBVIOUS
<1>1. database \in {{}, First, Schema!Objects}
  BY VersionsAre DEF Schema!Init
<1>2. Schema!TypeOK
  BY <1>1, VersionsAre, FilesAre DEF Schema!Init, Schema!TypeOK
<1> QED
  BY <1>1, <1>2
     DEF Schema!Init, SchemaInv, StageInv, TransactionInv, Alone, Schema!LoserHasWinner

\* A server whose own state and whose database stay as they are.
LEMMA OthersKeep ==
  ASSUME SchemaInv, NEW t \in Servers, database' = database,
         made'[t] = made[t], tx'[t] = tx[t], stage'[t] = stage[t],
         entry'[t] = entry[t], t \in locked' <=> t \in locked
  PROVE  StageInv(t)' /\ TransactionInv(t)'
  BY DEF SchemaInv, StageInv, TransactionInv, Caught, Schema!Visible

\* Every step of a start keeps the types.
LEMMA TypesKeep ==
  ASSUME SchemaInv, [Schema!Next]_(Schema!migrationVars)
  PROVE  Schema!TypeOK'
<1> USE FilesAre DEF SchemaInv, Schema!TypeOK
<1>0. ASSUME UNCHANGED Schema!migrationVars PROVE Schema!TypeOK'
  BY <1>0 DEF Schema!migrationVars
<1> SUFFICES ASSUME NEW s \in Servers, Schema!Begin(s) \/ Schema!Migrate(s) \/ Schema!Fail(s)
             PROVE  Schema!TypeOK'
  BY <1>0 DEF Schema!Next
<1>1. /\ Schema!Made[1] \in Schema!Objects /\ Schema!Made[2] \in Schema!Objects
      /\ Schema!Files[1] \in Schema!Objects
      /\ Schema!Files[2] \in Schema!Objects /\ "schema_migrations" \in Schema!Objects
  BY NamesDiffer
<1>2. CASE Schema!Begin(s)
  BY <1>2 DEF Schema!Begin, Schema!Goto
<1>3. CASE Schema!LookUp(s)
  BY <1>3 DEF Schema!LookUp, Schema!Goto
<1>4. CASE Schema!Create(s)
  BY <1>1, <1>4 DEF Schema!Create, Schema!Refuse, Schema!Make, Schema!Goto
<1>5. CASE Schema!Check(s)
  BY <1>5 DEF Schema!Check, Schema!Goto
<1>6. CASE Schema!Apply(s)
  <2>1. Schema!Made[entry[s]] \in Schema!Objects
    BY <1>1, <1>6 DEF Schema!Apply, StageInv
  <2> QED  BY <1>6, <2>1 DEF Schema!Apply, Schema!Make, Schema!Goto
<1>7. CASE Schema!Register(s)
  <2>1. entry[s] \in {1, 2}
    BY <1>7 DEF Schema!Register, StageInv
  <2>2. Schema!Files[entry[s]] \in Schema!Objects /\ entry[s] + 1 \in 1..3
    BY <1>1, <2>1
  <2> QED  BY <1>7, <2>2 DEF Schema!Register, Schema!Refuse, Schema!Make, Schema!Goto
<1>8. CASE Schema!SendCommit(s)
  BY <1>8 DEF Schema!SendCommit, Schema!Goto
<1>9. CASE Schema!Commit(s)
  BY <1>9 DEF Schema!Commit, Schema!EndTransaction
<1>10. CASE Schema!Ready(s)
  BY <1>10 DEF Schema!Ready, Schema!Goto
<1>11. CASE Schema!Fail(s)
  BY <1>11 DEF Schema!Fail, Schema!Goto
<1>12. CASE Schema!Rollback(s)
  BY <1>12 DEF Schema!Rollback, Schema!EndTransaction
<1> QED
  BY <1>2, <1>3, <1>4, <1>5, <1>6, <1>7, <1>8, <1>9, <1>10, <1>11, <1>12
     DEF Schema!Migrate

\* What s itself has at the end of a step of its own, and what that means.
LEMMA StepKeeps ==
  ASSUME SchemaInv, [Schema!Next]_(Schema!migrationVars)
  PROVE  SchemaInv'
<1>0. Schema!TypeOK'
  BY TypesKeep
<1>1. CASE UNCHANGED Schema!migrationVars
  BY <1>1
     DEF Schema!migrationVars, SchemaInv, Schema!TypeOK, StageInv, TransactionInv, Caught,
              Schema!Visible, Alone, Schema!LoserHasWinner
<1> SUFFICES ASSUME NEW s \in Servers, Schema!Begin(s) \/ Schema!Migrate(s) \/ Schema!Fail(s)
             PROVE  SchemaInv'
  BY <1>1 DEF Schema!Next
<1> USE DEF SchemaInv
<1>2. ASSUME database' = database, Schema!LoserHasWinner', Alone',
             StageInv(s)', TransactionInv(s)',
             \A t \in Servers \ {s} :
               /\ made'[t] = made[t] /\ tx'[t] = tx[t] /\ stage'[t] = stage[t]
               /\ entry'[t] = entry[t] /\ (t \in locked' <=> t \in locked)
      PROVE  SchemaInv'
  <2>1. \A t \in Servers \ {s} : StageInv(t)' /\ TransactionInv(t)'
    BY <1>2, OthersKeep
  <2>2. (database \in {{}, First, Schema!Objects})'
    BY <1>2
  <2> QED  BY <1>0, <1>2, <2>1, <2>2
<1> USE DEF Schema!TypeOK
<1>3. CASE Schema!Begin(s)
  <2>1. StageInv(s)' /\ TransactionInv(s)'
    BY <1>3, FilesAre
       DEF Schema!Begin, Schema!Goto, StageInv, TransactionInv, Schema!Visible
  <2> QED  BY <1>2, <1>3, <2>1 DEF Schema!Begin, Schema!Goto, Alone, Schema!LoserHasWinner
<1>4. CASE Schema!LookUp(s)
  <2>1. StageInv(s)' /\ TransactionInv(s)'
    BY <1>4, NamesDiffer
       DEF Schema!LookUp, Schema!Goto, StageInv, TransactionInv, Schema!Visible, Caught,
           Table
  <2> QED  BY <1>2, <1>4, <2>1 DEF Schema!LookUp, Schema!Goto, Alone, Schema!LoserHasWinner
<1>5. CASE Schema!Create(s)
  <2>1. CASE "schema_migrations" \in database
    <3>1. database = Schema!Objects
      BY <1>5, <2>1 DEF Schema!Create, StageInv
    <3>2. StageInv(s)' /\ TransactionInv(s)'
      BY <1>5, <2>1 DEF Schema!Create, Schema!Refuse, Schema!Goto, StageInv, TransactionInv
    <3>3. Alone' /\ Schema!LoserHasWinner'
      BY <1>5, <2>1, <3>1 DEF Schema!Create, Schema!Refuse, Alone, Schema!LoserHasWinner
    <3> QED  BY <1>2, <1>5, <2>1, <3>2, <3>3 DEF Schema!Create, Schema!Refuse, Schema!Goto
  <2>2. CASE "schema_migrations" \notin database
    <3>1. database = {} /\ made[s] = {} /\ entry[s] = 1
      BY <1>5, <2>2, NamesDiffer DEF Schema!Create, StageInv
    <3>2. \A t \in Servers : made[t] = {}
      BY <1>5, <3>1, NamesDiffer DEF Schema!Create, Schema!Undisputed, TransactionInv, Table
    <3>3. made'[s] = {Table}
      BY <1>5, <2>2, <3>1 DEF Schema!Create, Schema!Make, Table
    <3>4. StageInv(s)' /\ TransactionInv(s)'
      BY <1>5, <2>2, <3>1, <3>3, FilesAre
         DEF Schema!Create, Schema!Make, Schema!Goto, StageInv, TransactionInv, Caught
    <3>5. Alone' /\ Schema!LoserHasWinner'
      BY <1>5, <2>2, <3>2 DEF Schema!Create, Schema!Make, Alone, Schema!LoserHasWinner
    <3> QED  BY <1>2, <1>5, <2>2, <3>4, <3>5 DEF Schema!Create, Schema!Make, Schema!Goto
  <2> QED  BY <2>1, <2>2
<1>6. CASE Schema!Check(s)
  <2>1. CASE Schema!Files[entry[s]] \in Schema!Visible(s)
    <3>1. entry[s] = 1 => database # {} /\ made[s] = {}
      BY <1>6, <2>1, FilesAre DEF Schema!Check, StageInv, Caught, Schema!Visible, Table
    <3>2. entry[s] = 2 => Schema!Visible(s) = Schema!Objects
      BY <1>6, <2>1, FilesAre, NamesDiffer
         DEF Schema!Check, StageInv, Caught, Schema!Visible
    <3>3. StageInv(s)' /\ TransactionInv(s)'
      BY <1>6, <2>1, <3>1, <3>2, FilesAre
         DEF Schema!Check, StageInv, TransactionInv, Caught, Schema!Visible
    <3> QED  BY <1>2, <1>6, <2>1, <3>3 DEF Schema!Check, Alone, Schema!LoserHasWinner
  <2>2. CASE Schema!Files[entry[s]] \notin Schema!Visible(s)
    <3>1. entry[s] = 1 => database = {} /\ made[s] = {Table}
      BY <1>6, <2>2, FilesAre, NamesDiffer
         DEF Schema!Check, StageInv, Caught, Schema!Visible
    <3>2. StageInv(s)' /\ TransactionInv(s)'
      BY <1>6, <2>2, <3>1, FilesAre
         DEF Schema!Check, Schema!Goto, StageInv, TransactionInv, Caught, Schema!Visible
    <3> QED  BY <1>2, <1>6, <2>2, <3>2
                DEF Schema!Check, Schema!Goto, Alone, Schema!LoserHasWinner
  <2> QED  BY <2>1, <2>2
<1>7. CASE Schema!Apply(s)
  <2>1. s \in locked' /\ locked' = {s}
    BY <1>7 DEF Schema!Apply
  <2>2. \/ entry[s] = 1 /\ database = {} /\ made[s] = {Table}
        \/ entry[s] = 2 /\ database = {} /\ made[s] = First
        \/ entry[s] = 2 /\ database = First /\ made[s] = {}
        \/ entry[s] = 2 /\ database = Schema!Objects /\ made[s] = {}
    BY <1>7, NamesDiffer DEF Schema!Apply, StageInv, Caught
  <2>3. made'[s] = IF Schema!Made[entry[s]] \in Schema!Visible(s) THEN made[s]
                   ELSE made[s] \cup {Schema!Made[entry[s]]}
    BY <1>7 DEF Schema!Apply, Schema!Make
  <2>4. \/ entry[s] = 1 /\ database = {} /\ made'[s] = {Table, Schema!Made[1]}
        \/ entry[s] = 2 /\ database = {} /\ made'[s] = First \cup {Schema!Made[2]}
        \/ entry[s] = 2 /\ database = First /\ made'[s] = {Schema!Made[2]}
        \/ entry[s] = 2 /\ database = Schema!Objects /\ made'[s] = {}
    BY <2>2, <2>3, FilesAre, NamesDiffer DEF Schema!Visible, Table
  <2>5. StageInv(s)' /\ TransactionInv(s)'
    BY <1>7, <2>1, <2>4, NamesDiffer
       DEF Schema!Apply, Schema!Make, Schema!Goto, StageInv, TransactionInv, Table
  <2>6. ASSUME NEW t \in Servers \ {s}, made'[t] # {} PROVE made'[s] = {}
    <3>1. made[t] # {} /\ t \notin locked
      BY <1>7, <2>6 DEF Schema!Apply, Schema!Make
    <3>2. made[s] = {}
      BY <3>1 DEF Alone
    <3>3. database # First
      BY <3>1, NamesDiffer DEF TransactionInv
    <3> QED  BY <2>2, <2>4, <3>2, <3>3, NamesDiffer
  <2>7. \A t \in Servers \ {s} : t \notin locked
    BY <1>7 DEF Schema!Apply
  <2>8. Alone' /\ Schema!LoserHasWinner'
    BY <1>7, <2>1, <2>6 DEF Schema!Apply, Schema!Make, Alone, Schema!LoserHasWinner
  <2> QED  BY <1>2, <1>7, <2>1, <2>5, <2>7, <2>8 DEF Schema!Apply, Schema!Make, Schema!Goto
<1>8. CASE Schema!Register(s)
  <2>1. CASE Schema!Files[entry[s]] \in database
    <3>1. database = Schema!Objects
      BY <1>8, <2>1, FilesAre, NamesDiffer DEF Schema!Register, StageInv
    <3>2. StageInv(s)' /\ TransactionInv(s)'
      BY <1>8, <2>1
         DEF Schema!Register, Schema!Refuse, Schema!Goto, StageInv, TransactionInv
    <3>3. Alone' /\ Schema!LoserHasWinner'
      BY <1>8, <2>1, <3>1 DEF Schema!Register, Schema!Refuse, Alone, Schema!LoserHasWinner
    <3> QED  BY <1>2, <1>8, <2>1, <3>2, <3>3 DEF Schema!Register, Schema!Refuse, Schema!Goto
  <2>2. CASE Schema!Files[entry[s]] \notin database
    <3>1. \/ entry[s] = 1 /\ database = {} /\ made[s] = {Table, Schema!Made[1]}
          \/ entry[s] = 2 /\ database = {} /\ made[s] = First \cup {Schema!Made[2]}
          \/ entry[s] = 2 /\ database = First /\ made[s] = {Schema!Made[2]}
      BY <1>8, <2>2, FilesAre, NamesDiffer DEF Schema!Register, StageInv
    <3>2. s \in locked
      BY <1>8 DEF Schema!Register, StageInv
    <3>3. made'[s] = made[s] \cup {Schema!Files[entry[s]]}
      BY <1>8, <2>2 DEF Schema!Register, Schema!Make
    <3>4. \/ entry'[s] = 2 /\ database = {} /\ made'[s] = First
          \/ entry'[s] = 3 /\ database \cup made'[s] = Schema!Objects
      BY <1>8, <2>2, <3>1, <3>3, VersionsAre DEF Schema!Register, First
    <3>5. database = {} => Table \in made'[s]
      BY <3>1, <3>3 DEF First
    <3>6. StageInv(s)' /\ TransactionInv(s)'
      BY <1>8, <2>2, <3>1, <3>2, <3>4, <3>5
         DEF Schema!Register, Schema!Make, Schema!Goto, StageInv, TransactionInv, Caught,
             Schema!Visible
    <3>7. made[s] # {}
      BY <3>1
    <3>8. Alone' /\ Schema!LoserHasWinner'
      BY <1>8, <2>2, <3>7 DEF Schema!Register, Schema!Make, Alone, Schema!LoserHasWinner
    <3> QED  BY <1>2, <1>8, <2>2, <3>6, <3>8 DEF Schema!Register, Schema!Make, Schema!Goto
  <2> QED  BY <2>1, <2>2
<1>9. CASE Schema!SendCommit(s)
  <2>1. entry[s] = 3
    BY <1>9, FilesAre DEF Schema!SendCommit
  <2>2. StageInv(s)' /\ TransactionInv(s)'
    BY <1>9, <2>1
       DEF Schema!SendCommit, Schema!Goto, StageInv, TransactionInv, Schema!Visible
  <2> QED  BY <1>2, <1>9, <2>2
              DEF Schema!SendCommit, Schema!Goto, Alone, Schema!LoserHasWinner
<1>10. CASE Schema!Commit(s)
  <2>1. database' = Schema!Objects
    BY <1>10 DEF Schema!Commit, TransactionInv, Schema!Visible
  <2>2. StageInv(s)' /\ TransactionInv(s)'
    BY <1>10, <2>1 DEF Schema!Commit, Schema!EndTransaction, StageInv, TransactionInv
  <2>3. ASSUME NEW t \in Servers \ {s} PROVE StageInv(t)' /\ TransactionInv(t)'
    <3>1. CASE database = Schema!Objects
      BY <1>10, <2>1, <2>3, <3>1, OthersKeep DEF Schema!Commit, Schema!EndTransaction
    <3>2. CASE database # Schema!Objects
      <4>1. made[s] # {}
        BY <1>10, <3>2 DEF Schema!Commit, TransactionInv, Schema!Visible
      <4>2. made[t] = {}
        BY <2>3, <4>1 DEF Alone
      <4>3. /\ made'[t] = {} /\ tx'[t] = tx[t] /\ stage'[t] = stage[t]
            /\ entry'[t] = entry[t] /\ (t \in locked' <=> t \in locked)
        BY <1>10, <2>3, <4>2 DEF Schema!Commit, Schema!EndTransaction
      <4>4. StageInv(t) /\ TransactionInv(t)
        OBVIOUS
      <4>5. stage[t] \notin {"apply", "register"} \/ entry[t] = 2
        BY <4>2, <4>4 DEF StageInv
      <4>6. stage[t] # "register"
        BY <3>2, <4>2, <4>4, FilesAre DEF StageInv
      <4>7. tx[t] # "sent"
        BY <3>2, <4>2, <4>4 DEF TransactionInv, Schema!Visible
      <4>8. stage[t] = "check" => entry[t] # 3
        BY <3>2, <4>2, <4>4 DEF StageInv, Schema!Visible
      <4>9. TransactionInv(t)'
        BY <4>2, <4>3, <4>4, <4>7 DEF TransactionInv
      <4>10. database' # {} /\ database' # First
        BY <2>1, NamesDiffer
      <4>11. stage[t] = "apply" => Caught(t, First)'
        BY <4>2, <4>3, <4>10 DEF Caught
      <4>12. stage[t] = "check" => Caught(t, {Table})' /\ Caught(t, First)'
        BY <4>2, <4>3, <4>10 DEF Caught
      <4>13. StageInv(t)'
        BY <2>1, <4>2, <4>3, <4>4, <4>5, <4>6, <4>8, <4>10, <4>11, <4>12
           DEF StageInv
      <4> QED  BY <4>9, <4>13
    <3> QED  BY <3>1, <3>2
  <2>4. Alone' /\ Schema!LoserHasWinner'
    BY <1>10, <2>1 DEF Schema!Commit, Schema!EndTransaction, Alone, Schema!LoserHasWinner
  <2> QED  BY <1>0, <2>1, <2>2, <2>3, <2>4
<1>11. CASE Schema!Ready(s)
  <2>1. StageInv(s)' /\ TransactionInv(s)'
    BY <1>11 DEF Schema!Ready, Schema!Goto, StageInv, TransactionInv
  <2> QED  BY <1>2, <1>11, <2>1 DEF Schema!Ready, Schema!Goto, Alone, Schema!LoserHasWinner
<1>12. CASE Schema!Fail(s)
  <2>1. StageInv(s)' /\ TransactionInv(s)'
    BY <1>12 DEF Schema!Fail, Schema!Goto, StageInv, TransactionInv, Schema!Visible
  <2> QED  BY <1>2, <1>12, <2>1 DEF Schema!Fail, Schema!Goto, Alone, Schema!LoserHasWinner
<1>13. CASE Schema!Rollback(s)
  <2>1. StageInv(s)' /\ TransactionInv(s)'
    BY <1>13 DEF Schema!Rollback, Schema!EndTransaction, StageInv, TransactionInv
  <2> QED  BY <1>2, <1>13, <2>1
              DEF Schema!Rollback, Schema!EndTransaction, Alone, Schema!LoserHasWinner
<1> QED
  BY <1>3, <1>4, <1>5, <1>6, <1>7, <1>8, <1>9, <1>10, <1>11, <1>12, <1>13
     DEF Schema!Migrate

(***************************************************************************)
(* The inductive invariant, of any number of starts.                       *)
(***************************************************************************)
THEOREM SchemaInvariant == Schema!Spec => []SchemaInv
  BY InitSchema, StepKeeps, PTL DEF Schema!Spec

-----------------------------------------------------------------------------
\* Accounts.

States == {"none", "insert", "late", "issue", "done"}

\* No two rows agree in a key.
Unique ==
  \A q, r \in Requests :
    Users!Registered(q) /\ Users!Registered(r) /\ q # r =>
      /\ form[q].nickname.word # form[r].nickname.word
      /\ form[q].email.word # form[r].email.word
      /\ form[q].google # form[r].google

\* Whether a registration has its row, by where it is.
Progress ==
  \A r \in Requests :
    /\ state[r] \in {"none", "insert", "late"} => ~Users!Registered(r)
    /\ state[r] = "issue" => Users!Registered(r)
    /\ state[r] # "done" => answer[r] \in {"none", "internal_error"}
    /\ answer[r] = "session" => Users!Registered(r)
    /\ Users!Registered(r) => answer[r] \in {"none", "session", "internal_error"}

\* An answer that names a key names one that somebody else has.
Taken ==
  \A r \in Requests :
    /\ answer[r] = "nickname" => \E q \in Requests \ {r} :
         Users!Registered(q) /\ form[q].nickname.word = form[r].nickname.word
    /\ answer[r] = "email" => \E q \in Requests \ {r} :
         Users!Registered(q) /\ form[q].email.word = form[r].email.word
    /\ answer[r] = "google" => \E q \in Requests \ {r} :
         Users!Registered(q) /\ form[q].google = form[r].google

AccountInv ==
  /\ users \subseteq {Users!User(r) : r \in Requests} /\ IsFiniteSet(users)
  /\ state \in [Requests -> States]
  /\ form \in [Requests -> Forms]
  /\ answer \in [Requests -> Users!Keys \cup {"none", "session", "validation_error",
                   "invalid_google_token", "internal_error"}]
  /\ Unique /\ Progress /\ Taken

-----------------------------------------------------------------------------

\* What normalising leaves of a text.
LEMMA NormalForm ==
  ASSUME NEW text \in Users!Text
  PROVE  /\ Users!lowered(Users!trimmed(text)) =
              [word |-> text.word, upper |-> FALSE, padded |-> FALSE]
         /\ Users!lowered(Users!trimmed(text)) \in Users!Text
<1>1. text.word \in Words /\ text.upper \in BOOLEAN /\ text.padded \in BOOLEAN
      /\ text = [word |-> text.word, upper |-> text.upper, padded |-> text.padded]
  BY DEF Users!Text
<1>2. Users!trimmed(text) = [word |-> text.word, upper |-> text.upper, padded |-> FALSE]
  <2>1. Users!trimmed(text) = [text EXCEPT !.padded = FALSE]
    BY DEF Users!trimmed
  <2> QED  BY <1>1, <2>1
<1>3. Users!lowered(Users!trimmed(text)) = [word |-> text.word, upper |-> FALSE, padded |-> FALSE]
  <2> HIDE DEF Users!trimmed
  <2>1. Users!lowered(Users!trimmed(text)) = [Users!trimmed(text) EXCEPT !.upper = FALSE]
    BY DEF Users!lowered
  <2>2. [Users!trimmed(text) EXCEPT !.upper = FALSE]
          = [[word |-> text.word, upper |-> text.upper, padded |-> FALSE] EXCEPT !.upper = FALSE]
    BY <1>2
  <2> QED  BY <2>1, <2>2
<1>4. [word |-> text.word, upper |-> FALSE, padded |-> FALSE] \in Users!Text
  BY <1>1 DEF Users!Text
<1> QED  BY <1>3, <1>4

\* Two texts have the same normal form when they are the same word.
LEMMA SameWord ==
  ASSUME NEW a \in Users!Text, NEW b \in Users!Text
  PROVE  Users!lowered(Users!trimmed(a)) = Users!lowered(Users!trimmed(b)) <=> a.word = b.word
<1>1. [word |-> a.word, upper |-> FALSE, padded |-> FALSE]
        = [word |-> b.word, upper |-> FALSE, padded |-> FALSE] <=> a.word = b.word
  OBVIOUS
<1> QED  BY <1>1, NormalForm

\* What a form consists of.
LEMMA FormType ==
  ASSUME Users!FormsOK, form \in [Requests -> Forms], NEW r \in Requests
  PROVE  /\ form[r] \in Forms
         /\ form[r].nickname \in Users!Text /\ form[r].email \in Users!Text
         /\ form[r].google \in GoogleAccounts
  BY DEF Users!FormsOK

\* Two rows agree in a key when what was submitted is the same word.
LEMMA RowsAgree ==
  ASSUME Users!FormsOK, form \in [Requests -> Forms], NEW q \in Requests, NEW r \in Requests
  PROVE  /\ Users!User(q).nickname = Users!User(r).nickname <=>
              form[q].nickname.word = form[r].nickname.word
         /\ Users!User(q).email = Users!User(r).email <=> form[q].email.word = form[r].email.word
         /\ Users!User(q).google = Users!User(r).google <=> form[q].google = form[r].google
         /\ Users!User(r).id = r
<1>1. Users!User(r).nickname = Users!lowered(Users!trimmed(form[r].nickname))
      /\ Users!User(q).nickname = Users!lowered(Users!trimmed(form[q].nickname))
  BY DEF Users!User, Users!normalizeNickname
<1>2. Users!User(r).email = Users!lowered(Users!trimmed(form[r].email))
      /\ Users!User(q).email = Users!lowered(Users!trimmed(form[q].email))
  BY DEF Users!User, Users!normalizeEmail
<1>3. /\ form[r].nickname \in Users!Text /\ form[q].nickname \in Users!Text
      /\ form[r].email \in Users!Text /\ form[q].email \in Users!Text
  BY FormType
<1>4. /\ Users!User(q).nickname = Users!User(r).nickname <=>
           form[q].nickname.word = form[r].nickname.word
      /\ Users!User(q).email = Users!User(r).email <=> form[q].email.word = form[r].email.word
  BY <1>1, <1>2, <1>3, SameWord
<1>5. /\ Users!User(r).google = form[r].google /\ Users!User(q).google = form[q].google
      /\ Users!User(r).id = r
  BY DEF Users!User
<1> QED  BY <1>4, <1>5

\* A user is a registration that has its row.
LEMMA UsersAreRegistered ==
  ASSUME Users!FormsOK, AccountInv, NEW u \in users
  PROVE  u.id \in Requests /\ u = Users!User(u.id) /\ Users!Registered(u.id)
<1>1. PICK r \in Requests : u = Users!User(r)
  BY DEF AccountInv
<1>2. u.id = r
  BY <1>1, RowsAgree DEF AccountInv
<1> QED  BY <1>1, <1>2 DEF Users!Registered

\* A key that a new row has in common with others names one of them.
LEMMA ConflictsAre ==
  ASSUME Users!FormsOK, AccountInv, NEW r \in Requests
  PROVE  /\ "nickname" \in Users!Conflicts(Users!User(r)) <=> \E q \in Requests :
              Users!Registered(q) /\ form[q].nickname.word = form[r].nickname.word
         /\ "email" \in Users!Conflicts(Users!User(r)) <=> \E q \in Requests :
              Users!Registered(q) /\ form[q].email.word = form[r].email.word
         /\ "google" \in Users!Conflicts(Users!User(r)) <=> \E q \in Requests :
              Users!Registered(q) /\ form[q].google = form[r].google
         /\ Users!Conflicts(Users!User(r)) \subseteq Users!Keys
<1>1. form \in [Requests -> Forms]
  BY DEF AccountInv
<1>2. \A key \in Users!Keys : key \in Users!Conflicts(Users!User(r)) <=>
        \E q \in Requests : Users!Registered(q) /\ Users!User(q)[key] = Users!User(r)[key]
  BY UsersAreRegistered DEF Users!Conflicts, Users!Registered
<1>3. "nickname" \in Users!Keys /\ "email" \in Users!Keys /\ "google" \in Users!Keys
  BY DEF Users!Keys
<1>4. \A q \in Requests :
        /\ Users!User(q)["nickname"] = Users!User(r)["nickname"] <=>
             form[q].nickname.word = form[r].nickname.word
        /\ Users!User(q)["email"] = Users!User(r)["email"] <=>
             form[q].email.word = form[r].email.word
        /\ Users!User(q)["google"] = Users!User(r)["google"] <=> form[q].google = form[r].google
  BY <1>1, RowsAgree
<1> QED  BY <1>2, <1>3, <1>4 DEF Users!Conflicts

\* The invariant of the registrations holds of an empty table.
LEMMA AccountInvInit == Users!Init => AccountInv
  BY FS_EmptySet
     DEF Users!Init, AccountInv, States, Unique, Progress, Taken, Users!Registered

-----------------------------------------------------------------------------

\* A step that leaves the rows alone.
LEMMA SameRows ==
  ASSUME AccountInv, users' = users, form' = form
  PROVE  /\ Unique'
         /\ \A r \in Requests : Users!Registered(r)' <=> Users!Registered(r)
         /\ \A r \in Requests : Users!User(r)' = Users!User(r)
<1>1. \A r \in Requests : Users!User(r)' = Users!User(r)
  BY DEF Users!User
<1>2. \A r \in Requests : Users!Registered(r)' <=> Users!Registered(r)
  BY <1>1 DEF Users!Registered
<1> QED  BY <1>1, <1>2 DEF AccountInv, Unique

\* The INSERT of a row that violates no constraint.
LEMMA NewRow ==
  ASSUME Users!FormsOK, AccountInv, NEW r \in Requests, Users!Conflicts(Users!User(r)) = {},
         users' = users \cup {Users!User(r)}, form' = form
  PROVE  /\ Unique'
         /\ \A q \in Requests : Users!Registered(q)' <=> Users!Registered(q) \/ q = r
         /\ \A q \in Requests : Users!User(q)' = Users!User(q)
<1>1. \A q \in Requests : Users!User(q)' = Users!User(q)
  BY DEF Users!User
<1>2. \A q \in Requests : Users!Registered(q)' <=> Users!Registered(q) \/ q = r
  BY <1>1, RowsAgree DEF Users!Registered, AccountInv
<1>3. \A q \in Requests :
        Users!Registered(q) => /\ form[q].nickname.word # form[r].nickname.word
                         /\ form[q].email.word # form[r].email.word
                         /\ form[q].google # form[r].google
  BY ConflictsAre
<1>4. Unique'
  BY <1>2, <1>3 DEF Unique, AccountInv
<1> QED  BY <1>1, <1>2, <1>4

\* Every step of a registration keeps it.
LEMMA AccountInvStep ==
  ASSUME Users!FormsOK, AccountInv, [Users!Next]_(Users!accountVars)
  PROVE  AccountInv'
<1> USE DEF Users!Finish
<1>1. CASE users' = users /\ form' = form /\ state' = state /\ answer' = answer
  BY <1>1, SameRows DEF AccountInv, Progress, Taken
<1> SUFFICES ASSUME NEW r \in Requests, Users!Register(r) PROVE AccountInv'
  BY <1>1 DEF Users!Next, Users!CheckNickname, Users!accountVars
<1>2. form' = form /\ form' \in [Requests -> Forms]
  BY
     DEF Users!Register, Users!Submit, Users!CreateUser, Users!issueSession, Users!Lose,
         AccountInv
<1>3. ASSUME users' = users, NEW label \in States, NEW message,
             state' = [state EXCEPT ![r] = label],
             answer' = answer \/ answer' = [answer EXCEPT ![r] = message],
             message \in {"session", "validation_error", "invalid_google_token", "internal_error"},
             label \in {"none", "insert", "late"} => ~Users!Registered(r),
             label = "issue" => Users!Registered(r),
             label # "done" => answer'[r] \in {"none", "internal_error"},
             answer'[r] = "session" => Users!Registered(r),
             Users!Registered(r) => answer'[r] \in {"none", "session", "internal_error"}
      PROVE  AccountInv'
  <2>1. Unique' /\ \A q \in Requests : Users!Registered(q)' <=> Users!Registered(q)
    BY <1>2, <1>3, SameRows
  <2>2. users' \subseteq {Users!User(q)' : q \in Requests} /\ IsFiniteSet(users')
    BY <1>2, <1>3, SameRows DEF AccountInv
  <2>3. state' \in [Requests -> States]
    BY <1>3 DEF AccountInv
  <2>4. answer' \in [Requests -> Users!Keys \cup {"none", "session", "validation_error",
                        "invalid_google_token", "internal_error"}]
    BY <1>3 DEF AccountInv
  <2>5. Progress'
    BY <1>3, <2>1 DEF AccountInv, Progress
  <2>6. Taken'
    BY <1>2, <1>3, <2>1 DEF AccountInv, Taken
  <2> QED  BY <1>2, <2>1, <2>2, <2>3, <2>4, <2>5, <2>6 DEF AccountInv
<1>4. CASE Users!Submit(r)
  BY <1>4, <1>3 DEF Users!Submit, AccountInv, Progress, States
<1>5. CASE Users!issueSession(r)
  BY <1>5, <1>3 DEF Users!issueSession, AccountInv, Progress, States
<1>6. CASE Users!Lose(r)
  BY <1>6, <1>3 DEF Users!Lose, AccountInv, Progress, States
<1>7. CASE Users!CreateUser(r)
  <2> DEFINE taken == Users!Conflicts(Users!User(r))
  <2>1. ~Users!Registered(r)
    BY <1>7 DEF Users!CreateUser, AccountInv, Progress
  <2>2. CASE taken = {}
    <3>1. users' = users \cup {Users!User(r)}
      BY <1>7, <2>2 DEF Users!CreateUser
    <3>2. \/ /\ state[r] = "insert" /\ state' = [state EXCEPT ![r] = "issue"]
             /\ answer' = answer
          \/ /\ state[r] = "late" /\ state' = [state EXCEPT ![r] = "done"]
             /\ answer' = [answer EXCEPT ![r] = "internal_error"]
      BY <1>7, <2>2 DEF Users!CreateUser
    <3>3. /\ Unique' /\ \A q \in Requests : Users!Registered(q)' <=> Users!Registered(q) \/ q = r
          /\ \A q \in Requests : Users!User(q)' = Users!User(q)
      BY <1>2, <2>2, <3>1, NewRow
    <3>4. users' \subseteq {Users!User(q)' : q \in Requests}
      BY <3>1, <3>3 DEF AccountInv
    <3>5. IsFiniteSet(users')
      BY <3>1, FS_AddElement DEF AccountInv
    <3>6. Progress'
      BY <3>2, <3>3 DEF AccountInv, Progress, States
    <3>7. Taken'
      BY <1>2, <3>2, <3>3 DEF AccountInv, Taken
    <3>8. state' \in [Requests -> States]
      BY <3>2 DEF AccountInv, States
    <3>9. answer' \in [Requests -> Users!Keys \cup {"none", "session", "validation_error",
                          "invalid_google_token", "internal_error"}]
      BY <3>2 DEF AccountInv
    <3> QED  BY <1>2, <3>3, <3>4, <3>5, <3>6, <3>7, <3>8, <3>9 DEF AccountInv
  <2>3. CASE taken # {}
    <3>1. users' = users
      BY <1>7, <2>3 DEF Users!CreateUser
    <3>2. CASE state[r] = "late"
      <4>1. state' = [state EXCEPT ![r] = "done"]
            /\ answer' = [answer EXCEPT ![r] = "internal_error"]
        BY <1>7, <3>2 DEF Users!CreateUser
      <4>2. answer'[r] = "internal_error"
        BY <4>1 DEF AccountInv
      <4> QED  BY <1>3, <2>1, <3>1, <4>1, <4>2 DEF States
    <3>3. CASE state[r] = "insert"
      <4>1. PICK key \in taken : Users!Finish(r, key)
        BY <1>7, <2>3, <3>3 DEF Users!CreateUser
      <4>2. key \in Users!Keys
        BY <4>1, ConflictsAre
      <4>3. /\ Unique' /\ \A q \in Requests : Users!Registered(q)' <=> Users!Registered(q)
            /\ \A q \in Requests : Users!User(q)' = Users!User(q)
        BY <1>2, <3>1, SameRows
      <4>4. users' \subseteq {Users!User(q)' : q \in Requests} /\ IsFiniteSet(users')
        BY <3>1, <4>3 DEF AccountInv
      <4>5. state' \in [Requests -> States]
        BY <4>1 DEF AccountInv, States
      <4>6. answer' \in [Requests -> Users!Keys \cup {"none", "session", "validation_error",
                            "invalid_google_token", "internal_error"}]
        BY <4>1, <4>2 DEF AccountInv
      <4>7. Progress'
        BY <2>1, <4>1, <4>2, <4>3 DEF AccountInv, Progress, Users!Keys, States
      <4>8. /\ key = "nickname" => \E q \in Requests \ {r} :
                 Users!Registered(q) /\ form[q].nickname.word = form[r].nickname.word
            /\ key = "email" => \E q \in Requests \ {r} :
                 Users!Registered(q) /\ form[q].email.word = form[r].email.word
            /\ key = "google" => \E q \in Requests \ {r} :
                 Users!Registered(q) /\ form[q].google = form[r].google
        BY <2>1, <4>1, ConflictsAre
      <4>9. Taken'
        BY <1>2, <4>1, <4>3, <4>8 DEF AccountInv, Taken
      <4> QED  BY <1>2, <4>3, <4>4, <4>5, <4>6, <4>7, <4>9 DEF AccountInv
    <3> QED  BY <1>7, <3>2, <3>3 DEF Users!CreateUser
  <2> QED  BY <2>2, <2>3
<1> QED  BY <1>4, <1>5, <1>6, <1>7 DEF Users!Register

(***************************************************************************)
(* The inductive invariant, of any number of registrations.                *)
(***************************************************************************)
THEOREM AccountInvariant == Users!Spec => []AccountInv
<1>1. AccountInv /\ [Users!Next]_(Users!accountVars) => AccountInv'
  BY FormsAssumption, AccountInvStep
<1> QED  BY <1>1, AccountInvInit, PTL DEF Users!Spec

-----------------------------------------------------------------------------

\* It makes every answer true.
LEMMA InvGivesAnswers ==
  ASSUME Users!FormsOK, AccountInv
  PROVE  Users!AnswersAreTrue
<1> SUFFICES ASSUME NEW r \in Requests
             PROVE
      /\ answer[r] = "session" => Users!Registered(r)
      /\ Users!Registered(r) =>
           /\ answer[r] \in {"none", "session", "internal_error"}
           /\ \A text \in Users!Text :
                text.word = form[r].email.word => Users!GetUserByEmail(text) = {Users!User(r)}
      /\ answer[r] \in Users!Keys =>
           \E q \in Requests \ {r} :
             /\ Users!Registered(q)
             /\ CASE answer[r] = "nickname" -> form[q].nickname.word = form[r].nickname.word
                  [] answer[r] = "email" -> form[q].email.word = form[r].email.word
                  [] answer[r] = "google" -> form[q].google = form[r].google
  BY DEF Users!AnswersAreTrue
<1>1. /\ answer[r] = "session" => Users!Registered(r)
      /\ Users!Registered(r) => answer[r] \in {"none", "session", "internal_error"}
  BY DEF AccountInv, Progress
<1>2. ASSUME Users!Registered(r), NEW text \in Users!Text, text.word = form[r].email.word
      PROVE  Users!GetUserByEmail(text) = {Users!User(r)}
  <2>1. form \in [Requests -> Forms]
    BY DEF AccountInv
  <2>2. \A q \in Requests : Users!User(q).email = Users!normalizeEmail(form[q].email)
    BY DEF Users!User
  <2>3. Users!normalizeEmail(text) = Users!User(r).email
    BY <1>2, <2>1, <2>2, FormType, SameWord DEF Users!normalizeEmail
  <2>4. Users!User(r) \in users
    BY <1>2 DEF Users!Registered
  <2>5. ASSUME NEW u \in users, u.email = Users!User(r).email PROVE u = Users!User(r)
    <3>1. u.id \in Requests /\ u = Users!User(u.id) /\ Users!Registered(u.id)
      BY UsersAreRegistered
    <3>2. form[u.id].email.word = form[r].email.word
      BY <2>1, <2>5, <3>1, RowsAgree
    <3>3. u.id = r
      BY <1>2, <3>1, <3>2 DEF AccountInv, Unique
    <3> QED  BY <3>1, <3>3
  <2> QED  BY <2>3, <2>4, <2>5 DEF Users!GetUserByEmail
<1>3. ASSUME answer[r] \in Users!Keys
      PROVE  \E q \in Requests \ {r} :
               /\ Users!Registered(q)
               /\ CASE answer[r] = "nickname" -> form[q].nickname.word = form[r].nickname.word
                    [] answer[r] = "email" -> form[q].email.word = form[r].email.word
                    [] answer[r] = "google" -> form[q].google = form[r].google
  <2>1. CASE answer[r] = "nickname"
    BY <2>1 DEF AccountInv, Taken
  <2>2. CASE answer[r] = "email"
    BY <2>2 DEF AccountInv, Taken
  <2>3. CASE answer[r] = "google"
    BY <2>3 DEF AccountInv, Taken
  <2> QED  BY <1>3, <2>1, <2>2, <2>3 DEF Users!Keys
<1> QED  BY <1>1, <1>2, <1>3

-----------------------------------------------------------------------------

\* The account of a registration, as the registry sees it.
Account(r) == [id |-> r, nickname |-> form[r].nickname.word,
               email |-> form[r].email.word, google |-> form[r].google]

AllAccounts == {[id |-> u.id, nickname |-> form[u.id].nickname.word,
              email |-> form[u.id].email.word, google |-> u.google] : u \in users}

\* The accounts of the registry, one for each row.
LEMMA AccountsAre ==
  ASSUME Users!FormsOK, AccountInv
  PROVE  AllAccounts = {Account(r) : r \in {q \in Requests : Users!Registered(q)}}
<1>1. \A u \in users : u.id \in Requests /\ Users!Registered(u.id) /\ u.google = form[u.id].google
  BY UsersAreRegistered DEF Users!User
<1>2. \A r \in Requests : Users!Registered(r) => Users!User(r) \in users /\ Users!User(r).id = r
                                          /\ Users!User(r).google = form[r].google
  BY DEF Users!Registered, Users!User
<1> QED  BY <1>1, <1>2 DEF AllAccounts, Account

\* Every step adds an account that differs in every key, or none.
LEMMA RegistryStep ==
  ASSUME Users!FormsOK, AccountInv, AccountInv', [Users!Next]_(Users!accountVars)
  PROVE  AllAccounts' = AllAccounts \/ \E account \in Registry!Account :
           /\ \A other \in AllAccounts : Registry!Differ(account, other)
           /\ AllAccounts' = AllAccounts \cup {account}
<1>1. CASE users' = users /\ form' = form
  BY <1>1 DEF AllAccounts
<1> SUFFICES ASSUME NEW r \in Requests, Users!CreateUser(r), Users!Conflicts(Users!User(r)) = {}
             PROVE  \E account \in Registry!Account :
                      /\ \A other \in AllAccounts : Registry!Differ(account, other)
                      /\ AllAccounts' = AllAccounts \cup {account}
  BY <1>1
     DEF Users!Next, Users!Register, Users!Submit, Users!CreateUser, Users!issueSession,
         Users!Lose, Users!CheckNickname,
              Users!accountVars
<1>2. users' = users \cup {Users!User(r)} /\ form' = form /\ form \in [Requests -> Forms]
  BY DEF Users!CreateUser, AccountInv
<1>3. ~Users!Registered(r)
  BY DEF Users!CreateUser, AccountInv, Progress
<1>4. Account(r) \in Registry!Account
  BY <1>2, FormType DEF Account, Registry!Account, Users!Text
<1>5. AllAccounts' = AllAccounts \cup {Account(r)}
  <2>1. Users!User(r).id = r /\ Users!User(r).google = form[r].google
    BY DEF Users!User
  <2> QED  BY <1>2, <2>1 DEF AllAccounts, Account
<1>6. ASSUME NEW other \in AllAccounts PROVE Registry!Differ(Account(r), other)
  <2>1. PICK q \in Requests : Users!Registered(q) /\ other = Account(q)
    BY <1>6, AccountsAre
  <2>2. q # r
    BY <1>3, <2>1
  <2>3. /\ form[q].nickname.word # form[r].nickname.word
        /\ form[q].email.word # form[r].email.word
        /\ form[q].google # form[r].google
    BY <2>1, ConflictsAre
  <2> QED  BY <2>1, <2>2, <2>3 DEF Account, Registry!Differ, Registry!Keys
<1> QED  BY <1>4, <1>5, <1>6

-----------------------------------------------------------------------------

Holders(word) == {u \in users : form[u.id].nickname.word = word}

\* What a check said, and when.
CheckInv ==
  checked # Users!NoCheck =>
    /\ checked \in [nickname : Users!Nicknames, said : {"free", "taken"}, when : Nat]
    /\ checked.when \in Nat /\ checked.when <= Cardinality(users)
    /\ checked.said = "taken" => Holders(checked.nickname.word) # {}
    /\ checked.said = "free" /\ Holders(checked.nickname.word) # {} =>
         Cardinality(users) > checked.when

\* The check of a nickname finds those who have the same word.
LEMMA AvailableIs ==
  ASSUME Users!FormsOK, AccountInv, NEW n \in Users!Text
  PROVE  Users!IsNicknameAvailable(n) <=> Holders(n.word) = {}
<1>1. \A u \in users : u.nickname = Users!lowered(Users!trimmed(form[u.id].nickname))
                      /\ form[u.id].nickname \in Users!Text
  <2> SUFFICES ASSUME NEW u \in users
               PROVE  u.nickname = Users!lowered(Users!trimmed(form[u.id].nickname))
                      /\ form[u.id].nickname \in Users!Text
    OBVIOUS
  <2>1. u.id \in Requests /\ u = Users!User(u.id)
    BY UsersAreRegistered
  <2>2. Users!User(u.id).nickname = Users!lowered(Users!trimmed(form[u.id].nickname))
    BY DEF Users!User, Users!normalizeNickname
  <2> QED  BY <2>1, <2>2, FormType DEF AccountInv
<1>2. \A u \in users :
        u.nickname = Users!lowered(Users!trimmed(n)) <=> form[u.id].nickname.word = n.word
  BY <1>1, SameWord
<1> QED  BY <1>2 DEF Users!IsNicknameAvailable, Users!normalizeNickname, Holders

\* The instance of FiniteSets in Accounts counts as this module's does.
LEMMA SameCount == Users!Cardinality(users) = Cardinality(users)
  BY Zenon DEF Users!Cardinality, Cardinality

\* Every step keeps what the latest check has counted.
LEMMA CheckInvStep ==
  ASSUME Users!FormsOK, AccountInv, CheckInv, [Users!Next]_(Users!accountVars)
  PROVE  CheckInv'
<1> DEFINE size == Cardinality(users)
<1>0. size \in Nat
  BY FS_CardinalityType DEF AccountInv
<1>1. CASE users' = users /\ form' = form /\ checked' = checked
  BY <1>1 DEF CheckInv, Holders
<1>2. ASSUME NEW n \in Users!Nicknames, Users!CheckNickname(n) PROVE CheckInv'
  <2>1. n \in Users!Text
    BY DEF Users!Nicknames, Users!FormsOK
  <2>2. users' = users /\ form' = form
    BY <1>2 DEF Users!CheckNickname
  <2>3. checked' = [nickname |-> n,
                    said |-> IF Users!IsNicknameAvailable(n) THEN "free" ELSE "taken",
                    when |-> size]
    BY <1>2, SameCount DEF Users!CheckNickname
  <2>4. checked' \in [nickname : Users!Nicknames, said : {"free", "taken"}, when : Nat]
    BY <1>0, <2>3
  <2>5. /\ checked'.said = "taken" => Holders(n.word) # {}
        /\ checked'.said = "free" => Holders(n.word) = {}
    BY <2>1, <2>3, AvailableIs
  <2>6. checked'.nickname = n /\ checked'.when = size
    BY <2>3
  <2> QED  BY <1>0, <2>2, <2>4, <2>5, <2>6 DEF CheckInv, Holders
<1>3. ASSUME NEW r \in Requests, Users!CreateUser(r), Users!Conflicts(Users!User(r)) = {}
      PROVE  CheckInv'
  <2>1. /\ users' = users \cup {Users!User(r)} /\ Users!User(r) \notin users
        /\ form' = form /\ checked' = checked
    BY <1>3 DEF Users!CreateUser, AccountInv, Progress, Users!Registered
  <2>2. Cardinality(users') = size + 1
    BY <2>1, FS_AddElement DEF AccountInv
  <2>3. checked # Users!NoCheck =>
          Holders(checked.nickname.word) \subseteq Holders(checked.nickname.word)'
    BY <2>1 DEF Holders
  <2> QED  BY <1>0, <2>1, <2>2, <2>3 DEF CheckInv
<1> QED
  BY <1>1, <1>2, <1>3
     DEF Users!Next, Users!Register, Users!Submit, Users!CreateUser, Users!issueSession,
         Users!Lose, Users!accountVars

(***************************************************************************)
(* What the latest check said, of any number of registrations.             *)
(***************************************************************************)
THEOREM CheckInvariant == Users!Spec => []CheckInv
<1>1. Users!Init => CheckInv
  BY DEF Users!Init, CheckInv
<1>2. AccountInv /\ CheckInv /\ [Users!Next]_(Users!accountVars) => CheckInv'
  BY FormsAssumption, CheckInvStep
<1> QED  BY <1>1, <1>2, AccountInvariant, PTL DEF Users!Spec

-----------------------------------------------------------------------------
\* The composition.

(***************************************************************************)
(* The types of both parts.                                                *)
(***************************************************************************)
THEOREM TypeCorrect == Spec => []TypeOK
<1>1. SchemaInv => Schema!TypeOK
  BY DEF SchemaInv
<1>2. AccountInv /\ CheckInv => Users!TypeOK
  BY DEF AccountInv, States, CheckInv, Users!TypeOK
<1> QED
  BY <1>1, <1>2, KeepsMigrations, KeepsAccounts, SchemaInvariant, AccountInvariant,
     CheckInvariant, PTL DEF TypeOK

(***************************************************************************)
(* While any number of programs start, and serve any number of             *)
(* registrations, the schema is one of its versions, whole.                *)
(***************************************************************************)
THEOREM ServedSchemaIsWhole == Spec => []WholeVersions
<1>1. SchemaInv => WholeVersions
  BY VersionsAre DEF SchemaInv, WholeVersions, Schema!WholeVersions, StageInv
<1> QED  BY <1>1, KeepsMigrations, SchemaInvariant, PTL

(***************************************************************************)
(* A start that one of its statements ended leaves an up-to-date schema,   *)
(* also while registrations are served.                                    *)
(***************************************************************************)
THEOREM ServedRaceHasWinner == Spec => []LoserHasWinner
<1>1. SchemaInv => LoserHasWinner
  BY DEF SchemaInv, LoserHasWinner
<1> QED  BY <1>1, KeepsMigrations, SchemaInvariant, PTL

(***************************************************************************)
(* Every answer to a registration is true, however many programs serve it  *)
(* and migrate meanwhile.                                                  *)
(***************************************************************************)
THEOREM ServedAnswersAreTrue == Spec => []AnswersAreTrue
<1>1. AccountInv => AnswersAreTrue
  BY FormsAssumption, InvGivesAnswers DEF AnswersAreTrue
<1> QED  BY <1>1, KeepsAccounts, AccountInvariant, PTL

(***************************************************************************)
(* The check of a nickname agrees with the registrations, however many     *)
(* programs serve both and migrate meanwhile.                              *)
(***************************************************************************)
THEOREM ServedChecksAreTrue == Spec => []CheckAgrees
<1>1. CheckInv => CheckAgrees
  BY SameCount DEF CheckInv, CheckAgrees, Users!CheckAgrees, Holders
<1> QED  BY <1>1, KeepsAccounts, CheckInvariant, PTL

(***************************************************************************)
(* The table implements the registry: names, emails and Google accounts    *)
(* are each given once, whatever number of registrations, in whatever      *)
(* spelling, the programs serve while others migrate.                      *)
(***************************************************************************)
THEOREM ImplementsRegistry == Spec => RegistrySpec
<1>1. Users!Init => Registry!Init
  BY DEF Users!Init, Registry!Init
<1>2. AccountInv /\ AccountInv' /\ [Users!Next]_(Users!accountVars)
        => [Registry!Next]_AllAccounts
  BY FormsAssumption, RegistryStep DEF Registry!Next, Registry!Add, AllAccounts
<1> QED  BY <1>1, <1>2, KeepsAccounts, AccountInvariant, PTL
            DEF Users!Spec, RegistrySpec, Registry!Spec, AllAccounts
=============================================================================
