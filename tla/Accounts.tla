------------------------------ MODULE Accounts ------------------------------
(***************************************************************************)
(* Registration: Register and CheckNickname of auth/service.go, CreateUser *)
(* and IsNicknameAvailable of auth/postgres.go, validation.go, and their   *)
(* handlers in server/auth_http.go.                                        *)
(*                                                                         *)
(* A registration normalises and validates its form, has Google verify the *)
(* account, inserts the row and issues a session.  Only the INSERT decides *)
(* whether the nickname, the email and the Google account are free: the    *)
(* check of a nickname that the form makes while the user types is a       *)
(* separate request, and any number of registrations run in between.       *)
(*                                                                         *)
(* A registration may fail at any point after its INSERT was committed as  *)
(* well: its context's twenty seconds are over, or a connection is lost.   *)
(* The user is told of an internal error and may try again, which is       *)
(* another request.                                                        *)
(***************************************************************************)
EXTENDS Naturals, FiniteSets

CONSTANTS
  Requests,               \* registrations, each of them one request
  Words,                  \* nicknames and emails up to case and blanks ...
  ValidWords,             \* ... and those that the rules accept
  GoogleAccounts,
  Forms                   \* what registrations submit

\* Text as it was typed: with an upper-case letter, or blanks around it (and,
\* for an email, a display name).
Text == [word : Words, upper : BOOLEAN, padded : BOOLEAN]

FormsOK == Forms \subseteq [nickname : Text, email : Text, google : GoogleAccounts]

\* The spellings that are checked.
Nicknames == {f.nickname : f \in Forms}

NoCheck == [said |-> "nothing"]

VARIABLES
  users,                  \* the rows of auth_users
  state,                  \* where each registration is
  form,                   \* what it has submitted
  answer,                 \* what it was answered
  checked                 \* history: the latest check of a nickname, what it
                          \* said and how many users there were

accountVars == <<users, state, form, answer, checked>>

Keys == {"nickname", "email", "google"}

trimmed(text) == [text EXCEPT !.padded = FALSE]
lowered(text) == [text EXCEPT !.upper = FALSE]

\* Mutant: the nickname's case is kept in the normalised name.
normalizeNickname_KeepCase(text) ==
  [display |-> trimmed(text), normalized |-> trimmed(text)]

normalizeNickname(text) ==
  [display |-> trimmed(text), normalized |-> lowered(trimmed(text))]

\* Mutant: the address is not lowered.
normalizeEmail_KeepCase(text) == trimmed(text)

normalizeEmail(text) == lowered(trimmed(text))

\* The row of a registration; its id is a new UUID.
User(r) ==
  [id |-> r,
   nickname |-> normalizeNickname(form[r].nickname).normalized,
   display |-> normalizeNickname(form[r].nickname).display,
   email |-> normalizeEmail(form[r].email),
   google |-> form[r].google]

\* The keys of a row that rows of the table have.
Conflicts(row) == {key \in Keys : \E u \in users : u[key] = row[key]}

Init ==
  /\ users = {}
  /\ state = [r \in Requests |-> "none"]
  /\ form \in [Requests -> Forms]
  /\ answer = [r \in Requests |-> "none"]
  /\ checked = NoCheck

Finish(r, message) ==
  /\ state' = [state EXCEPT ![r] = "done"]
  /\ answer' = [answer EXCEPT ![r] = message]

-----------------------------------------------------------------------------
\* Register.

\* The nickname, the email and the password are validated, and Google verifies
\* the token; nothing of this is shared with other requests.
Submit(r) ==
  /\ state[r] = "none"
  /\ IF {form[r].nickname.word, form[r].email.word} \subseteq ValidWords
     THEN \/ state' = [state EXCEPT ![r] = "insert"] /\ UNCHANGED answer
          \/ Finish(r, "invalid_google_token")
     ELSE Finish(r, "validation_error")
  /\ UNCHANGED <<users, form, checked>>

\* Mutant: the email is stored as it was typed.
CreateUser_EmailAsTyped(r) ==
  /\ state[r] = "insert"
  /\ IF Conflicts(User(r)) = {}
     THEN /\ users' = users \cup {[User(r) EXCEPT !.email = form[r].email]}
          /\ state' = [state EXCEPT ![r] = "issue"]
          /\ UNCHANGED answer
     ELSE /\ \E key \in Conflicts(User(r)) : Finish(r, key)
          /\ UNCHANGED users
  /\ UNCHANGED <<form, checked>>

\* The INSERT is executed; of several constraints that it violates, any may be
\* reported.  When nobody waits for it any more it takes effect all the same.
CreateUser(r) ==
  /\ state[r] \in {"insert", "late"}
  /\ LET taken == Conflicts(User(r)) IN
       /\ users' = IF taken = {} THEN users \cup {User(r)} ELSE users
       /\ \/ /\ state[r] = "insert" /\ taken = {}
             /\ state' = [state EXCEPT ![r] = "issue"]
             /\ UNCHANGED answer
          \/ /\ state[r] = "insert"
             /\ \E key \in taken : Finish(r, key)
          \/ /\ state[r] = "late"
             /\ Finish(r, "internal_error")
  /\ UNCHANGED <<form, checked>>

issueSession(r) ==
  /\ state[r] = "issue"
  /\ Finish(r, "session")
  /\ UNCHANGED <<users, form, checked>>

\* The context's time is over or a connection is lost, before or after the
\* row is there, or while the database is still busy with it.
Lose(r) ==
  /\ state[r] \in {"insert", "issue"}
  /\ \/ Finish(r, "internal_error")
     \/ /\ state[r] = "insert"
        /\ state' = [state EXCEPT ![r] = "late"]
        /\ answer' = [answer EXCEPT ![r] = "internal_error"]
  /\ UNCHANGED <<users, form, checked>>

-----------------------------------------------------------------------------
\* CheckNickname.

\* Mutant: the name is looked up as it was typed.
IsNicknameAvailable_AsTyped(n) ==
  \A u \in users : u.nickname # normalizeNickname(n).display

IsNicknameAvailable(n) ==
  \A u \in users : u.nickname # normalizeNickname(n).normalized

CheckNickname(n) ==
  /\ n.word \in ValidWords
  /\ checked' = [nickname |-> n,
                  said |-> IF IsNicknameAvailable(n) THEN "free" ELSE "taken",
                  when |-> Cardinality(users)]
  /\ UNCHANGED <<users, state, form, answer>>

-----------------------------------------------------------------------------

Register(r) ==
  Submit(r) \/ CreateUser(r) \/ issueSession(r) \/ Lose(r)

Next ==
  \/ \E r \in Requests : Register(r)
  \/ \E n \in Nicknames : CheckNickname(n)

Spec == Init /\ [][Next]_accountVars

-----------------------------------------------------------------------------

TypeOK ==
  /\ users \subseteq {User(r) : r \in Requests}
  /\ state \in [Requests -> {"none", "insert", "late", "issue", "done"}]
  /\ form \in [Requests -> Forms]
  /\ answer \in [Requests -> Keys \cup {"none", "session", "validation_error",
                   "invalid_google_token", "internal_error"}]
  /\ checked \in {NoCheck} \cup [nickname : Nicknames, said : {"free", "taken"},
                                when : Nat]

Registered(r) == User(r) \in users

\* The rows that StartLogin finds for an email, however it was typed.
GetUserByEmail(text) == {u \in users : u.email = normalizeEmail(text)}

(***************************************************************************)
(* The answer to a registration is true, and stays true.  A session means  *)
(* that the account is there, and that a login finds it, and it alone, by  *)
(* the email in any spelling.  "Taken" means that another registration has *)
(* what the form asked for, and that this one has made no account.  Only   *)
(* an internal error leaves it open whether the account was made.          *)
(***************************************************************************)
AnswersAreTrue ==
  \A r \in Requests :
    /\ answer[r] = "session" => Registered(r)
    /\ Registered(r) =>
         /\ answer[r] \in {"none", "session", "internal_error"}
         /\ \A text \in Text :
              text.word = form[r].email.word => GetUserByEmail(text) = {User(r)}
    /\ answer[r] \in Keys =>
         \E q \in Requests \ {r} :
           /\ Registered(q)
           /\ CASE answer[r] = "nickname" -> form[q].nickname.word = form[r].nickname.word
                [] answer[r] = "email" -> form[q].email.word = form[r].email.word
                [] answer[r] = "google" -> form[q].google = form[r].google

(***************************************************************************)
(* The check of a nickname and the registration agree on what a nickname   *)
(* is: one that was called taken, in whatever spelling, is never given to  *)
(* anybody any more, and one that was called free has not been given to    *)
(* anybody unless an account has been made since.                          *)
(***************************************************************************)
CheckAgrees ==
  checked # NoCheck =>
    LET holders == {u \in users : form[u.id].nickname.word = checked.nickname.word} IN
    /\ checked.said = "taken" => holders # {}
    /\ checked.said = "free" /\ holders # {} => Cardinality(users) > checked.when
=============================================================================
