----------------------------- MODULE AuthLogin -----------------------------
(***************************************************************************)
(* auth/service.go, auth/challenges.go, auth/jwt.go: login in two steps.   *)
(*                                                                         *)
(* StartLogin checks the password and creates a challenge.  CompleteLogin  *)
(* consumes the challenge, loads its user, has Google verify an ID token,  *)
(* compares the Google account with the user's and issues a session whose  *)
(* access token is a signed JWT.  RestoreSession and the websocket's       *)
(* authentication accept such a token later.                               *)
(*                                                                         *)
(* HTTP requests run concurrently, one goroutine each; `req' holds what    *)
(* each is doing.  The challenge store's mutex makes Create and Consume    *)
(* one step each; the database, Google and the clock may take any time     *)
(* between the others.  A step that fails answers the request with an      *)
(* error.  Challenges live in the process: a restart forgets them and the  *)
(* requests, while the tokens, held by clients, remain valid.              *)
(*                                                                         *)
(* Time is counted in ticks, TicksPerSecond to a second, since a JWT only  *)
(* carries whole seconds while the server's times do not.                  *)
(***************************************************************************)
EXTENDS Integers, Sequences

CONSTANTS
  Users, NoUser,
  Requests,          \* requests that may be in progress at a time
  Challenges,        \* the challenge identifiers randomToken may return
  NoChallenge,
  TicksPerSecond,
  ChallengeTTL,      \* cfg.LoginChallengeTTL, in ticks
  TokenTTL,          \* cfg.AccessTokenTTL, in ticks
  MaxTime,           \* bound: the clock stops here
  MaxRestarts        \* bound: restarts of the server

ASSUME UsersAssumption == NoUser \notin Users
ASSUME ChallengesAssumption == NoChallenge \notin Challenges
ASSUME TicksAssumption == TicksPerSecond \in Nat \ {0}
ASSUME TTLAssumption == ChallengeTTL \in Nat \ {0} /\ TokenTTL \in Nat \ {0}
ASSUME BoundsAssumption == MaxTime \in Nat /\ MaxRestarts \in Nat

VARIABLES
  now,               \* time.Now()
  items,             \* challengeStore.items, a set of challenges
  req,               \* what each request is doing
  sessions,          \* sessions issued so far; a token's jti is its index
  granted, consumed, \* history: the challenges ever created, and consumed
  logins,            \* history: the login behind each session
  boots              \* history: how often the server has restarted

vars == <<now, items, req, sessions, granted, consumed, logins, boots>>

challenge == [id : Challenges, user : Users, expires : Nat]

request == [pc : {"idle", "verified", "consumed", "loaded", "matched"},
            user : Users \cup {NoUser}, account : Users \cup {NoUser},
            challenge : Challenges \cup {NoChallenge}]

\* What a request that has got as far as pc knows.
Knowing(pc, user, account, id) ==
  [pc |-> pc, user |-> user, account |-> account, challenge |-> id]

idle == Knowing("idle", NoUser, NoUser, NoChallenge)

\* Mutant: the date is rounded up.
NewNumericDate_Up(t) == t + TicksPerSecond - (t % TicksPerSecond)

\* jwt.NumericDate keeps whole seconds.
NewNumericDate(t) == t - (t % TicksPerSecond)

\* Mutant: cleanupLocked removes nothing.
Cleaned_Nothing(set) == set

\* What remains of a set of challenges after cleanupLocked.
Cleaned(set) == {item \in set : ~(now > item.expires)}

Init ==
  /\ now = 0
  /\ items = {}
  /\ req = [r \in Requests |-> idle]
  /\ sessions = << >>
  /\ granted = {} /\ consumed = {} /\ logins = << >> /\ boots = 0

Reply(r) == req' = [req EXCEPT ![r] = idle]

\* StartLogin: the user was found and the password is right.  (Any other
\* outcome answers the request and changes nothing.)
StartLogin(r, u) ==
  /\ req[r].pc = "idle"
  /\ req' = [req EXCEPT ![r] = Knowing("verified", u, NoUser, NoChallenge)]
  /\ UNCHANGED <<now, items, sessions, granted, consumed, logins, boots>>

\* challengeStore.Create with an identifier never returned before.
Create(r, id) ==
  /\ req[r].pc = "verified"
  /\ \A g \in granted : g.id # id
  /\ items' = Cleaned(items) \cup
       {[id |-> id, user |-> req[r].user, expires |-> now + ChallengeTTL]}
  /\ granted' = granted \cup
       {[id |-> id, user |-> req[r].user, at |-> now, boot |-> boots]}
  /\ Reply(r)
  /\ UNCHANGED <<now, sessions, consumed, logins, boots>>

\* randomToken fails: the store has been cleaned up all the same.
CreateFails(r) ==
  /\ req[r].pc = "verified"
  /\ items' = Cleaned(items)
  /\ Reply(r)
  /\ UNCHANGED <<now, sessions, granted, consumed, logins, boots>>

-----------------------------------------------------------------------------

Consumed(r, id, u) ==
  [req EXCEPT ![r] = Knowing("consumed", u, NoUser, id)]

\* Mutant: the challenge found is not deleted.
Consume_Keep(r, id) ==
  LET found == {item \in Cleaned(items) : item.id = id} IN
  /\ req[r].pc = "idle"
  /\ items' = Cleaned(items)
  /\ \/ \E item \in found :
          /\ ~(now > item.expires)
          /\ req' = Consumed(r, id, item.user)
          /\ consumed' = consumed \cup {id}
     \/ /\ \A item \in found : now > item.expires
        /\ Reply(r)
        /\ UNCHANGED consumed
  /\ UNCHANGED <<now, sessions, granted, logins, boots>>

\* Mutant: an expired challenge is neither cleaned up nor refused.
Consume_Expired(r, id) ==
  LET found == {item \in items : item.id = id} IN
  /\ req[r].pc = "idle"
  /\ items' = items \ found
  /\ \/ \E item \in found :
          /\ req' = Consumed(r, id, item.user)
          /\ consumed' = consumed \cup {id}
     \/ found = {} /\ Reply(r) /\ UNCHANGED consumed
  /\ UNCHANGED <<now, sessions, granted, logins, boots>>

\* Mutant: a challenge that is not found is taken for the zero challenge.
Consume_Zero(r, id) ==
  LET found == {item \in Cleaned(items) : item.id = id} IN
  /\ req[r].pc = "idle"
  /\ items' = Cleaned(items) \ found
  /\ req' = Consumed(r, id, IF found = {} THEN NoUser
                            ELSE (CHOOSE item \in found : TRUE).user)
  /\ consumed' = consumed \cup {id}
  /\ UNCHANGED <<now, sessions, granted, logins, boots>>

\* CompleteLogin up to and including challengeStore.Consume: the challenge
\* is deleted whatever becomes of the request.
Consume(r, id) ==
  LET found == {item \in Cleaned(items) : item.id = id} IN
  /\ req[r].pc = "idle"
  /\ items' = Cleaned(items) \ found
  /\ \/ \E item \in found :
          /\ ~(now > item.expires)
          /\ req' = Consumed(r, id, item.user)
          /\ consumed' = consumed \cup {id}
     \/ /\ \A item \in found : now > item.expires
        /\ Reply(r)
        /\ UNCHANGED consumed
  /\ UNCHANGED <<now, sessions, granted, logins, boots>>

\* store.GetUserByID.
LoadUser(r) ==
  /\ req[r].pc = "consumed"
  /\ req' = [req EXCEPT
       ![r] = Knowing("loaded", @.user, NoUser, @.challenge)]
  /\ UNCHANGED <<now, items, sessions, granted, consumed, logins, boots>>

Matched(r, account) ==
  [req EXCEPT ![r] = Knowing("matched", @.user, account, @.challenge)]

\* Mutant: any Google account will do.
VerifyGoogle_AnyAccount(r, account) ==
  /\ req[r].pc = "loaded"
  /\ req' = Matched(r, account)
  /\ UNCHANGED <<now, items, sessions, granted, consumed, logins, boots>>

\* google.Verify accepts the ID token and returns the account linked to
\* `account' (NoUser: a Google account linked to nobody);
\* verifyGoogleMatchesUser compares it with the user's.
VerifyGoogle(r, account) ==
  /\ req[r].pc = "loaded"
  /\ IF account = req[r].user
     THEN req' = Matched(r, account)
     ELSE Reply(r)
  /\ UNCHANGED <<now, items, sessions, granted, consumed, logins, boots>>

\* issueSession.
Issue(r) ==
  /\ req[r].pc = "matched"
  /\ sessions' = Append(sessions,
       [user |-> req[r].user,
        nbf |-> NewNumericDate(now),
        exp |-> NewNumericDate(now + TokenTTL),
        expiresAt |-> now + TokenTTL])
  /\ logins' = Append(logins,
       [challenge |-> req[r].challenge, account |-> req[r].account,
        at |-> now, boot |-> boots])
  /\ Reply(r)
  /\ UNCHANGED <<now, items, granted, consumed, boots>>

\* The database, Google, randomToken or the signature fails, or the request
\* is cancelled; the challenge stays consumed.
Fail(r) ==
  /\ req[r].pc \in {"consumed", "loaded", "matched"}
  /\ Reply(r)
  /\ UNCHANGED <<now, items, sessions, granted, consumed, logins, boots>>

-----------------------------------------------------------------------------

Tick ==
  /\ now < MaxTime
  /\ now' = now + 1
  /\ UNCHANGED <<items, req, sessions, granted, consumed, logins, boots>>

\* Mutant: challenges survive a restart.
Restart_KeepItems ==
  /\ boots < MaxRestarts
  /\ boots' = boots + 1
  /\ req' = [r \in Requests |-> idle]
  /\ UNCHANGED <<now, items, sessions, granted, consumed, logins>>

\* The process ends and starts again with an empty challenge store.
Restart ==
  /\ boots < MaxRestarts
  /\ boots' = boots + 1
  /\ items' = {}
  /\ req' = [r \in Requests |-> idle]
  /\ UNCHANGED <<now, sessions, granted, consumed, logins>>

\* tokenManager.Parse, and with it RestoreSession and AuthenticateWebSocket:
\* the library wants nbf <= now < exp.
Parse(session) == session.nbf <= now /\ now < session.exp

Handler(r) ==
  \/ \E u \in Users : StartLogin(r, u)
  \/ \E id \in Challenges : Create(r, id) \/ Consume(r, id)
  \/ CreateFails(r)
  \/ LoadUser(r)
  \/ \E account \in Users \cup {NoUser} : VerifyGoogle(r, account)
  \/ Issue(r)
  \/ Fail(r)

Next ==
  \/ \E r \in Requests : Handler(r)
  \/ Tick
  \/ Restart

Spec == Init /\ [][Next]_vars

-----------------------------------------------------------------------------

\* The request has consumed its challenge.
InLogin(r) == req[r].pc \in {"consumed", "loaded", "matched"}

TypeOK ==
  /\ now \in Nat
  /\ items \subseteq challenge
  /\ req \in [Requests -> request]
  /\ \A r \in Requests : req[r].pc # "idle" => req[r].user \in Users
  /\ \A r \in Requests : InLogin(r) => req[r].challenge \in Challenges
  /\ sessions \in Seq([user : Users, nbf : Int, exp : Int, expiresAt : Nat])
  /\ granted \subseteq [id : Challenges, user : Users, at : Nat, boot : Nat]
  /\ consumed \subseteq Challenges
  /\ logins \in Seq([challenge : Challenges, account : Users \cup {NoUser},
                      at : Nat, boot : Nat])
  /\ boots \in Nat
  /\ Len(logins) = Len(sessions)

(***************************************************************************)
(* A challenge buys at most one session, however many requests present it, *)
(* at once or one after the other: challengeStore.Consume deletes it in    *)
(* the critical section that finds it, before the slow steps follow.       *)
(***************************************************************************)
SingleUse ==
  \A i, j \in DOMAIN logins :
    logins[i].challenge = logins[j].challenge => i = j

(***************************************************************************)
(* Every session was paid for with both factors of the same user: the      *)
(* password of that user created the challenge, and the Google account     *)
(* presented with it is the one linked to that user.                       *)
(***************************************************************************)
BothFactors ==
  \A i \in DOMAIN sessions :
    /\ \E g \in granted : /\ g.id = logins[i].challenge
                          /\ g.user = sessions[i].user
    /\ logins[i].account = sessions[i].user

\* A challenge with this identifier was created for this user.
Vouched(id, u) == \E g \in granted : g.id = id /\ g.user = u

\* Every challenge stored, consumed or behind a login can be traced back.
Traceable ==
  /\ \A item \in items : Vouched(item.id, item.user)
  /\ \A id \in consumed : \E g \in granted : g.id = id
  /\ \A i \in DOMAIN logins : logins[i].challenge \in consumed

\* What a request knows of the challenge that it has consumed.
Holding ==
  \A r \in Requests : InLogin(r) =>
    /\ req[r].challenge \in consumed
    /\ Vouched(req[r].challenge, req[r].user)
    /\ req[r].pc = "matched" => req[r].account = req[r].user

\* No challenge is at two places: the store, a request, a finished login.
OnePlace ==
  /\ \A item \in items : item.id \notin consumed
  /\ \A r, q \in Requests : InLogin(r) /\ InLogin(q) /\ r # q =>
       req[r].challenge # req[q].challenge
  /\ \A r \in Requests : InLogin(r) =>
       \A i \in DOMAIN logins : logins[i].challenge # req[r].challenge

(***************************************************************************)
(* The inductive invariant behind SingleUse and BothFactors: a challenge   *)
(* moves from the store to one request and from there to one login, and    *)
(* the user it was created for moves with it.                              *)
(***************************************************************************)
LoginInv == Traceable /\ Holding /\ OnePlace /\ SingleUse /\ BothFactors

(***************************************************************************)
(* Both steps of a login ran in the same process: a restart between them   *)
(* voids the challenge, and no session issued after the restart rests on   *)
(* a password that was checked before it.                                  *)
(***************************************************************************)
RestartVoidsLogin ==
  \A i \in DOMAIN logins : \A g \in granted :
    g.id = logins[i].challenge => g.boot = logins[i].boot

(***************************************************************************)
(* A token is accepted for its time to live, less than a second short of   *)
(* it because the JWT's dates are truncated, and never outside the time    *)
(* from its issue to the expires_at that came with it.                     *)
(***************************************************************************)
AcceptedAsAdvertised ==
  \A i \in DOMAIN sessions :
    /\ now < logins[i].at + TokenTTL - (TicksPerSecond - 1) => Parse(sessions[i])
    /\ Parse(sessions[i]) => now < sessions[i].expiresAt

(***************************************************************************)
(* The lazy cleanup is enough to bound the store: whenever an operation    *)
(* changes it, no challenge that has expired by then is left in it.        *)
(***************************************************************************)
NoExpiredLeftBehind ==
  [][items' # items => \A item \in items' : ~(now > item.expires)]_vars

(***************************************************************************)
(* The store, with its clock and its lazy cleanup, implements the promise  *)
(* of a one-time grant: a challenge is live from Create until the first of *)
(* its use, its expiry and a restart, and is used at most once, while live.*)
(***************************************************************************)
Grant == INSTANCE OneTimeGrant WITH
  Grants <- Challenges,
  given <- {g.id : g \in granted},
  live <- {item.id : item \in Cleaned(items)},
  used <- consumed

OneTimeGrantSpec == Grant!Spec
=============================================================================
