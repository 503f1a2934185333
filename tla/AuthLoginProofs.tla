-------------------------- MODULE AuthLoginProofs --------------------------
(***************************************************************************)
(* What holds of the login for every set of users, requests and            *)
(* challenges, all times to live and any number of restarts.               *)
(***************************************************************************)
EXTENDS AuthLogin, TLAPS

Session == [user : Users, nbf : Int, exp : Int, expiresAt : Nat]

Login == [challenge : Challenges, account : Users \cup {NoUser},
          at : Nat, boot : Nat]

Grants == [id : Challenges, user : Users, at : Nat, boot : Nat]

\* The session that Issue appends, and the login behind it.
Issued(r) == [user |-> req[r].user,
              nbf |-> NewNumericDate(now),
              exp |-> NewNumericDate(now + TokenTTL),
              expiresAt |-> now + TokenTTL]

Paid(r) == [challenge |-> req[r].challenge, account |-> req[r].account,
            at |-> now, boot |-> boots]

\* The dates of a token are whole numbers.
LEMMA NumericDateType == \A t \in Int : NewNumericDate(t) \in Int
  BY TicksAssumption DEF NewNumericDate

\* A request that has answered is idle.
LEMMA IdleType == idle \in request /\ idle.pc = "idle"
  BY DEF idle, Knowing, request

\* Issue appends one session and one login, and changes none before them.
LEMMA IssueAppends ==
  ASSUME TypeOK, NEW r \in Requests, Issue(r)
  PROVE  LET n == Len(logins) + 1 IN
         /\ sessions' \in Seq(Session) /\ logins' \in Seq(Login)
         /\ Len(logins') = Len(sessions')
         /\ DOMAIN logins = 1..(n - 1) /\ DOMAIN sessions = 1..(n - 1)
         /\ DOMAIN logins' = 1..n /\ DOMAIN sessions' = 1..n
         /\ \A i \in 1..(n - 1) : /\ logins'[i] = logins[i]
                                /\ sessions'[i] = sessions[i]
         /\ logins'[n] = Paid(r) /\ sessions'[n] = Issued(r)
<1>1. /\ req[r] \in request /\ req[r].user \in Users
      /\ req[r].challenge \in Challenges
  BY DEF Issue, TypeOK, InLogin
<1>2. Issued(r) \in Session
  BY <1>1, NumericDateType, TTLAssumption DEF Issued, Session, TypeOK
<1>3. Paid(r) \in Login
  BY <1>1 DEF Paid, Login, request, TypeOK
<1>4. sessions' = Append(sessions, Issued(r)) /\ logins' = Append(logins, Paid(r))
  BY DEF Issue, Issued, Paid
<1>5. /\ sessions \in Seq(Session) /\ logins \in Seq(Login)
      /\ Len(logins) = Len(sessions)
  BY DEF Session, Login, TypeOK
<1> HIDE DEF Issued, Paid, Session, Login
<1> QED
  BY <1>2, <1>3, <1>4, <1>5

(***************************************************************************)
(* The types of the login's state; in particular a request in progress     *)
(* always knows its user.                                                  *)
(***************************************************************************)
THEOREM LoginTypes == Spec => []TypeOK
<1>1. Init => TypeOK
  <2> SUFFICES ASSUME Init PROVE TypeOK
    OBVIOUS
  <2>1. \A r \in Requests : req[r] = idle
    BY DEF Init
  <2>2. \A r \in Requests : req[r].pc = "idle" /\ ~InLogin(r)
    BY <2>1, IdleType DEF InLogin
  <2>3. req \in [Requests -> request]
    BY IdleType DEF Init
  <2> QED  BY <2>2, <2>3 DEF Init, TypeOK
<1>2. TypeOK /\ [Next]_vars => TypeOK'
  <2> SUFFICES ASSUME TypeOK, [Next]_vars PROVE TypeOK'
    OBVIOUS
  <2> USE DEF TypeOK
  <2> DEFINE Requesting ==
               /\ req \in [Requests -> request]
               /\ \A q \in Requests : req[q].pc # "idle" => req[q].user \in Users
               /\ \A q \in Requests : InLogin(q) => req[q].challenge \in Challenges
  <2> USE DEF InLogin
  <2>1. ASSUME NEW r \in Requests, Reply(r) PROVE Requesting'
    BY <2>1, IdleType DEF Reply
  <2>2. ASSUME NEW r \in Requests, NEW u \in Users, StartLogin(r, u)
        PROVE  TypeOK'
    <3> DEFINE new == Knowing("verified", u, NoUser, NoChallenge)
    <3>1. new \in request /\ new.user = u /\ new.pc = "verified"
      BY DEF Knowing, request
    <3> HIDE DEF new
    <3>2. req' = [req EXCEPT ![r] = new]
      BY <2>2 DEF StartLogin, new
    <3>3. Requesting'
      BY <3>1, <3>2
    <3> QED  BY <2>2, <3>3 DEF StartLogin
  <2>3. ASSUME NEW r \in Requests, NEW id \in Challenges, Create(r, id)
        PROVE  TypeOK'
    <3>1. req[r].user \in Users
      BY <2>3 DEF Create
    <3>2. [id |-> id, user |-> req[r].user, expires |-> now + ChallengeTTL]
            \in challenge
      BY <3>1, TTLAssumption DEF challenge
    <3>3. items' \subseteq challenge
      BY <2>3, <3>2 DEF Create, Cleaned
    <3>4. Requesting'
      BY <2>1, <2>3 DEF Create
    <3> QED  BY <2>3, <3>1, <3>3, <3>4 DEF Create
  <2>4. ASSUME NEW r \in Requests, CreateFails(r) PROVE TypeOK'
    <3>1. Requesting'
      BY <2>1, <2>4 DEF CreateFails
    <3> QED  BY <2>4, <3>1 DEF CreateFails, Cleaned
  <2>5. ASSUME NEW r \in Requests, NEW id \in Challenges, Consume(r, id)
        PROVE  TypeOK'
    <3>1. items' \subseteq challenge /\ consumed' \subseteq Challenges
      BY <2>5 DEF Consume, Cleaned
    <3>2. ASSUME NEW item \in items, req' = Consumed(r, id, item.user)
          PROVE  Requesting'
      <4> DEFINE new == Knowing("consumed", item.user, NoUser, id)
      <4>1. item.user \in Users
        BY DEF challenge
      <4>2. new \in request /\ new.user \in Users /\ new.challenge = id
        BY <4>1 DEF Knowing, request
      <4> HIDE DEF new
      <4>3. req' = [req EXCEPT ![r] = new]
        BY <3>2 DEF Consumed, new
      <4> QED  BY <4>2, <4>3
    <3>3. Requesting'
      BY <2>1, <2>5, <3>2 DEF Consume, Cleaned
    <3> QED  BY <2>5, <3>1, <3>3 DEF Consume
  <2>6. ASSUME NEW r \in Requests, LoadUser(r) PROVE TypeOK'
    <3>1. Requesting'
      BY <2>6 DEF LoadUser, Knowing, request
    <3> QED  BY <2>6, <3>1 DEF LoadUser
  <2>7. ASSUME NEW r \in Requests, NEW account \in Users \cup {NoUser},
               VerifyGoogle(r, account)
        PROVE  TypeOK'
    <3>1. CASE req' = Matched(r, account)
      <4>1. Requesting'
        BY <2>7, <3>1 DEF VerifyGoogle, Matched, Knowing, request
      <4> QED  BY <2>7, <4>1 DEF VerifyGoogle
    <3>2. CASE Reply(r)
      BY <2>1, <2>7, <3>2 DEF VerifyGoogle
    <3> QED  BY <2>7, <3>1, <3>2 DEF VerifyGoogle
  <2>8. ASSUME NEW r \in Requests, Issue(r) PROVE TypeOK'
    <3>1. /\ sessions' \in Seq(Session) /\ logins' \in Seq(Login)
          /\ Len(logins') = Len(sessions')
      BY <2>8, IssueAppends
    <3>2. Requesting'
      BY <2>1, <2>8 DEF Issue
    <3> QED  BY <2>8, <3>1, <3>2 DEF Issue, Session, Login
  <2>9. ASSUME NEW r \in Requests, Fail(r) PROVE TypeOK'
    <3>1. Requesting'
      BY <2>1, <2>9 DEF Fail
    <3> QED  BY <2>9, <3>1 DEF Fail
  <2>10. CASE Tick
    BY <2>10 DEF Tick
  <2>11. CASE Restart
    BY <2>11, IdleType DEF Restart
  <2>12. CASE UNCHANGED vars
    BY <2>12 DEF vars
  <2> QED
    BY <2>2, <2>3, <2>4, <2>5, <2>6, <2>7, <2>8, <2>9, <2>10, <2>11, <2>12
    DEF Next, Handler
<1> QED
  BY <1>1, <1>2, PTL DEF Spec

-----------------------------------------------------------------------------

(***************************************************************************)
(* A step of one request that neither gives out nor consumes a challenge   *)
(* and finishes no login keeps the invariant, if the request either is out *)
(* of the login afterwards or goes on with the same challenge and user.    *)
(***************************************************************************)
LEMMA RequestStep ==
  ASSUME TypeOK, LoginInv,
         NEW r \in Requests, NEW new,
         req' = [req EXCEPT ![r] = new],
         items' \subseteq items,
         UNCHANGED <<granted, consumed, logins, sessions>>,
         new.pc \in {"consumed", "loaded", "matched"} =>
           /\ InLogin(r)
           /\ new.challenge = req[r].challenge
           /\ new.user = req[r].user
           /\ new.pc = "matched" => new.account = new.user
  PROVE  LoginInv'
<1> USE DEF LoginInv
<1>1. /\ req'[r] = new
      /\ \A q \in Requests : q # r => req'[q] = req[q]
  BY DEF TypeOK
<1>2. \A q \in Requests : InLogin(q)' =>
        /\ InLogin(q)
        /\ req'[q].challenge = req[q].challenge
        /\ req'[q].user = req[q].user
  BY <1>1 DEF InLogin
<1>3. Traceable'
  BY DEF Traceable, Vouched
<1>4. Holding'
  BY <1>1, <1>2 DEF Holding, Vouched, InLogin
<1>5. OnePlace'
  BY <1>2 DEF OnePlace
<1>6. SingleUse' /\ BothFactors'
  BY DEF SingleUse, BothFactors
<1> QED
  BY <1>3, <1>4, <1>5, <1>6

\* Create gives out a challenge that was at no place before.
LEMMA CreateStep ==
  ASSUME TypeOK, LoginInv,
         NEW r \in Requests, NEW id \in Challenges, Create(r, id)
  PROVE  LoginInv'
<1> USE DEF LoginInv
<1> DEFINE item0 == [id |-> id, user |-> req[r].user,
                     expires |-> now + ChallengeTTL]
           grant == [id |-> id, user |-> req[r].user, at |-> now, boot |-> boots]
<1>1. /\ items' \subseteq items \cup {item0}
      /\ granted' = granted \cup {grant}
      /\ req' = [req EXCEPT ![r] = idle]
      /\ UNCHANGED <<sessions, consumed, logins>>
      /\ \A g \in granted : g.id # id
  BY DEF Create, Cleaned, Reply
<1>2. item0.id = id /\ item0.user = grant.user /\ grant.id = id
  OBVIOUS
<1> HIDE DEF item0, grant
<1>3. \A c, u : Vouched(c, u) => Vouched(c, u)'
  BY <1>1 DEF Vouched
<1>4. \E g \in granted' : g.id = id /\ g.user = item0.user
  BY <1>1, <1>2
<1>5. \A q \in Requests : InLogin(q)' => InLogin(q) /\ req'[q] = req[q]
  BY <1>1, IdleType DEF TypeOK, InLogin
<1>6. id \notin consumed
  BY <1>1 DEF Traceable
<1>7. Traceable'
  <2>1. \A item \in items' : Vouched(item.id, item.user)'
    <3> SUFFICES ASSUME NEW item \in items'
                 PROVE  \E g \in granted' : g.id = item.id /\ g.user = item.user
      BY DEF Vouched
    <3>1. CASE item = item0
      BY <1>2, <1>4, <3>1
    <3>2. CASE item \in items
      BY <1>1, <3>2 DEF Traceable, Vouched
    <3> QED  BY <1>1, <3>1, <3>2
  <2> QED
    BY <1>1, <2>1 DEF Traceable
<1>8. Holding'
  BY <1>1, <1>3, <1>5 DEF Holding
<1>9. OnePlace'
  BY <1>1, <1>2, <1>5, <1>6 DEF OnePlace
<1>10. SingleUse' /\ BothFactors'
  BY <1>1 DEF SingleUse, BothFactors
<1> QED
  BY <1>7, <1>8, <1>9, <1>10

\* Consume moves a challenge from the store to the request.
LEMMA ConsumeStep ==
  ASSUME TypeOK, LoginInv,
         NEW r \in Requests, NEW id \in Challenges, Consume(r, id)
  PROVE  LoginInv'
<1> USE DEF LoginInv
<1>1. /\ items' \subseteq items
      /\ \A item \in items' : item.id # id
      /\ UNCHANGED <<sessions, granted, logins>>
  BY DEF Consume, Cleaned
<1>2. CASE Reply(r) /\ UNCHANGED consumed
  BY <1>1, <1>2, IdleType, RequestStep DEF Reply
<1>3. ASSUME NEW item \in items, item.id = id,
             req' = Consumed(r, id, item.user),
             consumed' = consumed \cup {id}
      PROVE  LoginInv'
  <2> DEFINE new == Knowing("consumed", item.user, NoUser, id)
  <2>1. new.pc = "consumed" /\ new.user = item.user /\ new.challenge = id
    BY DEF Knowing
  <2>2. req' = [req EXCEPT ![r] = new]
    BY <1>3 DEF Consumed
  <2> HIDE DEF new
  <2>3. /\ req'[r] = new
        /\ \A q \in Requests : q # r =>
             req'[q] = req[q] /\ (InLogin(q)' <=> InLogin(q))
    BY <2>2 DEF TypeOK, InLogin
  <2>4. Vouched(id, item.user) /\ id \notin consumed
    BY <1>3 DEF Traceable, OnePlace
  <2>5. Traceable'
    BY <1>1, <1>3, <2>4 DEF Traceable, Vouched
  <2>6. Holding'
    BY <1>1, <1>3, <2>1, <2>3, <2>4 DEF Holding, Vouched
  <2>7. \A q \in Requests : q # r /\ InLogin(q)' =>
          req'[q].challenge # req'[r].challenge
    BY <2>1, <2>3, <2>4 DEF Holding
  <2>8. \A i \in DOMAIN logins : logins[i].challenge # id
    BY <2>4 DEF Traceable
  <2>9. OnePlace'
    BY <1>1, <1>3, <2>1, <2>3, <2>7, <2>8 DEF OnePlace
  <2>10. SingleUse' /\ BothFactors'
    BY <1>1 DEF SingleUse, BothFactors
  <2> QED
    BY <2>5, <2>6, <2>9, <2>10
<1> QED
  BY <1>2, <1>3 DEF Consume, Cleaned

\* Issue moves a challenge from the request to a login.
LEMMA IssueStep ==
  ASSUME TypeOK, LoginInv, NEW r \in Requests, Issue(r)
  PROVE  LoginInv'
<1> USE DEF LoginInv
<1> DEFINE n == Len(logins) + 1
<1>1. /\ Issued(r).user = req[r].user
      /\ Paid(r).challenge = req[r].challenge
      /\ Paid(r).account = req[r].account
  BY DEF Issued, Paid
<1>2. /\ req' = [req EXCEPT ![r] = idle]
      /\ UNCHANGED <<items, granted, consumed>>
  BY DEF Issue, Reply
<1>3. /\ InLogin(r)
      /\ req[r].challenge \in consumed
      /\ Vouched(req[r].challenge, req[r].user)
      /\ req[r].account = req[r].user
  BY DEF Issue, InLogin, Holding
<1>4. /\ DOMAIN sessions' = DOMAIN logins' /\ DOMAIN sessions = DOMAIN logins
      /\ n \notin DOMAIN logins
      /\ DOMAIN logins' = DOMAIN logins \cup {n}
      /\ \A i \in DOMAIN logins : /\ logins'[i] = logins[i]
                                 /\ sessions'[i] = sessions[i]
      /\ logins'[n] = Paid(r) /\ sessions'[n] = Issued(r)
  <2>1. Len(logins) \in Nat
    BY DEF TypeOK
  <2>2. 1..n = 1..(n - 1) \cup {n} /\ n \notin 1..(n - 1)
    BY <2>1
  <2>3. /\ DOMAIN logins = 1..(n - 1) /\ DOMAIN sessions = 1..(n - 1)
        /\ DOMAIN logins' = 1..n /\ DOMAIN sessions' = 1..n
        /\ \A i \in 1..(n - 1) : /\ logins'[i] = logins[i]
                               /\ sessions'[i] = sessions[i]
        /\ logins'[n] = Paid(r) /\ sessions'[n] = Issued(r)
    BY IssueAppends
  <2> HIDE DEF n
  <2> QED
    BY <2>2, <2>3
<1> HIDE DEF n
<1>5. \A q \in Requests : InLogin(q)' => InLogin(q) /\ q # r /\ req'[q] = req[q]
  BY <1>2, IdleType DEF TypeOK, InLogin
<1>6. Traceable'
  BY <1>1, <1>2, <1>3, <1>4 DEF Traceable, Vouched
<1>7. Holding'
  BY <1>2, <1>5 DEF Holding, Vouched
<1>8. OnePlace'
  BY <1>1, <1>2, <1>3, <1>4, <1>5 DEF OnePlace
<1>9. SingleUse'
  BY <1>1, <1>3, <1>4 DEF SingleUse, OnePlace
<1>10. BothFactors'
  BY <1>1, <1>2, <1>3, <1>4 DEF BothFactors, Vouched
<1> QED
  BY <1>6, <1>7, <1>8, <1>9, <1>10

(***************************************************************************)
(* The inductive invariant holds in every reachable state.                 *)
(***************************************************************************)
THEOREM LoginInvariant == Spec => []LoginInv
<1>1. Init => LoginInv
  <2> SUFFICES ASSUME Init PROVE LoginInv
    OBVIOUS
  <2>1. \A r \in Requests : ~InLogin(r)
    BY IdleType DEF Init, InLogin
  <2>2. DOMAIN logins = {} /\ DOMAIN sessions = {}
    BY DEF Init
  <2> QED
    BY <2>1, <2>2 DEF Init, LoginInv, Traceable, Holding, OnePlace,
                      SingleUse, BothFactors
<1>2. TypeOK /\ LoginInv /\ [Next]_vars => LoginInv'
  <2> SUFFICES ASSUME TypeOK, LoginInv, [Next]_vars PROVE LoginInv'
    OBVIOUS
  <2>1. ASSUME NEW r \in Requests, NEW u \in Users, StartLogin(r, u)
        PROVE  LoginInv'
    <3>1. Knowing("verified", u, NoUser, NoChallenge).pc = "verified"
      BY DEF Knowing
    <3> QED  BY <2>1, <3>1, RequestStep DEF StartLogin
  <2>2. ASSUME NEW r \in Requests, NEW id \in Challenges,
               Create(r, id) \/ Consume(r, id)
        PROVE  LoginInv'
    BY <2>2, CreateStep, ConsumeStep
  <2>3. ASSUME NEW r \in Requests, CreateFails(r) \/ Fail(r)
        PROVE  LoginInv'
    <3>1. items' \subseteq items
      BY <2>3 DEF CreateFails, Fail, Cleaned
    <3> QED  BY <2>3, <3>1, IdleType, RequestStep DEF CreateFails, Fail, Reply
  <2>4. ASSUME NEW r \in Requests, LoadUser(r) PROVE LoginInv'
    <3> DEFINE new == Knowing("loaded", req[r].user, NoUser, req[r].challenge)
    <3>1. /\ new.pc = "loaded" /\ new.user = req[r].user
          /\ new.challenge = req[r].challenge
      BY DEF Knowing
    <3>2. InLogin(r) /\ req' = [req EXCEPT ![r] = new]
      BY <2>4 DEF LoadUser, InLogin, TypeOK
    <3> HIDE DEF new
    <3> QED  BY <2>4, <3>1, <3>2, RequestStep DEF LoadUser
  <2>5. ASSUME NEW r \in Requests, NEW account \in Users \cup {NoUser},
               VerifyGoogle(r, account)
        PROVE  LoginInv'
    <3>1. CASE account = req[r].user /\ req' = Matched(r, account)
      <4> DEFINE new == Knowing("matched", req[r].user, account, req[r].challenge)
      <4>1. /\ new.user = req[r].user /\ new.account = account
            /\ new.challenge = req[r].challenge
        BY DEF Knowing
      <4>2. InLogin(r) /\ req' = [req EXCEPT ![r] = new]
        BY <2>5, <3>1 DEF VerifyGoogle, Matched, InLogin, TypeOK
      <4> HIDE DEF new
      <4> QED  BY <2>5, <3>1, <4>1, <4>2, RequestStep DEF VerifyGoogle
    <3>2. CASE Reply(r)
      BY <2>5, <3>2, IdleType, RequestStep DEF VerifyGoogle, Reply
    <3> QED  BY <2>5, <3>1, <3>2 DEF VerifyGoogle
  <2>6. ASSUME NEW r \in Requests, Issue(r) PROVE LoginInv'
    BY <2>6, IssueStep
  <2>7. CASE Tick \/ UNCHANGED vars
    BY <2>7 DEF Tick, vars, LoginInv, Traceable, Holding, OnePlace, SingleUse,
                BothFactors, Vouched, InLogin
  <2>8. CASE Restart
    <3>1. \A r \in Requests : ~InLogin(r)'
      BY <2>8, IdleType DEF Restart, InLogin
    <3> QED
      BY <2>8, <3>1 DEF Restart, LoginInv, Traceable, Holding, OnePlace,
                        SingleUse, BothFactors, Vouched
  <2> QED
    BY <2>1, <2>2, <2>3, <2>4, <2>5, <2>6, <2>7, <2>8 DEF Next, Handler
<1> QED
  BY <1>1, <1>2, LoginTypes, PTL DEF Spec

(***************************************************************************)
(* However many requests present a challenge, and however they interleave, *)
(* it buys at most one session.                                            *)
(***************************************************************************)
THEOREM ChallengesAreSingleUse == Spec => []SingleUse
<1>1. LoginInv => SingleUse
  BY DEF LoginInv
<1> QED
  BY <1>1, LoginInvariant, PTL

(***************************************************************************)
(* Every session ever issued rests on the password and on the Google       *)
(* account of the user it is for.                                          *)
(***************************************************************************)
THEOREM SessionsNeedBothFactors == Spec => []BothFactors
<1>1. LoginInv => BothFactors
  BY DEF LoginInv
<1> QED
  BY <1>1, LoginInvariant, PTL

-----------------------------------------------------------------------------

\* The refinement mapping: the grants given out, and those still live.
Given == {g.id : g \in granted}

Live == {item.id : item \in Cleaned(items)}

\* What the clock, the lazy cleanup and the restart do to the live grants.
LEMMA LiveAfterStep ==
  /\ UNCHANGED <<now, items>> => UNCHANGED Live
  /\ items' = Cleaned(items) /\ UNCHANGED now => UNCHANGED Live
  /\ TypeOK /\ Tick => Live' \subseteq Live
  /\ Restart => Live' = {}
<1>1. UNCHANGED <<now, items>> => UNCHANGED Live
  BY DEF Live, Cleaned
<1>2. items' = Cleaned(items) /\ UNCHANGED now => UNCHANGED Live
  BY DEF Live, Cleaned
<1>3. TypeOK /\ Tick => Live' \subseteq Live
  BY DEF Live, Cleaned, Tick, TypeOK, challenge
<1>4. Restart => Live' = {}
  BY DEF Live, Cleaned, Restart
<1> QED
  BY <1>1, <1>2, <1>3, <1>4

\* Create gives out a grant.
LEMMA CreateGives ==
  ASSUME TypeOK, NEW r \in Requests, NEW id \in Challenges, Create(r, id)
  PROVE  Grant!Give(id)
<1> DEFINE item0 == [id |-> id, user |-> req[r].user,
                     expires |-> now + ChallengeTTL]
           grant == [id |-> id, user |-> req[r].user, at |-> now, boot |-> boots]
<1>1. /\ items' = Cleaned(items) \cup {item0}
      /\ granted' = granted \cup {grant}
      /\ UNCHANGED <<now, consumed>>
      /\ \A g \in granted : g.id # id
  BY DEF Create
<1>2. item0.id = id /\ grant.id = id /\ ~(now > item0.expires)
  BY TTLAssumption DEF TypeOK
<1> HIDE DEF item0, grant
<1>3. id \notin Given /\ Given' = Given \cup {id}
  BY <1>1, <1>2 DEF Given
<1>4. Live' = Live \cup {id}
  BY <1>1, <1>2 DEF Live, Cleaned
<1> QED
  BY <1>1, <1>3, <1>4 DEF Grant!Give, Given, Live

\* Consume uses a live grant, or changes nothing.
LEMMA ConsumeUses ==
  ASSUME TypeOK, NEW r \in Requests, NEW id \in Challenges, Consume(r, id)
  PROVE  Grant!Use(id) \/ UNCHANGED <<Given, Live, consumed>>
<1>1. UNCHANGED <<now, granted>> /\ UNCHANGED Given
  BY DEF Consume, Given
<1>2. Live' = Live \ {id}
  BY DEF Consume, Live, Cleaned
<1>3. CASE id \in Live /\ consumed' = consumed \cup {id}
  BY <1>1, <1>2, <1>3 DEF Grant!Use, Given, Live
<1>4. CASE id \notin Live /\ UNCHANGED consumed
  BY <1>1, <1>2, <1>4
<1> QED
  BY <1>3, <1>4 DEF Consume, Live, Cleaned

(***************************************************************************)
(* The challenge store with its clock, its lazy cleanup and its restarts   *)
(* keeps the promise of a one-time grant.                                  *)
(***************************************************************************)
THEOREM ImplementsOneTimeGrant == Spec => OneTimeGrantSpec
<1>1. Init => Grant!Init
  BY DEF Init, Grant!Init, Cleaned
<1>2. TypeOK /\ [Next]_vars => [Grant!Next]_(Grant!grantVars)
  <2> SUFFICES ASSUME TypeOK, [Next]_vars
               PROVE  [Grant!Next]_(Grant!grantVars)
    OBVIOUS
  <2>1. ASSUME UNCHANGED <<Given, Live, consumed>>
        PROVE  UNCHANGED Grant!grantVars
    BY <2>1 DEF Grant!grantVars, Given, Live
  <2>2. ASSUME UNCHANGED <<granted, consumed>>, Live' \subseteq Live
        PROVE  Grant!Lapse
    BY <2>2 DEF Grant!Lapse, Live
  <2>3. ASSUME NEW r \in Requests, NEW id \in Challenges, Create(r, id)
        PROVE  Grant!Next
    BY <2>3, CreateGives DEF Grant!Next
  <2>4. ASSUME NEW r \in Requests, NEW id \in Challenges, Consume(r, id)
        PROVE  [Grant!Next]_(Grant!grantVars)
    BY <2>1, <2>4, ConsumeUses DEF Grant!Next
  <2>5. ASSUME NEW r \in Requests, CreateFails(r)
        PROVE  UNCHANGED Grant!grantVars
    BY <2>1, <2>5, LiveAfterStep DEF CreateFails, Given
  <2>6. ASSUME UNCHANGED <<now, items, granted, consumed>>
        PROVE  UNCHANGED Grant!grantVars
    BY <2>1, <2>6, LiveAfterStep DEF Given
  <2>7. ASSUME NEW r \in Requests, NEW u \in Users, StartLogin(r, u)
        PROVE  UNCHANGED Grant!grantVars
    BY <2>6, <2>7 DEF StartLogin
  <2>8. ASSUME NEW r \in Requests, LoadUser(r) \/ Issue(r) \/ Fail(r)
        PROVE  UNCHANGED Grant!grantVars
    BY <2>6, <2>8 DEF LoadUser, Issue, Fail
  <2>9. ASSUME NEW r \in Requests, NEW account \in Users \cup {NoUser},
               VerifyGoogle(r, account)
        PROVE  UNCHANGED Grant!grantVars
    BY <2>6, <2>9 DEF VerifyGoogle
  <2>10. CASE Tick \/ Restart
    <3>1. UNCHANGED <<granted, consumed>> /\ Live' \subseteq Live
      BY <2>10, LiveAfterStep DEF Tick, Restart
    <3> QED  BY <2>2, <3>1 DEF Grant!Next
  <2>11. CASE UNCHANGED vars
    BY <2>6, <2>11 DEF vars
  <2> QED
    BY <2>3, <2>4, <2>5, <2>7, <2>8, <2>9, <2>10, <2>11 DEF Next, Handler
<1> QED
  BY <1>1, <1>2, LoginTypes, PTL DEF Spec, OneTimeGrantSpec, Grant!Spec

(***************************************************************************)
(* Whenever Create, Consume or a restart changes the challenge store, no   *)
(* challenge that has expired by then is left in it.                       *)
(***************************************************************************)
THEOREM CleanupLeavesNoExpired == Spec => NoExpiredLeftBehind
<1> DEFINE Clean == \A item \in items' : ~(now > item.expires)
<1>1. TypeOK /\ [Next]_vars => [items' # items => Clean]_vars
  <2> SUFFICES ASSUME TypeOK, Next, items' # items PROVE Clean
    OBVIOUS
  <2>1. ASSUME NEW r \in Requests, NEW id \in Challenges, Create(r, id)
        PROVE  Clean
    BY <2>1, TTLAssumption DEF Create, Cleaned, TypeOK
  <2>2. ASSUME NEW r \in Requests, NEW id \in Challenges, Consume(r, id)
        PROVE  Clean
    BY <2>2 DEF Consume, Cleaned
  <2>3. ASSUME NEW r \in Requests, CreateFails(r)
        PROVE  Clean
    BY <2>3 DEF CreateFails, Cleaned
  <2>4. CASE Restart
    BY <2>4 DEF Restart
  <2> QED
    BY <2>1, <2>2, <2>3, <2>4 DEF Next, Handler, StartLogin, LoadUser, VerifyGoogle,
                            Issue, Fail, Tick
<1> QED
  BY <1>1, LoginTypes, PTL DEF Spec, NoExpiredLeftBehind

-----------------------------------------------------------------------------

(***************************************************************************)
(* What is still under way belongs to this run of the process: a challenge *)
(* in the store, or one that a request has consumed, was created in it.    *)
(***************************************************************************)
BootInv ==
  /\ \A item \in items, g \in granted : g.id = item.id => g.boot = boots
  /\ \A r \in Requests : InLogin(r) =>
       \A g \in granted : g.id = req[r].challenge => g.boot = boots
  /\ RestartVoidsLogin

\* The dates of a session are those of its login, truncated.
DatesInv ==
  \A i \in DOMAIN sessions :
    /\ logins[i].at \in Nat /\ logins[i].at <= now
    /\ sessions[i].nbf = NewNumericDate(logins[i].at)
    /\ sessions[i].exp = NewNumericDate(logins[i].at + TokenTTL)
    /\ sessions[i].expiresAt = logins[i].at + TokenTTL

\* A truncated date is less than a second early.
LEMMA NumericDateBounds ==
  ASSUME NEW t \in Int
  PROVE  /\ NewNumericDate(t) <= t
         /\ t - (TicksPerSecond - 1) <= NewNumericDate(t)
<1>1. t % TicksPerSecond \in 0 .. TicksPerSecond - 1
  BY TicksAssumption
<1> QED  BY <1>1, TicksAssumption DEF NewNumericDate

\* Issue appends a session and its login.
LEMMA IssueExtends ==
  ASSUME TypeOK, NEW r \in Requests, Issue(r)
  PROVE  \E n \in Nat :
         /\ DOMAIN sessions' = DOMAIN logins' /\ DOMAIN sessions = DOMAIN logins
         /\ DOMAIN logins' = DOMAIN logins \cup {n}
         /\ \A i \in DOMAIN logins : /\ logins'[i] = logins[i]
                                    /\ sessions'[i] = sessions[i]
         /\ logins'[n] = Paid(r) /\ sessions'[n] = Issued(r)
<1> DEFINE n == Len(logins) + 1
<1>1. Len(logins) \in Nat
  BY DEF TypeOK
<1>2. 1..n = 1..(n - 1) \cup {n} /\ n \in Nat
  BY <1>1
<1>3. /\ DOMAIN logins = 1..(n - 1) /\ DOMAIN sessions = 1..(n - 1)
      /\ DOMAIN logins' = 1..n /\ DOMAIN sessions' = 1..n
      /\ \A i \in 1..(n - 1) : /\ logins'[i] = logins[i]
                             /\ sessions'[i] = sessions[i]
      /\ logins'[n] = Paid(r) /\ sessions'[n] = Issued(r)
  BY IssueAppends
<1> HIDE DEF n
<1>4. n \in Nat
  BY <1>2
<1> QED  BY <1>2, <1>3, <1>4

\* A step that gives out no challenge and finishes no login.
LEMMA BootKept ==
  ASSUME BootInv, items' \subseteq items, UNCHANGED <<granted, boots, logins>>,
         \A q \in Requests : InLogin(q)' =>
           \/ InLogin(q) /\ req'[q].challenge = req[q].challenge
           \/ \E item \in items : item.id = req'[q].challenge
  PROVE  BootInv'
  BY DEF BootInv, RestartVoidsLogin

\* Every step keeps what is known of the runs of the process.
LEMMA BootInvStep ==
  ASSUME TypeOK, LoginInv, BootInv, [Next]_vars
  PROVE  BootInv'
<1>1. ASSUME NEW r \in Requests, Reply(r) PROVE
        \A q \in Requests : InLogin(q)' => InLogin(q) /\ req'[q] = req[q]
  BY <1>1, IdleType DEF Reply, TypeOK, InLogin
<1>2. ASSUME NEW r \in Requests, NEW u \in Users, StartLogin(r, u) PROVE BootInv'
  <2>1. Knowing("verified", u, NoUser, NoChallenge).pc = "verified"
    BY DEF Knowing
  <2>2. \A q \in Requests : InLogin(q)' => InLogin(q) /\ req'[q] = req[q]
    BY <1>2, <2>1 DEF StartLogin, TypeOK, InLogin
  <2> QED  BY <1>2, <2>2, BootKept DEF StartLogin
<1>3. ASSUME NEW r \in Requests, NEW id \in Challenges, Create(r, id) PROVE BootInv'
  <2> DEFINE item0 == [id |-> id, user |-> req[r].user, expires |-> now + ChallengeTTL]
             grant == [id |-> id, user |-> req[r].user, at |-> now, boot |-> boots]
  <2>1. /\ items' \subseteq items \cup {item0} /\ granted' = granted \cup {grant}
        /\ UNCHANGED <<boots, logins, consumed>> /\ \A g \in granted : g.id # id
    BY <1>3 DEF Create, Cleaned
  <2>2. item0.id = id /\ grant.id = id /\ grant.boot = boots
    OBVIOUS
  <2> HIDE DEF item0, grant
  <2>3. \A q \in Requests : InLogin(q)' => InLogin(q) /\ req'[q] = req[q]
    BY <1>1, <1>3 DEF Create
  <2>4. \A q \in Requests : InLogin(q) => req[q].challenge # id
    BY <2>1 DEF LoginInv, Holding, Vouched
  <2>5. \A i \in DOMAIN logins : logins[i].challenge # id
    BY <2>1 DEF LoginInv, Traceable
  <2>6. \A item \in items', g \in granted' : g.id = item.id => g.boot = boots
    BY <2>1, <2>2 DEF BootInv, LoginInv, Traceable, Vouched
  <2> QED  BY <2>1, <2>2, <2>3, <2>4, <2>5, <2>6 DEF BootInv, RestartVoidsLogin
<1>4. ASSUME NEW r \in Requests, CreateFails(r) \/ Fail(r) PROVE BootInv'
  <2>1. items' \subseteq items /\ UNCHANGED <<granted, boots, logins>>
    BY <1>4 DEF CreateFails, Fail, Cleaned
  <2> QED  BY <1>1, <1>4, <2>1, BootKept DEF CreateFails, Fail
<1>5. ASSUME NEW r \in Requests, NEW id \in Challenges, Consume(r, id) PROVE BootInv'
  <2>1. items' \subseteq items /\ UNCHANGED <<granted, boots, logins>>
    BY <1>5 DEF Consume, Cleaned
  <2>2. ASSUME NEW item \in items, item.id = id, req' = Consumed(r, id, item.user)
        PROVE  \A q \in Requests : InLogin(q)' =>
                 \/ InLogin(q) /\ req'[q].challenge = req[q].challenge
                 \/ \E it \in items : it.id = req'[q].challenge
    <3> DEFINE new == Knowing("consumed", item.user, NoUser, id)
    <3>1. new.challenge = id
      BY DEF Knowing
    <3>2. req' = [req EXCEPT ![r] = new]
      BY <2>2 DEF Consumed
    <3> HIDE DEF new
    <3>3. req'[r].challenge = id /\ \A q \in Requests \ {r} : req'[q] = req[q]
      BY <3>1, <3>2 DEF TypeOK
    <3> QED  BY <2>2, <3>3 DEF InLogin
  <2>3. CASE Reply(r)
    BY <1>1, <2>1, <2>3, BootKept
  <2> QED  BY <1>5, <2>1, <2>2, <2>3, BootKept DEF Consume, Cleaned
<1>6. ASSUME NEW r \in Requests, LoadUser(r) PROVE BootInv'
  <2>1. \A q \in Requests : InLogin(q)' => InLogin(q) /\ req'[q].challenge = req[q].challenge
    BY <1>6 DEF LoadUser, Knowing, TypeOK, InLogin
  <2> QED  BY <1>6, <2>1, BootKept DEF LoadUser
<1>7. ASSUME NEW r \in Requests, NEW account \in Users \cup {NoUser},
             VerifyGoogle(r, account)
      PROVE  BootInv'
  <2>1. CASE req' = Matched(r, account)
    <3>1. \A q \in Requests : InLogin(q)' => InLogin(q) /\ req'[q].challenge = req[q].challenge
      BY <1>7, <2>1 DEF VerifyGoogle, Matched, Knowing, TypeOK, InLogin
    <3> QED  BY <1>7, <3>1, BootKept DEF VerifyGoogle
  <2>2. CASE Reply(r)
    BY <1>1, <1>7, <2>2, BootKept DEF VerifyGoogle
  <2> QED  BY <1>7, <2>1, <2>2 DEF VerifyGoogle
<1>8. ASSUME NEW r \in Requests, Issue(r) PROVE BootInv'
  <2>1. /\ InLogin(r) /\ UNCHANGED <<items, granted, boots>>
        /\ Paid(r).challenge = req[r].challenge /\ Paid(r).boot = boots
    BY <1>8 DEF Issue, InLogin, Paid
  <2>2. \A q \in Requests : InLogin(q)' => InLogin(q) /\ req'[q] = req[q]
    BY <1>1, <1>8 DEF Issue
  <2>3. PICK n \in Nat : /\ DOMAIN logins' = DOMAIN logins \cup {n}
                         /\ \A i \in DOMAIN logins : logins'[i] = logins[i]
                         /\ logins'[n] = Paid(r)
    BY <1>8, IssueExtends
  <2>4. RestartVoidsLogin'
    BY <2>1, <2>3 DEF BootInv, RestartVoidsLogin
  <2> QED  BY <2>1, <2>2, <2>4 DEF BootInv
<1>9. CASE Tick \/ UNCHANGED vars
  BY <1>9, BootKept DEF Tick, vars, InLogin
<1>10. CASE Restart
  <2>1. \A r \in Requests : ~InLogin(r)'
    BY <1>10, IdleType DEF Restart, InLogin
  <2> QED  BY <1>10, <2>1 DEF Restart, BootInv, RestartVoidsLogin
<1> QED
  BY <1>2, <1>3, <1>4, <1>5, <1>6, <1>7, <1>8, <1>9, <1>10 DEF Next, Handler

\* Every step keeps what is known of the dates.
LEMMA DatesInvStep ==
  ASSUME TypeOK, DatesInv, [Next]_vars
  PROVE  DatesInv'
<1>1. CASE UNCHANGED <<sessions, logins>>
  <2>1. now' \in Nat /\ now \in Nat /\ now <= now'
    <3>1. Tick => now' \in Nat /\ now <= now'
      BY DEF Tick, TypeOK
    <3>2. ~Tick => UNCHANGED now
      BY DEF Next, Handler, StartLogin, Create, CreateFails, Consume, LoadUser,
             VerifyGoogle, Issue, Fail, Restart, vars
    <3> QED  BY <3>1, <3>2 DEF TypeOK
  <2>2. ASSUME NEW i \in DOMAIN sessions
        PROVE  logins[i].at \in Nat /\ logins[i].at <= now'
    BY <2>1 DEF DatesInv
  <2> QED  BY <1>1, <2>2 DEF DatesInv
<1>2. ASSUME NEW r \in Requests, Issue(r) PROVE DatesInv'
  <2>1. PICK n \in Nat :
         /\ DOMAIN sessions' = DOMAIN logins \cup {n} /\ DOMAIN sessions = DOMAIN logins
         /\ \A i \in DOMAIN logins : /\ logins'[i] = logins[i]
                                    /\ sessions'[i] = sessions[i]
         /\ logins'[n] = Paid(r) /\ sessions'[n] = Issued(r)
    BY <1>2, IssueExtends
  <2>2. now' = now /\ now \in Nat /\ Paid(r).at = now
    BY <1>2 DEF Issue, Paid, TypeOK
  <2>3. /\ Issued(r).nbf = NewNumericDate(now)
        /\ Issued(r).exp = NewNumericDate(now + TokenTTL)
        /\ Issued(r).expiresAt = now + TokenTTL
    BY DEF Issued
  <2> QED  BY <2>1, <2>2, <2>3 DEF DatesInv
<1> QED
  BY <1>1, <1>2 DEF Next, Handler, StartLogin, Create, CreateFails, Consume, LoadUser,
                    VerifyGoogle, Fail, Tick, Restart, vars

(***************************************************************************)
(* However often the process restarts, no session rests on a challenge of  *)
(* an earlier run of it.                                                   *)
(***************************************************************************)
THEOREM RestartVoidsEveryLogin == Spec => []RestartVoidsLogin
<1>1. Init => BootInv
  <2> SUFFICES ASSUME Init PROVE BootInv
    OBVIOUS
  <2>1. (\A r \in Requests : ~InLogin(r)) /\ DOMAIN logins = {}
    BY IdleType DEF Init, InLogin
  <2> QED  BY <2>1 DEF Init, BootInv, RestartVoidsLogin
<1>2. TypeOK /\ LoginInv /\ BootInv /\ [Next]_vars => BootInv'
  BY BootInvStep
<1>3. BootInv => RestartVoidsLogin
  BY DEF BootInv
<1> QED
  BY <1>1, <1>2, <1>3, LoginTypes, LoginInvariant, PTL DEF Spec

(***************************************************************************)
(* A token is accepted as long as advertised, less than a second short of  *)
(* it, for any time to live and any clock that does not go back.           *)
(***************************************************************************)
THEOREM TokensLastAsAdvertised == Spec => []AcceptedAsAdvertised
<1>1. Init => DatesInv
  BY DEF Init, DatesInv
<1>2. TypeOK /\ DatesInv /\ [Next]_vars => DatesInv'
  BY DatesInvStep
<1>3. TypeOK /\ DatesInv => AcceptedAsAdvertised
  <2> SUFFICES ASSUME TypeOK, DatesInv, NEW i \in DOMAIN sessions
               PROVE
        /\ now < logins[i].at + TokenTTL - (TicksPerSecond - 1) => Parse(sessions[i])
        /\ Parse(sessions[i]) => now < sessions[i].expiresAt
    BY DEF AcceptedAsAdvertised
  <2> DEFINE at == logins[i].at
             expiry == at + TokenTTL
  <2>1. at \in Nat /\ at <= now /\ now \in Nat /\ TokenTTL \in Int /\ TicksPerSecond \in Int
    BY TTLAssumption, TicksAssumption DEF DatesInv, TypeOK
  <2>2. /\ NewNumericDate(at) <= at /\ NewNumericDate(at) \in Int
        /\ NewNumericDate(expiry) <= expiry /\ NewNumericDate(expiry) \in Int
        /\ expiry - (TicksPerSecond - 1) <= NewNumericDate(expiry)
    BY <2>1, NumericDateBounds, NumericDateType
  <2>3. /\ sessions[i].nbf = NewNumericDate(at)
        /\ sessions[i].exp = NewNumericDate(expiry)
        /\ sessions[i].expiresAt = expiry
    BY DEF DatesInv
  <2> HIDE DEF at
  <2> QED  BY <2>1, <2>2, <2>3 DEF Parse, at
<1> QED
  BY <1>1, <1>2, <1>3, LoginTypes, PTL DEF Spec
=============================================================================
