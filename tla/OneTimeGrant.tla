---------------------------- MODULE OneTimeGrant ----------------------------
(***************************************************************************)
(* What a login challenge promises, without a clock, a map or a cleanup:   *)
(* a grant is given out once, is used at most once, and only while it is   *)
(* live; from live it may lapse at any moment (its time is over, or the    *)
(* server that gave it out is gone), and a lapsed or used grant never      *)
(* comes back.  AuthLogin implements this specification.                   *)
(***************************************************************************)
CONSTANT Grants

VARIABLES
  given,      \* grants ever given out
  live,       \* grants that can still be used
  used        \* grants that have been used

grantVars == <<given, live, used>>

Init == given = {} /\ live = {} /\ used = {}

Give(g) ==
  /\ g \notin given
  /\ given' = given \cup {g}
  /\ live' = live \cup {g}
  /\ UNCHANGED used

Use(g) ==
  /\ g \in live
  /\ live' = live \ {g}
  /\ used' = used \cup {g}
  /\ UNCHANGED given

Lapse ==
  /\ live' \in SUBSET live
  /\ UNCHANGED <<given, used>>

Next ==
  \/ \E g \in Grants : Give(g) \/ Use(g)
  \/ Lapse

Spec == Init /\ [][Next]_grantVars
=============================================================================
