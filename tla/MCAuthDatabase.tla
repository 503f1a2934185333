--------------------------- MODULE MCAuthDatabase ---------------------------
(***************************************************************************)
(* AuthDatabase for TLC: two programs that start, and two registrations    *)
(* that may want the same nickname, email or Google account, in the same   *)
(* spelling or another, or be a retry of each other.                       *)
(***************************************************************************)
EXTENDS AuthDatabase

CONSTANTS ann, bob, bad, g1, g2, s1, s2, r1, r2

TwoServers == {s1, s2}
TwoRequests == {r1, r2}
ThreeWords == {ann, bob, bad}
GoodWords == {ann, bob}
TwoAccounts == {g1, g2}

Plain(w) == [word |-> w, upper |-> FALSE, padded |-> FALSE]
Capital(w) == [word |-> w, upper |-> TRUE, padded |-> FALSE]
Padded(w) == [word |-> w, upper |-> TRUE, padded |-> TRUE]

Form(nickname, email, google) ==
  [nickname |-> nickname, email |-> email, google |-> google]

FourForms ==
  { Form(Plain(ann), Plain(ann), g1), Form(Capital(ann), Plain(bob), g2),
    Form(Plain(bob), Padded(ann), g2), Form(Plain(bad), Plain(bob), g1) }
=============================================================================
