---------------------------- MODULE MCAuthLogin ----------------------------
(***************************************************************************)
(* AuthLogin for TLC.  Two requests race for two challenges of two users;  *)
(* a second has two ticks, so that times fall between whole seconds; the   *)
(* clock runs past the end of a challenge and of a token created late.     *)
(***************************************************************************)
EXTENDS AuthLogin, TLC

CONSTANTS alice, bob, nobody, r1, r2, c1, c2, none

TwoUsers == {alice, bob}
TwoRequests == {r1, r2}
TwoChallenges == {c1, c2}

Symmetry ==
  Permutations(TwoUsers) \cup Permutations(TwoRequests)
    \cup Permutations(TwoChallenges)
=============================================================================
