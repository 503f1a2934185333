--------------------------- MODULE MCRunLifecycle ---------------------------
(***************************************************************************)
(* RunLifecycle for TLC: two HTTP connections, and a ring of three places,  *)
(* which holds two keys, so that it fills, drops and wraps around within   *)
(* four presses.                                                           *)
(***************************************************************************)
EXTENDS RunLifecycle

CONSTANTS kick, conn1, conn2

TwoKeys == {Escape, kick}
TwoConns == {conn1, conn2}
=============================================================================
