------------------------ MODULE MCMultitouchPoller ------------------------
(***************************************************************************)
(* Instances of MultitouchPoller for TLC.  Two fingers and two slots let   *)
(* frames grow, shrink and swap slots; one slot makes touchCallback        *)
(* truncate.  State 4 stands for the touching states, 7 for lifted; empty  *)
(* slots bring in state 0, neither touching nor lifted.                    *)
(***************************************************************************)
EXTENDS MultitouchPoller

TwoFingers == {1, 2}
TouchingOrLifted == {4, 7}
=============================================================================
