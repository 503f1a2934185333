------------------------ MODULE MCGestureSuppressor ------------------------
(***************************************************************************)
(* GestureSuppressor for TLC: the Dock's domain and one other, a gesture   *)
(* key that the Dock override also sets, one that it does not, and a key   *)
(* that is not about gestures; every combination of what the user has set. *)
(***************************************************************************)
EXTENDS GestureSuppressor

CONSTANTS global, dock, missionControl, pinch, autohide

TwoDomains == <<global, dock>>
TwoGestures == {missionControl, pinch}
OneDockKey == {missionControl}
OneOtherKey == {autohide}
=============================================================================
