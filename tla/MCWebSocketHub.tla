--------------------------- MODULE MCWebSocketHub ---------------------------
(***************************************************************************)
(* WebSocketHub for TLC: two connections, and one or two octaves that the  *)
(* clients and the keyboard announce again and again.                      *)
(***************************************************************************)
EXTENDS WebSocketHub, TLC

CONSTANTS c1, c2

TwoClients == {c1, c2}

Symmetry == Permutations(TwoClients)
=============================================================================
