------------------------- MODULE MCWebSocketClient --------------------------
(* Instances of WebSocketClient for TLC. *)
EXTENDS WebSocketClient

CONSTANTS e1, e2, s1, s2, a, b
=============================================================================
