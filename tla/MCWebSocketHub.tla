-------------------------- MODULE MCWebSocketHub --------------------------
(* Model-checking instances of WebSocketHub: see the .cfg files. *)
EXTENDS WebSocketHub
=============================================================================
