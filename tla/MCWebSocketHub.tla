--------------------------- MODULE MCWebSocketHub ---------------------------
(* Instances of WebSocketHub for TLC. *)
EXTENDS WebSocketHub, TLC

\* The connections are interchangeable; used by safety runs only.
Symmetry == Permutations(Conns)
=============================================================================
