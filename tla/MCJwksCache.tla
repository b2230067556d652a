---------------------------- MODULE MCJwksCache -----------------------------
(* An instance of JwksCache for TLC. *)
EXTENDS JwksCache, TLC

CONSTANTS a, b

\* The provider serves a document without one usable key before it replaces
\* key a under its id, and gives it a new one.
Rotation == <<1 :> a, NoKeys, 1 :> b @@ 2 :> a>>

\* One token is good until the clock moves or its key is replaced, one has an
\* id that comes late, and the others get no further than their headers.
MCTokens ==
  {[kid |-> 1, signer |-> a, flaws |-> {}, expiry |-> 0],
   [kid |-> 2, signer |-> a, flaws |-> {"audience"}, expiry |-> 1],
   [kid |-> 1, signer |-> a, flaws |-> {"header"}, expiry |-> 2],
   [kid |-> 1, signer |-> a, flaws |-> {"algorithm"}, expiry |-> 2]}
=============================================================================
