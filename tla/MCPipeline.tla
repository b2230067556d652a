----------------------------- MODULE MCPipeline -----------------------------
(* An instance of Pipeline for TLC. *)
EXTENDS Pipeline

CONSTANTS i1, i2, a, b

\* Three of the methods; a request that holds none of them is refused.
ThreeMethods == <<"basic", "apikey", "oidc">>

Holding(m, credential) ==
  [n \in Method |-> IF n = m THEN credential ELSE "absent"]
Both == [Holding("basic", "bad") EXCEPT !["apikey"] = "good"]

List      == [op |-> "list", id |-> EmptyId, content |-> NilItem]
Get(i)    == [op |-> "get", id |-> i, content |-> NilItem]
Create    == [op |-> "create", id |-> EmptyId, content |-> a]
Update(i) == [op |-> "update", id |-> i, content |-> b]
Delete(i) == [op |-> "delete", id |-> i, content |-> NilItem]
Valid(r)  == [call |-> r, valid |-> TRUE]

Requests(kind, creds, work) ==
  {[kind |-> kind, upgrade |-> FALSE, creds |-> c, calls |-> w] :
     c \in creds, w \in work}
Upgrading(requests) == {[r EXCEPT !.upgrade = TRUE] : r \in requests}

Passing == {Holding("basic", "good")}

\* Every way through and past the authenticators, every call of the store, and
\* mutations that may fail at the first or at the second of two fields.
SomeInputs ==
  Requests("public", {Holding("mtls", "absent")}, {<<>>})
    \cup Upgrading(Requests("rest", {Holding("basic", "bad")}, {<<Valid(Create)>>}))
    \cup Requests("rest",
           {Holding("mtls", "good"), Holding("oidc", "good"), Both},
           {<<Valid(Create)>>})
    \cup Requests("rest", Passing,
           {<<Valid(r)>> : r \in {List, Get(i1), Create, Update(i1), Delete(i1)}}
             \cup {<<[Valid(Create) EXCEPT !.valid = FALSE]>>})
    \cup Requests("graphql", Passing,
           {<<Valid(Create), Valid(Delete(i1))>>, <<Valid(Delete(i1)), Valid(Create)>>,
            <<Valid(Update(i1)), [Valid(Create) EXCEPT !.valid = FALSE]>>})
=============================================================================
