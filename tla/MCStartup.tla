----------------------------- MODULE MCStartup ------------------------------
(* Startup for TLC: three families of environments. *)
EXTENDS Startup

Empty ==
  [serverPort |-> NotSet, probePort |-> NotSet, timeout |-> NotSet,
   metrics |-> NotSet, tls |-> NotSet, vault |-> NotSet, logLevel |-> NotSet,
   otlp |-> NotSet, authMode |-> NotSet, cert |-> NotSet, key |-> NotSet,
   ca |-> NotSet, clientAuth |-> NotSet, issuer |-> NotSet, clientID |-> NotSet,
   users |-> NotSet, keys |-> NotSet]

MCPorts == {NotSet, Garbage, -1, 0, 1, 8080, 9090, 65535, 65536}

\* The settings of the server, with their bounds and defaults: every two ports,
\* and every choice of the rest.
ServerEnvironments ==
  {[Empty EXCEPT !.serverPort = s, !.probePort = p, !.timeout = t, !.logLevel = l] :
     s \in MCPorts, p \in MCPorts, t \in {NotSet, 0}, l \in {NotSet, "other"}}
  \cup
  {[Empty EXCEPT !.serverPort = s, !.timeout = t, !.metrics = m, !.logLevel = l,
                 !.otlp = o] :
     s \in {NotSet, 1}, t \in {NotSet, Garbage, 0, 1},
     m \in {NotSet, Garbage, FALSE}, l \in {NotSet, "debug", "other"},
     o \in {NotSet, "blank", "endpoint"}}

\* TLS in every mode.
TLSEnvironments ==
  {[Empty EXCEPT !.authMode = a, !.tls = t, !.cert = f, !.key = k, !.ca = c,
                 !.clientAuth = v, !.vault = g] :
     a \in AuthMode \cup {"other"}, t \in Switch, f \in File \cup {NotSet},
     k \in File \cup {NotSet}, c \in File \cup {NotSet},
     v \in ClientAuth \cup {NotSet, "other"}, g \in {NotSet, Garbage}}

Tables == Table \cup {NotSet}

\* The settings of the methods in every mode, with TLS off, on, and on with
\* certificates asked for.
MethodEnvironments ==
  {[e EXCEPT !.authMode = a, !.issuer = i, !.clientID = d, !.users = u,
             !.keys = k] :
     e \in {Empty,
            [Empty EXCEPT !.tls = TRUE, !.cert = "good", !.key = "good"],
            [Empty EXCEPT !.tls = TRUE, !.cert = "good", !.key = "good",
                          !.ca = "good", !.clientAuth = "require"]},
     a \in AuthMode, i \in {NotSet, "set"}, d \in {NotSet, "set"},
     u \in Tables, k \in Tables}

MCEnvironments == ServerEnvironments \cup TLSEnvironments \cup MethodEnvironments
=============================================================================
