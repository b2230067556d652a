------------------------------ MODULE Startup -------------------------------
(***************************************************************************)
(* The process from its environment to a server that is ready to start:    *)
(* Load and Validate of internal/config/config.go, run of                  *)
(* cmd/server/main.go up to its server goroutine, createAuthenticator with *)
(* the constructors of internal/auth, and New of internal/server.          *)
(* Lifecycle goes on from there.                                           *)
(*                                                                         *)
(* One goroutine takes one step after the other; the OIDC provider, the    *)
(* OTLP exporter and zap may fail it at every step that asks them.  A      *)
(* variable that is not set and one that is set to the empty string are    *)
(* the same.  A path stands for the content of its file, a table of users  *)
(* or keys for the kinds of entries it has, and what is only copied (the   *)
(* audience, the settings of Vault) is left out.                           *)
(***************************************************************************)
EXTENDS Integers, Sequences

CONSTANTS
  NotSet,           \* a variable that is not set
  Garbage,          \* the text strconv or time.ParseDuration refuses
  Environments,     \* the environments the process may find
  MaxJWKSRetries    \* maxJWKSRetries of the code

Text == {"set"}
File == {"good", "bad"}
Entry == {"entry", "gap", "malformed"}   \* "gap": nothing between two commas

Number == Int \cup {NotSet, Garbage}
Switch == BOOLEAN \cup {NotSet, Garbage}
Table  == {kinds \in SUBSET Entry : kinds # {}}
LogLevel == {"debug", "info", "warn", "error"}
AuthMode == {"none", "mtls", "oidc", "basic", "apikey", "multi"}
ClientAuth == {"none", "request", "require"}
Method == {"mtls", "basic", "apikey", "oidc"}

Environment ==
  [serverPort : Number, probePort : Number, timeout : Number,
   metrics : Switch, tls : Switch, vault : Switch,
   logLevel : LogLevel \cup {NotSet, "other"},
   otlp : {NotSet, "blank", "endpoint"},
   authMode : AuthMode \cup {NotSet, "other"},
   cert : File \cup {NotSet}, key : File \cup {NotSet}, ca : File \cup {NotSet},
   clientAuth : ClientAuth \cup {NotSet, "other"},
   issuer : Text \cup {NotSet}, clientID : Text \cup {NotSet},
   users : {NotSet} \cup Table, keys : {NotSet} \cup Table]

ASSUME ValuesAssumption ==
  /\ NotSet # Garbage
  /\ \A none \in {NotSet, Garbage} :
       /\ none \notin BOOLEAN /\ none \notin Int /\ \A t \in Table : none # t
       /\ none \notin LogLevel \cup AuthMode \cup ClientAuth \cup File \cup Text
       /\ none \notin {"other", "blank", "endpoint"}
ASSUME EnvironmentsAssumption == Environments \subseteq Environment
ASSUME RetriesAssumption == MaxJWKSRetries \in Nat \ {0}

VARIABLES
  env,       \* the environment, which does not change
  stage,     \* where run stands
  cfg,       \* the Config of Load
  err,       \* what stopped the process, or "none"
  traced,    \* spans are exported
  methods,   \* the authenticators created so far, in order
  attempts,  \* failed fetches of the initial key set
  server     \* the Server, once New has built it

vars == <<env, stage, cfg, err, traced, methods, attempts, server>>

\* Where a value is not set the default stays.
Given(value, default) == IF value = NotSet THEN default ELSE value

Defaults ==
  [serverPort |-> 8080, probePort |-> 9090, timeout |-> 30, logLevel |-> "info",
   metrics |-> TRUE, otlp |-> NotSet, authMode |-> "none", tls |-> FALSE,
   cert |-> NotSet, key |-> NotSet, ca |-> NotSet, clientAuth |-> "none",
   issuer |-> NotSet, clientID |-> NotSet, users |-> NotSet, keys |-> NotSet,
   vault |-> FALSE]

NoServer == [ports |-> {}, guarded |-> FALSE, counted |-> FALSE,
             tls |-> "off", pool |-> FALSE, broken |-> FALSE]

Init ==
  /\ env \in Environments
  /\ stage = "load_server" /\ cfg = Defaults /\ err = "none"
  /\ traced = FALSE /\ methods = <<>> /\ attempts = 0 /\ server = NoServer

At(from) == stage = from /\ UNCHANGED env

Goes(to) == stage' = to /\ UNCHANGED err

\* logger.Fatal, or run returns 1, with the error that is reported.
Stops(error) ==
  /\ stage' = "stopped" /\ err' = error
  /\ UNCHANGED <<cfg, traced, methods, attempts, server>>

-----------------------------------------------------------------------------
(* Load *)

Unreadable(values) == Garbage \in values

LoadServerEnv ==
  /\ At("load_server")
  /\ \/ /\ Unreadable({env.serverPort, env.probePort, env.timeout, env.metrics})
        /\ Stops("unreadable")
     \/ /\ ~Unreadable({env.serverPort, env.probePort, env.timeout, env.metrics})
        /\ cfg' = [cfg EXCEPT !.serverPort = Given(env.serverPort, @),
                              !.probePort = Given(env.probePort, @),
                              !.logLevel = Given(env.logLevel, @),
                              !.timeout = Given(env.timeout, @),
                              !.metrics = Given(env.metrics, @),
                              !.otlp = env.otlp]
        /\ Goes("load_auth")
        /\ UNCHANGED <<traced, methods, attempts, server>>

LoadAuthEnv ==
  /\ At("load_auth")
  /\ \/ Unreadable({env.tls, env.vault}) /\ Stops("unreadable")
     \/ /\ ~Unreadable({env.tls, env.vault})
        /\ cfg' = [cfg EXCEPT !.authMode = Given(env.authMode, @),
                              !.tls = Given(env.tls, @), !.cert = env.cert,
                              !.key = env.key, !.ca = env.ca,
                              !.clientAuth = Given(env.clientAuth, @),
                              !.issuer = env.issuer, !.clientID = env.clientID,
                              !.users = env.users, !.keys = env.keys,
                              !.vault = Given(env.vault, @)]
        /\ Goes("validate_server")
        /\ UNCHANGED <<traced, methods, attempts, server>>

-----------------------------------------------------------------------------
(* Validate: the first error is the one reported *)

MaxPort == 65535
Port == 1 .. MaxPort

ServerError ==
  IF cfg.serverPort \notin Port THEN "server port"
  ELSE IF cfg.probePort \notin 0 .. MaxPort THEN "probe port"
  ELSE IF cfg.probePort = cfg.serverPort THEN "port conflict"
  ELSE IF cfg.logLevel \notin LogLevel THEN "log level"
  ELSE IF cfg.timeout <= 0 THEN "timeout"
  ELSE "none"

Checks(error, to) ==
  \/ error # "none" /\ Stops(error)
  \/ /\ error = "none" /\ Goes(to)
     /\ UNCHANGED <<cfg, traced, methods, attempts, server>>

ValidateServer == At("validate_server") /\ Checks(ServerError, "validate_auth")

Missing(values) == NotSet \in values

HasAnyAuthConfig ==
  \/ cfg.issuer # NotSet \/ cfg.clientID # NotSet
  \/ cfg.users # NotSet \/ cfg.keys # NotSet \/ cfg.tls

LacksRequirements ==
  \/ cfg.authMode = "oidc" /\ Missing({cfg.issuer, cfg.clientID})
  \/ cfg.authMode = "basic" /\ Missing({cfg.users})
  \/ cfg.authMode = "apikey" /\ Missing({cfg.keys})
  \/ cfg.authMode = "multi" /\ ~HasAnyAuthConfig

AuthError ==
  IF cfg.authMode \notin AuthMode THEN "auth mode"
  ELSE IF cfg.clientAuth \notin ClientAuth THEN "client auth"
  ELSE IF cfg.tls /\ Missing({cfg.cert, cfg.key}) THEN "key pair"
  ELSE IF cfg.clientAuth = "require" /\ Missing({cfg.ca}) THEN "CA"
  ELSE IF LacksRequirements THEN "requirements"
  ELSE "none"

ValidateAuth == At("validate_auth") /\ Checks(AuthError, "logger")

-----------------------------------------------------------------------------
(* run *)

InitLogger ==
  /\ At("logger")
  /\ \E error \in {"none", "logger"} : Checks(error, "telemetry")

\* Mutant: an error of telemetry.Init is fatal.
TelemetryIsVital ==
  /\ At("telemetry")
  /\ \E error \in {"none"} \cup (IF cfg.otlp = "endpoint" THEN {"otlp"} ELSE {}) :
       Checks(error, "create")

\* Init may fail, but only when there is an endpoint; that is logged.
InitTelemetry ==
  /\ At("telemetry")
  /\ traced' \in (IF cfg.otlp = "endpoint" THEN BOOLEAN ELSE {FALSE})
  /\ Goes("create")
  /\ UNCHANGED <<cfg, methods, attempts, server>>

-----------------------------------------------------------------------------
(* createAuthenticator *)

Multi == cfg.authMode = "multi"

\* createMultiAuthenticator tries its methods in this order.
NextMethod ==
  [mtls |-> "basic", basic |-> "apikey", apikey |-> "oidc", oidc |-> "created"]

Create ==
  /\ At("create")
  /\ Goes(CASE cfg.authMode = "none" -> "created"
            [] Multi -> "mtls"
            [] OTHER -> cfg.authMode)
  /\ UNCHANGED <<cfg, traced, methods, attempts, server>>

Moves(method) == Goes(IF Multi THEN NextMethod[method] ELSE "created")

Adds(method) ==
  /\ methods' = Append(methods, method)
  /\ Moves(method)
  /\ UNCHANGED <<cfg, traced, attempts, server>>

\* Mutant: TLS alone is taken for mTLS.
ConfiguredLoosely(method) ==
  ~Multi \/ CASE method = "mtls"   -> cfg.tls
              [] method = "basic"  -> ~Missing({cfg.users})
              [] method = "apikey" -> ~Missing({cfg.keys})
              [] method = "oidc"   -> ~Missing({cfg.issuer, cfg.clientID})

Configured(method) ==
  ~Multi \/ CASE method = "mtls"   -> cfg.tls /\ cfg.clientAuth = "require"
              [] method = "basic"  -> ~Missing({cfg.users})
              [] method = "apikey" -> ~Missing({cfg.keys})
              [] method = "oidc"   -> ~Missing({cfg.issuer, cfg.clientID})

PassOver(method) ==
  /\ At(method) /\ ~Configured(method)
  /\ Moves(method)
  /\ UNCHANGED <<cfg, traced, methods, attempts, server>>

AddMTLS == At("mtls") /\ Configured("mtls") /\ Adds("mtls")

\* An entry without its two halves is refused, and so is a table without one
\* entry.
Usable(table) == "malformed" \notin table /\ "entry" \in table

\* NewBasicAuthenticator or NewAPIKeyAuthenticator.
AddTable(method, table) ==
  /\ At(method) /\ Configured(method)
  /\ \/ Usable(table) /\ Adds(method)
     \/ ~Usable(table) /\ Stops("table")

\* NewOIDCTokenVerifier asks for the discovery document once,
Discover ==
  /\ At("oidc") /\ Configured("oidc")
  /\ \E error \in {"none", "discovery"} : Checks(error, "keys")

\* and for the keys until they come or MaxJWKSRetries attempts have failed.
FetchKeys == At("keys") /\ Adds("oidc")

\* Mutant: after the last attempt the count starts over.
FetchFailsForever ==
  /\ At("keys")
  /\ attempts' = (attempts + 1) % MaxJWKSRetries
  /\ UNCHANGED <<stage, cfg, err, traced, methods, server>>

FetchFails ==
  /\ At("keys")
  /\ \/ attempts + 1 = MaxJWKSRetries /\ Stops("keys")
     \/ /\ attempts + 1 < MaxJWKSRetries
        /\ attempts' = attempts + 1
        /\ UNCHANGED <<stage, cfg, err, traced, methods, server>>

\* A multi mode without any method is refused.
Created ==
  /\ At("created")
  /\ Checks(IF Multi /\ methods = <<>> THEN "no method" ELSE "none", "server")

-----------------------------------------------------------------------------
(* New and Start *)

\* buildTLSConfig reads the key pair and, if there is one, the CA file.
TLSBroken ==
  cfg.tls /\ ~(cfg.cert = "good" /\ cfg.key = "good" /\ cfg.ca \in {"good", NotSet})

\* An error of the TLS files is kept for Start.
New ==
  /\ At("server")
  /\ server' = [ports |-> {cfg.serverPort, cfg.probePort} \ {0},
                guarded |-> methods # <<>>, counted |-> cfg.metrics,
                tls |-> IF cfg.tls /\ ~TLSBroken THEN cfg.clientAuth ELSE "off",
                pool |-> cfg.tls /\ ~TLSBroken /\ cfg.ca = "good",
                broken |-> TLSBroken]
  /\ Goes("start")
  /\ UNCHANGED <<cfg, traced, methods, attempts>>

\* Start listens unless New left an error; run returns 1 then.
Start ==
  /\ At("start")
  /\ Checks(IF server.broken THEN "TLS files" ELSE "none", "listening")

Next ==
  \/ LoadServerEnv \/ LoadAuthEnv \/ ValidateServer \/ ValidateAuth
  \/ InitLogger \/ InitTelemetry \/ Create
  \/ AddMTLS \/ AddTable("basic", cfg.users) \/ AddTable("apikey", cfg.keys)
  \/ Discover \/ FetchKeys \/ FetchFails
  \/ (\E method \in Method : PassOver(method)) \/ Created
  \/ New \/ Start

Spec == Init /\ [][Next]_vars

\* main runs, and every call it makes returns: those over the network have a
\* timeout.
FairSpec == Spec /\ WF_vars(Next)

-----------------------------------------------------------------------------
(* What an environment asks for, without any step of the code *)

Mode == Given(env.authMode, "none")

VerifiesClients == env.tls = TRUE /\ env.clientAuth = "require"

\* The methods a multi mode has all the settings for.
Complete ==
  {method \in Method :
     CASE method = "mtls"   -> VerifiesClients
       [] method = "basic"  -> env.users # NotSet
       [] method = "apikey" -> env.keys # NotSet
       [] method = "oidc"   -> env.issuer # NotSet /\ env.clientID # NotSet}

Asked ==
  CASE Mode = "none" -> {} [] Mode = "multi" -> Complete [] OTHER -> {Mode}

\* The environment is one the process can serve.
Startable ==
  /\ Garbage \notin {env.serverPort, env.probePort, env.timeout, env.metrics,
                     env.tls, env.vault}
  /\ Given(env.serverPort, 8080) \in Port
  /\ Given(env.probePort, 9090) \in 0 .. MaxPort
  /\ Given(env.serverPort, 8080) # Given(env.probePort, 9090)
  /\ Given(env.timeout, 30) > 0
  /\ env.logLevel # "other" /\ env.clientAuth # "other" /\ Mode # "other"
  /\ env.tls = TRUE => env.cert = "good" /\ env.key = "good" /\ env.ca # "bad"
  /\ env.clientAuth = "require" => env.ca # NotSet
  /\ Mode # "none" => Asked # {}
  /\ Asked \ {"mtls"} \subseteq Complete
  /\ "basic" \in Asked => Usable(env.users)
  /\ "apikey" \in Asked => Usable(env.keys)

Rank == [mtls |-> 1, basic |-> 2, apikey |-> 3, oidc |-> 4]

\* A server that is ready to listen has what its environment asks for and
\* nothing else: every method in the order of createMultiAuthenticator, two
\* ports that differ, and mTLS among several methods only where certificates
\* are verified against a CA.
ServedAsAsked ==
  stage = "listening" =>
    /\ Startable
    /\ {methods[i] : i \in DOMAIN methods} = Asked
    /\ \A i, j \in DOMAIN methods : i < j => Rank[methods[i]] < Rank[methods[j]]
    /\ server.guarded <=> Mode # "none"
    /\ server.ports =
         {Given(env.serverPort, 8080), Given(env.probePort, 9090)} \ {0}
    /\ Mode = "multi" /\ "mtls" \in Asked => server.tls = "require" /\ server.pool

\* The process stops for what is wrong with its environment, or because it
\* asked a provider that failed it; telemetry never stops it.
StoppedForAReason ==
  stage = "stopped" =>
    \/ ~Startable
    \/ err = "logger"
    \/ err \in {"discovery", "keys"} /\ "oidc" \in Asked

\* Startup comes to an end, whatever fails.
StartupEnds == <>(stage \in {"stopped", "listening"})

-----------------------------------------------------------------------------
(* Progress: the part of StartupEnds that needs no fairness                 *)

\* The steps startup has still to take at most, from stage s and after a number of
\* failed attempts.
StepsFrom(s, failed) ==
  CASE s = "load_server"     -> MaxJWKSRetries + 15
    [] s = "load_auth"       -> MaxJWKSRetries + 14
    [] s = "validate_server" -> MaxJWKSRetries + 13
    [] s = "validate_auth"   -> MaxJWKSRetries + 12
    [] s = "logger"          -> MaxJWKSRetries + 11
    [] s = "telemetry"       -> MaxJWKSRetries + 10
    [] s = "create"          -> MaxJWKSRetries + 9
    [] s = "mtls"            -> MaxJWKSRetries + 8
    [] s = "basic"           -> MaxJWKSRetries + 7
    [] s = "apikey"          -> MaxJWKSRetries + 6
    [] s = "oidc"            -> MaxJWKSRetries + 5
    [] s = "keys"            -> MaxJWKSRetries + 4 - failed
    [] s = "created"         -> 3
    [] s = "server"          -> 2
    [] s = "start"           -> 1
    [] OTHER                 -> 0

StepsAhead == StepsFrom(stage, attempts)

\* No setting leads to a stage without a step, and none back to an earlier
\* stage; the provider is asked for its keys MaxJWKSRetries times at most.
StartupGoesOn ==
  /\ [](StepsAhead = 0 => stage \in {"stopped", "listening"})
  /\ [](attempts < MaxJWKSRetries)
  /\ [][StepsAhead' < StepsAhead]_vars
=============================================================================
