--------------------------- MODULE StartupProofs ----------------------------
(***************************************************************************)
(* Safety of Startup, for any environments and number of retries.  The     *)
(* invariant says what each stage of run knows of the environment: what    *)
(* has been read (Config), what has been validated (Valid), which methods  *)
(* have been created (Progress) and what New made of it (Built).           *)
(***************************************************************************)
EXTENDS Startup, TLAPS

MethodStages == {"mtls", "basic", "apikey", "oidc", "keys"}
CreatedStages == {"created", "server", "start", "listening"}
RunStages == {"logger", "telemetry", "create"} \cup MethodStages \cup CreatedStages
Stages == {"load_server", "load_auth", "validate_server", "validate_auth",
           "stopped"} \cup RunStages

TypeOK ==
  /\ env \in Environment /\ stage \in Stages
  /\ methods \in Seq(Method) /\ attempts \in Nat

\* What Load makes of the environment, in two parts.
ServerConfig ==
  [Defaults EXCEPT !.serverPort = Given(env.serverPort, @),
                   !.probePort = Given(env.probePort, @),
                   !.logLevel = Given(env.logLevel, @),
                   !.timeout = Given(env.timeout, @),
                   !.metrics = Given(env.metrics, @),
                   !.otlp = env.otlp]
FullConfig ==
  [ServerConfig EXCEPT !.authMode = Given(env.authMode, @),
                       !.tls = Given(env.tls, @), !.cert = env.cert,
                       !.key = env.key, !.ca = env.ca,
                       !.clientAuth = Given(env.clientAuth, @),
                       !.issuer = env.issuer, !.clientID = env.clientID,
                       !.users = env.users, !.keys = env.keys,
                       !.vault = Given(env.vault, @)]

ServerReadable ==
  Garbage \notin {env.serverPort, env.probePort, env.timeout, env.metrics}
AuthReadable == Garbage \notin {env.tls, env.vault}

Config ==
  /\ stage = "load_server" => cfg = Defaults
  /\ stage = "load_auth" => cfg = ServerConfig /\ ServerReadable
  /\ stage \in {"validate_server", "validate_auth"} \cup RunStages =>
       cfg = FullConfig /\ ServerReadable /\ AuthReadable

ServerValid ==
  /\ Given(env.serverPort, 8080) \in Port
  /\ Given(env.probePort, 9090) \in 0 .. MaxPort
  /\ Given(env.serverPort, 8080) # Given(env.probePort, 9090)
  /\ env.logLevel # "other"
  /\ Given(env.timeout, 30) > 0

AuthValid ==
  /\ Mode # "other" /\ env.clientAuth # "other"
  /\ env.tls = TRUE => env.cert # NotSet /\ env.key # NotSet
  /\ env.clientAuth = "require" => env.ca # NotSet
  /\ Mode # "multi" => Asked \ {"mtls"} \subseteq Complete

Valid ==
  /\ stage \in {"validate_auth"} \cup RunStages => ServerValid
  /\ stage \in RunStages => AuthValid

Have == {methods[i] : i \in DOMAIN methods}

Sorted ==
  \A i, j \in DOMAIN methods : i < j => Rank[methods[i]] < Rank[methods[j]]

Position(s) == IF s = "keys" THEN 4 ELSE Rank[s]

Progress ==
  /\ stage \notin MethodStages \cup CreatedStages \cup {"stopped"} => methods = <<>>
  /\ stage \in MethodStages =>
       /\ Have = {m \in Asked : Rank[m] < Position(stage)}
       /\ Mode = "multi" \/ Asked = {IF stage = "keys" THEN "oidc" ELSE stage}
       /\ Mode # "none"
  /\ stage = "keys" => "oidc" \in Asked
  /\ stage \in CreatedStages => Have = Asked
  /\ stage \in {"server", "start", "listening"} /\ Mode # "none" => Asked # {}
  /\ "basic" \in Have => Usable(env.users)
  /\ "apikey" \in Have => Usable(env.keys)
  /\ Sorted

FilesGood ==
  env.tls = TRUE => env.cert = "good" /\ env.key = "good" /\ env.ca # "bad"

Built ==
  stage \in {"start", "listening"} =>
    /\ server.guarded <=> Mode # "none"
    /\ server.ports =
         {Given(env.serverPort, 8080), Given(env.probePort, 9090)} \ {0}
    /\ server.broken <=> ~FilesGood
    /\ FilesGood /\ VerifiesClients =>
         server.tls = "require" /\ (env.ca # NotSet => server.pool)
    /\ stage = "listening" => FilesGood

IInv ==
  /\ TypeOK /\ Config /\ Valid /\ Progress /\ Built
  /\ StoppedForAReason

-----------------------------------------------------------------------------
(* Load and Validate *)

\* A default stays where nothing is set.
LEMMA ConfigFields ==
  /\ FullConfig.serverPort = Given(env.serverPort, 8080)
  /\ FullConfig.probePort = Given(env.probePort, 9090)
  /\ FullConfig.timeout = Given(env.timeout, 30)
  /\ FullConfig.logLevel = Given(env.logLevel, "info")
  /\ FullConfig.otlp = env.otlp
  /\ FullConfig.authMode = Mode
  /\ FullConfig.tls = Given(env.tls, FALSE)
  /\ FullConfig.clientAuth = Given(env.clientAuth, "none")
  /\ FullConfig.cert = env.cert /\ FullConfig.key = env.key
  /\ FullConfig.ca = env.ca
  /\ FullConfig.issuer = env.issuer /\ FullConfig.clientID = env.clientID
  /\ FullConfig.users = env.users /\ FullConfig.keys = env.keys
  BY DEF FullConfig, ServerConfig, Defaults, Mode

LEMMA ServerErrorCorrect ==
  ASSUME TypeOK, cfg = FullConfig, ServerReadable
  PROVE  ServerError = "none" <=> ServerValid
<1>1. cfg.logLevel \in LogLevel <=> env.logLevel # "other"
  BY ConfigFields, ValuesAssumption DEF TypeOK, Environment, Given, LogLevel
<1>2. cfg.timeout \in Int /\ cfg.timeout = Given(env.timeout, 30)
  BY ConfigFields DEF TypeOK, Environment, Given, Number, ServerReadable
<1>3. ServerError = "none" <=>
        /\ cfg.serverPort \in Port /\ cfg.probePort \in 0 .. MaxPort
        /\ cfg.probePort # cfg.serverPort /\ cfg.logLevel \in LogLevel
        /\ ~(cfg.timeout <= 0)
  BY DEF ServerError
<1>4. /\ cfg.serverPort = Given(env.serverPort, 8080)
      /\ cfg.probePort = Given(env.probePort, 9090)
  BY ConfigFields
<1>5. ~(cfg.timeout <= 0) <=> Given(env.timeout, 30) > 0
  BY <1>2
<1>6. QED
  BY <1>1, <1>3, <1>4, <1>5 DEF ServerValid

LEMMA Members ==
  /\ "mtls" \in Complete <=> VerifiesClients
  /\ "basic" \in Complete <=> env.users # NotSet
  /\ "apikey" \in Complete <=> env.keys # NotSet
  /\ "oidc" \in Complete <=> env.issuer # NotSet /\ env.clientID # NotSet
  /\ Complete \subseteq Method
  BY DEF Complete, Method

LEMMA AskedIs ==
  /\ Mode = "none" => Asked = {}
  /\ Mode = "multi" => Asked = Complete
  /\ Mode \notin {"none", "multi"} => Asked = {Mode}
  BY DEF Asked

\* What the code tests of its Config, in terms of the environment.
LEMMA AuthFields ==
  ASSUME TypeOK, cfg = FullConfig, AuthReadable
  PROVE  /\ cfg.authMode = Mode
         /\ cfg.authMode \in AuthMode <=> Mode # "other"
         /\ cfg.clientAuth \in ClientAuth <=> env.clientAuth # "other"
         /\ cfg.clientAuth = "require" <=> env.clientAuth = "require"
         /\ cfg.tls \in BOOLEAN
         /\ cfg.tls <=> env.tls = TRUE
<1>1. cfg.authMode = Mode /\ (cfg.authMode \in AuthMode <=> Mode # "other")
  BY ConfigFields, ValuesAssumption DEF TypeOK, Environment, Mode, Given, AuthMode
<1>2. /\ cfg.clientAuth \in ClientAuth <=> env.clientAuth # "other"
      /\ cfg.clientAuth = "require" <=> env.clientAuth = "require"
  BY ConfigFields, ValuesAssumption DEF TypeOK, Environment, Given, ClientAuth
<1>3. env.tls \in BOOLEAN \/ env.tls = NotSet
  BY DEF TypeOK, Environment, Switch, AuthReadable
<1>4. cfg.tls = Given(env.tls, FALSE)
  BY ConfigFields
<1>5. CASE env.tls = NotSet
  <2>1. cfg.tls = FALSE
    BY <1>5, <1>4 DEF Given
  <2>2. NotSet \notin BOOLEAN
    BY ValuesAssumption
  <2>3. env.tls # TRUE
    BY <1>5, <2>2
  <2>4. QED
    BY <1>1, <1>2, <2>1, <2>3
<1>6. CASE env.tls # NotSet
  <2>1. cfg.tls = env.tls
    BY <1>6, <1>4 DEF Given
  <2>2. env.tls \in BOOLEAN
    BY <1>3, <1>6
  <2>3. QED
    BY <1>1, <1>2, <2>1, <2>2
<1>7. QED
  BY <1>5, <1>6

LEMMA RequirementsCorrect ==
  ASSUME TypeOK, cfg = FullConfig, AuthReadable, Mode # "other"
  PROVE  /\ ~LacksRequirements /\ Mode # "multi" =>
              Asked \ {"mtls"} \subseteq Complete
         /\ LacksRequirements => ~Startable
<1>1. cfg.authMode = Mode
  BY AuthFields
<1>2. Mode \in AuthMode
  BY AuthFields
<1>3. CASE Mode = "oidc"
  <2>1. LacksRequirements <=> "oidc" \notin Complete
    BY <1>1, <1>3, Members, ConfigFields DEF LacksRequirements, Missing
  <2>2. QED
    BY <2>1, <1>3, AskedIs DEF Startable
<1>4. CASE Mode = "basic"
  <2>1. LacksRequirements <=> "basic" \notin Complete
    BY <1>1, <1>4, Members, ConfigFields DEF LacksRequirements, Missing
  <2>2. QED
    BY <2>1, <1>4, AskedIs DEF Startable
<1>5. CASE Mode = "apikey"
  <2>1. LacksRequirements <=> "apikey" \notin Complete
    BY <1>1, <1>5, Members, ConfigFields DEF LacksRequirements, Missing
  <2>2. QED
    BY <2>1, <1>5, AskedIs DEF Startable
<1>6. CASE Mode = "multi"
  <2>1. LacksRequirements => Asked = {}
    <3>1. LacksRequirements => ~HasAnyAuthConfig
      BY <1>1, <1>6 DEF LacksRequirements
    <3>2. /\ cfg.issuer = env.issuer /\ cfg.users = env.users
          /\ cfg.keys = env.keys
      BY ConfigFields
    <3>3. HasAnyAuthConfig \/ (env.issuer = NotSet /\ env.users = NotSet
                                /\ env.keys = NotSet)
      BY <3>2 DEF HasAnyAuthConfig
    <3>4. HasAnyAuthConfig \/ env.tls # TRUE
      BY AuthFields DEF HasAnyAuthConfig
    <3>5. LacksRequirements => \A m \in Method : m \notin Complete
      BY <3>1, <3>3, <3>4, Members DEF VerifiesClients, Method
    <3>6. QED
      BY <3>5, <1>6, AskedIs, Members
  <2>2. QED
    BY <2>1, <1>6 DEF Startable
<1>7. CASE Mode \in {"none", "mtls"}
  BY <1>1, <1>7, AskedIs DEF LacksRequirements
<1>8. QED
  BY <1>2, <1>3, <1>4, <1>5, <1>6, <1>7 DEF AuthMode

LEMMA AuthErrorCorrect ==
  ASSUME TypeOK, cfg = FullConfig, AuthReadable
  PROVE  /\ AuthError = "none" => AuthValid
         /\ AuthError # "none" => ~Startable
<1>1. AuthError = "none" <=>
        /\ cfg.authMode \in AuthMode /\ cfg.clientAuth \in ClientAuth
        /\ ~(cfg.tls /\ Missing({cfg.cert, cfg.key}))
        /\ ~(cfg.clientAuth = "require" /\ Missing({cfg.ca}))
        /\ ~LacksRequirements
  BY DEF AuthError
<1>2. /\ Missing({cfg.cert, cfg.key}) <=> env.cert = NotSet \/ env.key = NotSet
      /\ Missing({cfg.ca}) <=> env.ca = NotSet
  BY ConfigFields DEF Missing
<1>3. AuthError = "none" => AuthValid
  BY <1>1, <1>2, AuthFields, RequirementsCorrect DEF AuthValid
<1>4. env.cert = NotSet \/ env.key = NotSet =>
        ~(env.cert = "good" /\ env.key = "good")
  BY ValuesAssumption DEF File
<1>5. Startable =>
        /\ Mode # "other" /\ env.clientAuth # "other"
        /\ env.tls = TRUE => env.cert = "good" /\ env.key = "good"
        /\ env.clientAuth = "require" => env.ca # NotSet
  BY DEF Startable
<1>6. Startable => cfg.authMode \in AuthMode /\ cfg.clientAuth \in ClientAuth
  BY <1>5, AuthFields
<1>7. Startable => ~(cfg.tls /\ Missing({cfg.cert, cfg.key}))
  BY <1>2, <1>4, <1>5, AuthFields
<1>8. Startable => ~(cfg.clientAuth = "require" /\ Missing({cfg.ca}))
  BY <1>2, <1>5, AuthFields
<1>9. Startable => ~LacksRequirements
  BY <1>5, RequirementsCorrect
<1>10. QED
  BY <1>1, <1>3, <1>6, <1>7, <1>8, <1>9

-----------------------------------------------------------------------------
(* The environment stays, so what is said of it stays *)

LEMMA SameEnvironment ==
  ASSUME env' = env
  PROVE  /\ Mode' = Mode /\ Complete' = Complete /\ Asked' = Asked
         /\ ServerConfig' = ServerConfig /\ FullConfig' = FullConfig
         /\ ServerReadable' <=> ServerReadable
         /\ AuthReadable' <=> AuthReadable
         /\ ServerValid' <=> ServerValid
         /\ AuthValid' <=> AuthValid
         /\ FilesGood' <=> FilesGood
         /\ VerifiesClients' <=> VerifiesClients
         /\ Startable' <=> Startable
<1>1. /\ Mode' = Mode
      /\ VerifiesClients' <=> VerifiesClients
      /\ ServerReadable' <=> ServerReadable
      /\ AuthReadable' <=> AuthReadable
      /\ ServerValid' <=> ServerValid
      /\ FilesGood' <=> FilesGood
  BY DEF Mode, VerifiesClients, ServerReadable, AuthReadable, ServerValid, FilesGood
<1>2. Complete' = Complete
  BY DEF Complete, Method, VerifiesClients
<1>3. Asked' = Asked
  BY <1>1, <1>2 DEF Asked
<1>4. ServerConfig' = ServerConfig /\ FullConfig' = FullConfig
  BY DEF ServerConfig, FullConfig, Defaults
<1>5. AuthValid' <=> AuthValid
  BY <1>1, <1>2, <1>3 DEF AuthValid
<1>6. Startable' <=> Startable
  BY <1>1, <1>2, <1>3 DEF Startable
<1>7. QED
  BY <1>1, <1>2, <1>3, <1>4, <1>5, <1>6

\* Stopping for a reason keeps the invariant.
LEMMA StopKeeps ==
  ASSUME IInv, env' = env, NEW e, Stops(e),
         \/ ~Startable
         \/ e = "logger"
         \/ e \in {"discovery", "keys"} /\ "oidc" \in Asked
  PROVE  IInv'
<1>1. /\ stage' = "stopped" /\ err' = e /\ methods' = methods
      /\ attempts' = attempts
  BY DEF Stops
<1>2. TypeOK'
  BY <1>1 DEF IInv, TypeOK, Stages
<1>3. Config' /\ Valid' /\ Built'
  BY <1>1 DEF Config, Valid, Built, RunStages, MethodStages, CreatedStages
<1>4. Have' = Have
  BY <1>1 DEF Have
<1>5. Sorted'
  BY <1>1 DEF IInv, Progress, Sorted
<1>6. Progress'
  BY <1>1, <1>4, <1>5 DEF IInv, Progress, MethodStages, CreatedStages
<1>7. StoppedForAReason'
  BY <1>1, SameEnvironment DEF StoppedForAReason
<1>8. QED
  BY <1>2, <1>3, <1>6, <1>7 DEF IInv

-----------------------------------------------------------------------------
(* The steps before the first method *)

Early == {"load_server", "load_auth", "validate_server", "validate_auth",
          "logger", "telemetry", "create"}

LEMMA EarlyKeeps ==
  ASSUME IInv, env' = env, methods' = methods, attempts' = attempts,
         stage \in Early, stage' \in Early
  PROVE  TypeOK' /\ Progress' /\ Built' /\ StoppedForAReason'
<1>1. methods' = <<>>
  BY DEF IInv, Progress, Early, MethodStages, CreatedStages
<1>2. DOMAIN methods' = {}
  BY <1>1
<1>3. Have' = {} /\ Sorted'
  BY <1>2 DEF Have, Sorted
<1>4. Progress'
  BY <1>1, <1>3 DEF Progress, Early, MethodStages, CreatedStages
<1>5. TypeOK'
  BY DEF IInv, TypeOK, Early, Stages, RunStages
<1>6. Built' /\ StoppedForAReason'
  BY DEF Built, StoppedForAReason, Early
<1>7. QED
  BY <1>4, <1>5, <1>6

LEMMA LoadServerEnvKeeps ==
  ASSUME IInv, LoadServerEnv
  PROVE  IInv'
<1>1. stage = "load_server" /\ env' = env
  BY DEF LoadServerEnv, At
<1>2. CASE ~ServerReadable
  <2>1. Stops("unreadable")
    BY <1>2 DEF LoadServerEnv, Unreadable, ServerReadable
  <2>2. ~Startable
    BY <1>2 DEF Startable, ServerReadable
  <2>3. QED
    BY <1>1, <2>1, <2>2, StopKeeps
<1>3. CASE ServerReadable
  <2>1. cfg = Defaults
    BY <1>1 DEF IInv, Config
  <2>2. /\ cfg' = ServerConfig /\ stage' = "load_auth"
        /\ methods' = methods /\ attempts' = attempts
    BY <1>3, <2>1 DEF LoadServerEnv, Unreadable, ServerReadable, ServerConfig, Goes
  <2>3. Config' /\ Valid'
    BY <1>1, <1>3, <2>2, SameEnvironment
    DEF Config, Valid, RunStages, MethodStages, CreatedStages
  <2>4. QED
    BY <1>1, <2>2, <2>3, EarlyKeeps DEF IInv, Early
<1>4. QED
  BY <1>2, <1>3

LEMMA LoadAuthEnvKeeps ==
  ASSUME IInv, LoadAuthEnv
  PROVE  IInv'
<1>1. stage = "load_auth" /\ env' = env
  BY DEF LoadAuthEnv, At
<1>2. CASE ~AuthReadable
  <2>1. Stops("unreadable")
    BY <1>2 DEF LoadAuthEnv, Unreadable, AuthReadable
  <2>2. ~Startable
    BY <1>2 DEF Startable, AuthReadable
  <2>3. QED
    BY <1>1, <2>1, <2>2, StopKeeps
<1>3. CASE AuthReadable
  <2>1. cfg = ServerConfig /\ ServerReadable
    BY <1>1 DEF IInv, Config
  <2>2. /\ cfg' = FullConfig /\ stage' = "validate_server"
        /\ methods' = methods /\ attempts' = attempts
    BY <1>3, <2>1 DEF LoadAuthEnv, Unreadable, AuthReadable, FullConfig, Goes
  <2>3. Config' /\ Valid'
    BY <1>1, <1>3, <2>1, <2>2, SameEnvironment
    DEF Config, Valid, RunStages, MethodStages, CreatedStages
  <2>4. QED
    BY <1>1, <2>2, <2>3, EarlyKeeps DEF IInv, Early
<1>4. QED
  BY <1>2, <1>3

LEMMA ValidateServerKeeps ==
  ASSUME IInv, ValidateServer
  PROVE  IInv'
<1>1. stage = "validate_server" /\ env' = env
  BY DEF ValidateServer, At
<1>2. cfg = FullConfig /\ ServerReadable /\ AuthReadable
  BY <1>1 DEF IInv, Config
<1>3. ServerError = "none" <=> ServerValid
  BY <1>2, ServerErrorCorrect DEF IInv
<1>4. CASE ServerError # "none"
  <2>1. Stops(ServerError)
    BY <1>4 DEF ValidateServer, Checks
  <2>2. ~Startable
    BY <1>3, <1>4 DEF Startable, ServerValid
  <2>3. QED
    BY <1>1, <2>1, <2>2, StopKeeps
<1>5. CASE ServerError = "none"
  <2>1. /\ cfg' = cfg /\ stage' = "validate_auth"
        /\ methods' = methods /\ attempts' = attempts
    BY <1>5 DEF ValidateServer, Checks, Goes
  <2>2. Config' /\ Valid'
    BY <1>1, <1>2, <1>3, <1>5, <2>1, SameEnvironment
    DEF Config, Valid, RunStages, MethodStages, CreatedStages
  <2>3. QED
    BY <1>1, <2>1, <2>2, EarlyKeeps DEF IInv, Early
<1>6. QED
  BY <1>4, <1>5

LEMMA ValidateAuthKeeps ==
  ASSUME IInv, ValidateAuth
  PROVE  IInv'
<1>1. stage = "validate_auth" /\ env' = env
  BY DEF ValidateAuth, At
<1>2. cfg = FullConfig /\ ServerReadable /\ AuthReadable /\ ServerValid
  BY <1>1 DEF IInv, Config, Valid
<1>3. /\ AuthError = "none" => AuthValid
      /\ AuthError # "none" => ~Startable
  BY <1>2, AuthErrorCorrect DEF IInv
<1>4. CASE AuthError # "none"
  <2>1. Stops(AuthError)
    BY <1>4 DEF ValidateAuth, Checks
  <2>2. QED
    BY <1>1, <1>3, <1>4, <2>1, StopKeeps
<1>5. CASE AuthError = "none"
  <2>1. /\ cfg' = cfg /\ stage' = "logger"
        /\ methods' = methods /\ attempts' = attempts
    BY <1>5 DEF ValidateAuth, Checks, Goes
  <2>2. Config' /\ Valid'
    BY <1>1, <1>2, <1>3, <1>5, <2>1, SameEnvironment
    DEF Config, Valid, RunStages, MethodStages, CreatedStages
  <2>3. QED
    BY <1>1, <2>1, <2>2, EarlyKeeps DEF IInv, Early
<1>6. QED
  BY <1>4, <1>5

\* Within run, what has been read and validated stays so.
LEMMA RunKeeps ==
  ASSUME IInv, env' = env, cfg' = cfg, stage \in RunStages, stage' \in RunStages
  PROVE  Config' /\ Valid' /\ StoppedForAReason'
<1>1. /\ cfg = FullConfig /\ ServerReadable /\ AuthReadable
      /\ ServerValid /\ AuthValid
  BY DEF IInv, Config, Valid
<1>2. Config'
  BY <1>1, SameEnvironment DEF Config, RunStages, MethodStages, CreatedStages
<1>3. Valid'
  BY <1>1, SameEnvironment DEF Valid
<1>4. StoppedForAReason'
  BY DEF StoppedForAReason, RunStages, MethodStages, CreatedStages
<1>5. QED
  BY <1>2, <1>3, <1>4

LEMMA InitLoggerKeeps ==
  ASSUME IInv, InitLogger
  PROVE  IInv'
<1>1. stage = "logger" /\ env' = env
  BY DEF InitLogger, At
<1>2. CASE Stops("logger")
  BY <1>1, <1>2, StopKeeps
<1>3. CASE /\ Goes("telemetry")
           /\ UNCHANGED <<cfg, traced, methods, attempts, server>>
  <2>1. stage' = "telemetry" /\ cfg' = cfg
    BY <1>3 DEF Goes
  <2>2. Config' /\ Valid'
    BY <1>1, <2>1, RunKeeps DEF RunStages
  <2>3. QED
    BY <1>1, <1>3, <2>1, <2>2, EarlyKeeps DEF IInv, Early
<1>4. QED
  BY <1>2, <1>3 DEF InitLogger, Checks

LEMMA InitTelemetryKeeps ==
  ASSUME IInv, InitTelemetry
  PROVE  IInv'
<1>1. /\ stage = "telemetry" /\ env' = env /\ stage' = "create" /\ cfg' = cfg
      /\ methods' = methods /\ attempts' = attempts
  BY DEF InitTelemetry, At, Goes
<1>2. Config' /\ Valid'
  BY <1>1, RunKeeps DEF RunStages
<1>3. QED
  BY <1>1, <1>2, EarlyKeeps DEF IInv, Early

-----------------------------------------------------------------------------
(* The methods *)

\* The order of createMultiAuthenticator is the order of the ranks.
LEMMA Ranks ==
  /\ \A m \in Method : Rank[m] \in 1 .. 4 /\ (m = "oidc" <=> Rank[m] = 4)
  /\ \A m \in Method \ {"oidc"} :
       NextMethod[m] \in Method /\ Rank[NextMethod[m]] = Rank[m] + 1
  /\ \A m, n \in Method : Rank[m] = Rank[n] => m = n
  /\ NextMethod["oidc"] = "created"
  BY DEF Rank, NextMethod, Method

\* What createMultiAuthenticator tests is what its environment asks for.
LEMMA ConfiguredCorrect ==
  ASSUME TypeOK, cfg = FullConfig, AuthReadable, NEW m \in Method
  PROVE  /\ Multi <=> Mode = "multi"
         /\ Mode # "multi" => Configured(m)
         /\ Mode = "multi" => (Configured(m) <=> m \in Asked)
<1>1. Multi <=> Mode = "multi"
  BY AuthFields DEF Multi
<1>2. Mode # "multi" => Configured(m)
  BY <1>1 DEF Configured
<1>3. /\ Missing({cfg.users}) <=> env.users = NotSet
      /\ Missing({cfg.keys}) <=> env.keys = NotSet
      /\ Missing({cfg.issuer, cfg.clientID}) <=>
           env.issuer = NotSet \/ env.clientID = NotSet
  BY ConfigFields DEF Missing
<1>4. (cfg.tls /\ cfg.clientAuth = "require") <=> VerifiesClients
  BY AuthFields DEF VerifiesClients
<1>5. Mode = "multi" => (Configured(m) <=> m \in Complete)
  BY <1>1, <1>3, <1>4, Members DEF Configured, Method
<1>6. QED
  BY <1>1, <1>2, <1>5, AskedIs

\* After method m, with the methods asked for up to m created.
LEMMA MovesOn ==
  ASSUME IInv, NEW m \in Method, stage \in MethodStages, Position(stage) = Rank[m],
         env' = env, Moves(m), Have' = {n \in Asked : Rank[n] <= Rank[m]}
  PROVE  /\ stage' \in Method \cup {"created"}
         /\ stage' \in Method =>
              /\ Have' = {n \in Asked : Rank[n] < Position(stage')}
              /\ Mode = "multi"
         /\ stage' = "created" => Have' = Asked
<1>1. /\ cfg = FullConfig /\ AuthReadable
      /\ Mode = "multi" \/ Asked = {IF stage = "keys" THEN "oidc" ELSE stage}
  BY DEF IInv, Config, Progress, RunStages
<1>2. Multi <=> Mode = "multi"
  BY <1>1, ConfiguredCorrect DEF IInv
<1>3. Asked \subseteq Method
  <2>1. (IF stage = "keys" THEN "oidc" ELSE stage) \in Method
    BY DEF MethodStages, Method
  <2>2. QED
    BY <1>1, <2>1, AskedIs, Members
<1>4. CASE Mode # "multi"
  <2>1. stage' = "created"
    BY <1>2, <1>4 DEF Moves, Goes
  <2>2. Asked = {m}
    BY <1>1, <1>4, Ranks DEF Position, MethodStages, Method
  <2>3. Have' = Asked
    BY <2>2, Ranks
  <2>4. QED
    BY <2>1, <2>3 DEF Method
<1>5. CASE Mode = "multi" /\ m = "oidc"
  <2>1. stage' = "created"
    BY <1>2, <1>5, Ranks DEF Moves, Goes
  <2>2. \A n \in Asked : Rank[n] <= Rank[m]
    BY <1>3, <1>5, Ranks
  <2>3. QED
    BY <2>1, <2>2 DEF Method
<1>6. CASE Mode = "multi" /\ m # "oidc"
  <2>1. /\ stage' = NextMethod[m] /\ stage' \in Method
        /\ Rank[stage'] = Rank[m] + 1
    BY <1>2, <1>6, Ranks DEF Moves, Goes
  <2>2. Position(stage') = Rank[m] + 1
    BY <2>1 DEF Position, Method
  <2>3. \A n \in Asked : Rank[n] <= Rank[m] <=> Rank[n] < Position(stage')
    BY <1>3, <2>2, Ranks
  <2>4. stage' # "created"
    BY <2>1 DEF Method
  <2>5. QED
    BY <1>6, <2>1, <2>3, <2>4
<1>7. QED
  BY <1>4, <1>5, <1>6

\* A method that is not asked for is passed over.
LEMMA PassOverKeeps ==
  ASSUME IInv, NEW m \in Method, PassOver(m)
  PROVE  IInv'
<1>1. /\ stage = m /\ env' = env /\ cfg' = cfg /\ methods' = methods
      /\ attempts' = attempts /\ ~Configured(m) /\ Moves(m)
  BY DEF PassOver, At
<1>2. stage \in MethodStages /\ stage \in RunStages /\ stage # "keys"
  BY <1>1 DEF MethodStages, RunStages, Method
<1>3. cfg = FullConfig /\ AuthReadable
  BY <1>2 DEF IInv, Config
<1>4. Mode = "multi" /\ m \notin Asked
  BY <1>1, <1>3, ConfiguredCorrect DEF IInv
<1>5. Position(stage) = Rank[m]
  BY <1>1, <1>2 DEF Position
<1>6. Have = {n \in Asked : Rank[n] < Rank[m]}
  BY <1>2, <1>5 DEF IInv, Progress
<1>7. Asked \subseteq Method
  BY <1>4, AskedIs, Members
<1>8. \A n \in Asked : Rank[n] <= Rank[m] <=> Rank[n] < Rank[m]
  BY <1>4, <1>7, Ranks
<1>9. Have' = Have /\ Sorted'
  BY <1>1 DEF Have, Sorted, IInv, Progress
<1>10. Have' = {n \in Asked : Rank[n] <= Rank[m]}
  BY <1>6, <1>8, <1>9
<1>11. /\ stage' \in Method \cup {"created"}
       /\ stage' \in Method => Have' = {n \in Asked : Rank[n] < Position(stage')}
       /\ stage' = "created" => Have' = Asked
  BY <1>1, <1>2, <1>5, <1>10, MovesOn
<1>12. stage' \in RunStages /\ stage' # "keys" /\ stage' \in Stages
  BY <1>11 DEF Stages, RunStages, MethodStages, CreatedStages, Method
<1>13. Progress'
  BY <1>1, <1>4, <1>9, <1>11, <1>12, SameEnvironment
  DEF IInv, Progress, RunStages, MethodStages, CreatedStages, Method, Position
<1>14. Config' /\ Valid' /\ StoppedForAReason'
  BY <1>1, <1>2, <1>12, RunKeeps
<1>15. TypeOK' /\ Built'
  BY <1>1, <1>11, <1>12 DEF IInv, TypeOK, Built, Method
<1>16. QED
  BY <1>13, <1>14, <1>15 DEF IInv

\* Append, in the terms of the invariant.
LEMMA Appended ==
  ASSUME TypeOK, Sorted, NEW m \in Method, methods' = Append(methods, m),
         \A n \in Have : Rank[n] < Rank[m]
  PROVE  Have' = Have \cup {m} /\ Sorted' /\ methods' \in Seq(Method)
<1>1. /\ methods \in Seq(Method) /\ methods' \in Seq(Method)
      /\ Len(methods) \in Nat /\ DOMAIN methods = 1 .. Len(methods)
      /\ DOMAIN methods' = 1 .. (Len(methods) + 1)
      /\ \A i \in 1 .. Len(methods) : methods'[i] = methods[i]
      /\ methods'[Len(methods) + 1] = m
  BY DEF TypeOK
<1>2. Have' = Have \cup {m}
  BY <1>1 DEF Have
<1>3. Sorted'
  <2>1. SUFFICES ASSUME NEW i \in DOMAIN methods', NEW j \in DOMAIN methods', i < j
                 PROVE  Rank[methods'[i]] < Rank[methods'[j]]
    BY DEF Sorted
  <2>2. i \in 1 .. Len(methods) /\ methods'[i] = methods[i]
    BY <1>1, <2>1
  <2>3. CASE j \in 1 .. Len(methods)
    BY <1>1, <2>1, <2>2, <2>3 DEF Sorted
  <2>4. CASE j = Len(methods) + 1
    <3>1. methods[i] \in Have
      BY <1>1, <2>2 DEF Have
    <3>2. QED
      BY <1>1, <2>2, <2>4, <3>1
  <2>5. QED
    BY <1>1, <2>3, <2>4
<1>4. QED
  BY <1>1, <1>2, <1>3

\* A method that is asked for, with its settings usable, is added.
LEMMA AddKeeps ==
  ASSUME IInv, NEW m \in Asked, m \in Method,
         stage = m \/ (stage = "keys" /\ m = "oidc"),
         env' = env, Adds(m),
         m = "basic" => Usable(env.users), m = "apikey" => Usable(env.keys)
  PROVE  IInv'
<1>1. /\ cfg' = cfg /\ methods' = Append(methods, m) /\ attempts' = attempts
      /\ Moves(m)
  BY DEF Adds
<1>2. stage \in MethodStages /\ stage \in RunStages /\ Position(stage) = Rank[m]
  BY DEF MethodStages, RunStages, Method, Position, Rank
<1>3. Have = {n \in Asked : Rank[n] < Rank[m]} /\ Mode # "none"
  BY <1>2 DEF IInv, Progress
<1>4. Asked \subseteq Method
  <2>1. Mode = "multi" \/ Asked = {m}
    BY <1>2 DEF IInv, Progress, Method
  <2>2. QED
    BY <2>1, AskedIs, Members
<1>5. TypeOK /\ Sorted
  BY DEF IInv, Progress
<1>6. Have' = Have \cup {m} /\ Sorted' /\ methods' \in Seq(Method)
  BY <1>1, <1>3, <1>5, Appended
<1>7. \A n \in Asked : Rank[n] <= Rank[m] <=> (Rank[n] < Rank[m] \/ n = m)
  BY <1>4, Ranks
<1>8. Have' = {n \in Asked : Rank[n] <= Rank[m]}
  BY <1>3, <1>6, <1>7
<1>9. /\ stage' \in Method \cup {"created"}
      /\ stage' \in Method =>
           /\ Have' = {n \in Asked : Rank[n] < Position(stage')}
           /\ Mode = "multi"
      /\ stage' = "created" => Have' = Asked
  BY <1>1, <1>2, <1>8, MovesOn
<1>10. stage' \in RunStages /\ stage' # "keys" /\ stage' \in Stages
  BY <1>9 DEF Stages, RunStages, MethodStages, CreatedStages, Method
<1>11. /\ "basic" \in Have' => Usable(env.users)
       /\ "apikey" \in Have' => Usable(env.keys)
  BY <1>6 DEF IInv, Progress
<1>12. Usable(env.users)' <=> Usable(env.users)
  BY DEF Usable
<1>13. Usable(env.keys)' <=> Usable(env.keys)
  BY DEF Usable
<1>14. Progress'
  BY <1>3, <1>6, <1>9, <1>10, <1>11, <1>12, <1>13, SameEnvironment
  DEF Progress, RunStages, MethodStages, CreatedStages, Method, Position
<1>15. Config' /\ Valid' /\ StoppedForAReason'
  BY <1>1, <1>2, <1>10, RunKeeps
<1>16. TypeOK' /\ Built'
  BY <1>1, <1>6, <1>9, <1>10 DEF IInv, TypeOK, Built, Method
<1>17. QED
  BY <1>14, <1>15, <1>16 DEF IInv

\* A method that the code takes for configured is asked for.
LEMMA ConfiguredIsAsked ==
  ASSUME IInv, NEW m \in Method, stage = m, Configured(m)
  PROVE  m \in Asked
<1>1. stage \in MethodStages /\ stage # "keys" /\ stage \in RunStages
  BY DEF MethodStages, RunStages, Method
<1>2. cfg = FullConfig /\ AuthReadable
  BY <1>1 DEF IInv, Config
<1>3. Mode = "multi" \/ Asked = {m}
  BY <1>1 DEF IInv, Progress
<1>4. QED
  BY <1>2, <1>3, ConfiguredCorrect DEF IInv

LEMMA AddMTLSKeeps ==
  ASSUME IInv, AddMTLS
  PROVE  IInv'
<1>1. stage = "mtls" /\ env' = env /\ Configured("mtls") /\ Adds("mtls")
  BY DEF AddMTLS, At
<1>2. "mtls" \in Method
  BY DEF Method
<1>3. QED
  BY <1>1, <1>2, ConfiguredIsAsked, AddKeeps

LEMMA AddTableKeeps ==
  ASSUME IInv,
         \/ AddTable("basic", cfg.users)
         \/ AddTable("apikey", cfg.keys)
  PROVE  IInv'
<1>1. "basic" \in Method /\ "apikey" \in Method
  BY DEF Method
<1>2. ASSUME stage \in {"basic", "apikey"}
      PROVE  cfg.users = env.users /\ cfg.keys = env.keys
  <2>1. stage \in RunStages
    BY <1>2 DEF RunStages, MethodStages
  <2>2. cfg = FullConfig
    BY <2>1 DEF IInv, Config
  <2>3. FullConfig.users = env.users /\ FullConfig.keys = env.keys
    BY ConfigFields
  <2>4. QED
    BY <2>2, <2>3
<1>3. CASE AddTable("basic", cfg.users)
  <2>1. /\ stage = "basic" /\ env' = env /\ Configured("basic")
        /\ \/ Usable(cfg.users) /\ Adds("basic")
           \/ ~Usable(cfg.users) /\ Stops("table")
    BY <1>3 DEF AddTable, At
  <2>2. "basic" \in Asked /\ cfg.users = env.users
    BY <1>1, <1>2, <2>1, ConfiguredIsAsked
  <2>3. CASE Usable(cfg.users) /\ Adds("basic")
    BY <1>1, <2>1, <2>2, <2>3, AddKeeps
  <2>4. CASE ~Usable(cfg.users) /\ Stops("table")
    <3>1. ~Startable
      BY <2>2, <2>4 DEF Startable
    <3>2. QED
      BY <2>1, <2>4, <3>1, StopKeeps
  <2>5. QED
    BY <2>1, <2>3, <2>4
<1>4. CASE AddTable("apikey", cfg.keys)
  <2>1. /\ stage = "apikey" /\ env' = env /\ Configured("apikey")
        /\ \/ Usable(cfg.keys) /\ Adds("apikey")
           \/ ~Usable(cfg.keys) /\ Stops("table")
    BY <1>4 DEF AddTable, At
  <2>2. "apikey" \in Asked /\ cfg.keys = env.keys
    BY <1>1, <1>2, <2>1, ConfiguredIsAsked
  <2>3. CASE Usable(cfg.keys) /\ Adds("apikey")
    BY <1>1, <2>1, <2>2, <2>3, AddKeeps
  <2>4. CASE ~Usable(cfg.keys) /\ Stops("table")
    <3>1. ~Startable
      BY <2>2, <2>4 DEF Startable
    <3>2. QED
      BY <2>1, <2>4, <3>1, StopKeeps
  <2>5. QED
    BY <2>1, <2>3, <2>4
<1>5. QED
  BY <1>3, <1>4

LEMMA DiscoverKeeps ==
  ASSUME IInv, Discover
  PROVE  IInv'
<1>1. stage = "oidc" /\ env' = env /\ Configured("oidc")
  BY DEF Discover, At
<1>2. "oidc" \in Asked
  BY <1>1, ConfiguredIsAsked DEF Method
<1>3. CASE Stops("discovery")
  BY <1>1, <1>2, <1>3, StopKeeps
<1>4. CASE /\ Goes("keys")
           /\ UNCHANGED <<cfg, traced, methods, attempts, server>>
  <2>1. /\ stage' = "keys" /\ cfg' = cfg /\ methods' = methods
        /\ attempts' = attempts
    BY <1>4 DEF Goes
  <2>2. Config' /\ Valid' /\ StoppedForAReason'
    BY <1>1, <2>1, RunKeeps DEF RunStages, MethodStages
  <2>3. Have' = Have /\ Sorted'
    BY <2>1 DEF Have, Sorted, IInv, Progress
  <2>4. /\ Position("keys") = 4 /\ Position("oidc") = 4
        /\ Have = {n \in Asked : Rank[n] < 4}
        /\ Mode = "multi" \/ Asked = {"oidc"}
        /\ Mode # "none"
    BY <1>1 DEF IInv, Progress, Position, Rank, MethodStages
  <2>5. Progress'
    BY <1>1, <1>2, <2>1, <2>3, <2>4, SameEnvironment
    DEF IInv, Progress, MethodStages, CreatedStages, Position
  <2>6. TypeOK' /\ Built'
    BY <1>1, <2>1 DEF IInv, TypeOK, Built, Stages, RunStages, MethodStages
  <2>7. QED
    BY <2>2, <2>5, <2>6 DEF IInv
<1>5. QED
  BY <1>3, <1>4 DEF Discover, Checks

LEMMA FetchKeysKeeps ==
  ASSUME IInv, FetchKeys
  PROVE  IInv'
<1>1. stage = "keys" /\ env' = env /\ Adds("oidc")
  BY DEF FetchKeys, At
<1>2. "oidc" \in Asked /\ "oidc" \in Method
  BY <1>1 DEF IInv, Progress, Method
<1>3. QED
  BY <1>1, <1>2, AddKeeps

LEMMA FetchFailsKeeps ==
  ASSUME IInv, FetchFails
  PROVE  IInv'
<1>1. stage = "keys" /\ env' = env
  BY DEF FetchFails, At
<1>2. "oidc" \in Asked
  BY <1>1 DEF IInv, Progress
<1>3. CASE Stops("keys")
  BY <1>1, <1>2, <1>3, StopKeeps
<1>4. CASE /\ attempts' = attempts + 1
           /\ UNCHANGED <<stage, cfg, err, traced, methods, server>>
  <2>1. attempts' \in Nat
    BY <1>4 DEF IInv, TypeOK
  <2>2. Config' /\ Valid' /\ StoppedForAReason'
    BY <1>1, <1>4, RunKeeps DEF RunStages, MethodStages
  <2>3. Have' = Have /\ Sorted'
    BY <1>4 DEF Have, Sorted, IInv, Progress
  <2>4. Progress'
    BY <1>1, <1>4, <2>3, SameEnvironment
    DEF IInv, Progress, MethodStages, CreatedStages, Position
  <2>5. TypeOK' /\ Built'
    BY <1>1, <1>4, <2>1 DEF IInv, TypeOK, Built
  <2>6. QED
    BY <2>2, <2>4, <2>5 DEF IInv
<1>5. QED
  BY <1>3, <1>4 DEF FetchFails

LEMMA CreateKeeps ==
  ASSUME IInv, Create
  PROVE  IInv'
<1>1. /\ stage = "create" /\ env' = env /\ cfg' = cfg /\ methods' = methods
      /\ attempts' = attempts
      /\ stage' = CASE cfg.authMode = "none" -> "created"
                    [] Multi -> "mtls"
                    [] OTHER -> cfg.authMode
  BY DEF Create, At, Goes
<1>2. /\ cfg = FullConfig /\ AuthReadable /\ AuthValid
      /\ methods = <<>>
  BY <1>1 DEF IInv, Config, Valid, Progress, RunStages, MethodStages, CreatedStages
<1>3. cfg.authMode = Mode /\ Mode \in AuthMode
  BY <1>2, AuthFields DEF IInv, AuthValid
<1>4. /\ Mode = "none" => stage' = "created"
      /\ Mode = "multi" => stage' = "mtls"
      /\ Mode \notin {"none", "multi"} => stage' = Mode
  BY <1>1, <1>3 DEF Multi
<1>5. stage' \in Method \cup {"created"}
  BY <1>3, <1>4 DEF AuthMode, Method
<1>6. stage' \in RunStages /\ stage' # "keys" /\ stage' \in Stages
  BY <1>5 DEF Stages, RunStages, MethodStages, CreatedStages, Method
<1>7. DOMAIN methods' = {}
  BY <1>1, <1>2
<1>8. Have' = {} /\ Sorted'
  BY <1>7 DEF Have, Sorted
<1>9. \A n \in Asked : ~(Rank[n] < Position(stage')) \/ stage' = "created"
  <2>1. Asked \subseteq Method
    BY <1>3, AskedIs, Members DEF AuthMode, Method
  <2>2. CASE Mode = "multi"
    BY <1>4, <2>1, <2>2 DEF Position, Rank, Method
  <2>3. CASE Mode \notin {"none", "multi"}
    BY <1>3, <1>4, <2>1, <2>3, AskedIs DEF Position, Rank, Method, AuthMode
  <2>4. CASE Mode = "none"
    BY <1>4, <2>4
  <2>5. QED
    BY <2>2, <2>3, <2>4
<1>10. stage' \in MethodStages =>
         /\ Have' = {n \in Asked : Rank[n] < Position(stage')}
         /\ Mode = "multi" \/ Asked = {stage'}
         /\ Mode # "none"
  BY <1>4, <1>8, <1>9, AskedIs DEF MethodStages
<1>11. stage' \in CreatedStages => Have' = Asked /\ stage' = "created"
  BY <1>3, <1>4, <1>8, AskedIs DEF CreatedStages, AuthMode
<1>12. Progress'
  BY <1>1, <1>5, <1>6, <1>8, <1>10, <1>11, SameEnvironment
  DEF Progress, MethodStages, CreatedStages, Method, Position
<1>13. Config' /\ Valid' /\ StoppedForAReason'
  BY <1>1, <1>6, RunKeeps DEF RunStages
<1>14. TypeOK' /\ Built'
  BY <1>1, <1>5, <1>6 DEF IInv, TypeOK, Built, Method
<1>15. QED
  BY <1>12, <1>13, <1>14 DEF IInv

-----------------------------------------------------------------------------
(* New and Start *)

LEMMA CreatedKeeps ==
  ASSUME IInv, Created
  PROVE  IInv'
<1>1. stage = "created" /\ env' = env
  BY DEF Created, At
<1>2. stage \in RunStages /\ stage \in CreatedStages
  BY <1>1 DEF RunStages, CreatedStages
<1>3. cfg = FullConfig /\ AuthReadable /\ Have = Asked
  BY <1>2 DEF IInv, Config, Progress
<1>4. Multi <=> Mode = "multi"
  BY <1>3, AuthFields DEF IInv, Multi
<1>5. methods = <<>> <=> Have = {}
  <2>1. methods \in Seq(Method)
    BY DEF IInv, TypeOK
  <2>2. /\ Len(methods) \in Nat /\ DOMAIN methods = 1 .. Len(methods)
        /\ methods = <<>> <=> Len(methods) = 0
    BY <2>1
  <2>3. Len(methods) # 0 => methods[1] \in Have
    BY <2>2 DEF Have
  <2>4. Len(methods) = 0 => Have = {}
    BY <2>2 DEF Have
  <2>5. QED
    BY <2>2, <2>3, <2>4
<1>6. CASE Multi /\ methods = <<>>
  <2>1. Stops("no method")
    BY <1>6 DEF Created, Checks
  <2>2. ~Startable
    BY <1>3, <1>4, <1>5, <1>6 DEF Startable
  <2>3. QED
    BY <1>1, <2>1, <2>2, StopKeeps
<1>7. CASE ~(Multi /\ methods = <<>>)
  <2>1. /\ stage' = "server" /\ cfg' = cfg /\ methods' = methods
        /\ attempts' = attempts
    BY <1>7 DEF Created, Checks, Goes
  <2>2. Config' /\ Valid' /\ StoppedForAReason'
    BY <1>1, <2>1, RunKeeps DEF RunStages, CreatedStages
  <2>3. Have' = Have /\ Sorted'
    BY <2>1 DEF Have, Sorted, IInv, Progress
  <2>4. Mode # "none" => Asked # {}
    BY <1>3, <1>4, <1>5, <1>7, AskedIs
  <2>5. Progress'
    BY <1>1, <1>3, <2>1, <2>3, <2>4, SameEnvironment
    DEF IInv, Progress, MethodStages, CreatedStages
  <2>6. TypeOK' /\ Built'
    BY <1>1, <2>1 DEF IInv, TypeOK, Built, Stages, RunStages, CreatedStages
  <2>7. QED
    BY <2>2, <2>5, <2>6 DEF IInv
<1>8. QED
  BY <1>6, <1>7

LEMMA NewKeeps ==
  ASSUME IInv, New
  PROVE  IInv'
<1>1. /\ stage = "server" /\ env' = env /\ stage' = "start" /\ cfg' = cfg
      /\ methods' = methods /\ attempts' = attempts
  BY DEF New, At, Goes
<1>2. stage \in RunStages /\ stage \in CreatedStages
  BY <1>1 DEF RunStages, CreatedStages
<1>3. /\ cfg = FullConfig /\ AuthReadable /\ AuthValid
      /\ Have = Asked /\ (Mode # "none" => Asked # {})
  BY <1>1, <1>2 DEF IInv, Config, Valid, Progress
<1>4. methods # <<>> <=> Mode # "none"
  <2>1. methods \in Seq(Method)
    BY DEF IInv, TypeOK
  <2>2. /\ Len(methods) \in Nat /\ DOMAIN methods = 1 .. Len(methods)
        /\ methods = <<>> <=> Len(methods) = 0
    BY <2>1
  <2>3. Len(methods) # 0 => methods[1] \in Have
    BY <2>2 DEF Have
  <2>4. Len(methods) = 0 => Have = {}
    BY <2>2 DEF Have
  <2>5. QED
    BY <1>3, <2>2, <2>3, <2>4, AskedIs
<1>5. TLSBroken <=> ~FilesGood
  <2>1. cfg.cert = env.cert /\ cfg.key = env.key /\ cfg.ca = env.ca
    BY <1>3, ConfigFields
  <2>2. env.ca \in {"good", NotSet} <=> env.ca # "bad"
    BY ValuesAssumption DEF IInv, TypeOK, Environment, File
  <2>3. cfg.tls <=> env.tls = TRUE
    BY <1>3, AuthFields DEF IInv
  <2>4. QED
    BY <2>1, <2>2, <2>3 DEF TLSBroken, FilesGood
<1>6. server'.broken <=> ~FilesGood
  BY <1>5 DEF New
<1>7. server'.guarded <=> Mode # "none"
  BY <1>4 DEF New
<1>8. server'.ports =
        {Given(env.serverPort, 8080), Given(env.probePort, 9090)} \ {0}
  BY <1>3, ConfigFields DEF New
<1>9. FilesGood /\ VerifiesClients =>
        server'.tls = "require" /\ (env.ca # NotSet => server'.pool)
  <2>1. SUFFICES ASSUME FilesGood, VerifiesClients
                 PROVE  server'.tls = "require" /\ (env.ca # NotSet => server'.pool)
    OBVIOUS
  <2>2. cfg.tls /\ cfg.clientAuth = "require" /\ ~TLSBroken
    BY <1>3, <1>5, <2>1, AuthFields DEF IInv, VerifiesClients
  <2>3. server'.tls = "require"
    BY <2>2 DEF New
  <2>4. env.ca # NotSet => cfg.ca = "good"
    <3>1. cfg.ca = env.ca
      BY <1>3, ConfigFields
    <3>2. env.ca \in {"good", "bad", NotSet}
      BY DEF IInv, TypeOK, Environment, File
    <3>3. env.ca # "bad"
      BY <2>1 DEF FilesGood, VerifiesClients
    <3>4. QED
      BY <3>1, <3>2, <3>3
  <2>5. QED
    BY <2>2, <2>3, <2>4 DEF New
<1>10. Built'
  BY <1>1, <1>6, <1>7, <1>8, <1>9, SameEnvironment DEF Built
<1>11. Config' /\ Valid' /\ StoppedForAReason'
  BY <1>1, <1>2, RunKeeps DEF RunStages, CreatedStages
<1>12. Have' = Have /\ Sorted'
  BY <1>1 DEF Have, Sorted, IInv, Progress
<1>13. Progress'
  BY <1>1, <1>3, <1>12, SameEnvironment
  DEF IInv, Progress, MethodStages, CreatedStages
<1>14. TypeOK'
  BY <1>1 DEF IInv, TypeOK, Stages, RunStages, CreatedStages
<1>15. QED
  BY <1>10, <1>11, <1>13, <1>14 DEF IInv

LEMMA StartKeeps ==
  ASSUME IInv, Start
  PROVE  IInv'
<1>1. stage = "start" /\ env' = env
  BY DEF Start, At
<1>2. server.broken <=> ~FilesGood
  BY <1>1 DEF IInv, Built
<1>3. CASE server.broken
  <2>1. Stops("TLS files")
    BY <1>3 DEF Start, Checks
  <2>2. ~Startable
    BY <1>2, <1>3 DEF Startable, FilesGood
  <2>3. QED
    BY <1>1, <2>1, <2>2, StopKeeps
<1>4. CASE ~server.broken
  <2>1. /\ stage' = "listening" /\ cfg' = cfg /\ methods' = methods
        /\ attempts' = attempts /\ server' = server
    BY <1>4 DEF Start, Checks, Goes
  <2>2. Config' /\ Valid' /\ StoppedForAReason'
    BY <1>1, <2>1, RunKeeps DEF RunStages, CreatedStages
  <2>3. Have' = Have /\ Sorted'
    BY <2>1 DEF Have, Sorted, IInv, Progress
  <2>4. Progress'
    BY <1>1, <2>1, <2>3, SameEnvironment
    DEF IInv, Progress, MethodStages, CreatedStages
  <2>5. Built'
    BY <1>1, <1>2, <1>4, <2>1, SameEnvironment DEF IInv, Built
  <2>6. TypeOK'
    BY <2>1, <1>1 DEF IInv, TypeOK, Stages, RunStages, CreatedStages
  <2>7. QED
    BY <2>2, <2>4, <2>5, <2>6 DEF IInv
<1>5. QED
  BY <1>3, <1>4

-----------------------------------------------------------------------------
(* The theorems *)

LEMMA Initially == Init => IInv
<1>1. SUFFICES ASSUME Init PROVE IInv
  OBVIOUS
<1>2. /\ stage = "load_server" /\ attempts = 0
      /\ cfg = Defaults /\ env \in Environment
  BY <1>1, EnvironmentsAssumption DEF Init
<1>3. methods = <<>>
  BY <1>1 DEF Init
<1>4. methods \in Seq(Method) /\ DOMAIN methods = {}
  BY <1>3
<1>5. stage \in Stages
  BY <1>2 DEF Stages
<1>6. TypeOK
  BY <1>2, <1>4, <1>5 DEF TypeOK
<1>7. Have = {} /\ Sorted
  BY <1>4 DEF Have, Sorted
<1>8. Config /\ Valid /\ Built /\ StoppedForAReason
  BY <1>2 DEF Config, Valid, Built, StoppedForAReason, RunStages,
              MethodStages, CreatedStages
<1>9. Progress
  BY <1>2, <1>3, <1>7 DEF Progress, MethodStages, CreatedStages
<1>10. QED
  BY <1>6, <1>8, <1>9 DEF IInv

LEMMA StutterKeeps == IInv /\ UNCHANGED vars => IInv'
<1>1. SUFFICES ASSUME IInv, UNCHANGED vars PROVE IInv'
  OBVIOUS
<1>2. /\ env' = env /\ stage' = stage /\ cfg' = cfg /\ err' = err
      /\ methods' = methods /\ attempts' = attempts /\ server' = server
  BY <1>1 DEF vars
<1>3. Have' = Have /\ Sorted'
  BY <1>1, <1>2 DEF Have, Sorted, IInv, Progress
<1>4. TypeOK' /\ StoppedForAReason'
  BY <1>1, <1>2, SameEnvironment DEF IInv, TypeOK, StoppedForAReason
<1>5. Config'
  BY <1>1, <1>2, SameEnvironment DEF IInv, Config
<1>6. Valid'
  BY <1>1, <1>2, SameEnvironment DEF IInv, Valid
<1>7. Built'
  <2>1. Built
    BY <1>1 DEF IInv
  <2>2. stage' = stage /\ server' = server /\ env' = env
    BY <1>2
  <2>3. QED
    BY <2>1, <2>2, SameEnvironment DEF Built
<1>8. Progress'
  BY <1>1, <1>2, <1>3, SameEnvironment DEF IInv, Progress
<1>9. QED
  BY <1>4, <1>5, <1>6, <1>7, <1>8 DEF IInv

LEMMA NextKeeps == IInv /\ [Next]_vars => IInv'
<1>1. SUFFICES ASSUME IInv, Next PROVE IInv'
  BY StutterKeeps
<1>2. CASE LoadServerEnv
  BY <1>1, <1>2, LoadServerEnvKeeps
<1>3. CASE LoadAuthEnv
  BY <1>1, <1>3, LoadAuthEnvKeeps
<1>4. CASE ValidateServer
  BY <1>1, <1>4, ValidateServerKeeps
<1>5. CASE ValidateAuth
  BY <1>1, <1>5, ValidateAuthKeeps
<1>6. CASE InitLogger
  BY <1>1, <1>6, InitLoggerKeeps
<1>7. CASE InitTelemetry
  BY <1>1, <1>7, InitTelemetryKeeps
<1>8. CASE Create
  BY <1>1, <1>8, CreateKeeps
<1>9. CASE AddMTLS
  BY <1>1, <1>9, AddMTLSKeeps
<1>10. CASE AddTable("basic", cfg.users) \/ AddTable("apikey", cfg.keys)
  BY <1>1, <1>10, AddTableKeeps
<1>11. CASE Discover
  BY <1>1, <1>11, DiscoverKeeps
<1>12. CASE FetchKeys
  BY <1>1, <1>12, FetchKeysKeeps
<1>13. CASE FetchFails
  BY <1>1, <1>13, FetchFailsKeeps
<1>14. CASE \E m \in Method : PassOver(m)
  BY <1>1, <1>14, PassOverKeeps
<1>15. CASE Created
  BY <1>1, <1>15, CreatedKeeps
<1>16. CASE New
  BY <1>1, <1>16, NewKeeps
<1>17. CASE Start
  BY <1>1, <1>17, StartKeeps
<1>18. QED
  BY <1>1, <1>2, <1>3, <1>4, <1>5, <1>6, <1>7, <1>8, <1>9, <1>10, <1>11,
     <1>12, <1>13, <1>14, <1>15, <1>16, <1>17 DEF Next

LEMMA Invariance == Spec => []IInv
<1>1. QED
  BY Initially, NextKeeps, PTL DEF Spec

\* Whatever the environment, a server that is about to listen is the one the
\* environment asks for: its methods in the order of createMultiAuthenticator,
\* its ports, its authentication middleware and, where mTLS is one method of
\* several, certificates verified against a CA.
LEMMA ServedFollows == IInv => ServedAsAsked
<1>1. SUFFICES ASSUME IInv, stage = "listening" PROVE ServedAsAsked
  BY DEF ServedAsAsked
<1>2. stage \in RunStages /\ stage \in CreatedStages
  BY <1>1 DEF RunStages, CreatedStages
<1>3. /\ ServerReadable /\ AuthReadable /\ ServerValid /\ AuthValid
      /\ FilesGood /\ Have = Asked /\ Sorted
      /\ Mode # "none" => Asked # {}
  BY <1>1, <1>2 DEF IInv, Config, Valid, Built, Progress
<1>4. /\ "basic" \in Asked => Usable(env.users)
      /\ "apikey" \in Asked => Usable(env.keys)
  BY <1>1, <1>3 DEF IInv, Progress
<1>5. Garbage \notin {env.serverPort, env.probePort, env.timeout, env.metrics,
                      env.tls, env.vault}
  BY <1>3 DEF ServerReadable, AuthReadable
<1>6. Asked \ {"mtls"} \subseteq Complete
  BY <1>3, AskedIs DEF AuthValid
<1>7. Startable
  BY <1>3, <1>4, <1>5, <1>6 DEF Startable, ServerValid, AuthValid, FilesGood
<1>8. Mode = "multi" /\ "mtls" \in Asked => server.tls = "require" /\ server.pool
  <2>1. SUFFICES ASSUME Mode = "multi", "mtls" \in Asked
                 PROVE  server.tls = "require" /\ server.pool
    OBVIOUS
  <2>2. VerifiesClients
    BY <2>1, AskedIs, Members
  <2>3. env.ca # NotSet
    BY <1>3, <2>2 DEF AuthValid, VerifiesClients
  <2>4. QED
    BY <1>1, <1>3, <2>2, <2>3 DEF IInv, Built
<1>9. /\ server.guarded <=> Mode # "none"
      /\ server.ports =
           {Given(env.serverPort, 8080), Given(env.probePort, 9090)} \ {0}
  BY <1>1 DEF IInv, Built
<1>10. QED
  BY <1>1, <1>3, <1>7, <1>8, <1>9 DEF ServedAsAsked, Have, Sorted

\* Every server that is ready to listen serves what its environment asks for.
THEOREM ServesAsAsked == Spec => []ServedAsAsked
<1>1. QED
  BY Invariance, ServedFollows, PTL

\* The process stops only where its environment cannot be served, zap cannot
\* build its logger, or the provider of an OIDC method it was asked for fails.
THEOREM StopsForAReason == Spec => []StoppedForAReason
<1>1. IInv => StoppedForAReason
  BY DEF IInv
<1>2. QED
  BY <1>1, Invariance, PTL

-----------------------------------------------------------------------------
(* Progress *)

\* The methods come one after the other.
LEMMA MovesForward ==
  ASSUME attempts \in Nat, attempts < MaxJWKSRetries, NEW m \in Method, Moves(m),
         attempts' = attempts, stage = m \/ (stage = "keys" /\ m = "oidc")
  PROVE  StepsAhead' < StepsAhead
<1>1. MaxJWKSRetries \in Nat
  BY RetriesAssumption
<1>2. stage' = "created" \/ stage' = NextMethod[m]
  BY DEF Moves, Goes
<1>3. CASE m = "mtls"
  <2>1. StepsAhead = MaxJWKSRetries + 8
    BY <1>3 DEF StepsAhead, StepsFrom
  <2>2. StepsAhead' \in {3, MaxJWKSRetries + 7}
    BY <1>2, <1>3 DEF StepsAhead, StepsFrom, NextMethod
  <2>3. QED
    BY <1>1, <2>1, <2>2
<1>4. CASE m = "basic"
  <2>1. StepsAhead = MaxJWKSRetries + 7
    BY <1>4 DEF StepsAhead, StepsFrom
  <2>2. StepsAhead' \in {3, MaxJWKSRetries + 6}
    BY <1>2, <1>4 DEF StepsAhead, StepsFrom, NextMethod
  <2>3. QED
    BY <1>1, <2>1, <2>2
<1>5. CASE m = "apikey"
  <2>1. StepsAhead = MaxJWKSRetries + 6
    BY <1>5 DEF StepsAhead, StepsFrom
  <2>2. StepsAhead' \in {3, MaxJWKSRetries + 5}
    BY <1>2, <1>5 DEF StepsAhead, StepsFrom, NextMethod
  <2>3. QED
    BY <1>1, <2>1, <2>2
<1>6. CASE m = "oidc"
  <2>1. StepsAhead \in {MaxJWKSRetries + 5, MaxJWKSRetries + 4 - attempts}
    BY <1>6 DEF StepsAhead, StepsFrom
  <2>2. StepsAhead' = 3
    BY <1>2, <1>6 DEF StepsAhead, StepsFrom, NextMethod
  <2>3. QED
    BY <1>1, <2>1, <2>2
<1>7. QED
  BY <1>3, <1>4, <1>5, <1>6 DEF Method

\* Every stage the invariant knows of but the last two has steps ahead.
LEMMA StagesHaveSteps ==
  ASSUME attempts \in Nat, attempts < MaxJWKSRetries, stage \in Stages,
         stage \notin {"stopped", "listening"}
  PROVE  StepsAhead > 0
<1>1. MaxJWKSRetries \in Nat
  BY RetriesAssumption
<1>2. CASE stage \in {"created", "server", "start"}
  <2>1. StepsAhead \in 1 .. 3
    BY <1>2 DEF StepsAhead, StepsFrom
  <2>2. QED
    BY <2>1
<1>3. CASE stage = "keys"
  <2>1. StepsAhead = MaxJWKSRetries + 4 - attempts
    BY <1>3 DEF StepsAhead, StepsFrom
  <2>2. QED
    BY <1>1, <2>1
<1>4. CASE stage \notin {"created", "server", "start", "keys"}
  <2>1. \E k \in 5 .. 15 : StepsAhead = MaxJWKSRetries + k
    BY <1>4 DEF StepsAhead, StepsFrom, Stages, RunStages, MethodStages, CreatedStages
  <2>2. QED
    BY <1>1, <2>1
<1>5. QED
  BY <1>2, <1>3, <1>4

\* A step to the next stage, or to the end.
LEMMA GoesForward ==
  ASSUME attempts \in Nat, attempts < MaxJWKSRetries, attempts' = attempts,
         \/ stage = "load_server" /\ stage' = "load_auth"
         \/ stage = "load_auth" /\ stage' = "validate_server"
         \/ stage = "validate_server" /\ stage' = "validate_auth"
         \/ stage = "validate_auth" /\ stage' = "logger"
         \/ stage = "logger" /\ stage' = "telemetry"
         \/ stage = "telemetry" /\ stage' = "create"
         \/ stage = "create" /\ stage' \in Method \cup {"created"}
         \/ stage = "oidc" /\ stage' = "keys"
         \/ stage = "created" /\ stage' = "server"
         \/ stage = "server" /\ stage' = "start"
         \/ stage = "start" /\ stage' = "listening"
  PROVE  StepsAhead' < StepsAhead
<1> USE DEF StepsAhead, StepsFrom
<1>1. MaxJWKSRetries \in Nat
  BY RetriesAssumption
<1>2. CASE stage = "load_server" /\ stage' = "load_auth"
  BY <1>1, <1>2
<1>3. CASE stage = "load_auth" /\ stage' = "validate_server"
  BY <1>1, <1>3
<1>4. CASE stage = "validate_server" /\ stage' = "validate_auth"
  BY <1>1, <1>4
<1>5. CASE stage = "validate_auth" /\ stage' = "logger"
  BY <1>1, <1>5
<1>6. CASE stage = "logger" /\ stage' = "telemetry"
  BY <1>1, <1>6
<1>7. CASE stage = "telemetry" /\ stage' = "create"
  BY <1>1, <1>7
<1>8. CASE stage = "create" /\ stage' \in Method \cup {"created"}
  <2>1. StepsAhead = MaxJWKSRetries + 9
    BY <1>8
  <2>2. StepsAhead' \in {MaxJWKSRetries + 8, MaxJWKSRetries + 7, MaxJWKSRetries + 6,
                         MaxJWKSRetries + 5, 3}
    BY <1>8 DEF Method
  <2>3. QED
    BY <1>1, <2>1, <2>2
<1>9. CASE stage = "oidc" /\ stage' = "keys"
  BY <1>1, <1>9
<1>10. CASE stage = "created" /\ stage' = "server"
  BY <1>10
<1>11. CASE stage = "server" /\ stage' = "start"
  BY <1>11
<1>12. CASE stage = "start" /\ stage' = "listening"
  BY <1>12
<1>13. QED
  BY <1>2, <1>3, <1>4, <1>5, <1>6, <1>7, <1>8, <1>9, <1>10, <1>11, <1>12

LEMMA StopsForward ==
  ASSUME attempts \in Nat, attempts < MaxJWKSRetries, stage' = "stopped",
         stage \in Stages \ {"stopped", "listening"}
  PROVE  StepsAhead' < StepsAhead
<1>1. MaxJWKSRetries \in Nat
  BY RetriesAssumption
<1>2. StepsAhead' = 0
  BY DEF StepsAhead, StepsFrom
<1>3. StepsAhead > 0
  BY StagesHaveSteps
<1>4. QED
  BY <1>2, <1>3

\* The mode that Create goes by has been validated.
LEMMA CreateGoesTo ==
  ASSUME IInv, Create
  PROVE  /\ stage = "create" /\ stage' \in Method \cup {"created"}
         /\ attempts' = attempts
<1>1. /\ stage = "create" /\ attempts' = attempts
      /\ stage' = CASE cfg.authMode = "none" -> "created"
                    [] Multi -> "mtls"
                    [] OTHER -> cfg.authMode
  BY DEF Create, At, Goes
<1>2. cfg = FullConfig /\ AuthReadable /\ AuthValid
  BY <1>1 DEF IInv, Config, Valid, RunStages
<1>3. cfg.authMode \in AuthMode
  BY <1>2, AuthFields DEF IInv, AuthValid
<1>4. stage' \in Method \cup {"created"}
  BY <1>1, <1>3 DEF Multi, AuthMode, Method
<1>5. QED
  BY <1>1, <1>4

LEMMA NextForward ==
  ASSUME IInv, attempts < MaxJWKSRetries, Next
  PROVE  StepsAhead' < StepsAhead /\ attempts' < MaxJWKSRetries
<1>1. attempts \in Nat /\ MaxJWKSRetries \in Nat
  BY RetriesAssumption DEF IInv, TypeOK
<1>2. ASSUME NEW from \in Stages \ {"stopped", "listening"}, At(from),
             NEW error, Stops(error)
      PROVE  StepsAhead' < StepsAhead /\ attempts' < MaxJWKSRetries
  BY <1>1, <1>2, StopsForward DEF At, Stops
<1>3. CASE LoadServerEnv \/ LoadAuthEnv
  <2>1. CASE Stops("unreadable")
    BY <1>2, <1>3, <2>1 DEF LoadServerEnv, LoadAuthEnv, Stages
  <2>2. CASE ~Stops("unreadable")
    <3>1. /\ attempts' = attempts
          /\ \/ stage = "load_server" /\ stage' = "load_auth"
             \/ stage = "load_auth" /\ stage' = "validate_server"
      BY <1>3, <2>2 DEF LoadServerEnv, LoadAuthEnv, At, Goes
    <3>2. QED
      BY <1>1, <3>1, GoesForward
  <2>3. QED
    BY <2>1, <2>2
<1>4. ASSUME NEW from, NEW error, NEW to, At(from), Checks(error, to),
             <<from, to>> \in {<<"validate_server", "validate_auth">>,
                               <<"validate_auth", "logger">>,
                               <<"logger", "telemetry">>, <<"oidc", "keys">>,
                               <<"created", "server">>, <<"start", "listening">>}
      PROVE  StepsAhead' < StepsAhead /\ attempts' < MaxJWKSRetries
  <2>1. CASE Stops(error)
    <3>1. from \in Stages \ {"stopped", "listening"}
      BY <1>4 DEF Stages, RunStages, MethodStages, CreatedStages
    <3>2. QED
      BY <1>2, <1>4, <2>1, <3>1
  <2>2. CASE ~Stops(error)
    <3>1. attempts' = attempts /\ stage = from /\ stage' = to
      BY <1>4, <2>2 DEF Checks, At, Goes
    <3>2. QED
      BY <1>1, <1>4, <3>1, GoesForward
  <2>3. QED
    BY <2>1, <2>2
<1>5. CASE ValidateServer \/ ValidateAuth \/ InitLogger \/ Discover \/ Created \/ Start
  BY <1>4, <1>5 DEF ValidateServer, ValidateAuth, InitLogger, Discover, Created, Start
<1>6. CASE InitTelemetry \/ New
  <2>1. /\ attempts' = attempts
        /\ \/ stage = "telemetry" /\ stage' = "create"
           \/ stage = "server" /\ stage' = "start"
    BY <1>6 DEF InitTelemetry, New, At, Goes
  <2>2. QED
    BY <1>1, <2>1, GoesForward
<1>7. CASE Create
  BY <1>1, <1>7, CreateGoesTo, GoesForward
<1>8. ASSUME NEW m \in Method, PassOver(m) \/ (At(m) /\ Adds(m))
      PROVE  StepsAhead' < StepsAhead /\ attempts' < MaxJWKSRetries
  <2>1. stage = m /\ Moves(m) /\ attempts' = attempts
    BY <1>8 DEF PassOver, Adds, At
  <2>2. QED
    BY <1>1, <2>1, MovesForward
<1>9. CASE AddMTLS
  BY <1>8, <1>9 DEF AddMTLS, Method
<1>10. ASSUME NEW m \in {"basic", "apikey"}, NEW table, AddTable(m, table)
       PROVE  StepsAhead' < StepsAhead /\ attempts' < MaxJWKSRetries
  <2>1. CASE Adds(m)
    BY <1>8, <1>10, <2>1 DEF AddTable, Method
  <2>2. CASE Stops("table")
    BY <1>2, <1>10, <2>2 DEF AddTable, Stages, RunStages, MethodStages
  <2>3. QED
    BY <1>10, <2>1, <2>2 DEF AddTable
<1>11. CASE FetchKeys
  <2>1. stage = "keys" /\ Moves("oidc") /\ attempts' = attempts
    BY <1>11 DEF FetchKeys, At, Adds
  <2>2. QED
    BY <1>1, <2>1, MovesForward DEF Method
<1>12. CASE FetchFails
  <2>1. CASE Stops("keys")
    BY <1>2, <1>12, <2>1 DEF FetchFails, Stages, RunStages, MethodStages
  <2>2. CASE ~Stops("keys")
    <3>1. /\ stage = "keys" /\ stage' = stage
          /\ attempts + 1 < MaxJWKSRetries /\ attempts' = attempts + 1
      BY <1>12, <2>2 DEF FetchFails, At
    <3>2. QED
      BY <1>1, <3>1 DEF StepsAhead, StepsFrom
  <2>3. QED
    BY <2>1, <2>2
<1>13. QED
  BY <1>3, <1>5, <1>6, <1>7, <1>8, <1>9, <1>10, <1>11, <1>12 DEF Next

\* Startup is never stuck and takes at most MaxJWKSRetries + 15 steps, for all
\* environments and whatever fails.
THEOREM StartupProgress == Spec => StartupGoesOn
<1>1. Init => attempts < MaxJWKSRetries
  <2>1. Init => attempts = 0
    BY DEF Init
  <2>2. QED
    BY <2>1, RetriesAssumption
<1>2. IInv /\ attempts < MaxJWKSRetries /\ [Next]_vars =>
        (attempts < MaxJWKSRetries)'
  BY NextForward DEF vars
<1>3. Spec => [](attempts < MaxJWKSRetries)
  BY <1>1, <1>2, Invariance, PTL DEF Spec
<1>4. IInv /\ attempts < MaxJWKSRetries =>
        (StepsAhead = 0 => stage \in {"stopped", "listening"})
  BY StagesHaveSteps DEF IInv, TypeOK
<1>5. IInv /\ attempts < MaxJWKSRetries /\ [Next]_vars =>
        [StepsAhead' < StepsAhead]_vars
  BY NextForward
<1>6. QED
  BY <1>3, <1>4, <1>5, Invariance, PTL DEF Spec, StartupGoesOn
=============================================================================
