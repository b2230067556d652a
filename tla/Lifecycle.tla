----------------------------- MODULE Lifecycle ------------------------------
(***************************************************************************)
(* The life of the process from the moment its server has been built:      *)
(* run of cmd/server/main.go with Start and Shutdown of                    *)
(* internal/server/server.go, around the WebSocket hub.                    *)
(*                                                                         *)
(* Three goroutines: main, which waits for a signal and shuts down; the    *)
(* one that runs Start, which opens the API port and reports how it ended; *)
(* the one of the probe server, which only logs how it ended.  They share  *)
(* the two http.Servers and the channel serverErrors.  The hub is the      *)
(* module WebSocketHub as it is: its CloseAllConnections begins when main  *)
(* calls it and main goes on when it has returned, and its connections are *)
(* requests that the API server has accepted.                              *)
(*                                                                         *)
(* http.Server is external.  Its Shutdown closes the listener at once and  *)
(* then looks again and again whether a connection has a request in        *)
(* progress.  In between it may see the deadline and give up, even though  *)
(* the last request has just ended.  A connection that was upgraded is not *)
(* its business any more.                                                  *)
(***************************************************************************)
EXTENDS Integers, FiniteSets

CONSTANTS
  Conns, Departures,  \* of the hub: here requests for /ws
  Requests,           \* other requests to the API server
  Probes,             \* requests to the probe server
  ProbeConfigured,    \* ProbePort is not 0
  Traced              \* an OTLP endpoint is configured

ASSUME HubAssumption ==
  IsFiniteSet(Conns) /\ Departures \subseteq {"left", "lost"}
ASSUME RequestsAssumption ==
  Conns \cap Requests = {} /\ (Conns \cup Requests) \cap Probes = {}
ASSUME SwitchesAssumption == ProbeConfigured \in BOOLEAN /\ Traced \in BOOLEAN

VARIABLES
  handler, writer, reader, ctx, link, peer, closeSent, clients, gauge, wg,
  closer, todo, covered

hubVars == <<handler, writer, reader, ctx, link, peer, closeSent, clients,
             gauge, wg, closer, todo, covered>>

Hub == INSTANCE WebSocketHub

VARIABLES
  main,      \* where run stands
  code,      \* its result; -1 before
  signal,    \* a SIGINT or SIGTERM: "none", "pending" in the channel, "taken"
  expired,   \* the deadline of the shutdown context has passed
  start,     \* where Start stands
  errors,    \* the channel serverErrors: "none" or what Start returned
  probe,     \* where the probe server's goroutine stands
  closing,   \* the servers whose Shutdown has been called
  arrived,   \* requests that have ever been accepted
  requests,  \* requests in progress
  spans,     \* the batch processor holds finished spans
  flushed    \* telemetry.Shutdown has been called

mainVars  == <<main, code, signal, expired>>
startVars == <<start, errors>>
netVars   == <<closing, arrived, requests>>
spanVars  == <<spans, flushed>>
procVars  == <<mainVars, startVars, probe, netVars, spanVars>>
vars == <<hubVars, procVars>>

ApiRequests == Conns \cup Requests

TypeOK ==
  /\ Hub!TypeOK
  /\ main \in {"start", "notify", "select", "hub", "http", "probe", "flush",
               "exited", "killed"}
  /\ code \in {-1, 0, 1}
  /\ signal \in {"none", "pending", "taken"}
  /\ expired \in BOOLEAN
  /\ start \in {"off", "called", "listen", "serving", "returned"}
  /\ errors \in {"none", "nil", "error"}
  /\ probe \in {"off", "listen", "serving", "ended"}
  /\ closing \subseteq {"api", "probe"}
  /\ arrived \subseteq ApiRequests \cup Probes
  /\ requests \subseteq arrived
  /\ spans \in BOOLEAN /\ flushed \in BOOLEAN
  /\ main = "exited" <=> code # -1

Init ==
  /\ Hub!Init
  /\ main = "start" /\ code = -1 /\ signal = "none" /\ expired = FALSE
  /\ start = "off" /\ errors = "none" /\ probe = "off"
  /\ closing = {} /\ arrived = {} /\ requests = {}
  /\ spans = FALSE /\ flushed = FALSE

\* The process is there: it has not exited, been killed, or panicked.
Alive == main \notin {"exited", "killed"} /\ Hub!Running

MainMoves(from, to) == Alive /\ main = from /\ main' = to

Exit(from, c) == MainMoves(from, "exited") /\ code' = c

-----------------------------------------------------------------------------
(* run, before the shutdown *)

StartServer ==
  /\ MainMoves("start", "notify")
  /\ start' = "called"
  /\ UNCHANGED <<hubVars, code, signal, expired, errors, probe, netVars, spanVars>>

Notify ==
  /\ MainMoves("notify", "select")
  /\ UNCHANGED <<hubVars, code, signal, expired, startVars, probe, netVars,
                 spanVars>>

\* A signal kills the process that has not asked to be told; afterwards the
\* channel holds one, and a further one is dropped.
Signal ==
  /\ Alive /\ signal = "none"
  /\ IF main \in {"start", "notify"}
       THEN main' = "killed" /\ UNCHANGED signal
       ELSE signal' = "pending" /\ UNCHANGED main
  /\ UNCHANGED <<hubVars, code, expired, startVars, probe, netVars, spanVars>>

SelectError ==
  /\ errors # "none"
  /\ Exit("select", 1)
  /\ errors' = "none"
  /\ UNCHANGED <<hubVars, signal, expired, start, probe, netVars, spanVars>>

\* Shutdown begins with CloseAllConnections.
SelectSignal ==
  /\ signal = "pending"
  /\ MainMoves("select", "hub")
  /\ signal' = "taken"
  /\ Hub!CancelBegin
  /\ UNCHANGED <<code, expired, startVars, probe, netVars, spanVars>>

-----------------------------------------------------------------------------
(* Start and the probe server *)

StartMoves(from, to) == Alive /\ start = from /\ start' = to

\* A deferred error of New, such as TLS files that cannot be read.
StartRefused ==
  /\ StartMoves("called", "returned")
  /\ errors' = "error"
  /\ UNCHANGED <<hubVars, mainVars, probe, netVars, spanVars>>

SpawnProbe ==
  /\ StartMoves("called", "listen")
  /\ probe' = IF ProbeConfigured THEN "listen" ELSE "off"
  /\ UNCHANGED <<hubVars, mainVars, errors, netVars, spanVars>>

Listen ==
  /\ "api" \notin closing
  /\ StartMoves("listen", "serving")
  /\ UNCHANGED <<hubVars, mainVars, errors, probe, netVars, spanVars>>

\* The port cannot be opened, or accepting on it fails.
ListenFails ==
  /\ "api" \notin closing
  /\ \/ StartMoves("listen", "returned")
     \/ StartMoves("serving", "returned")
  /\ errors' = "error"
  /\ UNCHANGED <<hubVars, mainVars, probe, netVars, spanVars>>

\* ErrServerClosed is no error.
StartReturns ==
  /\ "api" \in closing
  /\ \/ StartMoves("listen", "returned")
     \/ StartMoves("serving", "returned")
  /\ errors' = "nil"
  /\ UNCHANGED <<hubVars, mainVars, probe, netVars, spanVars>>

ProbeListens ==
  /\ Alive /\ "probe" \notin closing
  /\ probe = "listen" /\ probe' = "serving"
  /\ UNCHANGED <<hubVars, mainVars, startVars, netVars, spanVars>>

\* The port is taken, or the server is closed: either way it is only logged.
ProbeEnds ==
  /\ Alive
  /\ \/ probe = "listen"
     \/ probe = "serving" /\ "probe" \in closing
  /\ probe' = "ended"
  /\ UNCHANGED <<hubVars, mainVars, startVars, netVars, spanVars>>

-----------------------------------------------------------------------------
(* Requests *)

Accepting(r) ==
  IF r \in Probes THEN probe = "serving" /\ "probe" \notin closing
                  ELSE start = "serving" /\ "api" \notin closing

Arrive(r) ==
  /\ Alive /\ Accepting(r) /\ r \notin arrived
  /\ arrived' = arrived \cup {r}
  /\ requests' = requests \cup {r}
  /\ UNCHANGED <<hubVars, mainVars, startVars, probe, closing, spanVars>>

\* A request that ends after its handler leaves a span; the probe server has
\* no middleware.
Traces(isOver) == spans' = (spans \/ (Traced /\ isOver))

Answered(r) ==
  /\ Alive /\ r \in requests
  /\ requests' = requests \ {r}
  /\ UNCHANGED <<mainVars, startVars, probe, closing, arrived, flushed>>

Answer(r) ==
  /\ r \notin Conns
  /\ Answered(r)
  /\ Traces(r \in Requests)
  /\ UNCHANGED hubVars

\* The upgrade hijacks the connection and http.Server forgets it, while its
\* handler goes on.
AnswerUpgrade(c) ==
  /\ Answered(c)
  /\ \/ Hub!Upgrade(c) /\ UNCHANGED spans
     \/ Hub!UpgradeFails(c) /\ Traces(TRUE)

\* The batch processor exports by itself now and then.
Export ==
  /\ Alive /\ spans /\ ~flushed
  /\ spans' = FALSE
  /\ UNCHANGED <<hubVars, mainVars, startVars, probe, netVars, flushed>>

-----------------------------------------------------------------------------
(* Server.Shutdown and the end of run *)

Expire ==
  /\ Alive /\ signal = "taken" /\ ~expired
  /\ expired' = TRUE
  /\ UNCHANGED <<hubVars, main, code, signal, startVars, probe, netVars, spanVars>>

\* Mutant: Shutdown does not wait for CloseAllConnections.
ShutdownHTTPAtOnce ==
  /\ MainMoves("hub", "http")
  /\ closing' = closing \cup {"api"}
  /\ UNCHANGED <<hubVars, code, signal, expired, startVars, probe, arrived,
                 requests, spanVars>>

\* Mutant: the listener stays open while the requests end.
ShutdownHTTPListens ==
  /\ closer = "done"
  /\ MainMoves("hub", "http")
  /\ UNCHANGED <<hubVars, code, signal, expired, startVars, probe, netVars,
                 spanVars>>

\* Mutant: CloseAllConnections is called again for the clients that are left.
CloseAgain ==
  /\ closer = "done"
  /\ IF clients = {}
       THEN MainMoves("hub", "http") /\ closing' = closing \cup {"api"}
                                    /\ UNCHANGED hubVars
       ELSE /\ Alive /\ main = "hub" /\ closer' = "cancel" /\ todo' = clients
            /\ UNCHANGED <<main, closing, handler, writer, reader, ctx, link,
                           peer, closeSent, clients, gauge, wg, covered>>
  /\ UNCHANGED <<code, signal, expired, startVars, probe, arrived, requests,
                 spanVars>>

ShutdownHTTP ==
  /\ closer = "done"
  /\ MainMoves("hub", "http")
  /\ closing' = closing \cup {"api"}
  /\ UNCHANGED <<hubVars, code, signal, expired, startVars, probe, arrived,
                 requests, spanVars>>

\* Mutant: both servers are closed at the same time.
HTTPDownAtOnce ==
  /\ MainMoves("http", IF ProbeConfigured THEN "probe" ELSE "flush")
  /\ closing' = IF ProbeConfigured THEN closing \cup {"probe"} ELSE closing
  /\ UNCHANGED <<hubVars, code, signal, expired, startVars, probe, arrived,
                 requests, spanVars>>

HTTPDown ==
  /\ requests \cap ApiRequests = {}
  /\ MainMoves("http", IF ProbeConfigured THEN "probe" ELSE "flush")
  /\ closing' = IF ProbeConfigured THEN closing \cup {"probe"} ELSE closing
  /\ UNCHANGED <<hubVars, code, signal, expired, startVars, probe, arrived,
                 requests, spanVars>>

\* Mutant: the deadline does not interrupt the wait for a request.
HTTPWaits ==
  /\ expired /\ requests \cap ApiRequests = {}
  /\ Exit("http", 1)
  /\ UNCHANGED <<hubVars, signal, expired, startVars, probe, netVars, spanVars>>

HTTPFails ==
  /\ expired
  /\ Exit("http", 1)
  /\ UNCHANGED <<hubVars, signal, expired, startVars, probe, netVars, spanVars>>

ProbeDown ==
  /\ requests \cap Probes = {}
  /\ MainMoves("probe", "flush")
  /\ UNCHANGED <<hubVars, code, signal, expired, startVars, probe, netVars,
                 spanVars>>

ProbeFails ==
  /\ expired
  /\ Exit("probe", 1)
  /\ UNCHANGED <<hubVars, signal, expired, startVars, probe, netVars, spanVars>>

\* telemetry.Shutdown: the collector takes the spans or it does not.
Flush ==
  /\ Exit("flush", 0)
  /\ flushed' = Traced
  /\ spans' \in {FALSE, spans}
  /\ UNCHANGED <<hubVars, signal, expired, startVars, probe, netVars>>

-----------------------------------------------------------------------------
HubSteps(A) == Alive /\ A /\ UNCHANGED procVars

MainStep ==
  \/ StartServer \/ Notify \/ SelectError \/ SelectSignal
  \/ ShutdownHTTP \/ HTTPDown \/ HTTPFails \/ ProbeDown \/ ProbeFails \/ Flush

StartStep == StartRefused \/ SpawnProbe \/ Listen \/ ListenFails \/ StartReturns

ProbeStep == ProbeListens \/ ProbeEnds

WriterStep(c)    == HubSteps(Hub!WriterStep(c))
ReaderStep(c)    == HubSteps(Hub!ReaderStep(c))
CloserStep       == HubSteps(Hub!CloserStep)
ReaderMessage(c) == HubSteps(Hub!ReaderMessage(c))
PeerGoes(c, how) == HubSteps(Hub!PeerGoes(c, how))

HandlerStep(c) ==
  /\ Alive /\ Hub!HandlerStep(c)
  /\ Traces(handler'[c] = "returned")
  /\ UNCHANGED <<mainVars, startVars, probe, netVars, flushed>>

Next ==
  \/ MainStep \/ StartStep \/ ProbeStep \/ Signal \/ Expire \/ Export
  \/ CloserStep
  \/ \E r \in ApiRequests \cup Probes : Arrive(r) \/ Answer(r)
  \/ \E c \in Conns : \/ AnswerUpgrade(c)
                      \/ HandlerStep(c) \/ WriterStep(c) \/ ReaderStep(c)
                      \/ ReaderMessage(c)
                      \/ \E how \in Departures : PeerGoes(c, how)

Spec == Init /\ [][Next]_vars

\* The goroutines that matter for the end run, and time passes.  Nothing makes
\* a request end or a port open: a handler or a client may take longer than the
\* deadline.
Fairness ==
  /\ WF_vars(MainStep)
  /\ WF_vars(Expire) /\ WF_vars(CloserStep)
  /\ \A c \in Conns : /\ WF_vars(HandlerStep(c))
                      /\ WF_vars(WriterStep(c))
                      /\ WF_vars(ReaderStep(c))

FairSpec == Spec /\ Fairness

-----------------------------------------------------------------------------
(* Properties *)

\* Status 0 is only reported when both servers were told to close, every
\* request they had accepted has been answered and the connections the hub
\* knew are drained.
CleanExit ==
  code = 0 =>
    /\ requests = {}
    /\ "api" \in closing /\ (ProbeConfigured => "probe" \in closing)
    /\ closer = "done" /\ Hub!CoveredDrained

\* The probe server answers for as long as the API server has a request in
\* progress: it is told to close after that server has drained.
ProbeOutlivesRequests == "probe" \in closing => requests \cap ApiRequests = {}

\* No new request is accepted while the process only waits for the old ones.
NoArrivalWhileDraining ==
  [][main \notin {"start", "notify", "select", "hub"} =>
       arrived' \cap ApiRequests = arrived \cap ApiRequests]_vars

\* From a signal on, and from every stage of the shutdown on, the process ends,
\* at the deadline at the latest and however long its requests take; only a
\* late connection may keep CloseAllConnections waiting.
SignalEnds ==
  (signal # "none") ~> (~Alive \/ \E c \in Conns : Hub!Straggler(c))

\* Every wait of a shutdown is for something that comes.  A signal that came
\* too early for select is still in the channel, with CloseAllConnections not
\* begun; main waits for CloseAllConnections only when that has begun and is
\* not asleep for good; it waits for requests only with a deadline running.
WaitsEnd ==
  /\ main = "select" /\ signal # "none" => signal = "pending" /\ closer = "idle"
  /\ main = "hub" => closer # "idle" /\ Hub!SleeperIsWoken
  /\ main \in {"http", "probe", "flush"} => closer = "done" /\ signal = "taken"

\* The stages run has still to go through at most.
StagesLeft ==
  CASE main = "start" -> 7 [] main = "notify" -> 6 [] main = "select" -> 5
    [] main = "hub"   -> 4 [] main = "http"   -> 3 [] main = "probe"  -> 2
    [] main = "flush" -> 1 [] OTHER -> 0

\* A shutdown is never stuck and never goes back: the process goes through its
\* stages once, it does not lose a signal or the deadline, and no connection
\* sets CloseAllConnections back.
ShutdownGoesOn ==
  /\ []WaitsEnd
  /\ [][/\ main' = main \/ StagesLeft' < StagesLeft
        /\ signal # "none" => signal' # "none"
        /\ expired => expired'
        /\ closer # "idle" => \/ UNCHANGED <<closer, todo, Hub!ToClose>>
                              \/ Hub!ToClose' < Hub!ToClose]_vars

\* The connections of the process are accounted for as those of the hub.
ConnectionsSafe ==
  /\ Hub!GaugeMatchesClients /\ Hub!WaitGroupMatchesWriters
  /\ Hub!RegistryExact /\ Hub!GracefulClose /\ Hub!CoveredDrained

-----------------------------------------------------------------------------
(* Claims of the documentation that the behaviours refute *)

\* "On SIGINT/SIGTERM, the batch processor is flushed within the shutdown
\* timeout context so buffered spans are not lost": no process that took a
\* signal exits with spans it has not tried to flush.
SpansFlushed == main = "exited" /\ signal = "taken" /\ spans => flushed

\* What there is to it: a shutdown that ends before its deadline has reported
\* success and tried to flush what spans there were.
OnlyLateLoss ==
  main = "exited" /\ signal = "taken" /\ ~expired => code = 0 /\ (spans => flushed)

\* APP_SHUTDOWN_TIMEOUT is the timeout of the shutdown: past it, the process
\* ends.
TimeoutEnds == expired ~> ~Alive
=============================================================================
