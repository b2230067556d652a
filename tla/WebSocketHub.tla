---------------------------- MODULE WebSocketHub ----------------------------
(***************************************************************************)
(* The WebSocket handler of internal/handler/websocket.go.                 *)
(*                                                                         *)
(* Each connection c is driven by three goroutines: the HTTP handler that  *)
(* upgrades and registers it (HandleWebSocket), its writePump and its      *)
(* readPump.  One more goroutine, the closer, runs CloseAllConnections     *)
(* once, from Server.Shutdown.  They share the clients map under h.mu, the *)
(* gauge websocket_active_connections, the wait group h.wg of the          *)
(* writePumps, each connection's context and the network connection.       *)
(*                                                                         *)
(* An action is what one goroutine does between two points where another   *)
(* may observe it.  h.mu is held across several steps only by the closer   *)
(* (MuFree), so the sections of Register and ReaderRemove are one step.    *)
(* Of what is written to a client only the close message is recorded: a    *)
(* tick whose random value or ping is sent leaves no trace in the state.   *)
(* All writes go through connState.writeMu and one send is one step.       *)
(***************************************************************************)
EXTENDS Integers, FiniteSets

CONSTANTS
  Conns,      \* the connections clients ever open
  Departures  \* how peers may go away: "left" (a close frame, or a message
              \* above maxMessageSize), "lost" (silence)

ASSUME ConnsAssumption == IsFiniteSet(Conns)
ASSUME DeparturesAssumption == Departures \subseteq {"left", "lost"}

VARIABLES
  handler,   \* handler[c]: where HandleWebSocket stands for c
  writer,    \* writer[c]: where writePump stands
  reader,    \* reader[c]: where readPump stands
  ctx,       \* ctx[c]: the connection's context is cancelled
  link,      \* link[c]: "none", "open", or which goroutine closed it first
  peer,      \* peer[c]: "up", "left" or "lost"
  closeSent, \* closeSent[c]: a close message has been written to c
  clients,   \* h.clients, the registered connections
  gauge,     \* websocket_active_connections
  wg,        \* counter of h.wg
  closer,    \* where CloseAllConnections stands
  todo,      \* connections its first loop has still to cancel
  covered    \* history: registered and in h.wg when CloseAllConnections began

pumpVars   == <<writer, reader, ctx>>
netVars    == <<link, peer, closeSent>>
mapVars    == <<clients, gauge>>
closerVars == <<closer, todo, covered>>
vars == <<handler, pumpVars, netVars, mapVars, wg, closerVars>>

HandlerState == {"idle", "failed", "upgraded", "registered", "counted",
                 "added", "spawned", "returned"}
WriterState  == {"off", "loop", "closing", "exit", "done"}
ReaderState  == {"off", "start", "check", "read", "cancel", "remove", "close",
                 "done"}
CloserState  == {"idle", "cancel", "wait", "asleep", "woken", "relock",
                 "close", "done", "panicked"}

Added == {"added", "spawned", "returned"}    \* h.wg.Add(1) has been called

TypeOK ==
  /\ handler \in [Conns -> HandlerState]
  /\ writer \in [Conns -> WriterState]
  /\ reader \in [Conns -> ReaderState]
  /\ ctx \in [Conns -> BOOLEAN]
  /\ link \in [Conns -> {"none", "open", "reader", "closer"}]
  /\ peer \in [Conns -> {"up", "left", "lost"}]
  /\ closeSent \in [Conns -> BOOLEAN]
  /\ clients \subseteq Conns
  /\ gauge \in Int
  /\ wg \in Nat
  /\ closer \in CloserState
  /\ todo \subseteq Conns
  /\ covered \subseteq Conns

Init ==
  /\ handler = [c \in Conns |-> "idle"]
  /\ writer  = [c \in Conns |-> "off"]
  /\ reader  = [c \in Conns |-> "off"]
  /\ ctx     = [c \in Conns |-> FALSE]
  /\ link    = [c \in Conns |-> "none"]
  /\ peer    = [c \in Conns |-> "up"]
  /\ closeSent = [c \in Conns |-> FALSE]
  /\ clients = {} /\ gauge = 0 /\ wg = 0
  /\ closer  = "idle" /\ todo = {} /\ covered = {}

\* A panic ends the process, and every step with it.
Running == closer # "panicked"

\* h.mu is free: only CloseAllConnections keeps it across steps.
MuFree == closer \notin {"cancel", "close"}

-----------------------------------------------------------------------------
(* HandleWebSocket *)

HandlerMoves(c, from, to) ==
  /\ Running
  /\ handler[c] = from
  /\ handler' = [handler EXCEPT ![c] = to]

Upgrade(c) ==
  /\ HandlerMoves(c, "idle", "upgraded")
  /\ link' = [link EXCEPT ![c] = "open"]
  /\ UNCHANGED <<pumpVars, peer, closeSent, mapVars, wg, closerVars>>

UpgradeFails(c) ==
  /\ HandlerMoves(c, "idle", "failed")
  /\ UNCHANGED <<pumpVars, netVars, mapVars, wg, closerVars>>

Register(c) ==
  /\ MuFree
  /\ HandlerMoves(c, "upgraded", "registered")
  /\ clients' = clients \cup {c}
  /\ UNCHANGED <<pumpVars, netVars, gauge, wg, closerVars>>

\* The gauge is incremented after h.mu is released.
CountConnection(c) ==
  /\ HandlerMoves(c, "registered", "counted")
  /\ gauge' = gauge + 1
  /\ UNCHANGED <<pumpVars, netVars, clients, wg, closerVars>>

\* Mutant: the Add is forgotten.
AddForgotten(c) ==
  /\ HandlerMoves(c, "counted", "added")
  /\ UNCHANGED <<pumpVars, netVars, mapVars, wg, closerVars>>

AddToWaitGroup(c) ==
  /\ HandlerMoves(c, "counted", "added")
  /\ wg' = wg + 1
  /\ UNCHANGED <<pumpVars, netVars, mapVars, closerVars>>

StartWriter(c) ==
  /\ HandlerMoves(c, "added", "spawned")
  /\ writer' = [writer EXCEPT ![c] = "loop"]
  /\ UNCHANGED <<reader, ctx, netVars, mapVars, wg, closerVars>>

StartReader(c) ==
  /\ HandlerMoves(c, "spawned", "returned")
  /\ reader' = [reader EXCEPT ![c] = "start"]
  /\ UNCHANGED <<writer, ctx, netVars, mapVars, wg, closerVars>>

-----------------------------------------------------------------------------
(* writePump.  gorilla/websocket refuses every write after a close frame    *)
(* and a write fails on a closed connection; towards a peer that is not up  *)
(* it may still land in a socket buffer, or fail (writeWait at the latest). *)

CanWrite(c)  == link[c] = "open" /\ ~closeSent[c]
MayFail(c)   == ~CanWrite(c) \/ peer[c] # "up"

WriterMoves(c, from, to) ==
  /\ Running
  /\ writer[c] = from
  /\ writer' = [writer EXCEPT ![c] = to]

\* Mutant: h.wg.Done is not deferred and an early return skips it.
FailsWithoutDone(c) ==
  /\ MayFail(c)
  /\ WriterMoves(c, "loop", "done")
  /\ UNCHANGED <<handler, reader, ctx, netVars, mapVars, wg, closerVars>>

\* sendRandomValue or sendPing fails: writePump returns and leaves the context
\* alone.
WriterFails(c) ==
  /\ MayFail(c)
  /\ WriterMoves(c, "loop", "exit")
  /\ UNCHANGED <<handler, reader, ctx, netVars, mapVars, wg, closerVars>>

WriterSeesCancel(c) ==
  /\ ctx[c]
  /\ WriterMoves(c, "loop", "closing")
  /\ UNCHANGED <<handler, reader, ctx, netVars, mapVars, wg, closerVars>>

\* sendCloseMessage; its error is only logged.
WriterSendsClose(c) ==
  /\ WriterMoves(c, "closing", "exit")
  /\ \/ CanWrite(c) /\ closeSent' = [closeSent EXCEPT ![c] = TRUE]
     \/ MayFail(c) /\ UNCHANGED closeSent
  /\ UNCHANGED <<handler, reader, ctx, link, peer, mapVars, wg, closerVars>>

\* The deferred h.wg.Done(): reaching zero wakes the sleeping closer.
WriterDone(c) ==
  /\ WriterMoves(c, "exit", "done")
  /\ wg' = wg - 1
  /\ closer' = IF wg = 1 /\ closer = "asleep" THEN "woken" ELSE closer
  /\ UNCHANGED <<handler, reader, ctx, netVars, mapVars, todo, covered>>

-----------------------------------------------------------------------------
(* readPump *)

ReaderMoves(c, from, to) ==
  /\ Running
  /\ reader[c] = from
  /\ reader' = [reader EXCEPT ![c] = to]

\* SetReadDeadline, which fails on a closed connection.
ReaderStart(c) ==
  /\ ReaderMoves(c, "start", IF link[c] = "open" THEN "check" ELSE "cancel")
  /\ UNCHANGED <<handler, writer, ctx, netVars, mapVars, wg, closerVars>>

ReaderCheck(c) ==
  /\ ReaderMoves(c, "check", IF ctx[c] THEN "cancel" ELSE "read")
  /\ UNCHANGED <<handler, writer, ctx, netVars, mapVars, wg, closerVars>>

ReaderMessage(c) ==
  /\ link[c] = "open" /\ peer[c] = "up"
  /\ ReaderMoves(c, "read", "check")
  /\ UNCHANGED <<handler, writer, ctx, netVars, mapVars, wg, closerVars>>

\* Mutant: no read deadline, so a silent peer is never noticed.
FailsOnlyIfClosed(c) ==
  /\ link[c] # "open"
  /\ ReaderMoves(c, "read", "cancel")
  /\ UNCHANGED <<handler, writer, ctx, netVars, mapVars, wg, closerVars>>

\* A read error: the connection was closed, or the peer has been silent for
\* pongWait.
ReaderFails(c) ==
  /\ link[c] # "open" \/ peer[c] = "lost"
  /\ ReaderMoves(c, "read", "cancel")
  /\ UNCHANGED <<handler, writer, ctx, netVars, mapVars, wg, closerVars>>

\* The peer's close frame or a message that is too long: the library answers
\* with a close frame, if it still can.
ReaderCloseFrame(c) ==
  /\ link[c] = "open" /\ peer[c] = "left"
  /\ ReaderMoves(c, "read", "cancel")
  /\ \/ closeSent' = [closeSent EXCEPT ![c] = TRUE]
     \/ UNCHANGED closeSent
  /\ UNCHANGED <<handler, writer, ctx, link, peer, mapVars, wg, closerVars>>

\* The deferred function: cancel(), then removeClient, then conn.Close().
ReaderCancel(c) ==
  /\ ReaderMoves(c, "cancel", "remove")
  /\ ctx' = [ctx EXCEPT ![c] = TRUE]
  /\ UNCHANGED <<handler, writer, netVars, mapVars, wg, closerVars>>

\* Mutant: removeClient does not look whether the client is still there.
RemovesBlindly(c) ==
  /\ MuFree
  /\ ReaderMoves(c, "remove", "close")
  /\ clients' = clients \ {c}
  /\ gauge' = gauge - 1
  /\ UNCHANGED <<handler, writer, ctx, netVars, wg, closerVars>>

ReaderRemove(c) ==
  /\ MuFree
  /\ ReaderMoves(c, "remove", "close")
  /\ IF c \in clients
       THEN /\ ctx' = [ctx EXCEPT ![c] = TRUE]
            /\ clients' = clients \ {c}
            /\ gauge' = gauge - 1
       ELSE UNCHANGED <<ctx, mapVars>>
  /\ UNCHANGED <<handler, writer, netVars, wg, closerVars>>

ReaderClose(c) ==
  /\ ReaderMoves(c, "close", "done")
  /\ link' = [link EXCEPT ![c] = IF @ = "open" THEN "reader" ELSE @]
  /\ UNCHANGED <<handler, writer, ctx, peer, closeSent, mapVars, wg, closerVars>>

-----------------------------------------------------------------------------
(* CloseAllConnections *)

CloserMoves(from, to) == closer = from /\ closer' = to

\* Mutant: the contexts are not cancelled before the wait.
CancelsNothing ==
  /\ CloserMoves("idle", "cancel")
  /\ todo' = {}
  /\ covered' = {c \in clients : handler[c] \in Added}
  /\ UNCHANGED <<handler, pumpVars, netVars, mapVars, wg>>

CancelBegin ==
  /\ CloserMoves("idle", "cancel")
  /\ todo' = clients
  /\ covered' = {c \in clients : handler[c] \in Added}
  /\ UNCHANGED <<handler, pumpVars, netVars, mapVars, wg>>

CancelOne(c) ==
  /\ closer = "cancel" /\ c \in todo
  /\ ctx' = [ctx EXCEPT ![c] = TRUE]
  /\ todo' = todo \ {c}
  /\ UNCHANGED <<handler, writer, reader, netVars, mapVars, wg, closer, covered>>

CancelEnd ==
  /\ todo = {}
  /\ CloserMoves("cancel", "wait")
  /\ UNCHANGED <<handler, pumpVars, netVars, mapVars, wg, todo, covered>>

\* Mutant: the wait is left out.
WaitsForNobody ==
  /\ CloserMoves("wait", "relock")
  /\ UNCHANGED <<handler, pumpVars, netVars, mapVars, wg, todo, covered>>

\* h.wg.Wait() returns at once or sleeps.
Wait ==
  /\ CloserMoves("wait", IF wg = 0 THEN "relock" ELSE "asleep")
  /\ UNCHANGED <<handler, pumpVars, netVars, mapVars, wg, todo, covered>>

\* Woken, Wait checks that the counter is still zero and panics if it is not
\* ("WaitGroup is reused before previous Wait has returned").
WaitReturns ==
  /\ CloserMoves("woken", IF wg = 0 THEN "relock" ELSE "panicked")
  /\ UNCHANGED <<handler, pumpVars, netVars, mapVars, wg, todo, covered>>

CloseBegin ==
  /\ CloserMoves("relock", "close")
  /\ UNCHANGED <<handler, pumpVars, netVars, mapVars, wg, todo, covered>>

\* Mutant: a client is forgotten without closing its connection.
ForgetsOne(c) ==
  /\ closer = "close" /\ c \in clients
  /\ clients' = clients \ {c}
  /\ gauge' = gauge - 1
  /\ UNCHANGED <<handler, pumpVars, netVars, wg, closerVars>>

CloseOne(c) ==
  /\ closer = "close" /\ c \in clients
  /\ link' = [link EXCEPT ![c] = IF @ = "open" THEN "closer" ELSE @]
  /\ clients' = clients \ {c}
  /\ gauge' = gauge - 1
  /\ UNCHANGED <<handler, pumpVars, peer, closeSent, wg, closerVars>>

CloseEnd ==
  /\ clients = {}
  /\ CloserMoves("close", "done")
  /\ UNCHANGED <<handler, pumpVars, netVars, mapVars, wg, todo, covered>>

-----------------------------------------------------------------------------
(* The other end of a connection: it says goodbye, or it stops answering.   *)

PeerGoes(c, how) ==
  /\ Running
  /\ link[c] = "open" /\ peer[c] = "up"
  /\ peer' = [peer EXCEPT ![c] = how]
  /\ UNCHANGED <<handler, pumpVars, link, closeSent, mapVars, wg, closerVars>>

-----------------------------------------------------------------------------
HandlerStep(c) ==
  \/ Register(c) \/ CountConnection(c) \/ AddToWaitGroup(c)
  \/ StartWriter(c) \/ StartReader(c)

WriterStep(c) ==
  \/ WriterFails(c) \/ WriterSeesCancel(c) \/ WriterSendsClose(c)
  \/ WriterDone(c)

ReaderStep(c) ==
  \/ ReaderStart(c) \/ ReaderCheck(c) \/ ReaderFails(c) \/ ReaderCloseFrame(c)
  \/ ReaderCancel(c) \/ ReaderRemove(c) \/ ReaderClose(c)

CloserStep ==
  \/ (\E c \in Conns : CancelOne(c)) \/ CancelEnd
  \/ Wait \/ WaitReturns
  \/ CloseBegin \/ (\E c \in Conns : CloseOne(c)) \/ CloseEnd

\* What the outside world decides: a request, a message, a shutdown.
Environment ==
  \/ CancelBegin
  \/ \E c \in Conns : \/ Upgrade(c) \/ UpgradeFails(c)
                      \/ ReaderMessage(c)
                      \/ \E how \in Departures : PeerGoes(c, how)

Next ==
  \/ CloserStep
  \/ Environment
  \/ \E c \in Conns : HandlerStep(c) \/ WriterStep(c) \/ ReaderStep(c)

Spec == Init /\ [][Next]_vars

\* The Go scheduler runs every goroutine that can run; nothing makes a client
\* connect, speak or leave, nor a shutdown arrive.
Fairness ==
  /\ WF_vars(CloserStep)
  /\ \A c \in Conns : /\ WF_vars(HandlerStep(c))
                      /\ WF_vars(WriterStep(c))
                      /\ WF_vars(ReaderStep(c))

FairSpec == Spec /\ Fairness

-----------------------------------------------------------------------------
(* Safety *)

\* Connections whose Inc of the gauge is still to come.
Uncounted == {c \in Conns : handler[c] = "registered"}

\* Connections whose writePump h.wg.Wait has to wait for.
Writing == {c \in Conns : handler[c] \in Added /\ writer[c] # "done"}

\* The gauge and h.clients are updated apart and from three goroutines, yet
\* every registered connection is counted once and uncounted once: the two
\* removal paths (removeClient and CloseAllConnections) never both decrement.
GaugeMatchesClients == gauge + Cardinality(Uncounted) = Cardinality(clients)

\* h.wg counts exactly the writePumps announced and not finished, so its
\* counter never goes negative (which would panic in Done).
WaitGroupMatchesWriters == wg = Cardinality(Writing)

\* A connection in h.clients is open.
RegisteredIsOpen == \A c \in clients : link[c] = "open"

\* An open connection is in h.clients, or about to enter it or to be closed.
NoOrphan ==
  \A c \in Conns :
    link[c] = "open" => \/ c \in clients
                        \/ handler[c] = "upgraded"
                        \/ reader[c] = "close"

\* The map follows the network connections: from its registration until
\* readPump's deferred function or CloseAllConnections takes it out, and no
\* longer than it is open, a connection is in the map, so none is left open
\* and untracked and none is closed and still counted.
RegistryExact == RegisteredIsOpen /\ NoOrphan

\* CloseAllConnections closes a connection it found in the map and in h.wg
\* only after its writePump has sent the close message, unless the peer went
\* away by itself.
GracefulClose ==
  \A c \in covered : link[c] = "closer" /\ peer[c] = "up" => closeSent[c]

\* Once CloseAllConnections has returned, the connections it found have no
\* running writePump and are out of the map, and one that is still open is
\* about to be closed by its own readPump.
CoveredDrained ==
  closer = "done" =>
    \A c \in covered : /\ writer[c] = "done"
                       /\ c \notin clients
                       /\ link[c] = "open" => reader[c] = "close"

-----------------------------------------------------------------------------
(* Liveness *)

\* Nothing of c is left: both pumps ended, unregistered and closed.
Released(c) ==
  /\ writer[c] = "done" /\ reader[c] = "done"
  /\ c \notin clients /\ link[c] # "open"

\* A connection whose peer left or stopped answering is entirely released,
\* even when only one of its pumps noticed.
GonePeerReleased ==
  \A c \in Conns :
    (handler[c] = "returned" /\ peer[c] # "up") ~> (Released(c) \/ ~Running)

\* A stream nobody cancelled that h.wg.Wait is waiting for: it was registered
\* after the first loop of CloseAllConnections.
Straggler(c) ==
  closer = "asleep" /\ c \notin covered /\ writer[c] = "loop" /\ ~ctx[c]

\* CloseAllConnections returns, unless such a late stream holds it (or the
\* wait group panics).
CloseReturnsUnlessStraggler ==
  (closer = "cancel") ~>
    (closer = "done" \/ ~Running \/ \E c \in Conns : Straggler(c))

-----------------------------------------------------------------------------
(* Progress: the part of the liveness properties that needs no fairness     *)

\* A pump has a step to take, h.mu left out: writePump's context is cancelled
\* or its writes fail, readPump has a message or an error to return from.
WriterCanGo(c) ==
  \/ writer[c] \in {"closing", "exit"}
  \/ writer[c] = "loop" /\ (ctx[c] \/ MayFail(c))

ReaderCanGo(c) ==
  \/ reader[c] \in {"start", "check", "cancel", "remove", "close"}
  \/ reader[c] = "read" /\ (link[c] # "open" \/ peer[c] # "up")

\* h.wg.Wait never sleeps without a writePump to wake it, and each one that
\* is to wake it has a step to take, the late streams excepted.
SleeperIsWoken ==
  closer = "asleep" =>
    /\ Writing # {}
    /\ \A c \in Writing :
         Straggler(c) \/ handler[c] = "added" \/ WriterCanGo(c)

\* When the peer is gone both pumps have a step to take until they have ended,
\* and nothing of the connection is left when they have.
GoneIsLetGo ==
  \A c \in Conns : handler[c] = "returned" /\ peer[c] # "up" =>
    /\ writer[c] = "done" \/ WriterCanGo(c)
    /\ reader[c] = "done" \/ ReaderCanGo(c)
    /\ writer[c] = "done" /\ reader[c] = "done" => Released(c)

\* The steps CloseAllConnections has still to take at most.
ToClose ==
  LET all == Cardinality(Conns)
  IN  CASE closer \in {"done", "panicked"} -> 0
        [] closer = "close"  -> 1 + Cardinality(clients)
        [] closer = "relock" -> 2 + all
        [] closer = "woken"  -> 3 + all
        [] closer = "asleep" -> 4 + all
        [] closer = "wait"   -> 5 + all
        [] closer = "cancel" -> 6 + all + Cardinality(todo)
        [] OTHER             -> 7 + 2 * all

\* The steps the pumps of a gone peer have still to take at most.
WriterLeft(c) ==
  CASE writer[c] = "loop" -> 3 [] writer[c] = "closing" -> 2
    [] writer[c] = "exit" -> 1 [] OTHER -> 0

ReaderLeft(c) ==
  CASE reader[c] = "start"  -> 6 [] reader[c] = "check"  -> 5
    [] reader[c] = "read"   -> 4 [] reader[c] = "cancel" -> 3
    [] reader[c] = "remove" -> 2 [] reader[c] = "close"  -> 1 [] OTHER -> 0

\* A shutdown under way is never set back, by a late registration or by a
\* readPump that removes its connection at the same time; nor are the pumps of
\* a peer that is gone.
WindsDown ==
  [][/\ closer # "idle" =>
          \/ UNCHANGED <<closer, todo, ToClose>>
          \/ ToClose' < ToClose
     /\ \A c \in Conns : handler[c] = "returned" /\ peer[c] # "up" =>
          /\ UNCHANGED <<handler[c], peer[c]>>
          /\ writer'[c] = writer[c] \/ WriterLeft(c)' < WriterLeft(c)
          /\ reader'[c] = reader[c] \/ ReaderLeft(c)' < ReaderLeft(c)]_vars

\* The closer and the pumps of a gone peer are never stuck and never go on for
\* ever.
HubGoesOn == [](SleeperIsWoken /\ GoneIsLetGo) /\ WindsDown

-----------------------------------------------------------------------------
(* Claims of the code, its comments and tests that the behaviours refute *)

\* CloseAllConnections never panics, whatever clients do meanwhile.
NoPanic == closer # "panicked"

\* What there is to it: a wait group that panics does so over a writePump of a
\* connection that CloseAllConnections did not find in the map.
OnlyLatePanic == closer = "panicked" => Writing \ covered # {}

\* No h.wg.Add between the end of the last writePump that h.wg.Wait waits for
\* and the moment Wait runs again: what sync.WaitGroup asks of its callers.
NoAddOnWake == [][closer = "woken" => wg' <= wg]_vars

\* Such an Add is the only way to the panic.
PanicNeedsLateAdd == []OnlyLatePanic /\ (NoAddOnWake => []NoPanic)
=============================================================================
