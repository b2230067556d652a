----------------------------- MODULE Keepalive ------------------------------
(***************************************************************************)
(* The timers of one WebSocket connection of internal/handler/websocket.go *)
(* while its server keeps running: the ticker of the values, the ticker of *)
(* the pings, the write deadline and the read deadline that only a pong    *)
(* moves.  The goroutines are those of the module WebSocketHub, whose      *)
(* actions are taken as they are; here a value, a ping or a close message  *)
(* is written in two steps, because a write may block.                     *)
(*                                                                         *)
(* Tick lets one unit of time pass.  It waits for every goroutine that can *)
(* go on: scheduling takes no time, blocking does.  A peer that is up      *)
(* takes what is written to it within DrainTime and answers a ping within  *)
(* PongDelay, whatever else it does; PeerGoes ends that.                   *)
(***************************************************************************)
EXTENDS Integers

CONSTANTS
  c,             \* the connection
  Departures,    \* how its peer may go away
  SendInterval, PingPeriod, PongWait, WriteWait,   \* of the code, in units
  DrainTime,     \* how long a write to a peer that is up may block
  PongDelay      \* how long such a peer may take to answer a ping

\* The timers of the code: pingPeriod is (pongWait * 9) / 10.
ASSUME TimersAssumption ==
  /\ SendInterval \in Nat \ {0} /\ PingPeriod \in Nat /\ PongWait \in Nat
  /\ WriteWait \in Nat
  /\ PongWait - PingPeriod < PingPeriod /\ PingPeriod < PongWait

\* What is asked of a peer: two writes fit between two values, and two writes
\* and an answer between a ping and the deadline.
ASSUME PeerAssumption ==
  /\ DrainTime \in Nat /\ PongDelay \in Nat
  /\ DrainTime < WriteWait
  /\ 2 * DrainTime < SendInterval
  /\ 2 * DrainTime + PongDelay < PongWait - PingPeriod

ASSUME DeparturesAssumption == Departures \subseteq {"left", "lost"}

VARIABLES
  handler, writer, reader, ctx, link, peer, closeSent, clients, gauge, wg,
  closer, todo, covered

hubVars == <<handler, writer, reader, ctx, link, peer, closeSent, clients,
             gauge, wg, closer, todo, covered>>

Hub == INSTANCE WebSocketHub WITH Conns <- {c}

VARIABLES
  sendIn,    \* time until ticker fires
  pingIn,    \* time until pingTicker fires
  sendTick,  \* a tick is in the channel of ticker, which holds one
  pingTick,  \* the same of pingTicker
  writing,   \* the message that writePump is writing
  busy,      \* for how long
  patience,  \* time until the read deadline
  owed,      \* age of the ping the peer has still to answer, or NoPing
  silent     \* history: for how long the peer has been lost

tickers  == <<sendIn, pingIn, sendTick, pingTick>>
writes   == <<writing, busy>>
timeVars == <<tickers, writes, patience, owed, silent>>
vars     == <<hubVars, timeVars>>

NoPing == -1

TypeOK ==
  /\ sendIn \in 0 .. SendInterval /\ pingIn \in 0 .. PingPeriod
  /\ sendTick \in BOOLEAN /\ pingTick \in BOOLEAN
  /\ writing \in {"nothing", "value", "ping", "close"}
  /\ busy \in 0 .. WriteWait
  /\ patience \in 0 .. PongWait
  /\ owed \in NoPing .. PongDelay
  /\ silent \in 0 .. PongWait + 1

Init ==
  /\ Hub!Init
  /\ sendIn = 0 /\ pingIn = 0 /\ sendTick = FALSE /\ pingTick = FALSE
  /\ writing = "nothing" /\ busy = 0
  /\ patience = 0 /\ owed = NoPing /\ silent = 0

-----------------------------------------------------------------------------
(* HandleWebSocket *)

Connect ==
  /\ \/ Hub!Upgrade(c) \/ Hub!Register(c) \/ Hub!CountConnection(c)
     \/ Hub!AddToWaitGroup(c) \/ Hub!StartReader(c)
  /\ UNCHANGED timeVars

\* Mutant: the pings come as late as the deadline.
StartWriterLate ==
  /\ Hub!StartWriter(c)
  /\ sendIn' = SendInterval /\ pingIn' = PongWait
  /\ UNCHANGED <<sendTick, pingTick, writes, patience, owed, silent>>

StartWriter ==
  /\ Hub!StartWriter(c)
  /\ sendIn' = SendInterval /\ pingIn' = PingPeriod
  /\ UNCHANGED <<sendTick, pingTick, writes, patience, owed, silent>>

-----------------------------------------------------------------------------
(* writePump: its select takes one of what is ready *)

Begin(message) ==
  /\ writing = "nothing"
  /\ writing' = message /\ busy' = 0
  /\ UNCHANGED <<sendIn, pingIn, patience, owed, silent>>

TakeSendTick ==
  /\ sendTick /\ writer[c] = "loop"
  /\ Begin("value")
  /\ sendTick' = FALSE
  /\ UNCHANGED <<hubVars, pingTick>>

TakePingTick ==
  /\ pingTick /\ writer[c] = "loop"
  /\ Begin("ping")
  /\ pingTick' = FALSE
  /\ UNCHANGED <<hubVars, sendTick>>

SeeCancel ==
  /\ Hub!WriterSeesCancel(c)
  /\ Begin("close")
  /\ UNCHANGED <<sendTick, pingTick>>

End == writing' = "nothing" /\ UNCHANGED <<tickers, busy, patience, silent>>

\* Mutant: the read deadline is moved when a ping is sent.
PingMovesDeadline ==
  /\ Hub!CanWrite(c) /\ writing \in {"value", "ping"}
  /\ writing' = "nothing"
  /\ patience' = IF writing = "ping" THEN PongWait ELSE patience
  /\ UNCHANGED <<hubVars, tickers, busy, owed, silent>>

\* A peer that is up has the ping now.
WriteEnds ==
  /\ Hub!CanWrite(c) /\ writing \in {"value", "ping"}
  /\ End
  /\ owed' = IF writing = "ping" /\ peer[c] = "up" /\ owed = NoPing
               THEN 0 ELSE owed
  /\ UNCHANGED hubVars

\* The write deadline has passed, the connection is closed, or it is reset.
WriteFails ==
  /\ busy = WriteWait \/ ~Hub!CanWrite(c) \/ peer[c] = "lost"
  /\ writing \in {"value", "ping"}
  /\ Hub!WriterMoves(c, "loop", "exit")
  /\ End
  /\ UNCHANGED <<handler, reader, ctx, link, peer, closeSent, clients, gauge,
                 wg, closer, todo, covered, owed>>

CloseEnds ==
  /\ writing = "close"
  /\ Hub!WriterSendsClose(c)
  /\ End
  /\ UNCHANGED owed

WriterDone == Hub!WriterDone(c) /\ UNCHANGED timeVars

-----------------------------------------------------------------------------
(* readPump *)

SetDeadline ==
  /\ Hub!ReaderStart(c)
  /\ patience' = PongWait
  /\ UNCHANGED <<tickers, writes, owed, silent>>

\* Mutant: the handler of pongs does not move the deadline.
PongIgnored ==
  /\ owed # NoPing /\ peer[c] = "up"
  /\ reader[c] = "read" /\ link[c] = "open"
  /\ owed' = NoPing
  /\ UNCHANGED <<hubVars, tickers, writes, patience, silent>>

Pong ==
  /\ owed # NoPing /\ peer[c] = "up"
  /\ reader[c] = "read" /\ link[c] = "open"
  /\ patience' = PongWait
  /\ owed' = NoPing
  /\ UNCHANGED <<hubVars, tickers, writes, silent>>

TimesOut ==
  /\ patience = 0
  /\ Hub!ReaderMoves(c, "read", "cancel")
  /\ UNCHANGED <<handler, writer, ctx, link, peer, closeSent, clients, gauge,
                 wg, closer, todo, covered, timeVars>>

\* Any other message leaves the deadline where it is.
ReadOn ==
  /\ \/ Hub!ReaderCheck(c) \/ Hub!ReaderMessage(c) \/ Hub!ReaderCloseFrame(c)
     \/ Hub!ReaderCancel(c) \/ Hub!ReaderRemove(c) \/ Hub!ReaderClose(c)
  /\ UNCHANGED timeVars

-----------------------------------------------------------------------------
(* The peer, and time *)

PeerGoes(how) ==
  /\ Hub!PeerGoes(c, how)
  /\ owed' = NoPing
  /\ UNCHANGED <<tickers, writes, patience, silent>>

WriterWaits ==
  \/ /\ writer[c] = "loop" /\ writing = "nothing"
     /\ ~sendTick /\ ~pingTick /\ ~ctx[c]
  \/ /\ writing # "nothing" /\ Hub!CanWrite(c)
     /\ busy < (IF peer[c] = "up" THEN DrainTime ELSE WriteWait)
  \/ writer[c] = "done"

ReaderWaits ==
  \/ reader[c] = "read" /\ link[c] = "open" /\ peer[c] # "left" /\ patience > 0
  \/ reader[c] = "done"

After(count, period) == IF count = 1 THEN period ELSE count - 1

\* silent is not counted past PongWait + 1.
Tick ==
  /\ handler[c] = "returned" /\ WriterWaits /\ ReaderWaits /\ owed < PongDelay
  /\ IF writer[c] = "done" THEN UNCHANGED tickers
       ELSE /\ sendIn' = After(sendIn, SendInterval)
            /\ pingIn' = After(pingIn, PingPeriod)
            /\ sendTick' = (sendTick \/ sendIn = 1)
            /\ pingTick' = (pingTick \/ pingIn = 1)
  /\ busy' = IF writing = "nothing" THEN busy ELSE busy + 1
  /\ patience' = IF reader[c] = "read" THEN patience - 1 ELSE patience
  /\ owed' = IF owed = NoPing THEN NoPing ELSE owed + 1
  /\ silent' = IF peer[c] = "lost" /\ silent <= PongWait THEN silent + 1 ELSE silent
  /\ UNCHANGED <<hubVars, writing>>

-----------------------------------------------------------------------------
Next ==
  \/ Connect \/ StartWriter \/ SetDeadline
  \/ TakeSendTick \/ TakePingTick \/ SeeCancel
  \/ WriteEnds \/ WriteFails \/ CloseEnds \/ WriterDone
  \/ Pong \/ TimesOut \/ ReadOn
  \/ \E how \in Departures : PeerGoes(how)
  \/ Tick

Spec == Init /\ [][Next]_vars

-----------------------------------------------------------------------------
(* Properties *)

\* A peer that is up is never dropped: the pong of every ping is read before
\* the deadline, although values come first, writes block and the answer takes
\* its time.
PromptPeerKept ==
  peer[c] = "up" /\ reader[c] = "read" /\ link[c] = "open" => patience > 0

\* A peer that has stopped answering is dropped and its connection entirely
\* released within PongWait, even while a write to it is blocked.
LostPeerDropped == silent > PongWait => Hub!Released(c)

\* The connection behaves as the hub, which knows no timers, assumes: a read or
\* a write only fails when the peer has gone or the connection is closed.
HubTimed == Hub!Spec
=============================================================================
