-------------------------- MODULE KeepaliveProofs ---------------------------
(***************************************************************************)
(* Safety of Keepalive, for any timers that satisfy TimersAssumption and   *)
(* PeerAssumption.                                                         *)
(*                                                                         *)
(* The invariant relates each buffered tick, write in progress and pong    *)
(* that is due to the time since its ticker fired (SincePing, SinceSend),  *)
(* and the read deadline to the time since the last ping (Deadline).       *)
(***************************************************************************)
EXTENDS Keepalive, TLAPS

Up == peer[c] = "up"
Early == reader[c] \in {"off", "start"}
Reading == reader[c] \in {"check", "read"}
Leaving == reader[c] \in {"remove", "close", "done"}

\* The types of the hub's variables that a connection uses.
HubTypes ==
  /\ handler \in [{c} -> {"idle", "upgraded", "registered", "counted",
                          "added", "spawned", "returned"}]
  /\ writer \in [{c} -> Hub!WriterState]
  /\ reader \in [{c} -> Hub!ReaderState]
  /\ ctx \in [{c} -> BOOLEAN]
  /\ link \in [{c} -> {"none", "open", "reader"}]
  /\ peer \in [{c} -> {"up", "left", "lost"}]
  /\ closeSent \in [{c} -> BOOLEAN]
  /\ clients \subseteq {c}

\* How far the goroutines of the connection are with each other.
Stages ==
  /\ closer = "idle"
  /\ handler[c] \in {"spawned", "returned"} <=> writer[c] # "off"
  /\ handler[c] = "returned" <=> reader[c] # "off"
  /\ link[c] = "none" <=> handler[c] = "idle"
  /\ link[c] = "reader" <=> reader[c] = "done"
  /\ ctx[c] <=> Leaving
  /\ writer[c] = "closing" => ctx[c]
  /\ reader[c] \in {"close", "done"} => c \notin clients
  /\ closeSent[c] => reader[c] = "cancel" \/ Leaving
  /\ Up /\ writer[c] # "off" /\ (Early \/ Reading) => writer[c] = "loop"

\* What is being written, and for how long.
Writes ==
  /\ writing \in {"value", "ping"} => writer[c] = "loop"
  /\ writing = "close" <=> writer[c] = "closing"
  /\ Up /\ writing # "nothing" => busy <= DrainTime

\* No time passes before readPump reads.
Fresh ==
  /\ writer[c] # "off" => sendIn >= 1 /\ pingIn >= 1
  /\ Early => /\ ~sendTick /\ ~pingTick /\ writing = "nothing"
              /\ owed = NoPing /\ silent = 0
              /\ writer[c] = "loop" => sendIn = SendInterval /\ pingIn = PingPeriod

SinceSend == SendInterval - sendIn
SincePing == PingPeriod - pingIn

\* A value is written within 2 * DrainTime of its tick.
Values ==
  /\ sendTick => /\ writing # "value"
                 /\ writing = "nothing" => SinceSend <= DrainTime
                 /\ writing = "ping" => SinceSend <= busy
  /\ writing = "value" => SinceSend <= DrainTime + busy

\* So is a ping, and its pong is read within PongDelay of that.
Pings ==
  /\ pingTick => /\ owed = NoPing /\ writing # "ping"
                 /\ writing = "nothing" => SincePing <= DrainTime
                 /\ writing = "value" => SincePing <= busy
  /\ writing = "ping" => owed = NoPing /\ SincePing <= DrainTime + busy
  /\ owed # NoPing => SincePing <= 2 * DrainTime + owed
  /\ writing = "nothing" /\ sendTick /\ pingTick =>
       SincePing = 0 /\ SinceSend = 0

\* A ping has been due whose pong has not been read.
Pending == pingTick \/ writing = "ping" \/ owed # NoPing

Deadline ==
  /\ Pending => patience >= PongWait - PingPeriod - SincePing
  /\ ~Pending => patience >= PongWait - SincePing

Timers == Up /\ Reading => Values /\ Pings /\ Deadline

\* The silence of a lost peer is bounded by what was left of the deadline.
Silence ==
  /\ peer[c] # "lost" => silent = 0
  /\ peer[c] = "lost" /\ Reading => silent + patience <= PongWait
  /\ silent <= PongWait \/ (reader[c] = "done" /\ writer[c] = "done")

IInv ==
  /\ TypeOK /\ HubTypes /\ Stages /\ Writes /\ Fresh /\ Timers /\ Silence

-----------------------------------------------------------------------------
(* Every action keeps the invariant. *)

\* The tuples in which UNCHANGED names the variables.
USE DEF hubVars, timeVars, tickers, writes, Hub!pumpVars, Hub!netVars,
   Hub!mapVars, Hub!closerVars

\* HandleWebSocket keeps the invariant.
LEMMA HandleStep ==
  IInv /\ (Connect \/ StartWriter) => IInv'
<1> SUFFICES ASSUME IInv, Connect \/ StartWriter
            PROVE  IInv'
  OBVIOUS
<1>1. CASE Connect
  <2>1. CASE Hub!Upgrade(c) /\ UNCHANGED timeVars
    <3>1. HubTypes' /\ Stages'
      BY <2>1 DEF Hub!Upgrade, Hub!HandlerMoves, IInv, HubTypes, Stages, Up,
         Early, Reading, Leaving, Writes, Hub!WriterState, Hub!ReaderState
    <3>2. TypeOK' /\ Writes' /\ Fresh'
      BY <2>1, TimersAssumption, PeerAssumption DEF Hub!Upgrade,
         Hub!HandlerMoves, IInv, HubTypes, Stages, Up, Early, Reading,
         Leaving, TypeOK, Writes, Fresh
    <3>3. Timers' /\ Silence'
      BY <2>1, TimersAssumption, PeerAssumption DEF Hub!Upgrade,
         Hub!HandlerMoves, IInv, HubTypes, Stages, Up, Early, Reading,
         Leaving, Timers, Values, Pings, Deadline, Pending, SinceSend,
         SincePing, Fresh, Silence
    <3>4. QED
      BY <3>1, <3>2, <3>3 DEF IInv
  <2>2. CASE Hub!Register(c) /\ UNCHANGED timeVars
    <3>1. HubTypes' /\ Stages'
      BY <2>2 DEF Hub!Register, Hub!HandlerMoves, IInv, HubTypes, Stages, Up,
         Early, Reading, Leaving, Writes, Hub!WriterState, Hub!ReaderState
    <3>2. TypeOK' /\ Writes' /\ Fresh'
      BY <2>2, TimersAssumption, PeerAssumption DEF Hub!Register,
         Hub!HandlerMoves, IInv, HubTypes, Stages, Up, Early, Reading,
         Leaving, TypeOK, Writes, Fresh
    <3>3. Timers' /\ Silence'
      BY <2>2, TimersAssumption, PeerAssumption DEF Hub!Register,
         Hub!HandlerMoves, IInv, HubTypes, Stages, Up, Early, Reading,
         Leaving, Timers, Values, Pings, Deadline, Pending, SinceSend,
         SincePing, Fresh, Silence
    <3>4. QED
      BY <3>1, <3>2, <3>3 DEF IInv
  <2>3. CASE Hub!CountConnection(c) /\ UNCHANGED timeVars
    <3>1. HubTypes' /\ Stages'
      BY <2>3 DEF Hub!CountConnection, Hub!HandlerMoves, IInv, HubTypes,
         Stages, Up, Early, Reading, Leaving, Writes, Hub!WriterState,
         Hub!ReaderState
    <3>2. TypeOK' /\ Writes' /\ Fresh'
      BY <2>3, TimersAssumption, PeerAssumption DEF Hub!CountConnection,
         Hub!HandlerMoves, IInv, HubTypes, Stages, Up, Early, Reading,
         Leaving, TypeOK, Writes, Fresh
    <3>3. Timers' /\ Silence'
      BY <2>3, TimersAssumption, PeerAssumption DEF Hub!CountConnection,
         Hub!HandlerMoves, IInv, HubTypes, Stages, Up, Early, Reading,
         Leaving, Timers, Values, Pings, Deadline, Pending, SinceSend,
         SincePing, Fresh, Silence
    <3>4. QED
      BY <3>1, <3>2, <3>3 DEF IInv
  <2>4. CASE Hub!AddToWaitGroup(c) /\ UNCHANGED timeVars
    <3>1. HubTypes' /\ Stages'
      BY <2>4 DEF Hub!AddToWaitGroup, Hub!HandlerMoves, IInv, HubTypes,
         Stages, Up, Early, Reading, Leaving, Writes, Hub!WriterState,
         Hub!ReaderState
    <3>2. TypeOK' /\ Writes' /\ Fresh'
      BY <2>4, TimersAssumption, PeerAssumption DEF Hub!AddToWaitGroup,
         Hub!HandlerMoves, IInv, HubTypes, Stages, Up, Early, Reading,
         Leaving, TypeOK, Writes, Fresh
    <3>3. Timers' /\ Silence'
      BY <2>4, TimersAssumption, PeerAssumption DEF Hub!AddToWaitGroup,
         Hub!HandlerMoves, IInv, HubTypes, Stages, Up, Early, Reading,
         Leaving, Timers, Values, Pings, Deadline, Pending, SinceSend,
         SincePing, Fresh, Silence
    <3>4. QED
      BY <3>1, <3>2, <3>3 DEF IInv
  <2>5. CASE Hub!StartReader(c) /\ UNCHANGED timeVars
    <3>1. HubTypes' /\ Stages'
      BY <2>5 DEF Hub!StartReader, Hub!HandlerMoves, IInv, HubTypes, Stages,
         Up, Early, Reading, Leaving, Writes, Hub!WriterState,
         Hub!ReaderState
    <3>2. TypeOK' /\ Writes' /\ Fresh'
      BY <2>5, TimersAssumption, PeerAssumption DEF Hub!StartReader,
         Hub!HandlerMoves, IInv, HubTypes, Stages, Up, Early, Reading,
         Leaving, TypeOK, Writes, Fresh
    <3>3. Timers' /\ Silence'
      BY <2>5, TimersAssumption, PeerAssumption DEF Hub!StartReader,
         Hub!HandlerMoves, IInv, HubTypes, Stages, Up, Early, Reading,
         Leaving, Timers, Values, Pings, Deadline, Pending, SinceSend,
         SincePing, Fresh, Silence
    <3>4. QED
      BY <3>1, <3>2, <3>3 DEF IInv
  <2>6. QED
    BY <1>1, <2>1, <2>2, <2>3, <2>4, <2>5 DEF Connect
<1>2. CASE StartWriter
  <2>1. TypeOK'
    BY <1>2, TimersAssumption, PeerAssumption DEF StartWriter,
       Hub!StartWriter, Hub!HandlerMoves, IInv, TypeOK, HubTypes, Stages, Up,
       Early, Reading, Leaving, Writes, NoPing
  <2>2. HubTypes' /\ Stages'
    BY <1>2, TimersAssumption, PeerAssumption DEF StartWriter,
       Hub!StartWriter, Hub!HandlerMoves, IInv, HubTypes, Stages, Up, Early,
       Reading, Leaving, Writes, TypeOK, Hub!WriterState, Hub!ReaderState
  <2>3. Writes' /\ Fresh'
    BY <1>2, TimersAssumption, PeerAssumption DEF StartWriter,
       Hub!StartWriter, Hub!HandlerMoves, IInv, HubTypes, Stages, Up, Early,
       Reading, Leaving, TypeOK, Writes, Fresh, NoPing
  <2>4. Timers'
    BY <1>2, TimersAssumption, PeerAssumption DEF StartWriter,
       Hub!StartWriter, Hub!HandlerMoves, IInv, HubTypes, Stages, Up, Early,
       Reading, Leaving, Timers, Values, Pings, Deadline, Pending, SinceSend,
       SincePing, TypeOK, Writes, Fresh, NoPing
  <2>5. Silence'
    BY <1>2, TimersAssumption, PeerAssumption DEF StartWriter,
       Hub!StartWriter, Hub!HandlerMoves, IInv, HubTypes, Stages, Up, Early,
       Reading, Leaving, TypeOK, Fresh, Silence, Writes
  <2>6. QED
    BY <2>1, <2>2, <2>3, <2>4, <2>5 DEF IInv
<1>3. QED
  BY <1>1, <1>2

\* writePump keeps it.
LEMMA WriterStep ==
  IInv /\ (\/ TakeSendTick \/ TakePingTick \/ SeeCancel \/ WriteEnds
           \/ WriteFails \/ CloseEnds \/ WriterDone) => IInv'
<1> SUFFICES ASSUME IInv,
                   \/ TakeSendTick \/ TakePingTick \/ SeeCancel \/ WriteEnds
                   \/ WriteFails \/ CloseEnds \/ WriterDone
            PROVE  IInv'
  OBVIOUS
<1>1. CASE TakeSendTick
  <2>1. sendTick' \in BOOLEAN /\ pingTick' \in BOOLEAN
    BY <1>1 DEF TakeSendTick, Begin, IInv, TypeOK
  <2>2. TypeOK'
    BY <1>1, <2>1, TimersAssumption, PeerAssumption DEF TakeSendTick, Begin,
       IInv, TypeOK
  <2>3. HubTypes' /\ Stages'
    BY <1>1, TimersAssumption, PeerAssumption DEF TakeSendTick, Begin, IInv,
       HubTypes, Stages, Up, Early, Reading, Leaving, Writes, TypeOK,
       Hub!WriterState, Hub!ReaderState
  <2>4. Writes' /\ Fresh'
    BY <1>1, TimersAssumption, PeerAssumption DEF TakeSendTick, Begin, IInv,
       HubTypes, Stages, Up, Early, Reading, Leaving, TypeOK, Writes, Fresh,
       NoPing
  <2>5. Timers'
    BY <1>1, TimersAssumption, PeerAssumption DEF TakeSendTick, Begin, IInv,
       HubTypes, Stages, Up, Early, Reading, Leaving, Timers, Values, Pings,
       Deadline, Pending, SinceSend, SincePing, TypeOK, Writes, Fresh, NoPing
  <2>6. Silence'
    BY <1>1, TimersAssumption, PeerAssumption DEF TakeSendTick, Begin, IInv,
       HubTypes, Stages, Up, Early, Reading, Leaving, TypeOK, Fresh, Silence,
       Writes
  <2>7. QED
    BY <2>1, <2>2, <2>3, <2>4, <2>5, <2>6 DEF IInv
<1>2. CASE TakePingTick
  <2>1. sendTick' \in BOOLEAN /\ pingTick' \in BOOLEAN
    BY <1>2 DEF TakePingTick, Begin, IInv, TypeOK
  <2>2. TypeOK'
    BY <1>2, <2>1, TimersAssumption, PeerAssumption DEF TakePingTick, Begin,
       IInv, TypeOK
  <2>3. HubTypes' /\ Stages'
    BY <1>2, TimersAssumption, PeerAssumption DEF TakePingTick, Begin, IInv,
       HubTypes, Stages, Up, Early, Reading, Leaving, Writes, TypeOK,
       Hub!WriterState, Hub!ReaderState
  <2>4. Writes' /\ Fresh'
    BY <1>2, TimersAssumption, PeerAssumption DEF TakePingTick, Begin, IInv,
       HubTypes, Stages, Up, Early, Reading, Leaving, TypeOK, Writes, Fresh,
       NoPing
  <2>5. Timers'
    BY <1>2, TimersAssumption, PeerAssumption DEF TakePingTick, Begin, IInv,
       HubTypes, Stages, Up, Early, Reading, Leaving, Timers, Values, Pings,
       Deadline, Pending, SinceSend, SincePing, TypeOK, Writes, Fresh, NoPing
  <2>6. Silence'
    BY <1>2, TimersAssumption, PeerAssumption DEF TakePingTick, Begin, IInv,
       HubTypes, Stages, Up, Early, Reading, Leaving, TypeOK, Fresh, Silence,
       Writes
  <2>7. QED
    BY <2>1, <2>2, <2>3, <2>4, <2>5, <2>6 DEF IInv
<1>3. CASE SeeCancel
  <2>1. TypeOK'
    BY <1>3, TimersAssumption, PeerAssumption DEF SeeCancel, Begin,
       Hub!WriterSeesCancel, Hub!WriterMoves, IInv, TypeOK, HubTypes, Stages,
       Up, Early, Reading, Leaving, Writes, NoPing
  <2>2. HubTypes' /\ Stages'
    BY <1>3, TimersAssumption, PeerAssumption DEF SeeCancel, Begin,
       Hub!WriterSeesCancel, Hub!WriterMoves, IInv, HubTypes, Stages, Up,
       Early, Reading, Leaving, Writes, TypeOK, Hub!WriterState,
       Hub!ReaderState
  <2>3. Writes' /\ Fresh'
    BY <1>3, TimersAssumption, PeerAssumption DEF SeeCancel, Begin,
       Hub!WriterSeesCancel, Hub!WriterMoves, IInv, HubTypes, Stages, Up,
       Early, Reading, Leaving, TypeOK, Writes, Fresh, NoPing
  <2>4. Timers'
    BY <1>3, TimersAssumption, PeerAssumption DEF SeeCancel, Begin,
       Hub!WriterSeesCancel, Hub!WriterMoves, IInv, HubTypes, Stages, Up,
       Early, Reading, Leaving, Timers, Values, Pings, Deadline, Pending,
       SinceSend, SincePing, TypeOK, Writes, Fresh, NoPing
  <2>5. Silence'
    BY <1>3, TimersAssumption, PeerAssumption DEF SeeCancel, Begin,
       Hub!WriterSeesCancel, Hub!WriterMoves, IInv, HubTypes, Stages, Up,
       Early, Reading, Leaving, TypeOK, Fresh, Silence, Writes
  <2>6. QED
    BY <2>1, <2>2, <2>3, <2>4, <2>5 DEF IInv
<1>4. CASE WriteEnds
  <2>1. TypeOK'
    BY <1>4, TimersAssumption, PeerAssumption DEF WriteEnds, End,
       Hub!CanWrite, IInv, TypeOK, HubTypes, Stages, Up, Early, Reading,
       Leaving, Writes, NoPing
  <2>2. HubTypes' /\ Stages'
    BY <1>4, TimersAssumption, PeerAssumption DEF WriteEnds, End,
       Hub!CanWrite, IInv, HubTypes, Stages, Up, Early, Reading, Leaving,
       Writes, TypeOK, Hub!WriterState, Hub!ReaderState
  <2>3. Writes' /\ Fresh'
    BY <1>4, TimersAssumption, PeerAssumption DEF WriteEnds, End,
       Hub!CanWrite, IInv, HubTypes, Stages, Up, Early, Reading, Leaving,
       TypeOK, Writes, Fresh, NoPing
  <2>4. Timers'
    BY <1>4, TimersAssumption, PeerAssumption DEF WriteEnds, End,
       Hub!CanWrite, IInv, HubTypes, Stages, Up, Early, Reading, Leaving,
       Timers, Values, Pings, Deadline, Pending, SinceSend, SincePing,
       TypeOK, Writes, Fresh, NoPing
  <2>5. Silence'
    BY <1>4, TimersAssumption, PeerAssumption DEF WriteEnds, End,
       Hub!CanWrite, IInv, HubTypes, Stages, Up, Early, Reading, Leaving,
       TypeOK, Fresh, Silence, Writes
  <2>6. QED
    BY <2>1, <2>2, <2>3, <2>4, <2>5 DEF IInv
<1>5. CASE WriteFails
  <2>1. TypeOK'
    BY <1>5, TimersAssumption, PeerAssumption DEF WriteFails, End,
       Hub!CanWrite, Hub!WriterMoves, IInv, TypeOK, HubTypes, Stages, Up,
       Early, Reading, Leaving, Writes, NoPing
  <2>2. HubTypes' /\ Stages'
    BY <1>5, TimersAssumption, PeerAssumption DEF WriteFails, End,
       Hub!CanWrite, Hub!WriterMoves, IInv, HubTypes, Stages, Up, Early,
       Reading, Leaving, Writes, TypeOK, Hub!WriterState, Hub!ReaderState
  <2>3. Writes' /\ Fresh'
    BY <1>5, TimersAssumption, PeerAssumption DEF WriteFails, End,
       Hub!CanWrite, Hub!WriterMoves, IInv, HubTypes, Stages, Up, Early,
       Reading, Leaving, TypeOK, Writes, Fresh, NoPing
  <2>4. Timers'
    BY <1>5, TimersAssumption, PeerAssumption DEF WriteFails, End,
       Hub!CanWrite, Hub!WriterMoves, IInv, HubTypes, Stages, Up, Early,
       Reading, Leaving, Timers, Values, Pings, Deadline, Pending, SinceSend,
       SincePing, TypeOK, Writes, Fresh, NoPing
  <2>5. Silence'
    BY <1>5, TimersAssumption, PeerAssumption DEF WriteFails, End,
       Hub!CanWrite, Hub!WriterMoves, IInv, HubTypes, Stages, Up, Early,
       Reading, Leaving, TypeOK, Fresh, Silence, Writes
  <2>6. QED
    BY <2>1, <2>2, <2>3, <2>4, <2>5 DEF IInv
<1>6. CASE CloseEnds
  <2>1. TypeOK'
    BY <1>6, TimersAssumption, PeerAssumption DEF CloseEnds, End,
       Hub!WriterSendsClose, Hub!WriterMoves, IInv, TypeOK, HubTypes, Stages,
       Up, Early, Reading, Leaving, Writes, NoPing
  <2>2. HubTypes' /\ Stages'
    BY <1>6, TimersAssumption, PeerAssumption DEF CloseEnds, End,
       Hub!WriterSendsClose, Hub!WriterMoves, IInv, HubTypes, Stages, Up,
       Early, Reading, Leaving, Writes, TypeOK, Hub!WriterState,
       Hub!ReaderState
  <2>3. Writes' /\ Fresh'
    BY <1>6, TimersAssumption, PeerAssumption DEF CloseEnds, End,
       Hub!WriterSendsClose, Hub!WriterMoves, IInv, HubTypes, Stages, Up,
       Early, Reading, Leaving, TypeOK, Writes, Fresh, NoPing
  <2>4. Timers'
    BY <1>6, TimersAssumption, PeerAssumption DEF CloseEnds, End,
       Hub!WriterSendsClose, Hub!WriterMoves, IInv, HubTypes, Stages, Up,
       Early, Reading, Leaving, Timers, Values, Pings, Deadline, Pending,
       SinceSend, SincePing, TypeOK, Writes, Fresh, NoPing
  <2>5. Silence'
    BY <1>6, TimersAssumption, PeerAssumption DEF CloseEnds, End,
       Hub!WriterSendsClose, Hub!WriterMoves, IInv, HubTypes, Stages, Up,
       Early, Reading, Leaving, TypeOK, Fresh, Silence, Writes
  <2>6. QED
    BY <2>1, <2>2, <2>3, <2>4, <2>5 DEF IInv
<1>7. CASE WriterDone
  <2>1. HubTypes' /\ Stages'
    BY <1>7 DEF WriterDone, Hub!WriterDone, Hub!WriterMoves, IInv, HubTypes,
       Stages, Up, Early, Reading, Leaving, Writes, Hub!WriterState,
       Hub!ReaderState
  <2>2. TypeOK' /\ Writes' /\ Fresh'
    BY <1>7, TimersAssumption, PeerAssumption DEF WriterDone, Hub!WriterDone,
       Hub!WriterMoves, IInv, HubTypes, Stages, Up, Early, Reading, Leaving,
       TypeOK, Writes, Fresh
  <2>3. Timers' /\ Silence'
    BY <1>7, TimersAssumption, PeerAssumption DEF WriterDone, Hub!WriterDone,
       Hub!WriterMoves, IInv, HubTypes, Stages, Up, Early, Reading, Leaving,
       Timers, Values, Pings, Deadline, Pending, SinceSend, SincePing, Fresh,
       Silence
  <2>4. QED
    BY <2>1, <2>2, <2>3 DEF IInv
<1>8. QED
  BY <1>1, <1>2, <1>3, <1>4, <1>5, <1>6, <1>7

\* readPump keeps it.
LEMMA ReaderStep ==
  IInv /\ (SetDeadline \/ Pong \/ TimesOut \/ ReadOn) => IInv'
<1> SUFFICES ASSUME IInv, SetDeadline \/ Pong \/ TimesOut \/ ReadOn
            PROVE  IInv'
  OBVIOUS
<1>1. CASE SetDeadline
  <2>1. TypeOK'
    BY <1>1, TimersAssumption, PeerAssumption DEF SetDeadline,
       Hub!ReaderStart, Hub!ReaderMoves, IInv, TypeOK, HubTypes, Stages, Up,
       Early, Reading, Leaving, Writes, NoPing
  <2>2. HubTypes' /\ Stages'
    BY <1>1, TimersAssumption, PeerAssumption DEF SetDeadline,
       Hub!ReaderStart, Hub!ReaderMoves, IInv, HubTypes, Stages, Up, Early,
       Reading, Leaving, Writes, TypeOK, Hub!WriterState, Hub!ReaderState
  <2>3. Writes' /\ Fresh'
    BY <1>1, TimersAssumption, PeerAssumption DEF SetDeadline,
       Hub!ReaderStart, Hub!ReaderMoves, IInv, HubTypes, Stages, Up, Early,
       Reading, Leaving, TypeOK, Writes, Fresh, NoPing
  <2>4. Timers'
    BY <1>1, TimersAssumption, PeerAssumption DEF SetDeadline,
       Hub!ReaderStart, Hub!ReaderMoves, IInv, HubTypes, Stages, Up, Early,
       Reading, Leaving, Timers, Values, Pings, Deadline, Pending, SinceSend,
       SincePing, TypeOK, Writes, Fresh, NoPing
  <2>5. Silence'
    BY <1>1, TimersAssumption, PeerAssumption DEF SetDeadline,
       Hub!ReaderStart, Hub!ReaderMoves, IInv, HubTypes, Stages, Up, Early,
       Reading, Leaving, TypeOK, Fresh, Silence, Writes
  <2>6. QED
    BY <2>1, <2>2, <2>3, <2>4, <2>5 DEF IInv
<1>2. CASE Pong
  <2>1. TypeOK'
    BY <1>2, TimersAssumption, PeerAssumption DEF Pong, IInv, TypeOK,
       HubTypes, Stages, Up, Early, Reading, Leaving, Writes, NoPing
  <2>2. HubTypes' /\ Stages'
    BY <1>2, TimersAssumption, PeerAssumption DEF Pong, IInv, HubTypes,
       Stages, Up, Early, Reading, Leaving, Writes, TypeOK, Hub!WriterState,
       Hub!ReaderState
  <2>3. Writes' /\ Fresh'
    BY <1>2, TimersAssumption, PeerAssumption DEF Pong, IInv, HubTypes,
       Stages, Up, Early, Reading, Leaving, TypeOK, Writes, Fresh, NoPing
  <2>4. Timers'
    BY <1>2, TimersAssumption, PeerAssumption DEF Pong, IInv, HubTypes,
       Stages, Up, Early, Reading, Leaving, Timers, Values, Pings, Deadline,
       Pending, SinceSend, SincePing, TypeOK, Writes, Fresh, NoPing
  <2>5. Silence'
    BY <1>2, TimersAssumption, PeerAssumption DEF Pong, IInv, HubTypes,
       Stages, Up, Early, Reading, Leaving, TypeOK, Fresh, Silence, Writes
  <2>6. QED
    BY <2>1, <2>2, <2>3, <2>4, <2>5 DEF IInv
<1>3. CASE TimesOut
  <2>1. HubTypes' /\ Stages'
    BY <1>3 DEF TimesOut, Hub!ReaderMoves, IInv, HubTypes, Stages, Up, Early,
       Reading, Leaving, Writes, Hub!WriterState, Hub!ReaderState
  <2>2. TypeOK' /\ Writes' /\ Fresh'
    BY <1>3, TimersAssumption, PeerAssumption DEF TimesOut, Hub!ReaderMoves,
       IInv, HubTypes, Stages, Up, Early, Reading, Leaving, TypeOK, Writes,
       Fresh
  <2>3. Timers' /\ Silence'
    BY <1>3, TimersAssumption, PeerAssumption DEF TimesOut, Hub!ReaderMoves,
       IInv, HubTypes, Stages, Up, Early, Reading, Leaving, Timers, Values,
       Pings, Deadline, Pending, SinceSend, SincePing, Fresh, Silence
  <2>4. QED
    BY <2>1, <2>2, <2>3 DEF IInv
<1>4. CASE ReadOn
  <2>1. CASE Hub!ReaderCheck(c) /\ UNCHANGED timeVars
    <3>1. HubTypes' /\ Stages'
      BY <2>1 DEF Hub!ReaderCheck, Hub!ReaderMoves, IInv, HubTypes, Stages,
         Up, Early, Reading, Leaving, Writes, Hub!WriterState,
         Hub!ReaderState
    <3>2. TypeOK' /\ Writes' /\ Fresh'
      BY <2>1, TimersAssumption, PeerAssumption DEF Hub!ReaderCheck,
         Hub!ReaderMoves, IInv, HubTypes, Stages, Up, Early, Reading,
         Leaving, TypeOK, Writes, Fresh
    <3>3. Timers' /\ Silence'
      BY <2>1, TimersAssumption, PeerAssumption DEF Hub!ReaderCheck,
         Hub!ReaderMoves, IInv, HubTypes, Stages, Up, Early, Reading,
         Leaving, Timers, Values, Pings, Deadline, Pending, SinceSend,
         SincePing, Fresh, Silence
    <3>4. QED
      BY <3>1, <3>2, <3>3 DEF IInv
  <2>2. CASE Hub!ReaderMessage(c) /\ UNCHANGED timeVars
    <3>1. HubTypes' /\ Stages'
      BY <2>2 DEF Hub!ReaderMessage, Hub!ReaderMoves, IInv, HubTypes, Stages,
         Up, Early, Reading, Leaving, Writes, Hub!WriterState,
         Hub!ReaderState
    <3>2. TypeOK' /\ Writes' /\ Fresh'
      BY <2>2, TimersAssumption, PeerAssumption DEF Hub!ReaderMessage,
         Hub!ReaderMoves, IInv, HubTypes, Stages, Up, Early, Reading,
         Leaving, TypeOK, Writes, Fresh
    <3>3. Timers' /\ Silence'
      BY <2>2, TimersAssumption, PeerAssumption DEF Hub!ReaderMessage,
         Hub!ReaderMoves, IInv, HubTypes, Stages, Up, Early, Reading,
         Leaving, Timers, Values, Pings, Deadline, Pending, SinceSend,
         SincePing, Fresh, Silence
    <3>4. QED
      BY <3>1, <3>2, <3>3 DEF IInv
  <2>3. CASE Hub!ReaderCloseFrame(c) /\ UNCHANGED timeVars
    <3>1. HubTypes' /\ Stages'
      BY <2>3 DEF Hub!ReaderCloseFrame, Hub!ReaderMoves, IInv, HubTypes,
         Stages, Up, Early, Reading, Leaving, Writes, Hub!WriterState,
         Hub!ReaderState
    <3>2. TypeOK' /\ Writes' /\ Fresh'
      BY <2>3, TimersAssumption, PeerAssumption DEF Hub!ReaderCloseFrame,
         Hub!ReaderMoves, IInv, HubTypes, Stages, Up, Early, Reading,
         Leaving, TypeOK, Writes, Fresh
    <3>3. Timers' /\ Silence'
      BY <2>3, TimersAssumption, PeerAssumption DEF Hub!ReaderCloseFrame,
         Hub!ReaderMoves, IInv, HubTypes, Stages, Up, Early, Reading,
         Leaving, Timers, Values, Pings, Deadline, Pending, SinceSend,
         SincePing, Fresh, Silence
    <3>4. QED
      BY <3>1, <3>2, <3>3 DEF IInv
  <2>4. CASE Hub!ReaderCancel(c) /\ UNCHANGED timeVars
    <3>1. HubTypes' /\ Stages'
      BY <2>4 DEF Hub!ReaderCancel, Hub!ReaderMoves, IInv, HubTypes, Stages,
         Up, Early, Reading, Leaving, Writes, Hub!WriterState,
         Hub!ReaderState
    <3>2. TypeOK' /\ Writes' /\ Fresh'
      BY <2>4, TimersAssumption, PeerAssumption DEF Hub!ReaderCancel,
         Hub!ReaderMoves, IInv, HubTypes, Stages, Up, Early, Reading,
         Leaving, TypeOK, Writes, Fresh
    <3>3. Timers' /\ Silence'
      BY <2>4, TimersAssumption, PeerAssumption DEF Hub!ReaderCancel,
         Hub!ReaderMoves, IInv, HubTypes, Stages, Up, Early, Reading,
         Leaving, Timers, Values, Pings, Deadline, Pending, SinceSend,
         SincePing, Fresh, Silence
    <3>4. QED
      BY <3>1, <3>2, <3>3 DEF IInv
  <2>5. CASE Hub!ReaderRemove(c) /\ UNCHANGED timeVars
    <3>1. HubTypes' /\ Stages'
      BY <2>5 DEF Hub!ReaderRemove, Hub!ReaderMoves, IInv, HubTypes, Stages,
         Up, Early, Reading, Leaving, Writes, Hub!WriterState,
         Hub!ReaderState
    <3>2. TypeOK' /\ Writes' /\ Fresh'
      BY <2>5, TimersAssumption, PeerAssumption DEF Hub!ReaderRemove,
         Hub!ReaderMoves, IInv, HubTypes, Stages, Up, Early, Reading,
         Leaving, TypeOK, Writes, Fresh
    <3>3. Timers' /\ Silence'
      BY <2>5, TimersAssumption, PeerAssumption DEF Hub!ReaderRemove,
         Hub!ReaderMoves, IInv, HubTypes, Stages, Up, Early, Reading,
         Leaving, Timers, Values, Pings, Deadline, Pending, SinceSend,
         SincePing, Fresh, Silence
    <3>4. QED
      BY <3>1, <3>2, <3>3 DEF IInv
  <2>6. CASE Hub!ReaderClose(c) /\ UNCHANGED timeVars
    <3>1. HubTypes' /\ Stages'
      BY <2>6 DEF Hub!ReaderClose, Hub!ReaderMoves, IInv, HubTypes, Stages,
         Up, Early, Reading, Leaving, Writes, Hub!WriterState,
         Hub!ReaderState
    <3>2. TypeOK' /\ Writes' /\ Fresh'
      BY <2>6, TimersAssumption, PeerAssumption DEF Hub!ReaderClose,
         Hub!ReaderMoves, IInv, HubTypes, Stages, Up, Early, Reading,
         Leaving, TypeOK, Writes, Fresh
    <3>3. Timers' /\ Silence'
      BY <2>6, TimersAssumption, PeerAssumption DEF Hub!ReaderClose,
         Hub!ReaderMoves, IInv, HubTypes, Stages, Up, Early, Reading,
         Leaving, Timers, Values, Pings, Deadline, Pending, SinceSend,
         SincePing, Fresh, Silence
    <3>4. QED
      BY <3>1, <3>2, <3>3 DEF IInv
  <2>7. QED
    BY <1>4, <2>1, <2>2, <2>3, <2>4, <2>5, <2>6 DEF ReadOn
<1>5. QED
  BY <1>1, <1>2, <1>3, <1>4

\* So does the peer.
LEMMA PeerStep == IInv /\ (\E how \in Departures : PeerGoes(how)) => IInv'
<1> SUFFICES ASSUME IInv, NEW how \in Departures, PeerGoes(how) PROVE IInv'
  OBVIOUS
<1>1. TypeOK'
  BY TimersAssumption, PeerAssumption, DeparturesAssumption DEF PeerGoes,
     Hub!PeerGoes, IInv, TypeOK, HubTypes, Stages, Up, Early, Reading,
     Leaving, Writes, NoPing
<1>2. HubTypes' /\ Stages'
  BY TimersAssumption, PeerAssumption, DeparturesAssumption DEF PeerGoes,
     Hub!PeerGoes, IInv, HubTypes, Stages, Up, Early, Reading, Leaving,
     Writes, TypeOK, Hub!WriterState, Hub!ReaderState
<1>3. Writes' /\ Fresh'
  BY TimersAssumption, PeerAssumption, DeparturesAssumption DEF PeerGoes,
     Hub!PeerGoes, IInv, HubTypes, Stages, Up, Early, Reading, Leaving,
     TypeOK, Writes, Fresh, NoPing
<1>4. Timers'
  BY TimersAssumption, PeerAssumption, DeparturesAssumption DEF PeerGoes,
     Hub!PeerGoes, IInv, HubTypes, Stages, Up, Early, Reading, Leaving,
     Timers, Values, Pings, Deadline, Pending, SinceSend, SincePing, TypeOK,
     Writes, Fresh, NoPing
<1>5. Silence'
  BY TimersAssumption, PeerAssumption, DeparturesAssumption DEF PeerGoes,
     Hub!PeerGoes, IInv, HubTypes, Stages, Up, Early, Reading, Leaving,
     TypeOK, Fresh, Silence, Writes
<1>6. QED
  BY <1>1, <1>2, <1>3, <1>4, <1>5 DEF IInv

\* Time: a goroutine that blocks has been blocked for less than it may.
LEMMA TickStep == IInv /\ Tick => IInv'
<1> SUFFICES ASSUME IInv, Tick PROVE IInv'
  OBVIOUS
<1>1. /\ sendTick' \in BOOLEAN /\ pingTick' \in BOOLEAN
      /\ writer[c] # "off" /\ writer[c] # "exit" /\ reader[c] \in {"read", "done"}
      /\ writer[c] = "done" => writing = "nothing"
  BY DEF Tick, WriterWaits, ReaderWaits, IInv, TypeOK, HubTypes, Stages, Writes,
         Hub!WriterState
<1>2. /\ writer[c] # "done" => /\ sendIn' \in 1 .. SendInterval
                               /\ pingIn' \in 1 .. PingPeriod
      /\ writer[c] = "done" => UNCHANGED tickers
  BY <1>1, TimersAssumption DEF Tick, After, IInv, TypeOK, Fresh
<1>3. /\ busy' \in 0 .. WriteWait
      /\ Up /\ writing # "nothing" => busy < DrainTime /\ busy' = busy + 1
  BY <1>1, PeerAssumption, TimersAssumption
  DEF Tick, WriterWaits, IInv, TypeOK, Writes, Up
<1>4. /\ patience' \in 0 .. PongWait
      /\ silent' \in 0 .. PongWait + 1
      /\ owed' \in NoPing .. PongDelay
  <2>1. patience' \in 0 .. PongWait
    BY <1>1, TimersAssumption DEF Tick, ReaderWaits, IInv, TypeOK
  <2>2. silent' \in 0 .. PongWait + 1
    BY TimersAssumption DEF Tick, IInv, TypeOK
  <2>3. owed' \in NoPing .. PongDelay
    BY PeerAssumption DEF Tick, IInv, TypeOK, NoPing
  <2>4. QED
    BY <2>1, <2>2, <2>3
<1>5. TypeOK'
  BY <1>1, <1>2, <1>3, <1>4 DEF Tick, IInv, TypeOK
<1>6. HubTypes' /\ Stages' /\ Writes' /\ Fresh'
  <2>1. HubTypes' /\ Stages'
    BY DEF Tick, IInv, HubTypes, Stages, Up, Early, Reading, Leaving
  <2>2. Writes'
    BY <1>3, PeerAssumption DEF Tick, IInv, TypeOK, Writes, Up
  <2>3. Fresh'
    BY <1>1, <1>2 DEF Tick, IInv, TypeOK, Fresh, Early
  <2>4. QED
    BY <2>1, <2>2, <2>3
<1>7. Timers'
  <2> SUFFICES ASSUME Up', Reading' PROVE Values' /\ Pings' /\ Deadline'
    BY DEF Timers
  <2>1. /\ reader[c] = "read" /\ writer[c] = "loop" /\ Up
        /\ Values /\ Pings /\ Deadline
        /\ patience' = patience - 1
    BY <1>1 DEF Tick, IInv, HubTypes, Stages, Up, Reading, Timers
  <2>2. writing = "nothing" => ~sendTick /\ ~pingTick
    BY <2>1, <1>1 DEF Tick, WriterWaits
  <2>3. /\ sendIn' = After(sendIn, SendInterval)
        /\ pingIn' = After(pingIn, PingPeriod)
        /\ sendTick' = (sendTick \/ sendIn = 1)
        /\ pingTick' = (pingTick \/ pingIn = 1)
        /\ owed < PongDelay
        /\ owed' = IF owed = NoPing THEN NoPing ELSE owed + 1
    BY <2>1 DEF Tick
  <2>4. sendIn >= 1 /\ pingIn >= 1
    BY <2>1 DEF IInv, Fresh
  <2>5. /\ pingIn = 1 => ~Pending
        /\ pingIn # 1 => SincePing' = SincePing + 1
        /\ pingIn = 1 => SincePing' = 0
    BY <2>1, <2>2, <2>3, <2>4, <1>3, TimersAssumption, PeerAssumption
       DEF IInv, TypeOK, Pings, Pending, SincePing, After, NoPing, Writes, Up
  <2>6. /\ sendIn = 1 => ~sendTick /\ writing # "value"
        /\ sendIn # 1 => SinceSend' = SinceSend + 1
        /\ sendIn = 1 => SinceSend' = 0
    BY <2>1, <2>2, <2>3, <2>4, <1>3, TimersAssumption, PeerAssumption
       DEF IInv, TypeOK, Values, SinceSend, After, Writes, Up
  <2>7. Values'
    BY <2>1, <2>2, <2>3, <2>4, <2>6, <1>3, PeerAssumption, TimersAssumption
       DEF Tick, IInv, TypeOK, Values, Up, SinceSend
  <2>8. Pings'
    BY <2>1, <2>2, <2>3, <2>4, <2>5, <2>6, <1>3, PeerAssumption, TimersAssumption
       DEF Tick, IInv, TypeOK, Pings, Pending, Up, NoPing, SincePing, SinceSend
  <2>9. Deadline'
    <3>1. pingIn # 1 => (Pending' <=> Pending)
      BY <2>1, <2>3 DEF Tick, IInv, TypeOK, Pending, NoPing
    <3>2. patience \in Nat /\ SincePing \in Int /\ SincePing' \in Int
      BY <1>5, TimersAssumption DEF IInv, TypeOK, SincePing
    <3>3. pingIn = 1 => SincePing = PingPeriod - 1 /\ Pending'
      BY <2>3 DEF SincePing, Pending
    <3>4. CASE pingIn # 1
      BY <2>1, <2>5, <3>1, <3>2, <3>4, TimersAssumption DEF Deadline
    <3>5. CASE pingIn = 1
      BY <2>1, <2>5, <3>2, <3>3, <3>5, TimersAssumption DEF Deadline
    <3>6. QED
      BY <3>4, <3>5
  <2>10. QED
    BY <2>7, <2>8, <2>9
<1>8. Silence'
  <2>1. reader[c] = "done" => writer[c] = "done"
    BY <1>1 DEF Tick, WriterWaits, Hub!CanWrite, IInv, Stages, Leaving, HubTypes
  <2>2. reader[c] = "read" => patience > 0 /\ patience' = patience - 1
    BY DEF Tick, ReaderWaits
  <2>3. /\ peer' = peer /\ reader' = reader /\ writer' = writer
        /\ silent' = IF peer[c] = "lost" /\ silent <= PongWait
                       THEN silent + 1 ELSE silent
    BY DEF Tick
  <2>4. QED
    BY <1>1, <2>1, <2>2, <2>3, TimersAssumption
       DEF IInv, TypeOK, Silence, Reading
<1>9. QED
  BY <1>5, <1>6, <1>7, <1>8 DEF IInv

LEMMA Initially == Init => IInv
<1> SUFFICES ASSUME Init PROVE IInv
  OBVIOUS
<1>0. sendTick \in BOOLEAN /\ pingTick \in BOOLEAN
  BY DEF Init
<1>1. TypeOK /\ Writes /\ Fresh /\ Silence
  BY <1>0, TimersAssumption, PeerAssumption
     DEF Init, Hub!Init, TypeOK, Writes, Fresh, Silence, Early, Reading, NoPing
<1>2. HubTypes /\ Stages /\ Timers
  BY DEF Init, Hub!Init, HubTypes, Stages, Timers, Up, Early, Reading, Leaving,
         Hub!WriterState, Hub!ReaderState
<1>3. QED
  BY <1>1, <1>2 DEF IInv

LEMMA Preserved == IInv /\ [Next]_vars => IInv'
<1> SUFFICES ASSUME IInv, [Next]_vars PROVE IInv'
  OBVIOUS
<1>1. CASE UNCHANGED vars
  <2>1. (TypeOK /\ HubTypes /\ Stages)'
    BY <1>1 DEF vars, IInv, TypeOK, HubTypes, Stages, Up, Early, Reading, Leaving
  <2>2. (Writes /\ Fresh /\ Silence)'
    BY <1>1 DEF vars, IInv, Writes, Fresh, Silence, Up, Early, Reading
  <2>3. Timers'
    BY <1>1 DEF vars, IInv, Timers, Values, Pings, Deadline, Pending,
                SinceSend, SincePing, Up, Reading
  <2>4. QED
    BY <2>1, <2>2, <2>3 DEF IInv
<1>2. QED
  BY <1>1, HandleStep, WriterStep, ReaderStep, PeerStep, TickStep DEF Next

LEMMA Always == Spec => []IInv
  BY Initially, Preserved, PTL DEF Spec

-----------------------------------------------------------------------------
\* The counters and timers stay within their bounds.
THEOREM TypeCorrect == Spec => []TypeOK
<1>1. IInv => TypeOK
  BY DEF IInv
<1>2. QED
  BY <1>1, Always, PTL

LEMMA Kept == IInv => PromptPeerKept
<1> SUFFICES ASSUME IInv, Up, reader[c] = "read" PROVE patience > 0
  BY DEF PromptPeerKept, Up
<1>1. Pings /\ Deadline /\ Up
  BY DEF IInv, Timers, Reading
<1>2. SincePing \in 0 .. PingPeriod - 1
  BY <1>1, TimersAssumption
     DEF IInv, TypeOK, Fresh, Stages, Reading, SincePing, HubTypes
<1>3. /\ busy <= DrainTime \/ writing = "nothing"
      /\ writing \in {"nothing", "value", "ping"}
  BY <1>1 DEF IInv, TypeOK, Writes, Stages, Leaving
<1>4. Pending => SincePing <= 2 * DrainTime + PongDelay
  <2>1. CASE pingTick
    <3>1. SincePing <= DrainTime
      BY <2>1, <1>1, <1>2, <1>3, PeerAssumption DEF IInv, TypeOK, Pings
    <3>2. QED
      BY <3>1, <1>2, PeerAssumption
  <2>2. CASE writing = "ping"
    BY <2>2, <1>1, <1>2, <1>3, PeerAssumption DEF IInv, TypeOK, Pings
  <2>3. CASE owed # NoPing
    BY <2>3, <1>1, <1>2, PeerAssumption DEF IInv, TypeOK, Pings, NoPing
  <2>4. QED
    BY <2>1, <2>2, <2>3 DEF Pending
<1>5. QED
  BY <1>1, <1>2, <1>4, TimersAssumption, PeerAssumption
     DEF Deadline, IInv, TypeOK

\* A peer that takes what is written within DrainTime and answers pings within
\* PongDelay is never dropped (websocket.go: pongWait, pingPeriod, writeWait).
THEOREM PromptPeerIsKept == Spec => []PromptPeerKept
  BY Kept, Always, PTL

\* A peer that falls silent is dropped and its connection released within
\* PongWait.
THEOREM LostPeerIsDropped == Spec => []LostPeerDropped
<1>1. IInv => LostPeerDropped
  BY TimersAssumption
     DEF IInv, TypeOK, Stages, Silence, LostPeerDropped, Hub!Released
<1>2. QED
  BY <1>1, Always, PTL

\* A step of the connection with its timers is a step of the hub, or leaves it
\* alone.
LEMMA TimedStep == IInv /\ [Next]_vars => [Hub!Next]_(Hub!vars)
<1> SUFFICES ASSUME IInv, Next PROVE Hub!Next \/ UNCHANGED hubVars
  BY DEF vars, Hub!vars
<1>1. CASE Connect \/ StartWriter
  BY <1>1 DEF Connect, StartWriter, Hub!Next, Hub!Environment, Hub!HandlerStep
<1>2. CASE SeeCancel \/ CloseEnds \/ WriterDone
  BY <1>2 DEF SeeCancel, CloseEnds, WriterDone, Hub!Next, Hub!WriterStep
<1>3. CASE WriteFails
  <2>1. Hub!MayFail(c)
    BY <1>3, PeerAssumption DEF WriteFails, Hub!MayFail, IInv, TypeOK, Writes, Up
  <2>2. Hub!WriterFails(c)
    BY <1>3, <2>1 DEF WriteFails, Hub!WriterFails
  <2>3. QED
    BY <2>2 DEF Hub!Next, Hub!WriterStep
<1>4. CASE TimesOut
  <2>1. patience = 0 /\ reader[c] = "read" /\ link[c] = "open"
    BY <1>4 DEF TimesOut, Hub!ReaderMoves, IInv, Stages, HubTypes
  <2>2. peer[c] \in {"left", "lost"}
    BY <2>1, Kept DEF PromptPeerKept, IInv, HubTypes
  <2>3. Hub!ReaderFails(c) \/ Hub!ReaderCloseFrame(c)
    BY <1>4, <2>1, <2>2 DEF TimesOut, Hub!ReaderFails, Hub!ReaderCloseFrame
  <2>4. QED
    BY <2>3 DEF Hub!Next, Hub!Environment, Hub!ReaderStep
<1>5. CASE SetDeadline \/ ReadOn
  BY <1>5 DEF SetDeadline, ReadOn, Hub!Next, Hub!Environment, Hub!ReaderStep
<1>6. CASE \E how \in Departures : PeerGoes(how)
  BY <1>6 DEF PeerGoes, Hub!Next, Hub!Environment
<1>7. CASE TakeSendTick \/ TakePingTick \/ WriteEnds \/ Pong \/ Tick
  BY <1>7 DEF TakeSendTick, TakePingTick, WriteEnds, Pong, Tick
<1>8. QED
  BY <1>1, <1>2, <1>3, <1>4, <1>5, <1>6, <1>7 DEF Next

\* The connection behaves as the hub, which knows no timers, assumes.
THEOREM HubIsTimed == Spec => HubTimed
<1>1. Init => Hub!Init
  BY DEF Init
<1>2. QED
  BY <1>1, Initially, Preserved, TimedStep, PTL DEF Spec, HubTimed, Hub!Spec

=============================================================================
