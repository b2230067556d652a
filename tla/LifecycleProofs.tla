-------------------------- MODULE LifecycleProofs ---------------------------
(***************************************************************************)
(* Safety of Lifecycle, for any requests and connections and with or       *)
(* without a probe server and tracing.                                     *)
(*                                                                         *)
(* The hub is part of the process (HubOfProcess), so what                  *)
(* WebSocketHubProofs proves of the hub alone holds in the process.        *)
(* CleanExit then follows from an invariant (Order) that says what each    *)
(* phase of the shutdown has behind it.                                    *)
(***************************************************************************)
EXTENDS Lifecycle, TLAPS

HubProofs == INSTANCE WebSocketHubProofs

\* What each phase of the shutdown has behind it.
HubClosed == main \in {"http", "probe", "flush"} \/ code = 0
ApiDrained == "probe" \in closing \/ main \in {"probe", "flush"} \/ code = 0
ProbeDrained == main = "flush" \/ code = 0

Order ==
  /\ code = 0 => main = "exited"
  /\ HubClosed => closer = "done" /\ "api" \in closing
  /\ ApiDrained => /\ requests \cap ApiRequests = {}
                   /\ "api" \in closing
                   /\ ProbeConfigured => "probe" \in closing
  /\ ProbeDrained => requests \cap Probes = {}
  /\ ~ProbeConfigured => probe = "off" /\ requests \cap Probes = {}

\* What of the types that takes.
Shape ==
  /\ code \in {-1, 0, 1}
  /\ closing \subseteq {"api", "probe"}
  /\ requests \subseteq ApiRequests \cup Probes
  /\ main = "exited" <=> code # -1
  /\ main \in {"start", "notify", "select", "hub", "http", "probe", "flush",
               "exited", "killed"}

IInv == Shape /\ Order

-----------------------------------------------------------------------------
(* The hub in the process *)

\* A step of the process is a step of the hub or leaves it alone.
LEMMA HubStep == [Next]_vars => [Hub!Next]_(Hub!vars)
<1> SUFFICES ASSUME [Next]_vars PROVE [Hub!Next]_(Hub!vars)
  OBVIOUS
<1>1. ASSUME UNCHANGED hubVars PROVE UNCHANGED Hub!vars
  BY <1>1 DEF hubVars, Hub!vars, Hub!pumpVars, Hub!netVars, Hub!mapVars,
              Hub!closerVars
<1>2. CASE MainStep
  <2>1. CASE SelectSignal
    BY <2>1 DEF SelectSignal, Hub!Next, Hub!Environment
  <2>2. CASE UNCHANGED hubVars
    BY <2>2, <1>1
  <2>3. QED
    BY <1>2, <2>1, <2>2
       DEF MainStep, StartServer, Notify, SelectError, ShutdownHTTP, HTTPDown,
           HTTPFails, ProbeDown, ProbeFails, Flush
<1>3. CASE StartStep \/ ProbeStep \/ Signal \/ Expire \/ Export
  <2>1. UNCHANGED hubVars
    BY <1>3 DEF StartStep, StartRefused, SpawnProbe, Listen, ListenFails,
                StartReturns, ProbeStep, ProbeListens, ProbeEnds, Signal,
                Expire, Export
  <2>2. QED
    BY <2>1, <1>1
<1>4. CASE CloserStep
  BY <1>4 DEF CloserStep, HubSteps, Hub!Next
<1>5. ASSUME NEW r \in ApiRequests \cup Probes, Arrive(r) \/ Answer(r)
      PROVE  [Hub!Next]_(Hub!vars)
  <2>1. UNCHANGED hubVars
    BY <1>5 DEF Arrive, Answer
  <2>2. QED
    BY <2>1, <1>1
<1>6. ASSUME NEW c \in Conns, AnswerUpgrade(c) PROVE [Hub!Next]_(Hub!vars)
  BY <1>6 DEF AnswerUpgrade, Hub!Next, Hub!Environment
<1>7. ASSUME NEW c \in Conns, HandlerStep(c) \/ WriterStep(c) \/ ReaderStep(c)
      PROVE  [Hub!Next]_(Hub!vars)
  BY <1>7 DEF HandlerStep, WriterStep, ReaderStep, HubSteps, Hub!Next
<1>8. ASSUME NEW c \in Conns, NEW how \in Departures,
             ReaderMessage(c) \/ PeerGoes(c, how)
      PROVE  [Hub!Next]_(Hub!vars)
  BY <1>8 DEF ReaderMessage, PeerGoes, HubSteps, Hub!Next, Hub!Environment
<1>9. ASSUME NEW c \in Conns, ReaderMessage(c) PROVE [Hub!Next]_(Hub!vars)
  BY <1>9 DEF ReaderMessage, HubSteps, Hub!Next, Hub!Environment
<1>10. CASE UNCHANGED vars
  BY <1>10, <1>1 DEF vars
<1>11. QED
  BY <1>2, <1>3, <1>4, <1>5, <1>6, <1>7, <1>8, <1>9, <1>10 DEF Next

\* The hub of the process takes the hub's steps only, which is how the process is
\* specified; it lets what is proved of the hub be used here.
LEMMA HubOfProcess == Spec => Hub!Spec
<1>1. Init => Hub!Init
  BY DEF Init
<1>2. QED
  BY <1>1, HubStep, PTL DEF Spec, Hub!Spec

\* The instance of WebSocketHubProofs is the hub of the process.
LEMMA SameHub == Hub!Spec => HubProofs!Spec
<1>1. Hub!Init => HubProofs!Init
  BY DEF Hub!Init, HubProofs!Init
<1>2. [Hub!Next]_(Hub!vars) => [HubProofs!Next]_(HubProofs!vars)
  BY Zenon DEF Hub!Next, HubProofs!Next, Hub!Environment, HubProofs!Environment,
         Hub!CloserStep, HubProofs!CloserStep, Hub!HandlerStep,
         HubProofs!HandlerStep, Hub!WriterStep, HubProofs!WriterStep,
         Hub!ReaderStep, HubProofs!ReaderStep, Hub!Upgrade, HubProofs!Upgrade,
         Hub!UpgradeFails, HubProofs!UpgradeFails, Hub!Register,
         HubProofs!Register, Hub!CountConnection, HubProofs!CountConnection,
         Hub!AddToWaitGroup, HubProofs!AddToWaitGroup, Hub!StartWriter,
         HubProofs!StartWriter, Hub!StartReader, HubProofs!StartReader,
         Hub!WriterFails, HubProofs!WriterFails, Hub!WriterSeesCancel,
         HubProofs!WriterSeesCancel, Hub!WriterSendsClose,
         HubProofs!WriterSendsClose, Hub!WriterDone, HubProofs!WriterDone,
         Hub!ReaderStart, HubProofs!ReaderStart, Hub!ReaderCheck,
         HubProofs!ReaderCheck, Hub!ReaderMessage, HubProofs!ReaderMessage,
         Hub!ReaderFails, HubProofs!ReaderFails, Hub!ReaderCloseFrame,
         HubProofs!ReaderCloseFrame, Hub!ReaderCancel, HubProofs!ReaderCancel,
         Hub!ReaderRemove, HubProofs!ReaderRemove, Hub!ReaderClose,
         HubProofs!ReaderClose, Hub!CancelBegin, HubProofs!CancelBegin,
         Hub!CancelOne, HubProofs!CancelOne, Hub!CancelEnd,
         HubProofs!CancelEnd, Hub!Wait, HubProofs!Wait, Hub!WaitReturns,
         HubProofs!WaitReturns, Hub!CloseBegin, HubProofs!CloseBegin,
         Hub!CloseOne, HubProofs!CloseOne, Hub!CloseEnd, HubProofs!CloseEnd,
         Hub!PeerGoes, HubProofs!PeerGoes, Hub!HandlerMoves,
         HubProofs!HandlerMoves, Hub!WriterMoves, HubProofs!WriterMoves,
         Hub!ReaderMoves, HubProofs!ReaderMoves, Hub!CloserMoves,
         HubProofs!CloserMoves, Hub!Running, HubProofs!Running, Hub!MuFree,
         HubProofs!MuFree, Hub!CanWrite, HubProofs!CanWrite, Hub!MayFail,
         HubProofs!MayFail, Hub!Added, HubProofs!Added, Hub!vars,
         HubProofs!vars, Hub!pumpVars, HubProofs!pumpVars, Hub!netVars,
         HubProofs!netVars, Hub!mapVars, HubProofs!mapVars, Hub!closerVars,
         HubProofs!closerVars
<1>3. QED
  BY <1>1, <1>2, PTL DEF Hub!Spec, HubProofs!Spec

\* What is proved of the hub alone holds of it in the process.
LEMMA HubDrains == Spec => []Hub!CoveredDrained
<1>0. HubProofs!IsFiniteSet(Conns)
  BY HubAssumption DEF IsFiniteSet, HubProofs!IsFiniteSet
<1>1. HubProofs!Spec => []HubProofs!CoveredDrained
  BY <1>0, HubAssumption, HubProofs!CoveredDrainedHolds
<1>2. HubProofs!CoveredDrained => Hub!CoveredDrained
  BY DEF HubProofs!CoveredDrained, Hub!CoveredDrained
<1>3. QED
  BY <1>1, <1>2, SameHub, HubOfProcess, PTL

-----------------------------------------------------------------------------
(* The phases of the shutdown *)

LEMMA Started == Init => IInv
BY DEF Init, IInv, Shape, Order, HubClosed, ApiDrained, ProbeDrained

\* A closed hub stays closed.
LEMMA StaysDone == closer = "done" /\ [Hub!Next]_(Hub!vars) => closer' = "done"
<1> SUFFICES ASSUME closer = "done", [Hub!Next]_(Hub!vars)
             PROVE  closer' = "done"
  OBVIOUS
<1>1. CASE Hub!CloserStep
  BY <1>1 DEF Hub!CloserStep, Hub!CancelOne, Hub!CancelEnd, Hub!Wait,
      Hub!WaitReturns, Hub!CloseBegin, Hub!CloseOne, Hub!CloseEnd,
      Hub!CloserMoves
<1>2. CASE Hub!Environment
  BY <1>2 DEF Hub!Environment, Hub!CancelBegin, Hub!CloserMoves, Hub!Upgrade,
      Hub!UpgradeFails, Hub!ReaderMessage, Hub!PeerGoes, Hub!closerVars
<1>3. ASSUME NEW c \in Conns, Hub!HandlerStep(c) PROVE closer' = "done"
  BY <1>3 DEF Hub!HandlerStep, Hub!Register, Hub!CountConnection,
      Hub!AddToWaitGroup, Hub!StartWriter, Hub!StartReader, Hub!closerVars
<1>4. ASSUME NEW c \in Conns, Hub!WriterStep(c) PROVE closer' = "done"
  BY <1>4 DEF Hub!WriterStep, Hub!WriterFails, Hub!WriterSeesCancel,
      Hub!WriterSendsClose, Hub!WriterDone, Hub!closerVars
<1>5. ASSUME NEW c \in Conns, Hub!ReaderStep(c) PROVE closer' = "done"
  BY <1>5 DEF Hub!ReaderStep, Hub!ReaderStart, Hub!ReaderCheck,
      Hub!ReaderFails, Hub!ReaderCloseFrame, Hub!ReaderCancel,
      Hub!ReaderRemove, Hub!ReaderClose, Hub!closerVars
<1>6. CASE UNCHANGED Hub!vars
  BY <1>6 DEF Hub!vars, Hub!closerVars
<1>7. QED
  BY <1>1, <1>2, <1>3, <1>4, <1>5, <1>6 DEF Hub!Next

\* The steps of main keep the phases in order.
LEMMA MainKeeps == IInv /\ MainStep => IInv'
<1> SUFFICES ASSUME IInv, MainStep PROVE IInv'
  OBVIOUS
<1> USE DEF IInv, Shape, Order, HubClosed, ApiDrained, ProbeDrained,
            MainMoves, Exit, netVars, startVars, spanVars, hubVars
<1>1. CASE StartServer \/ Notify
  BY <1>1 DEF StartServer, Notify
<1>2. CASE SelectError
  BY <1>2 DEF SelectError
<1>3. CASE SelectSignal
  BY <1>3 DEF SelectSignal
<1>4. CASE ShutdownHTTP
  BY <1>4 DEF ShutdownHTTP
<1>5. CASE HTTPDown
  BY <1>5 DEF HTTPDown
<1>6. CASE HTTPFails
  BY <1>6 DEF HTTPFails
<1>7. CASE ProbeFails
  BY <1>7 DEF ProbeFails
<1>8. CASE ProbeDown
  BY <1>8 DEF ProbeDown
<1>9. CASE Flush
  BY <1>9 DEF Flush
<1>10. QED
  BY <1>1, <1>2, <1>3, <1>4, <1>5, <1>6, <1>7, <1>8, <1>9 DEF MainStep

LEMMA Kept == IInv /\ [Next]_vars => IInv'
<1> SUFFICES ASSUME IInv, [Next]_vars PROVE IInv'
  OBVIOUS
<1>0. closer = "done" => closer' = "done"
  BY HubStep, StaysDone
<1> USE <1>0 DEF IInv, Shape, Order, HubClosed, ApiDrained,
                 ProbeDrained
<1>1. CASE MainStep
  BY <1>1, MainKeeps
<1>2. CASE StartStep
  BY <1>2 DEF StartStep, StartRefused, SpawnProbe, Listen, ListenFails,
      StartReturns, StartMoves, mainVars, netVars, spanVars
<1>3. CASE ProbeStep
  BY <1>3 DEF ProbeStep, ProbeListens, ProbeEnds, mainVars, startVars, netVars,
      spanVars
<1>4. CASE Signal
  BY <1>4 DEF Signal, Alive, startVars, netVars, spanVars
<1>5. CASE Expire \/ Export
  BY <1>5 DEF Expire, Export, mainVars, startVars, netVars, spanVars
<1>6. ASSUME NEW r \in ApiRequests \cup Probes, Arrive(r) PROVE IInv'
  BY <1>6, RequestsAssumption
     DEF Arrive, Accepting, Alive, ApiRequests, mainVars, startVars, spanVars
<1>7. ASSUME NEW r \in ApiRequests \cup Probes, Answer(r) PROVE IInv'
  BY <1>7, SwitchesAssumption
     DEF Answer, Answered, Traces, mainVars, startVars
<1>8. ASSUME NEW c \in Conns, AnswerUpgrade(c) PROVE IInv'
  BY <1>8, SwitchesAssumption
     DEF AnswerUpgrade, Answered, Traces, mainVars, startVars
<1>9. CASE UNCHANGED procVars
  BY <1>9 DEF procVars, mainVars, startVars, netVars, spanVars
<1>10. ASSUME NEW c \in Conns, HandlerStep(c) PROVE IInv'
  BY <1>10, SwitchesAssumption
     DEF HandlerStep, Traces, mainVars, startVars, netVars
<1>11. QED
  BY <1>1, <1>2, <1>3, <1>4, <1>5, <1>6, <1>7, <1>8, <1>9, <1>10
     DEF Next, CloserStep, WriterStep, ReaderStep, ReaderMessage, PeerGoes,
         HubSteps, vars

THEOREM Invariance == Spec => []IInv
BY Started, Kept, PTL DEF Spec

\* Status 0 means: everything accepted has been answered, both servers and
\* the hub are closed.
THEOREM CleanExitHolds == Spec => []CleanExit
<1>1. IInv /\ Hub!CoveredDrained => CleanExit
  BY DEF IInv, Shape, Order, HubClosed, ApiDrained, ProbeDrained,
         CleanExit
<1>2. QED
  BY <1>1, Invariance, HubDrains, PTL

\* The probe server is closed after the API server has drained.
THEOREM ProbeIsLast == Spec => []ProbeOutlivesRequests
<1>1. IInv => ProbeOutlivesRequests
  BY DEF IInv, Order, ApiDrained, ProbeOutlivesRequests
<1>2. QED
  BY <1>1, Invariance, PTL

\* While the process only waits for the requests it has, it accepts no other.
THEOREM NoLateArrival == Spec => NoArrivalWhileDraining
<1>1. IInv /\ [Next]_vars =>
        [main \notin {"start", "notify", "select", "hub"} =>
           arrived' \cap ApiRequests = arrived \cap ApiRequests]_vars
  <2> SUFFICES ASSUME IInv, [Next]_vars,
                      main \notin {"start", "notify", "select", "hub"}
               PROVE  arrived' \cap ApiRequests = arrived \cap ApiRequests
    OBVIOUS
  <2>1. ASSUME NEW r \in ApiRequests \cup Probes, Arrive(r)
        PROVE  arrived' \cap ApiRequests = arrived \cap ApiRequests
    <3>1. main \in {"http", "probe", "flush"} => "api" \in closing
      BY DEF IInv, Order, HubClosed
    <3>2. CASE main \in {"http", "probe", "flush"}
      <4>1. r \in Probes
        BY <2>1, <3>1, <3>2 DEF Arrive, Accepting
      <4>2. QED
        BY <2>1, <4>1, RequestsAssumption DEF Arrive, ApiRequests
    <3>3. CASE main \notin {"http", "probe", "flush"}
      BY <2>1, <3>3 DEF IInv, Shape, Arrive, Alive
    <3>4. QED
      BY <3>2, <3>3
  <2>2. CASE UNCHANGED arrived
    BY <2>2
  <2>3. QED
    BY <2>1, <2>2
       DEF Next, vars, procVars, netVars, MainStep, StartServer, Notify,
           SelectError, SelectSignal, ShutdownHTTP, HTTPDown, HTTPFails,
           ProbeDown, ProbeFails, Flush, StartStep, StartRefused, SpawnProbe,
           Listen, ListenFails, StartReturns, ProbeStep, ProbeListens,
           ProbeEnds, Signal, Expire, Export, CloserStep, HubSteps, Answer,
           Answered, AnswerUpgrade, HandlerStep, WriterStep, ReaderStep,
           ReaderMessage, PeerGoes
<1>2. QED
  BY <1>1, Invariance, PTL DEF Spec, NoArrivalWhileDraining
-----------------------------------------------------------------------------
(* Types *)

\* What TypeOK says of the variables that are not the hub's.
ProcTypes ==
  /\ main \in {"start", "notify", "select", "hub", "http", "probe", "flush",
               "exited", "killed"}
  /\ code \in {-1, 0, 1}
  /\ signal \in {"none", "pending", "taken"}
  /\ expired \in BOOLEAN
  /\ start \in {"off", "called", "listen", "serving", "returned"}
  /\ errors \in {"none", "nil", "error"}
  /\ probe \in {"off", "listen", "serving", "ended"}
  /\ closing \subseteq {"api", "probe"}
  /\ arrived \subseteq ApiRequests \cup Probes
  /\ requests \subseteq arrived
  /\ spans \in BOOLEAN /\ flushed \in BOOLEAN
  /\ main = "exited" <=> code # -1

LEMMA MainKeepsTypes == ProcTypes /\ MainStep => ProcTypes'
<1> SUFFICES ASSUME ProcTypes, MainStep PROVE ProcTypes'
  OBVIOUS
<1>1. CASE StartServer
  BY <1>1 DEF StartServer, ProcTypes, MainMoves, netVars, spanVars
<1>2. CASE Notify
  BY <1>2 DEF Notify, ProcTypes, MainMoves, netVars, startVars, spanVars
<1>3. CASE SelectError
  BY <1>3 DEF SelectError, ProcTypes, MainMoves, Exit, netVars, spanVars
<1>4. CASE SelectSignal
  BY <1>4 DEF SelectSignal, ProcTypes, MainMoves, netVars, startVars, spanVars
<1>5. CASE ShutdownHTTP
  BY <1>5 DEF ShutdownHTTP, ProcTypes, MainMoves, startVars, spanVars
<1>6. CASE HTTPDown
  BY <1>6 DEF HTTPDown, ProcTypes, MainMoves, startVars, spanVars
<1>7. CASE HTTPFails
  BY <1>7 DEF HTTPFails, ProcTypes, MainMoves, Exit, netVars, startVars, spanVars
<1>8. CASE ProbeFails
  BY <1>8 DEF ProbeFails, ProcTypes, MainMoves, Exit, netVars, startVars, spanVars
<1>9. CASE ProbeDown
  BY <1>9 DEF ProbeDown, ProcTypes, MainMoves, netVars, startVars, spanVars
<1>10. CASE Flush
  <2>1. spans' \in BOOLEAN /\ flushed' \in BOOLEAN
    <3>1. spans \in BOOLEAN
      BY DEF ProcTypes
    <3>2. flushed' = Traced /\ spans' \in {FALSE, spans}
      BY <1>10 DEF Flush
    <3>3. QED
      BY <3>1, <3>2, SwitchesAssumption, Zenon
  <2>2. main' = "exited" /\ code' = 0
    BY <1>10 DEF Flush, Exit, MainMoves
  <2>3. UNCHANGED <<signal, expired, startVars, probe, netVars>>
    BY <1>10 DEF Flush
  <2>4. QED
    BY <2>1, <2>2, <2>3 DEF ProcTypes, startVars, netVars
<1>11. QED
  BY <1>1, <1>2, <1>3, <1>4, <1>5, <1>6, <1>7, <1>8, <1>9, <1>10 DEF MainStep

LEMMA TypesKept == ProcTypes /\ [Next]_vars => ProcTypes'
<1> SUFFICES ASSUME ProcTypes, [Next]_vars PROVE ProcTypes'
  OBVIOUS
<1>1. CASE MainStep
  BY <1>1, MainKeepsTypes
<1>2. CASE StartStep
  <2>1. CASE StartRefused
    BY <2>1 DEF StartRefused, StartMoves, ProcTypes, mainVars, netVars, spanVars
  <2>2. CASE SpawnProbe
    BY <2>2 DEF SpawnProbe, StartMoves, ProcTypes, mainVars, netVars, spanVars
  <2>3. CASE Listen
    BY <2>3 DEF Listen, StartMoves, ProcTypes, mainVars, netVars, spanVars
  <2>4. CASE ListenFails
    BY <2>4 DEF ListenFails, StartMoves, ProcTypes, mainVars, netVars, spanVars
  <2>5. CASE StartReturns
    BY <2>5 DEF StartReturns, StartMoves, ProcTypes, mainVars, netVars, spanVars
  <2>6. QED
    BY <1>2, <2>1, <2>2, <2>3, <2>4, <2>5 DEF StartStep
<1>3. CASE ProbeStep
  <2>1. probe' \in {"listen", "serving", "ended"}
    BY <1>3 DEF ProbeStep, ProbeListens, ProbeEnds
  <2>2. UNCHANGED <<mainVars, startVars, netVars, spanVars>>
    BY <1>3 DEF ProbeStep, ProbeListens, ProbeEnds
  <2>3. QED
    BY <2>1, <2>2 DEF ProcTypes, mainVars, startVars, netVars, spanVars
<1>4. CASE Signal
  BY <1>4 DEF Signal, Alive, ProcTypes, startVars, netVars, spanVars
<1>5. CASE Expire
  BY <1>5 DEF Expire, ProcTypes, startVars, netVars, spanVars
<1>6. ASSUME NEW r \in ApiRequests \cup Probes, Arrive(r) PROVE ProcTypes'
  BY <1>6 DEF Arrive, ProcTypes, mainVars, startVars, spanVars
<1>7. CASE Export
  <2>1. /\ spans' \in BOOLEAN
        /\ UNCHANGED <<mainVars, startVars, probe, closing, arrived, requests,
                       flushed>>
    BY <1>7 DEF Export, netVars
  <2>2. QED
    BY <2>1 DEF ProcTypes, mainVars, startVars
\* A request ends and may leave a span.
<1>8. ASSUME UNCHANGED <<mainVars, startVars, probe, closing, arrived, flushed>>,
             requests' \subseteq requests,
             UNCHANGED spans \/ \E b \in BOOLEAN : Traces(b)
      PROVE  ProcTypes'
  <2>1. spans' \in BOOLEAN
    <3>1. spans \in BOOLEAN
      BY DEF ProcTypes
    <3>2. CASE UNCHANGED spans
      BY <3>1, <3>2
    <3>3. ASSUME NEW b \in BOOLEAN, Traces(b) PROVE spans' \in BOOLEAN
      BY <3>1, <3>3, SwitchesAssumption DEF Traces
    <3>4. QED
      BY <1>8, <3>2, <3>3
  <2>2. QED
    BY <1>8, <2>1 DEF ProcTypes, mainVars, startVars
<1>9. ASSUME NEW r \in ApiRequests \cup Probes, Answer(r) PROVE ProcTypes'
  <2>1. (r \in Requests) \in BOOLEAN
    OBVIOUS
  <2>2. \E b \in BOOLEAN : Traces(b)
    BY <1>9, <2>1, Zenon DEF Answer
  <2>3. QED
    BY <1>9, <2>2, <1>8 DEF Answer, Answered
<1>10. ASSUME NEW c \in Conns, AnswerUpgrade(c) PROVE ProcTypes'
  BY <1>10, <1>8 DEF AnswerUpgrade, Answered
<1>11. CASE UNCHANGED procVars
  BY <1>11 DEF ProcTypes, procVars, mainVars, startVars, netVars, spanVars
<1>12. ASSUME NEW c \in Conns, HandlerStep(c) PROVE ProcTypes'
  <2>1. (handler'[c] = "returned") \in BOOLEAN
    OBVIOUS
  <2>2. \E b \in BOOLEAN : Traces(b)
    BY <1>12, <2>1, Zenon DEF HandlerStep
  <2>3. QED
    BY <1>12, <2>2, <1>8 DEF HandlerStep, netVars
<1>13. QED
  BY <1>1, <1>2, <1>3, <1>4, <1>5, <1>6, <1>9, <1>10, <1>11, <1>12, <1>7
     DEF Next, CloserStep, WriterStep, ReaderStep, ReaderMessage, PeerGoes,
         HubSteps, vars

\* The hub's type invariant holds in the process.
LEMMA HubTypes == Spec => []Hub!TypeOK
<1>0. HubProofs!IsFiniteSet(Conns)
  BY HubAssumption DEF IsFiniteSet, HubProofs!IsFiniteSet
<1>1. HubProofs!Spec => []HubProofs!TypeOK
  BY <1>0, HubAssumption, HubProofs!TypeCorrect
<1>2. HubProofs!TypeOK => Hub!TypeOK
  BY DEF HubProofs!TypeOK, Hub!TypeOK, HubProofs!HandlerState,
         Hub!HandlerState, HubProofs!WriterState, Hub!WriterState,
         HubProofs!ReaderState, Hub!ReaderState, HubProofs!CloserState,
         Hub!CloserState
<1>3. QED
  BY <1>1, <1>2, SameHub, HubOfProcess, PTL

\* The process and the hub in it stay well typed: no more than one status is
\* reported, and only what has arrived is in progress.
THEOREM TypeCorrect == Spec => []TypeOK
<1>1. Init => ProcTypes
  BY DEF Init, ProcTypes
<1>2. Hub!TypeOK /\ ProcTypes => TypeOK
  BY DEF ProcTypes, TypeOK
<1>3. QED
  BY <1>1, <1>2, TypesKept, HubTypes, PTL DEF Spec

-----------------------------------------------------------------------------
(* What is proved of the hub, in the process *)

LEMMA SameCount == \A S : HubProofs!Cardinality(S) = Hub!Cardinality(S)
BY DEF HubProofs!Cardinality, Hub!Cardinality

\* The connections of the process are accounted for as those of the hub are.
THEOREM ConnectionsAreSafe == Spec => []ConnectionsSafe
<1>0. HubProofs!IsFiniteSet(Conns)
  BY HubAssumption DEF IsFiniteSet, HubProofs!IsFiniteSet
<1>1. HubProofs!Spec => [](/\ HubProofs!GaugeMatchesClients
                           /\ HubProofs!WaitGroupMatchesWriters
                           /\ HubProofs!RegistryExact
                           /\ HubProofs!GracefulClose)
  <2>1. HubProofs!Spec => []HubProofs!GaugeMatchesClients
    BY <1>0, HubAssumption, HubProofs!GaugeCorrect
  <2>2. HubProofs!Spec => []HubProofs!WaitGroupMatchesWriters
    BY <1>0, HubAssumption, HubProofs!WaitGroupCorrect
  <2>3. HubProofs!Spec => []HubProofs!RegistryExact
    BY <1>0, HubAssumption, HubProofs!RegistryCorrect
  <2>4. HubProofs!Spec => []HubProofs!GracefulClose
    BY <1>0, HubAssumption, HubProofs!GracefulCloseHolds
  <2>5. QED
    BY <2>1, <2>2, <2>3, <2>4, PTL
<1>2. HubProofs!GaugeMatchesClients => Hub!GaugeMatchesClients
  BY SameCount DEF HubProofs!GaugeMatchesClients, Hub!GaugeMatchesClients,
                   HubProofs!Uncounted, Hub!Uncounted
<1>3. HubProofs!WaitGroupMatchesWriters => Hub!WaitGroupMatchesWriters
  BY SameCount DEF HubProofs!WaitGroupMatchesWriters,
                   Hub!WaitGroupMatchesWriters, HubProofs!Writing, Hub!Writing,
                   HubProofs!Added, Hub!Added
<1>4. HubProofs!RegistryExact => Hub!RegistryExact
  BY DEF HubProofs!RegistryExact, Hub!RegistryExact,
         HubProofs!RegisteredIsOpen, Hub!RegisteredIsOpen, HubProofs!NoOrphan,
         Hub!NoOrphan
<1>5. HubProofs!GracefulClose => Hub!GracefulClose
  BY DEF HubProofs!GracefulClose, Hub!GracefulClose
<1>6. QED
  BY <1>1, <1>2, <1>3, <1>4, <1>5, HubDrains, SameHub, HubOfProcess, PTL
     DEF ConnectionsSafe

LEMMA HubSleeps == Spec => []Hub!SleeperIsWoken
<1>0. HubProofs!IsFiniteSet(Conns)
  BY HubAssumption DEF IsFiniteSet, HubProofs!IsFiniteSet
<1>1. HubProofs!Spec => []HubProofs!SleeperIsWoken
  BY <1>0, HubAssumption, HubProofs!SleeperWoken
<1>2. HubProofs!SleeperIsWoken => Hub!SleeperIsWoken
  BY Zenon DEF HubProofs!SleeperIsWoken, Hub!SleeperIsWoken, HubProofs!Writing,
         Hub!Writing, HubProofs!Added, Hub!Added, HubProofs!Straggler,
         Hub!Straggler, HubProofs!WriterCanGo, Hub!WriterCanGo,
         HubProofs!MayFail, Hub!MayFail, HubProofs!CanWrite, Hub!CanWrite
<1>3. QED
  BY <1>1, <1>2, SameHub, HubOfProcess, PTL

\* CloseAllConnections is not set back by anything in the process.
CloserForward ==
  [][closer # "idle" => \/ UNCHANGED <<closer, todo, Hub!ToClose>>
                        \/ Hub!ToClose' < Hub!ToClose]_vars

LEMMA HubWindsDown == Spec => CloserForward
<1>0. HubProofs!IsFiniteSet(Conns)
  BY HubAssumption DEF IsFiniteSet, HubProofs!IsFiniteSet
<1>1. HubProofs!Spec => HubProofs!HubGoesOn
  BY <1>0, HubAssumption, HubProofs!HubProgress
<1>2. HubProofs!ToClose = Hub!ToClose /\ HubProofs!ToClose' = Hub!ToClose'
  BY SameCount DEF HubProofs!ToClose, Hub!ToClose
<1>3. ASSUME UNCHANGED HubProofs!vars
      PROVE  UNCHANGED <<closer, todo, Hub!ToClose>>
  <2>1. UNCHANGED <<closer, todo, clients>>
    BY <1>3 DEF HubProofs!vars, HubProofs!closerVars, HubProofs!mapVars
  <2>2. QED
    BY <2>1 DEF Hub!ToClose
<1> DEFINE Gone(c) ==
      handler[c] = "returned" /\ peer[c] # "up" =>
        /\ UNCHANGED <<handler[c], peer[c]>>
        /\ writer'[c] = writer[c]
             \/ HubProofs!WriterLeft(c)' < HubProofs!WriterLeft(c)
        /\ reader'[c] = reader[c]
             \/ HubProofs!ReaderLeft(c)' < HubProofs!ReaderLeft(c)
<1>4. [/\ closer # "idle" => \/ UNCHANGED <<closer, todo, HubProofs!ToClose>>
                             \/ HubProofs!ToClose' < HubProofs!ToClose
       /\ \A c \in Conns : Gone(c)]_(HubProofs!vars)
      => [closer # "idle" => \/ UNCHANGED <<closer, todo, Hub!ToClose>>
                             \/ Hub!ToClose' < Hub!ToClose]_vars
  BY <1>2, <1>3
<1>5. QED
  BY <1>1, <1>4, SameHub, HubOfProcess, PTL
     DEF HubProofs!HubGoesOn, HubProofs!WindsDown, CloserForward

-----------------------------------------------------------------------------
(* The shutdown goes on *)

\* Where the closer and the signal stand in each phase.
Phases ==
  /\ main \in {"start", "notify", "select"} =>
       closer = "idle" /\ signal \in {"none", "pending"}
  /\ main = "hub" => closer # "idle" /\ signal = "taken"
  /\ main \in {"http", "probe", "flush"} => closer = "done" /\ signal = "taken"

\* Only SelectSignal begins CloseAllConnections, and nothing begins it again.
LEMMA CloserBegins ==
  ASSUME [Next]_vars
  PROVE  /\ closer # "idle" => closer' # "idle"
         /\ closer = "idle" => closer' = "idle" \/ SelectSignal
<1>1. CASE Hub!CloserStep
  BY <1>1 DEF Hub!CloserStep, Hub!CancelOne, Hub!CancelEnd, Hub!Wait,
      Hub!WaitReturns, Hub!CloseBegin, Hub!CloseOne, Hub!CloseEnd,
      Hub!CloserMoves, Hub!closerVars
<1>2. ASSUME NEW c \in Conns,
             Hub!HandlerStep(c) \/ Hub!WriterStep(c) \/ Hub!ReaderStep(c)
      PROVE  closer' = closer \/ (closer = "asleep" /\ closer' = "woken")
  <2>1. CASE Hub!HandlerStep(c)
    BY <2>1 DEF Hub!HandlerStep, Hub!Register, Hub!CountConnection,
        Hub!AddToWaitGroup, Hub!StartWriter, Hub!StartReader, Hub!closerVars
  <2>2. CASE Hub!WriterStep(c)
    BY <2>2 DEF Hub!WriterStep, Hub!WriterFails, Hub!WriterSeesCancel,
        Hub!WriterSendsClose, Hub!WriterDone, Hub!closerVars
  <2>3. CASE Hub!ReaderStep(c)
    BY <2>3 DEF Hub!ReaderStep, Hub!ReaderStart, Hub!ReaderCheck,
        Hub!ReaderFails, Hub!ReaderCloseFrame, Hub!ReaderCancel,
        Hub!ReaderRemove, Hub!ReaderClose, Hub!closerVars
  <2>4. QED
    BY <1>2, <2>1, <2>2, <2>3
<1>3. ASSUME NEW c \in Conns,
             \/ Hub!Upgrade(c) \/ Hub!UpgradeFails(c) \/ Hub!ReaderMessage(c)
             \/ \E how \in Departures : Hub!PeerGoes(c, how)
      PROVE  closer' = closer
  BY <1>3 DEF Hub!Upgrade, Hub!UpgradeFails, Hub!ReaderMessage, Hub!PeerGoes,
      Hub!closerVars
<1>4. CASE SelectSignal
  BY <1>4 DEF SelectSignal, Hub!CancelBegin, Hub!CloserMoves
<1>5. ASSUME UNCHANGED hubVars PROVE closer' = closer
  BY <1>5 DEF hubVars
<1>6. CASE MainStep
  BY <1>4, <1>5, <1>6
     DEF MainStep, StartServer, Notify, SelectError, ShutdownHTTP, HTTPDown,
         HTTPFails, ProbeDown, ProbeFails, Flush
<1>7. CASE StartStep \/ ProbeStep \/ Signal \/ Expire \/ Export
  BY <1>5, <1>7
     DEF StartStep, StartRefused, SpawnProbe, Listen, ListenFails, StartReturns,
         ProbeStep, ProbeListens, ProbeEnds, Signal, Expire, Export
<1>8. ASSUME NEW r \in ApiRequests \cup Probes, Arrive(r) \/ Answer(r)
      PROVE  closer' = closer
  BY <1>5, <1>8 DEF Arrive, Answer
<1>9. QED
  BY <1>1, <1>2, <1>3, <1>5, <1>6, <1>7, <1>8
     DEF Next, CloserStep, HubSteps, HandlerStep, WriterStep, ReaderStep,
         ReaderMessage, PeerGoes, AnswerUpgrade, vars

\* What the steps of the other goroutines and of the requests leave to main.
LEMMA OthersLeaveMain ==
  ASSUME [Next]_vars, ~MainStep, ~Signal, ~Expire
  PROVE  UNCHANGED mainVars
<1>1. CASE StartStep \/ ProbeStep \/ Export
  BY <1>1 DEF StartStep, StartRefused, SpawnProbe, Listen, ListenFails,
      StartReturns, ProbeStep, ProbeListens, ProbeEnds, Export
<1>2. ASSUME NEW r \in ApiRequests \cup Probes, Arrive(r) \/ Answer(r)
      PROVE  UNCHANGED mainVars
  BY <1>2 DEF Arrive, Answer, Answered
<1>3. ASSUME NEW c \in Conns, AnswerUpgrade(c) \/ HandlerStep(c)
      PROVE  UNCHANGED mainVars
  BY <1>3 DEF AnswerUpgrade, Answered, HandlerStep
<1>4. CASE UNCHANGED procVars
  BY <1>4 DEF procVars
<1>5. QED
  BY <1>1, <1>2, <1>3, <1>4
     DEF Next, CloserStep, HubSteps, WriterStep, ReaderStep, ReaderMessage,
         PeerGoes, vars

LEMMA PhasesKept == IInv /\ Phases /\ [Next]_vars => Phases'
<1> SUFFICES ASSUME IInv, Phases, [Next]_vars PROVE Phases'
  OBVIOUS
<1>0. closer = "done" => closer' = "done"
  BY HubStep, StaysDone
<1>1. UNCHANGED mainVars \/ MainStep \/ Signal \/ Expire
  BY OthersLeaveMain
<1>2. CASE UNCHANGED mainVars /\ ~SelectSignal
  BY <1>0, <1>2, CloserBegins DEF Phases, mainVars
<1> USE DEF MainMoves, Exit, hubVars
<1>3. CASE StartServer \/ Notify
  BY <1>3 DEF StartServer, Notify, Phases
<1>4. CASE SelectError
  BY <1>4 DEF SelectError, Phases
<1>5. CASE SelectSignal
  BY <1>5 DEF SelectSignal, Hub!CancelBegin, Hub!CloserMoves, Phases
<1>6. CASE ShutdownHTTP
  BY <1>6 DEF ShutdownHTTP, Phases
<1>7. CASE HTTPDown \/ ProbeDown
  BY <1>7 DEF HTTPDown, ProbeDown, Phases
<1>8. CASE HTTPFails \/ ProbeFails \/ Flush
  BY <1>8 DEF HTTPFails, ProbeFails, Flush, Phases
<1>9. CASE Signal
  BY <1>9 DEF Signal, Alive, Phases
<1>10. CASE Expire
  BY <1>10 DEF Expire, Phases
<1>11. QED
  BY <1>1, <1>2, <1>3, <1>4, <1>5, <1>6, <1>7, <1>8, <1>9, <1>10 DEF MainStep

LEMMA PhasesHold == Spec => []Phases
<1>1. Init => Phases
  BY DEF Init, Hub!Init, Phases
<1>2. QED
  BY <1>1, PhasesKept, Invariance, PTL DEF Spec

\* Whatever main waits for in a shutdown comes: select finds the signal, the
\* hub has begun and is woken, the deadline runs.
THEOREM EveryWaitEnds == Spec => []WaitsEnd
<1>1. Init => ProcTypes
  BY DEF Init, ProcTypes
<1>2. Phases /\ ProcTypes /\ Hub!SleeperIsWoken => WaitsEnd
  BY DEF Phases, ProcTypes, WaitsEnd
<1>3. QED
  BY <1>1, <1>2, TypesKept, PhasesHold, HubSleeps, PTL DEF Spec

\* Main goes forward only, and forgets neither the signal nor the deadline.
LEMMA MainForward ==
  ASSUME IInv, ProcTypes, [Next]_vars
  PROVE  /\ main' = main \/ StagesLeft' < StagesLeft
         /\ signal # "none" => signal' # "none"
         /\ expired => expired'
<1>1. CASE UNCHANGED mainVars
  BY <1>1 DEF mainVars
<1> USE DEF MainMoves, Exit, StagesLeft
<1>2. CASE StartServer \/ Notify \/ SelectSignal
  BY <1>2 DEF StartServer, Notify, SelectSignal
<1>3. CASE SelectError \/ ShutdownHTTP
  BY <1>3 DEF SelectError, ShutdownHTTP
<1>4. CASE HTTPDown \/ ProbeDown
  BY <1>4 DEF HTTPDown, ProbeDown
<1>5. CASE HTTPFails \/ ProbeFails \/ Flush
  <2>1. main' = "exited" /\ main \in {"http", "probe", "flush"}
    BY <1>5 DEF HTTPFails, ProbeFails, Flush
  <2>2. UNCHANGED <<signal, expired>>
    BY <1>5 DEF HTTPFails, ProbeFails, Flush
  <2>3. StagesLeft' < StagesLeft
    BY <2>1
  <2>4. expired => expired'
    BY <2>2, Zenon
  <2>5. QED
    BY <2>2, <2>3, <2>4
<1>6. CASE Signal
  BY <1>6 DEF Signal, Alive
<1>7. CASE Expire
  BY <1>7 DEF Expire
<1>8. QED
  BY <1>1, <1>2, <1>3, <1>4, <1>5, <1>6, <1>7, OthersLeaveMain DEF MainStep

\* The shutdown is never stuck and never goes back.
THEOREM ShutdownProgress == Spec => ShutdownGoesOn
<1>1. Init => ProcTypes
  BY DEF Init, ProcTypes
<1> DEFINE Main == /\ main' = main \/ StagesLeft' < StagesLeft
                   /\ signal # "none" => signal' # "none"
                   /\ expired => expired'
           Closer == closer # "idle" => \/ UNCHANGED <<closer, todo, Hub!ToClose>>
                                        \/ Hub!ToClose' < Hub!ToClose
<1>2. IInv /\ ProcTypes /\ [Next]_vars => [Main]_vars
  BY MainForward
<1>3. [Main]_vars /\ [Closer]_vars => [Main /\ Closer]_vars
  OBVIOUS
<1>4. Spec => [][Main /\ Closer]_vars
  BY <1>1, <1>2, <1>3, TypesKept, Invariance, HubWindsDown, PTL
     DEF Spec, CloserForward
<1>5. QED
  BY <1>4, EveryWaitEnds, PTL DEF ShutdownGoesOn

-----------------------------------------------------------------------------
(* The spans *)

\* Only a traced process has spans; run leaves a shutdown for its deadline, or by
\* the flush.
Ends ==
  /\ spans => Traced
  /\ signal = "taken" => main \in {"hub", "http", "probe", "flush", "exited"}
  /\ main = "exited" /\ signal = "taken" =>
       expired \/ (code = 0 /\ (Traced => flushed))

\* Spans come from traced requests, and are flushed by Flush only.
LEMMA SpansMove ==
  ASSUME [Next]_vars, ~Flush
  PROVE  flushed' = flushed /\ (spans' => spans \/ Traced)
<1>1. ASSUME UNCHANGED spanVars
      PROVE  flushed' = flushed /\ (spans' => spans \/ Traced)
  <2>1. flushed' = flushed /\ spans' = spans
    BY <1>1 DEF spanVars
  <2>2. QED
    BY <2>1, Zenon
<1>2. CASE MainStep
  <2>1. UNCHANGED spanVars
    BY <1>2 DEF MainStep, StartServer, Notify, SelectError, SelectSignal, ShutdownHTTP,
       HTTPDown, HTTPFails, ProbeDown, ProbeFails
  <2>2. QED
    BY <1>1, <2>1
<1>3. CASE StartStep \/ ProbeStep \/ Signal \/ Expire
  <2>1. UNCHANGED spanVars
    BY <1>3 DEF StartStep, StartRefused, SpawnProbe, Listen, ListenFails, StartReturns,
       ProbeStep, ProbeListens, ProbeEnds, Signal, Expire
  <2>2. QED
    BY <1>1, <2>1
<1>4. CASE Export
  <2>1. flushed' = flushed /\ ~spans'
    BY <1>4 DEF Export
  <2>2. QED
    BY <2>1, Zenon
<1>5. ASSUME NEW over, Traces(over), flushed' = flushed
      PROVE  flushed' = flushed /\ (spans' => spans \/ Traced)
  BY <1>5, Zenon DEF Traces
<1>6. ASSUME NEW r \in ApiRequests \cup Probes, Arrive(r) \/ Answer(r)
      PROVE  flushed' = flushed /\ (spans' => spans \/ Traced)
  <2>1. CASE Arrive(r)
    BY <1>1, <2>1 DEF Arrive
  <2>2. CASE Answer(r)
    BY <1>5, <2>2 DEF Answer, Answered
  <2>3. QED
    BY <1>6, <2>1, <2>2
<1>7. ASSUME NEW c \in Conns, AnswerUpgrade(c) \/ HandlerStep(c)
      PROVE  flushed' = flushed /\ (spans' => spans \/ Traced)
  <2>1. flushed' = flushed
    BY <1>7 DEF AnswerUpgrade, Answered, HandlerStep
  <2>2. spans' = spans \/ \E over : Traces(over)
    BY <1>7, Zenon DEF AnswerUpgrade, HandlerStep
  <2>3. CASE spans' = spans
    BY <2>1, <2>3, Zenon
  <2>4. QED
    BY <1>5, <2>1, <2>2, <2>3, Zenon
<1>8. CASE UNCHANGED procVars
  BY <1>1, <1>8 DEF procVars
<1>9. QED
  BY <1>2, <1>3, <1>4, <1>6, <1>7, <1>8
     DEF Next, CloserStep, HubSteps, WriterStep, ReaderStep, ReaderMessage,
         PeerGoes, vars

LEMMA EndsKept == ProcTypes /\ Ends /\ [Next]_vars => Ends'
<1> SUFFICES ASSUME ProcTypes, Ends, [Next]_vars PROVE Ends'
  OBVIOUS
<1>1. CASE Flush
  <2>1. main' = "exited" /\ code' = 0 /\ flushed' = Traced
    BY <1>1 DEF Flush, Exit, MainMoves
  <2>2. spans' = FALSE \/ spans' = spans
    BY <1>1 DEF Flush
  <2>3. spans' => Traced
    BY <2>2, Zenon DEF Ends
  <2>4. main' \in {"hub", "http", "probe", "flush", "exited"}
    BY <2>1
  <2>5. Traced => flushed'
    BY <2>1, Zenon
  <2>6. QED
    BY <2>1, <2>3, <2>4, <2>5, Zenon DEF Ends
<1>2. ASSUME ~Flush,
             signal' = "taken" => main' \in {"hub", "http", "probe", "flush", "exited"},
             main' = "exited" /\ signal' = "taken" =>
               \/ expired'
               \/ main = "exited" /\ signal = "taken" /\ expired' = expired /\ code' = code
      PROVE  Ends'
  <2>1. spans' => Traced
    BY <1>2, SpansMove, Zenon DEF Ends
  <2>2. ASSUME main = "exited" /\ signal = "taken" /\ expired' = expired /\ code' = code
        PROVE  expired' \/ (code' = 0 /\ (Traced => flushed'))
    <3>1. expired \/ (code = 0 /\ (Traced => flushed))
      BY <2>2, Zenon DEF Ends
    <3>2. flushed' = flushed
      BY <1>2, SpansMove
    <3>3. QED
      BY <2>2, <3>1, <3>2, Zenon
  <2>3. QED
    BY <1>2, <2>1, <2>2, Zenon DEF Ends
<1>3. CASE UNCHANGED mainVars /\ ~Flush
  BY <1>2, <1>3, Zenon DEF Ends, mainVars
<1> USE DEF MainMoves, Exit
<1>4. CASE StartServer \/ Notify
  <2>1. /\ main' \in {"notify", "select"} /\ signal' = signal
        /\ main \in {"start", "notify"} /\ ~Flush
    BY <1>4 DEF StartServer, Notify, Flush
  <2>2. QED
    BY <1>2, <2>1 DEF Ends
<1>5. CASE SelectError
  <2>1. main = "select" /\ signal' = signal /\ ~Flush
    BY <1>5 DEF SelectError, Flush
  <2>2. QED
    BY <1>2, <2>1 DEF Ends
<1>6. CASE SelectSignal \/ ShutdownHTTP \/ HTTPDown \/ ProbeDown
  <2>1. main' \in {"hub", "http", "probe", "flush"} /\ ~Flush
    BY <1>6 DEF SelectSignal, ShutdownHTTP, HTTPDown, ProbeDown, Flush
  <2>2. QED
    BY <1>2, <2>1
<1>7. CASE HTTPFails \/ ProbeFails
  <2>1. main' = "exited" /\ main # "flush" /\ expired' = expired /\ expired
    BY <1>7 DEF HTTPFails, ProbeFails
  <2>2. expired' /\ ~Flush
    BY <2>1, Zenon DEF Flush
  <2>3. QED
    BY <1>2, <2>1, <2>2
<1>8. CASE Signal
  <2>1. signal' # "taken" /\ ~Flush
    BY <1>8 DEF Signal, Flush
  <2>2. QED
    BY <1>2, <2>1
<1>9. CASE Expire
  <2>1. main' = main /\ signal' = signal /\ expired' /\ ~Flush
    BY <1>9 DEF Expire, Flush, Alive
  <2>2. QED
    BY <1>2, <2>1, Zenon DEF Ends
<1>10. QED
  BY <1>1, <1>3, <1>4, <1>5, <1>6, <1>7, <1>8, <1>9, OthersLeaveMain DEF MainStep

\* A process asked to end before its deadline reports success and has tried to
\* flush its spans: what remains true of SpansFlushed.
THEOREM LossesAreLate == Spec => []OnlyLateLoss
<1>1. Init => ProcTypes /\ Ends
  BY DEF Init, ProcTypes, Ends
<1>2. ProcTypes /\ Ends /\ [Next]_vars => (ProcTypes /\ Ends)'
  BY TypesKept, EndsKept
<1>3. Ends => OnlyLateLoss
  BY Zenon DEF Ends, OnlyLateLoss
<1>4. QED
  BY <1>1, <1>2, <1>3, PTL DEF Spec
=============================================================================
