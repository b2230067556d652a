------------------------- MODULE WebSocketHubProofs -------------------------
(***************************************************************************)
(* Proofs about WebSocketHub, for every finite set of connections.         *)
(*                                                                         *)
(* The inductive invariant has four parts.  Shape says how the three       *)
(* goroutines of a connection, its link and h.clients fit together; the    *)
(* two counting invariants (gauge and wait group) rest on Shape; Drained,  *)
(* what the closer may rely on after h.wg.Wait, rests on the second one.   *)
(***************************************************************************)
EXTENDS WebSocketHub, FiniteSetTheorems, TLAPS

\* TypeOK without the sign of the wait group's counter, which needs counting.
TypeInv ==
  /\ handler \in [Conns -> HandlerState]
  /\ writer \in [Conns -> WriterState]
  /\ reader \in [Conns -> ReaderState]
  /\ ctx \in [Conns -> BOOLEAN]
  /\ link \in [Conns -> {"none", "open", "reader", "closer"}]
  /\ peer \in [Conns -> {"up", "left", "lost"}]
  /\ closeSent \in [Conns -> BOOLEAN]
  /\ clients \subseteq Conns
  /\ gauge \in Int
  /\ wg \in Int
  /\ closer \in CloserState
  /\ todo \subseteq Conns
  /\ covered \subseteq Conns

\* A pump runs only once HandleWebSocket has started it, a connection is in
\* the map only between its registration and readPump's removal.
PumpsFollowHandler ==
  \A c \in Conns :
    /\ writer[c] = "off" <=> handler[c] \notin {"spawned", "returned"}
    /\ reader[c] = "off" <=> handler[c] # "returned"
    /\ handler[c] \in {"idle", "failed"} => link[c] = "none"
    /\ handler[c] = "upgraded" => link[c] = "open"
    /\ c \in clients => /\ handler[c] \notin {"idle", "failed", "upgraded"}
                        /\ reader[c] \notin {"close", "done"}
    /\ c \in covered => handler[c] \in Added

Shape == TypeInv /\ PumpsFollowHandler /\ RegisteredIsOpen /\ NoOrphan

\* A writePump ends after its close message, or because it could not send.
WriterEndsForAReason ==
  \A c \in Conns :
    writer[c] \in {"exit", "done"} =>
      closeSent[c] \/ peer[c] # "up" \/ link[c] # "open"

\* After h.wg.Wait the writePumps it had to wait for have ended.
WaitedFor ==
  closer \in {"relock", "close", "done"} =>
    \A c \in covered : writer[c] = "done"

\* A covered connection does not come back into the map.
CoveredStaysOut == closer = "done" => covered \cap clients = {}

Drained ==
  /\ WriterEndsForAReason
  /\ WaitedFor
  /\ CoveredStaysOut
  /\ GracefulClose

IInv ==
  Shape /\ GaugeMatchesClients /\ WaitGroupMatchesWriters /\ Drained

-----------------------------------------------------------------------------
\* Every action is the step of one goroutine of one connection, or of the
\* closer.
LEMMA ShapeInit == Init => Shape
  BY DEF Init, Shape, TypeInv, PumpsFollowHandler, RegisteredIsOpen, NoOrphan,
         HandlerState, WriterState, ReaderState, CloserState, Added

LEMMA ShapeStep == Shape /\ [Next]_vars => Shape'
<1> SUFFICES ASSUME Shape, [Next]_vars PROVE Shape'
  OBVIOUS
<1> USE DEF Shape, TypeInv, PumpsFollowHandler, RegisteredIsOpen, NoOrphan,
            HandlerState, WriterState, ReaderState, CloserState, Added,
            Running, MuFree, HandlerMoves, WriterMoves, ReaderMoves, CloserMoves,
            pumpVars, netVars, mapVars, closerVars
<1>1. CASE CloserStep
  <2>1. ASSUME NEW c \in Conns, CancelOne(c) PROVE Shape'
    BY <2>1 DEF CancelOne
  <2>2. CASE CancelEnd
    BY <2>2 DEF CancelEnd
  <2>3. CASE Wait
    BY <2>3 DEF Wait
  <2>4. CASE WaitReturns
    BY <2>4 DEF WaitReturns
  <2>5. CASE CloseBegin
    BY <2>5 DEF CloseBegin
  <2>6. ASSUME NEW c \in Conns, CloseOne(c) PROVE Shape'
    BY <2>6 DEF CloseOne
  <2>7. CASE CloseEnd
    BY <2>7 DEF CloseEnd
  <2> QED
    BY <1>1, <2>1, <2>2, <2>3, <2>4, <2>5, <2>6, <2>7 DEF CloserStep
<1>2. CASE CancelBegin
  BY <1>2 DEF CancelBegin
<1>3. ASSUME NEW c \in Conns, HandlerStep(c) PROVE Shape'
  <2>1. CASE Register(c)
    BY <2>1 DEF Register
  <2>2. CASE CountConnection(c)
    BY <2>2 DEF CountConnection
  <2>3. CASE AddToWaitGroup(c)
    BY <2>3 DEF AddToWaitGroup
  <2>4. CASE StartWriter(c)
    BY <2>4 DEF StartWriter
  <2>5. CASE StartReader(c)
    BY <2>5 DEF StartReader
  <2> QED
    BY <1>3, <2>1, <2>2, <2>3, <2>4, <2>5 DEF HandlerStep
<1>4. ASSUME NEW c \in Conns, WriterStep(c) PROVE Shape'
  <2>1. CASE WriterFails(c)
    BY <2>1 DEF WriterFails
  <2>2. CASE WriterSeesCancel(c)
    BY <2>2 DEF WriterSeesCancel
  <2>3. CASE WriterSendsClose(c)
    BY <2>3 DEF WriterSendsClose
  <2>4. CASE WriterDone(c)
    BY <2>4 DEF WriterDone
  <2> QED
    BY <1>4, <2>1, <2>2, <2>3, <2>4 DEF WriterStep
<1>5. ASSUME NEW c \in Conns, ReaderStep(c) PROVE Shape'
  <2>1. CASE ReaderStart(c)
    BY <2>1 DEF ReaderStart
  <2>2. CASE ReaderCheck(c)
    BY <2>2 DEF ReaderCheck
  <2>3. CASE ReaderFails(c)
    BY <2>3 DEF ReaderFails
  <2>4. CASE ReaderCloseFrame(c)
    <3>1. closeSent' \in [Conns -> BOOLEAN]
      BY <2>4 DEF ReaderCloseFrame
    <3>2. reader' = [reader EXCEPT ![c] = "cancel"] /\ reader[c] = "read"
      BY <2>4 DEF ReaderCloseFrame
    <3>3. UNCHANGED <<handler, writer, ctx, link, peer, mapVars, wg, closerVars>>
      BY <2>4 DEF ReaderCloseFrame
    <3> QED
      BY <3>1, <3>2, <3>3
  <2>5. CASE ReaderCancel(c)
    BY <2>5 DEF ReaderCancel
  <2>6. CASE ReaderRemove(c)
    <3>1. reader' = [reader EXCEPT ![c] = "close"] /\ reader[c] = "remove"
      BY <2>6 DEF ReaderRemove
    <3>2. UNCHANGED <<handler, writer, netVars, wg, closerVars>>
      BY <2>6 DEF ReaderRemove
    <3>3. /\ clients' = clients \ {c} /\ gauge' \in Int
          /\ ctx' \in [Conns -> BOOLEAN]
      <4>1. CASE c \in clients
        <5>1. clients' = clients \ {c}
          BY <2>6, <4>1 DEF ReaderRemove
        <5>2. gauge' = gauge - 1
          BY <2>6, <4>1 DEF ReaderRemove
        <5>3. ctx' = [ctx EXCEPT ![c] = TRUE]
          BY <2>6, <4>1 DEF ReaderRemove
        <5> QED
          BY <5>1, <5>2, <5>3
      <4>2. CASE c \notin clients
        BY <2>6, <4>2 DEF ReaderRemove
      <4> QED
        BY <4>1, <4>2
    <3>4. TypeInv'
      BY <3>1, <3>2, <3>3
    <3>5. PumpsFollowHandler'
      BY <3>1, <3>2, <3>3
    <3>6. RegisteredIsOpen'
      BY <3>2, <3>3
    <3>7. NoOrphan'
      BY <3>1, <3>2, <3>3
    <3> QED
      BY <3>4, <3>5, <3>6, <3>7
  <2>7. CASE ReaderClose(c)
    BY <2>7 DEF ReaderClose
  <2> QED
    BY <1>5, <2>1, <2>2, <2>3, <2>4, <2>5, <2>6, <2>7 DEF ReaderStep
<1>6. ASSUME NEW c \in Conns, Upgrade(c) \/ UpgradeFails(c) PROVE Shape'
  BY <1>6 DEF Upgrade, UpgradeFails
<1>7. ASSUME NEW c \in Conns, ReaderMessage(c) PROVE Shape'
  BY <1>7 DEF ReaderMessage
<1>8. ASSUME NEW c \in Conns, NEW how \in Departures, PeerGoes(c, how)
      PROVE  Shape'
  BY <1>8, DeparturesAssumption DEF PeerGoes
<1>9. CASE UNCHANGED vars
  BY <1>9 DEF vars
<1> QED
  BY <1>1, <1>2, <1>3, <1>4, <1>5, <1>6, <1>7, <1>8, <1>9 DEF Next, Environment

-----------------------------------------------------------------------------
\* What one registration or one removal does to a count of connections.
LEMMA Counting ==
  ASSUME NEW S \in SUBSET Conns, NEW c \in Conns
  PROVE  /\ Cardinality(S) \in Nat
         /\ c \notin S => Cardinality(S \cup {c}) = Cardinality(S) + 1
         /\ c \in S => Cardinality(S \ {c}) = Cardinality(S) - 1
<1>1. IsFiniteSet(S)
  BY ConnsAssumption, FS_Subset
<1> QED
  BY <1>1, FS_CardinalityType, FS_AddElement, FS_RemoveElement

\* readPump's removeClient takes the connection out of the map and of the
\* gauge together, or changes nothing.
LEMMA RemoveEffect ==
  ASSUME NEW c \in Conns, ReaderRemove(c)
  PROVE  /\ c \in clients => clients' = clients \ {c} /\ gauge' = gauge - 1
         /\ c \notin clients => UNCHANGED mapVars
<1>1. CASE c \in clients
  BY <1>1 DEF ReaderRemove
<1>2. CASE c \notin clients
  BY <1>2 DEF ReaderRemove
<1> QED
  BY <1>1, <1>2

LEMMA GaugeStep ==
  Shape /\ GaugeMatchesClients /\ [Next]_vars => GaugeMatchesClients'
<1> SUFFICES ASSUME Shape, GaugeMatchesClients, [Next]_vars
             PROVE  GaugeMatchesClients'
  OBVIOUS
<1>1. gauge \in Int /\ clients \subseteq Conns /\ Uncounted \subseteq Conns
  BY DEF Shape, TypeInv, Uncounted
<1>2. ASSUME NEW c \in Conns, Register(c) PROVE GaugeMatchesClients'
  <2>1. clients' = clients \cup {c} /\ gauge' = gauge
    BY <1>2 DEF Register
  <2>2. Uncounted' = Uncounted \cup {c}
    BY <1>2 DEF Register, HandlerMoves, Uncounted, Shape, TypeInv
  <2>3. c \notin clients /\ c \notin Uncounted
    BY <1>2 DEF Register, HandlerMoves, Uncounted, Shape, PumpsFollowHandler
  <2> QED
    BY <1>1, <2>1, <2>2, <2>3, Counting DEF GaugeMatchesClients
<1>3. ASSUME NEW c \in Conns, CountConnection(c) PROVE GaugeMatchesClients'
  <2>1. clients' = clients /\ gauge' = gauge + 1
    BY <1>3 DEF CountConnection
  <2>2. Uncounted' = Uncounted \ {c} /\ c \in Uncounted
    BY <1>3 DEF CountConnection, HandlerMoves, Uncounted, Shape, TypeInv
  <2> QED
    BY <1>1, <2>1, <2>2, Counting DEF GaugeMatchesClients
<1>4. ASSUME NEW c \in Conns, ReaderRemove(c) \/ CloseOne(c)
      PROVE  GaugeMatchesClients'
  <2>1. Uncounted' = Uncounted
    BY <1>4 DEF ReaderRemove, CloseOne, Uncounted
  <2>2. CASE c \in clients
    <3>1. clients' = clients \ {c} /\ gauge' = gauge - 1
      BY <1>4, <2>2, RemoveEffect DEF CloseOne
    <3>2. /\ Cardinality(clients \ {c}) = Cardinality(clients) - 1
          /\ Cardinality(clients) \in Nat /\ Cardinality(Uncounted) \in Nat
      BY <1>1, <2>2, Counting
    <3> QED
      BY <1>1, <2>1, <3>1, <3>2 DEF GaugeMatchesClients
  <2>3. CASE c \notin clients
    BY <1>4, <2>1, <2>3, RemoveEffect DEF CloseOne, mapVars, GaugeMatchesClients
  <2> QED
    BY <2>2, <2>3
<1>5. ASSUME UNCHANGED mapVars, Uncounted' = Uncounted
      PROVE  GaugeMatchesClients'
  BY <1>5 DEF mapVars, GaugeMatchesClients
<1>6. ASSUME NEW c \in Conns, Upgrade(c) \/ UpgradeFails(c) \/ AddToWaitGroup(c)
                              \/ StartWriter(c) \/ StartReader(c)
      PROVE  UNCHANGED mapVars /\ Uncounted' = Uncounted
  BY <1>6 DEF Upgrade, UpgradeFails, AddToWaitGroup, StartWriter, StartReader,
              HandlerMoves, Uncounted, Shape, TypeInv
<1>7. ASSUME NEW c \in Conns,
             \/ WriterStep(c) \/ ReaderMessage(c)
             \/ \E how \in Departures : PeerGoes(c, how)
             \/ ReaderStep(c) /\ ~ReaderRemove(c)
      PROVE  UNCHANGED mapVars /\ Uncounted' = Uncounted
  BY <1>7 DEF WriterStep, WriterFails, WriterSeesCancel, WriterSendsClose,
              WriterDone, ReaderMessage, PeerGoes, ReaderStep, ReaderStart,
              ReaderCheck, ReaderFails, ReaderCloseFrame, ReaderCancel,
              ReaderClose, Uncounted
<1>8. ASSUME \/ CancelBegin
             \/ CloserStep /\ ~ \E c \in Conns : CloseOne(c)
             \/ UNCHANGED vars
      PROVE  UNCHANGED mapVars /\ Uncounted' = Uncounted
  BY <1>8 DEF CancelBegin, CloserStep, CancelOne, CancelEnd, Wait, WaitReturns,
              CloseBegin, CloseEnd, vars, Uncounted, mapVars
<1> QED
  BY <1>2, <1>3, <1>4, <1>5, <1>6, <1>7, <1>8
  DEF Next, Environment, HandlerStep, CloserStep, ReaderStep

LEMMA WaitGroupStep ==
  Shape /\ WaitGroupMatchesWriters /\ [Next]_vars => WaitGroupMatchesWriters'
<1> SUFFICES ASSUME Shape, WaitGroupMatchesWriters, [Next]_vars
             PROVE  WaitGroupMatchesWriters'
  OBVIOUS
<1>1. wg \in Int /\ Writing \subseteq Conns
  BY DEF Shape, TypeInv, Writing
<1>2. ASSUME NEW c \in Conns, AddToWaitGroup(c) PROVE WaitGroupMatchesWriters'
  <2>1. wg' = wg + 1
    BY <1>2 DEF AddToWaitGroup
  <2>2. Writing' = Writing \cup {c} /\ c \notin Writing
    BY <1>2 DEF AddToWaitGroup, HandlerMoves, Writing, Added, pumpVars,
                Shape, TypeInv, PumpsFollowHandler
  <2> QED
    BY <1>1, <2>1, <2>2, Counting DEF WaitGroupMatchesWriters
<1>3. ASSUME NEW c \in Conns, WriterDone(c) PROVE WaitGroupMatchesWriters'
  <2>1. wg' = wg - 1
    BY <1>3 DEF WriterDone
  <2>2. Writing' = Writing \ {c} /\ c \in Writing
    BY <1>3 DEF WriterDone, WriterMoves, Writing, Added,
                Shape, TypeInv, PumpsFollowHandler
  <2> QED
    BY <1>1, <2>1, <2>2, Counting DEF WaitGroupMatchesWriters
<1>4. ASSUME wg' = wg, Writing' = Writing PROVE WaitGroupMatchesWriters'
  BY <1>4 DEF WaitGroupMatchesWriters
<1>5. ASSUME NEW c \in Conns, Upgrade(c) \/ UpgradeFails(c) \/ Register(c)
                              \/ CountConnection(c) \/ StartReader(c)
      PROVE  wg' = wg /\ Writing' = Writing
  BY <1>5 DEF Upgrade, UpgradeFails, Register, CountConnection, StartReader,
              HandlerMoves, Writing, Added, pumpVars, Shape, TypeInv
<1>6. ASSUME NEW c \in Conns, StartWriter(c) PROVE wg' = wg /\ Writing' = Writing
  BY <1>6 DEF StartWriter, HandlerMoves, Writing, Added, Shape, TypeInv,
              PumpsFollowHandler
<1>7. ASSUME NEW c \in Conns,
             WriterFails(c) \/ WriterSeesCancel(c) \/ WriterSendsClose(c)
      PROVE  wg' = wg /\ Writing' = Writing
  BY <1>7 DEF WriterFails, WriterSeesCancel, WriterSendsClose, WriterMoves,
              Writing, Shape, TypeInv
<1>8. ASSUME NEW c \in Conns,
             ReaderStep(c) \/ ReaderMessage(c)
               \/ \E how \in Departures : PeerGoes(c, how)
      PROVE  wg' = wg /\ Writing' = Writing
  BY <1>8 DEF ReaderMessage, PeerGoes, ReaderStep, ReaderStart, ReaderCheck,
              ReaderFails, ReaderCloseFrame, ReaderCancel, ReaderRemove,
              ReaderClose, Writing, pumpVars
<1>9. ASSUME CancelBegin \/ CloserStep \/ UNCHANGED vars
      PROVE  wg' = wg /\ Writing' = Writing
  BY <1>9 DEF CancelBegin, CloserStep, CancelOne, CancelEnd, Wait, WaitReturns,
              CloseBegin, CloseOne, CloseEnd, vars, Writing, pumpVars
<1> QED
  BY <1>2, <1>3, <1>4, <1>5, <1>6, <1>7, <1>8, <1>9
  DEF Next, Environment, HandlerStep, WriterStep

-----------------------------------------------------------------------------
\* If the wait group's counter is zero, no writePump it counts is running.
LEMMA NobodyWriting ==
  ASSUME Shape, WaitGroupMatchesWriters, wg = 0
  PROVE  \A c \in covered : writer[c] = "done"
<1>1. Writing = {}
  <2>1. IsFiniteSet(Writing)
    BY ConnsAssumption, FS_Subset DEF Writing
  <2> QED
    BY <2>1, FS_EmptySet DEF WaitGroupMatchesWriters
<1> QED
  BY <1>1 DEF Writing, Shape, TypeInv, PumpsFollowHandler

LEMMA DrainedStep ==
  Shape /\ WaitGroupMatchesWriters /\ Drained /\ [Next]_vars => Drained'
<1> SUFFICES ASSUME Shape, WaitGroupMatchesWriters, Drained, [Next]_vars
             PROVE  Drained'
  OBVIOUS
<1> USE DEF Shape, TypeInv, PumpsFollowHandler, Drained, WriterEndsForAReason,
            WaitedFor, CoveredStaysOut, GracefulClose, Added,
            Running, MuFree, HandlerMoves, WriterMoves, ReaderMoves, CloserMoves,
            pumpVars, netVars, mapVars, closerVars
<1>1. CASE CloserStep
  <2>1. ASSUME NEW c \in Conns, CancelOne(c) PROVE Drained'
    BY <2>1 DEF CancelOne
  <2>2. CASE CancelEnd
    BY <2>2 DEF CancelEnd
  <2>3. CASE Wait \/ WaitReturns
    <3>1. closer' = "relock" => wg = 0
      BY <2>3 DEF Wait, WaitReturns
    <3>2. closer' \in {"relock", "asleep", "panicked"}
      BY <2>3 DEF Wait, WaitReturns
    <3>3. UNCHANGED <<handler, pumpVars, netVars, mapVars, wg, todo, covered>>
      BY <2>3 DEF Wait, WaitReturns
    <3> QED
      BY <3>1, <3>2, <3>3, NobodyWriting
  <2>4. CASE CloseBegin
    BY <2>4 DEF CloseBegin
  <2>5. ASSUME NEW c \in Conns, CloseOne(c) PROVE Drained'
    <3>1. link[c] = "open"
      BY <2>5 DEF CloseOne, RegisteredIsOpen
    <3>2. c \in covered /\ peer[c] = "up" => closeSent[c]
      BY <2>5, <3>1 DEF CloseOne
    <3> QED
      BY <2>5, <3>1, <3>2 DEF CloseOne
  <2>6. CASE CloseEnd
    BY <2>6 DEF CloseEnd
  <2> QED
    BY <1>1, <2>1, <2>2, <2>3, <2>4, <2>5, <2>6 DEF CloserStep
<1>2. CASE CancelBegin
  <2>1. \A c \in covered' : link[c] = "open"
    BY <1>2 DEF CancelBegin, RegisteredIsOpen
  <2> QED
    BY <1>2, <2>1 DEF CancelBegin
<1>3. ASSUME NEW c \in Conns, HandlerStep(c) PROVE Drained'
  <2>1. CASE Register(c)
    BY <2>1 DEF Register
  <2>2. CASE CountConnection(c)
    BY <2>2 DEF CountConnection
  <2>3. CASE AddToWaitGroup(c)
    BY <2>3 DEF AddToWaitGroup
  <2>4. CASE StartWriter(c)
    BY <2>4 DEF StartWriter
  <2>5. CASE StartReader(c)
    BY <2>5 DEF StartReader
  <2> QED
    BY <1>3, <2>1, <2>2, <2>3, <2>4, <2>5 DEF HandlerStep
<1>4. ASSUME NEW c \in Conns, WriterStep(c) PROVE Drained'
  <2>1. CASE WriterFails(c)
    BY <2>1 DEF WriterFails, MayFail, CanWrite
  <2>2. CASE WriterSeesCancel(c)
    BY <2>2 DEF WriterSeesCancel
  <2>3. CASE WriterSendsClose(c)
    BY <2>3 DEF WriterSendsClose, MayFail, CanWrite
  <2>4. CASE WriterDone(c)
    BY <2>4 DEF WriterDone
  <2> QED
    BY <1>4, <2>1, <2>2, <2>3, <2>4 DEF WriterStep
<1>5. ASSUME NEW c \in Conns, ReaderStep(c) PROVE Drained'
  <2>1. CASE ReaderStart(c) \/ ReaderCheck(c) \/ ReaderFails(c) \/ ReaderCancel(c)
    BY <2>1 DEF ReaderStart, ReaderCheck, ReaderFails, ReaderCancel
  <2>2. CASE ReaderCloseFrame(c)
    BY <2>2 DEF ReaderCloseFrame
  <2>3. CASE ReaderRemove(c)
    <3>1. clients' \subseteq clients
      BY <2>3, RemoveEffect
    <3> QED
      BY <2>3, <3>1 DEF ReaderRemove
  <2>4. CASE ReaderClose(c)
    BY <2>4 DEF ReaderClose
  <2> QED
    BY <1>5, <2>1, <2>2, <2>3, <2>4 DEF ReaderStep
<1>6. ASSUME NEW c \in Conns, Upgrade(c) \/ UpgradeFails(c) PROVE Drained'
  BY <1>6 DEF Upgrade, UpgradeFails
<1>7. ASSUME NEW c \in Conns, ReaderMessage(c) PROVE Drained'
  BY <1>7 DEF ReaderMessage
<1>8. ASSUME NEW c \in Conns, NEW how \in Departures, PeerGoes(c, how)
      PROVE  Drained'
  BY <1>8, DeparturesAssumption DEF PeerGoes
<1>9. CASE UNCHANGED vars
  BY <1>9 DEF vars
<1> QED
  BY <1>1, <1>2, <1>3, <1>4, <1>5, <1>6, <1>7, <1>8, <1>9 DEF Next, Environment

-----------------------------------------------------------------------------
LEMMA InitIInv == Init => IInv
<1> SUFFICES ASSUME Init PROVE IInv
  OBVIOUS
<1>1. Uncounted = {} /\ Writing = {} /\ clients = {}
  BY DEF Init, Uncounted, Writing, Added
<1>2. GaugeMatchesClients /\ WaitGroupMatchesWriters
  BY <1>1, FS_EmptySet DEF Init, GaugeMatchesClients, WaitGroupMatchesWriters
<1>3. Drained
  BY DEF Init, Drained, WriterEndsForAReason, WaitedFor, CoveredStaysOut,
         GracefulClose
<1> QED
  BY <1>2, <1>3, ShapeInit DEF IInv

\* IInv is an invariant of every behaviour of the hub.
THEOREM Invariance == Spec => []IInv
<1>1. IInv /\ [Next]_vars => IInv'
  BY ShapeStep, GaugeStep, WaitGroupStep, DrainedStep DEF IInv
<1> QED
  BY InitIInv, <1>1, PTL DEF Spec

\* Type correctness; the counter of the wait group is never negative because
\* it is the size of a set.
THEOREM TypeCorrect == Spec => []TypeOK
<1>1. IInv => TypeOK
  <2> SUFFICES ASSUME IInv PROVE TypeOK
    OBVIOUS
  <2>1. wg \in Nat
    <3>1. IsFiniteSet(Writing)
      BY ConnsAssumption, FS_Subset DEF Writing
    <3> QED
      BY <3>1, FS_CardinalityType DEF IInv, WaitGroupMatchesWriters
  <2> QED
    BY <2>1 DEF IInv, Shape, TypeInv, TypeOK
<1> QED
  BY <1>1, Invariance, PTL

\* The gauge counts every registered connection exactly once, whichever of
\* its two removal paths takes it out of the map.
THEOREM GaugeCorrect == Spec => []GaugeMatchesClients
<1>1. IInv => GaugeMatchesClients
  BY DEF IInv
<1> QED
  BY <1>1, Invariance, PTL

\* The wait group counts the writePumps that CloseAllConnections waits for.
THEOREM WaitGroupCorrect == Spec => []WaitGroupMatchesWriters
<1>1. IInv => WaitGroupMatchesWriters
  BY DEF IInv
<1> QED
  BY <1>1, Invariance, PTL

\* A registered connection is open, and an open connection is registered or
\* about to be: no connection leaks out of the map.
THEOREM RegistryCorrect == Spec => []RegistryExact
<1>1. IInv => RegistryExact
  BY DEF IInv, Shape, RegistryExact
<1> QED
  BY <1>1, Invariance, PTL

\* CloseAllConnections closes no covered connection before its close message.
THEOREM GracefulCloseHolds == Spec => []GracefulClose
<1>1. IInv => GracefulClose
  BY DEF IInv, Drained
<1> QED
  BY <1>1, Invariance, PTL

\* When CloseAllConnections returns, what it covered is drained.
THEOREM CoveredDrainedHolds == Spec => []CoveredDrained
<1>1. IInv => CoveredDrained
  BY DEF IInv, Shape, TypeInv, PumpsFollowHandler, NoOrphan, Drained, WaitedFor,
         CoveredStaysOut, CoveredDrained, Added
<1> QED
  BY <1>1, Invariance, PTL

-----------------------------------------------------------------------------
(* Progress *)

\* Once its first loop is over, CloseAllConnections has cancelled every
\* connection it covers; it sleeps only while the wait group is not empty.
Cancelled ==
  /\ closer = "cancel" => \A c \in covered : c \in todo \/ ctx[c]
  /\ closer \notin {"idle", "cancel"} => \A c \in covered : ctx[c]

Asleep == closer = "asleep" => wg # 0

LEMMA WaitGroupNat ==
  ASSUME IInv
  PROVE  wg \in Nat /\ (wg = 0 <=> Writing = {})
<1>1. IsFiniteSet(Writing)
  BY ConnsAssumption, FS_Subset DEF Writing
<1> QED
  BY <1>1, FS_CardinalityType, FS_EmptySet DEF IInv, WaitGroupMatchesWriters

\* A cancelled context stays cancelled.
LEMMA ContextsStay ==
  ASSUME Shape, [Next]_vars, NEW c \in Conns, ctx[c]
  PROVE  ctx'[c]
<1>1. ctx \in [Conns -> BOOLEAN]
  BY DEF Shape, TypeInv
<1>2. ASSUME NEW d \in Conns, ctx' = [ctx EXCEPT ![d] = TRUE] PROVE ctx'[c]
  BY <1>1, <1>2
<1>3. ASSUME UNCHANGED ctx PROVE ctx'[c]
  BY <1>3, Zenon
<1> USE DEF pumpVars
<1>4. CASE CloserStep
  BY <1>2, <1>3, <1>4
  DEF CloserStep, CancelOne, CancelEnd, Wait, WaitReturns, CloseBegin, CloseOne,
      CloseEnd
<1>5. CASE Environment
  BY <1>3, <1>5 DEF Environment, CancelBegin, Upgrade, UpgradeFails,
                    ReaderMessage, PeerGoes
<1>6. ASSUME NEW d \in Conns, HandlerStep(d) \/ WriterStep(d) PROVE ctx'[c]
  BY <1>3, <1>6
  DEF HandlerStep, Register, CountConnection, AddToWaitGroup, StartWriter,
      StartReader, WriterStep, WriterFails, WriterSeesCancel, WriterSendsClose,
      WriterDone
<1>7. ASSUME NEW d \in Conns, ReaderStep(d) PROVE ctx'[c]
  <2>1. UNCHANGED ctx \/ ctx' = [ctx EXCEPT ![d] = TRUE]
    BY <1>7 DEF ReaderStep, ReaderStart, ReaderCheck, ReaderFails,
                ReaderCloseFrame, ReaderCancel, ReaderRemove, ReaderClose
  <2> QED
    BY <1>2, <1>3, <2>1
<1>8. CASE UNCHANGED vars
  BY <1>3, <1>8 DEF vars
<1> QED
  BY <1>4, <1>5, <1>6, <1>7, <1>8 DEF Next

\* What a step that is not the closer's does to the closer.
LEMMA OthersLeaveCloser ==
  ASSUME NEW c \in Conns, HandlerStep(c) \/ WriterStep(c) \/ ReaderStep(c)
  PROVE  /\ UNCHANGED <<todo, covered>>
         /\ \/ UNCHANGED <<closer, wg>>
            \/ closer' = closer /\ wg' = wg + 1
            \/ /\ wg' = wg - 1
               /\ closer' = IF wg = 1 /\ closer = "asleep" THEN "woken" ELSE closer
<1> USE DEF closerVars
<1>1. CASE HandlerStep(c)
  BY <1>1 DEF HandlerStep, Register, CountConnection, AddToWaitGroup,
              StartWriter, StartReader
<1>2. CASE WriterStep(c)
  BY <1>2 DEF WriterStep, WriterFails, WriterSeesCancel, WriterSendsClose,
              WriterDone
<1>3. CASE ReaderStep(c)
  BY <1>3 DEF ReaderStep, ReaderStart, ReaderCheck, ReaderFails,
              ReaderCloseFrame, ReaderCancel, ReaderRemove, ReaderClose
<1> QED
  BY <1>1, <1>2, <1>3

LEMMA EnvironmentLeavesCloser ==
  ASSUME Environment, ~CancelBegin
  PROVE  UNCHANGED <<closer, todo, covered, wg, writer>>
  BY DEF Environment, Upgrade, UpgradeFails, ReaderMessage, PeerGoes, closerVars,
         pumpVars

LEMMA CancelledStep == IInv /\ Cancelled /\ Asleep /\ [Next]_vars => Cancelled'
<1> SUFFICES ASSUME IInv, Cancelled, Asleep, [Next]_vars PROVE Cancelled'
  OBVIOUS
<1>0. Shape /\ covered \subseteq Conns /\ clients \subseteq Conns
  BY DEF IInv, Shape, TypeInv
\* The closer is where it was, or past its first loop both before and after.
<1>1. ASSUME \/ closer' = closer
             \/ closer \notin {"idle", "cancel"} /\ closer' \notin {"idle", "cancel"},
             UNCHANGED <<todo, covered>>
      PROVE  Cancelled'
  <2>1. \A c \in covered : ctx[c] => ctx'[c]
    BY <1>0, ContextsStay
  <2>2. closer' = "cancel" => \A c \in covered' : c \in todo' \/ ctx'[c]
    BY <1>1, <2>1, Zenon DEF Cancelled
  <2>3. closer' \notin {"idle", "cancel"} => \A c \in covered' : ctx'[c]
    BY <1>1, <2>1, Zenon DEF Cancelled
  <2> QED
    BY <2>2, <2>3, Zenon DEF Cancelled
<1>2. ASSUME NEW c \in Conns, CancelOne(c) PROVE Cancelled'
  <2>1. /\ ctx' = [ctx EXCEPT ![c] = TRUE] /\ todo' = todo \ {c}
        /\ closer = "cancel" /\ UNCHANGED <<closer, covered>>
    BY <1>2 DEF CancelOne
  <2>2. \A d \in covered : d \in todo' \/ ctx'[d]
    <3> SUFFICES ASSUME NEW d \in covered PROVE d \in todo' \/ ctx'[d]
      OBVIOUS
    <3>1. d \in todo \/ ctx[d]
      BY <2>1, Zenon DEF Cancelled
    <3>2. CASE d = c
      BY <1>0, <2>1, <3>2 DEF Shape, TypeInv
    <3>3. CASE d # c /\ d \in todo
      BY <2>1, <3>3
    <3>4. CASE ctx[d]
      BY <1>0, <3>4, ContextsStay
    <3> QED
      BY <3>1, <3>2, <3>3, <3>4
  <2>3. closer' = "cancel" /\ covered' = covered
    BY <2>1
  <2>4. closer' \in {"idle", "cancel"}
    BY <2>3
  <2> QED
    BY <2>2, <2>3, <2>4, Zenon DEF Cancelled
<1>3. CASE CancelEnd
  <2>1. /\ todo = {} /\ closer = "cancel" /\ closer' = "wait"
        /\ UNCHANGED <<ctx, covered>>
    BY <1>3 DEF CancelEnd, CloserMoves, pumpVars
  <2>2. \A d \in covered' : ctx'[d]
    <3>1. \A d \in covered : d \notin todo
      BY <2>1
    <3> QED
      BY <2>1, <3>1, Zenon DEF Cancelled
  <2>3. closer' # "cancel"
    BY <2>1
  <2> QED
    BY <2>2, <2>3, Zenon DEF Cancelled
<1>4. CASE CancelBegin
  <2>1. \A c \in covered' : c \in todo'
    BY <1>4 DEF CancelBegin
  <2>2. closer' = "cancel"
    BY <1>4 DEF CancelBegin, CloserMoves
  <2>3. closer' \in {"idle", "cancel"}
    BY <2>2
  <2> QED
    BY <2>1, <2>2, <2>3, Zenon DEF Cancelled
<1>5. CASE Wait \/ WaitReturns \/ CloseBegin \/ CloseEnd
           \/ \E c \in Conns : CloseOne(c)
  BY <1>1, <1>5 DEF Wait, WaitReturns, CloseBegin, CloseOne, CloseEnd,
                    CloserMoves, closerVars
<1>6. ASSUME NEW c \in Conns, HandlerStep(c) \/ WriterStep(c) \/ ReaderStep(c)
      PROVE  Cancelled'
  BY <1>1, <1>6, OthersLeaveCloser
<1>7. CASE Environment /\ ~CancelBegin
  BY <1>1, <1>7, EnvironmentLeavesCloser
<1>8. CASE UNCHANGED vars
  BY <1>1, <1>8 DEF vars, closerVars
<1> QED
  BY <1>2, <1>3, <1>4, <1>5, <1>6, <1>7, <1>8 DEF Next, Environment, CloserStep

LEMMA AsleepStep == IInv /\ Asleep /\ [Next]_vars => Asleep'
<1> SUFFICES ASSUME IInv, Asleep, [Next]_vars PROVE Asleep'
  OBVIOUS
<1>1. wg \in Nat
  BY WaitGroupNat
<1>2. CASE CloserStep \/ CancelBegin
  BY <1>2 DEF CloserStep, CancelBegin, CancelOne, CancelEnd, Wait, WaitReturns,
              CloseBegin, CloseOne, CloseEnd, CloserMoves, closerVars, Asleep
<1>3. ASSUME NEW c \in Conns, HandlerStep(c) \/ WriterStep(c) \/ ReaderStep(c)
      PROVE  Asleep'
  BY <1>1, <1>3, OthersLeaveCloser DEF Asleep
<1>4. CASE Environment /\ ~CancelBegin
  BY <1>4, EnvironmentLeavesCloser DEF Asleep
<1>5. CASE UNCHANGED vars
  BY <1>5 DEF vars, closerVars, Asleep
<1> QED
  BY <1>2, <1>3, <1>4, <1>5 DEF Next

LEMMA ProgressInvariance == Spec => [](IInv /\ Cancelled /\ Asleep)
<1>1. Init => Cancelled /\ Asleep
  BY DEF Init, Cancelled, Asleep
<1>2. IInv /\ Cancelled /\ Asleep /\ [Next]_vars => Cancelled' /\ Asleep'
  BY CancelledStep, AsleepStep
<1> QED
  BY <1>1, <1>2, Invariance, PTL DEF Spec

\* No wake-up is lost: the closer sleeps only while the wait group counts a
\* writePump, and each of these that is not a late stream has a step to take.
THEOREM SleeperWoken == Spec => []SleeperIsWoken
<1>1. ASSUME IInv, Cancelled, Asleep, closer = "asleep" PROVE Writing # {}
  BY <1>1, WaitGroupNat DEF Asleep
<1>2. ASSUME IInv, Cancelled, closer = "asleep", NEW c \in Writing
      PROVE  Straggler(c) \/ handler[c] = "added" \/ WriterCanGo(c)
  <2>1. /\ c \in Conns /\ writer[c] \in WriterState /\ writer[c] # "done"
        /\ writer[c] = "off" => handler[c] = "added"
    BY <1>2 DEF IInv, Shape, TypeInv, PumpsFollowHandler, Writing, Added
  <2>2. CASE writer[c] = "loop" /\ c \in covered
    <3>1. closer \notin {"idle", "cancel"}
      BY <1>2
    <3>2. ctx[c]
      BY <1>2, <2>2, <3>1, Zenon DEF Cancelled
    <3> QED
      BY <2>2, <3>2, Zenon DEF WriterCanGo
  <2>3. CASE writer[c] = "loop" /\ c \notin covered
    BY <1>2, <2>3, Zenon DEF WriterCanGo, Straggler
  <2>4. CASE writer[c] \in {"closing", "exit"}
    BY <2>4 DEF WriterCanGo
  <2> QED
    BY <2>1, <2>2, <2>3, <2>4 DEF WriterState
<1>3. IInv /\ Cancelled /\ Asleep => SleeperIsWoken
  BY <1>1, <1>2 DEF SleeperIsWoken
<1> QED
  BY <1>3, ProgressInvariance, PTL

\* The pumps of a gone peer are never stuck, and they leave nothing behind.
THEOREM GoneLetGo == Spec => []GoneIsLetGo
<1>1. ASSUME IInv, NEW c \in Conns, handler[c] = "returned", peer[c] # "up"
      PROVE  /\ writer[c] = "done" \/ WriterCanGo(c)
             /\ reader[c] = "done" \/ ReaderCanGo(c)
             /\ writer[c] = "done" /\ reader[c] = "done" => Released(c)
  <2>1. /\ writer[c] \in WriterState \ {"off"}
        /\ reader[c] \in ReaderState \ {"off"}
    BY <1>1 DEF IInv, Shape, TypeInv, PumpsFollowHandler
  <2>2. MayFail(c)
    BY <1>1 DEF MayFail
  <2>3. writer[c] = "loop" => WriterCanGo(c)
    BY <2>2, Zenon DEF WriterCanGo
  <2>4. writer[c] \in {"closing", "exit"} => WriterCanGo(c)
    BY DEF WriterCanGo
  <2>5. reader[c] = "done" \/ ReaderCanGo(c)
    BY <1>1, <2>1 DEF ReaderState, ReaderCanGo
  <2>6. reader[c] = "done" => c \notin clients /\ link[c] # "open"
    BY <1>1 DEF IInv, Shape, PumpsFollowHandler, NoOrphan
  <2> QED
    BY <2>1, <2>3, <2>4, <2>5, <2>6 DEF WriterState, Released
<1>2. IInv => GoneIsLetGo
  BY <1>1 DEF GoneIsLetGo
<1> QED
  BY <1>2, Invariance, PTL

-----------------------------------------------------------------------------
\* The closer is not set back: h.mu keeps registrations and removals away
\* while it closes, and nothing adds to what it has still to cancel.
LEMMA CloserWindsDown ==
  ASSUME IInv, [Next]_vars, closer # "idle"
  PROVE  UNCHANGED <<closer, todo, ToClose>> \/ ToClose' < ToClose
<1>0. /\ clients \in SUBSET Conns /\ todo \in SUBSET Conns
      /\ closer \in CloserState
  BY DEF IInv, Shape, TypeInv
<1>1. /\ Cardinality(Conns) \in Nat /\ Cardinality(clients) \in Nat
      /\ Cardinality(todo) \in Nat /\ Cardinality(clients) <= Cardinality(Conns)
  BY <1>0, ConnsAssumption, FS_CardinalityType, FS_Subset
<1> USE DEF CloserMoves, closerVars
<1>2. ASSUME NEW c \in Conns, CancelOne(c) PROVE ToClose' < ToClose
  <2>1. /\ closer = "cancel" /\ closer' = closer
        /\ Cardinality(todo') = Cardinality(todo) - 1
    BY <1>0, <1>2, Counting DEF CancelOne
  <2> QED
    BY <1>1, <2>1 DEF ToClose
<1>3. CASE CancelEnd
  BY <1>1, <1>3 DEF CancelEnd, ToClose
<1>4. CASE Wait \/ WaitReturns
  BY <1>1, <1>4 DEF Wait, WaitReturns, ToClose
<1>5. CASE CloseBegin
  <2>1. /\ closer = "relock" /\ closer' = "close" /\ clients' = clients
    BY <1>5 DEF CloseBegin, mapVars
  <2> QED
    BY <1>1, <2>1 DEF ToClose
<1>6. ASSUME NEW c \in Conns, CloseOne(c) PROVE ToClose' < ToClose
  <2>1. /\ closer = "close" /\ closer' = closer
        /\ Cardinality(clients') = Cardinality(clients) - 1
    BY <1>0, <1>6, Counting DEF CloseOne
  <2> QED
    BY <1>1, <2>1 DEF ToClose
<1>7. CASE CloseEnd
  BY <1>1, <1>7 DEF CloseEnd, ToClose
<1>8. ASSUME UNCHANGED <<closer, todo>>, closer = "close" => clients' = clients
      PROVE  UNCHANGED <<closer, todo, ToClose>>
  BY <1>8 DEF ToClose
<1>9. ASSUME NEW c \in Conns, HandlerStep(c) \/ WriterStep(c) \/ ReaderStep(c)
      PROVE  UNCHANGED <<closer, todo, ToClose>> \/ ToClose' < ToClose
  <2>1. closer = "close" => clients' = clients
    BY <1>9 DEF HandlerStep, WriterStep, ReaderStep, Register, CountConnection,
                AddToWaitGroup, StartWriter, StartReader, WriterFails,
                WriterSeesCancel, WriterSendsClose, WriterDone, ReaderStart,
                ReaderCheck, ReaderFails, ReaderCloseFrame, ReaderCancel,
                ReaderRemove, ReaderClose, MuFree, mapVars
  <2>2. \/ UNCHANGED <<closer, todo>>
        \/ closer = "asleep" /\ closer' = "woken"
    BY <1>9, OthersLeaveCloser
  <2>3. CASE closer = "asleep" /\ closer' = "woken"
    BY <1>1, <2>3 DEF ToClose
  <2> QED
    BY <1>8, <2>1, <2>2, <2>3
<1>10. CASE Environment
  BY <1>8, <1>10 DEF Environment, CancelBegin, Upgrade, UpgradeFails,
                     ReaderMessage, PeerGoes, mapVars
<1>11. CASE UNCHANGED vars
  BY <1>8, <1>11 DEF vars, mapVars
<1> QED
  BY <1>2, <1>3, <1>4, <1>5, <1>6, <1>7, <1>9, <1>10, <1>11 DEF Next, CloserStep

\* The pumps of a gone peer only move towards their ends.
LEMMA PumpsWindDown ==
  ASSUME IInv, [Next]_vars, NEW c \in Conns, handler[c] = "returned",
         peer[c] # "up"
  PROVE  /\ UNCHANGED <<handler[c], peer[c]>>
         /\ writer'[c] = writer[c] \/ WriterLeft(c)' < WriterLeft(c)
         /\ reader'[c] = reader[c] \/ ReaderLeft(c)' < ReaderLeft(c)
<1>0. TypeInv
  BY DEF IInv, Shape
<1> USE DEF pumpVars, netVars
<1>1. UNCHANGED <<handler[c], peer[c]>>
  <2>1. ASSUME NEW d \in Conns, HandlerStep(d)
        PROVE  d # c /\ handler'[c] = handler[c] /\ peer' = peer
    BY <1>0, <2>1 DEF HandlerStep, Register, CountConnection, AddToWaitGroup,
                      StartWriter, StartReader, HandlerMoves, TypeInv
  <2>2. ASSUME NEW d \in Conns, Upgrade(d) \/ UpgradeFails(d)
        PROVE  handler'[c] = handler[c] /\ peer' = peer
    BY <1>0, <2>2 DEF Upgrade, UpgradeFails, HandlerMoves, TypeInv
  <2>3. ASSUME NEW d \in Conns, NEW how \in Departures, PeerGoes(d, how)
        PROVE  handler' = handler /\ peer'[c] = peer[c]
    BY <1>0, <2>3 DEF PeerGoes, TypeInv
  <2>4. ASSUME NEW d \in Conns, WriterStep(d) PROVE UNCHANGED <<handler, peer>>
    BY <2>4 DEF WriterStep, WriterFails, WriterSeesCancel, WriterSendsClose,
                WriterDone
  <2>5. ASSUME NEW d \in Conns, ReaderStep(d) \/ ReaderMessage(d)
        PROVE  UNCHANGED <<handler, peer>>
    BY <2>5 DEF ReaderStep, ReaderStart, ReaderCheck, ReaderFails, ReaderMessage,
                ReaderCloseFrame, ReaderCancel, ReaderRemove, ReaderClose
  <2>6. CASE CloserStep \/ CancelBegin \/ UNCHANGED vars
    BY <2>6 DEF CloserStep, CancelBegin, CancelOne, CancelEnd, Wait, WaitReturns,
                CloseBegin, CloseOne, CloseEnd, vars
  <2> QED
    BY <2>1, <2>2, <2>3, <2>4, <2>5, <2>6 DEF Next, Environment
<1>2. writer'[c] = writer[c] \/ WriterLeft(c)' < WriterLeft(c)
  <2>1. ASSUME NEW d \in Conns, WriterStep(d)
        PROVE  writer'[c] = writer[c] \/ WriterLeft(c)' < WriterLeft(c)
    BY <1>0, <2>1 DEF WriterStep, WriterFails, WriterSeesCancel,
                      WriterSendsClose, WriterDone, WriterMoves, WriterLeft,
                      TypeInv
  <2>2. ASSUME NEW d \in Conns, HandlerStep(d) PROVE writer'[c] = writer[c]
    BY <1>0, <2>2 DEF HandlerStep, Register, CountConnection, AddToWaitGroup,
                      StartWriter, StartReader, HandlerMoves, TypeInv
  <2>3. ASSUME NEW d \in Conns, ReaderStep(d) PROVE UNCHANGED writer
    BY <2>3 DEF ReaderStep, ReaderStart, ReaderCheck, ReaderFails,
                ReaderCloseFrame, ReaderCancel, ReaderRemove, ReaderClose
  <2>4. CASE CloserStep \/ Environment \/ UNCHANGED vars
    BY <2>4 DEF CloserStep, Environment, CancelBegin, CancelOne, CancelEnd, Wait,
                WaitReturns, CloseBegin, CloseOne, CloseEnd, Upgrade,
                UpgradeFails, ReaderMessage, PeerGoes, vars
  <2> QED
    BY <2>1, <2>2, <2>3, <2>4 DEF Next
<1>3. reader'[c] = reader[c] \/ ReaderLeft(c)' < ReaderLeft(c)
  <2>1. ASSUME NEW d \in Conns, ReaderStep(d) \/ ReaderMessage(d)
        PROVE  reader'[c] = reader[c] \/ ReaderLeft(c)' < ReaderLeft(c)
    <3>1. CASE ReaderStart(d) \/ ReaderCheck(d)
      BY <1>0, <3>1 DEF ReaderStart, ReaderCheck, ReaderMoves, ReaderLeft, TypeInv
    <3>2. CASE ReaderFails(d) \/ ReaderCloseFrame(d)
      BY <1>0, <3>2 DEF ReaderFails, ReaderCloseFrame, ReaderMoves, ReaderLeft,
                        TypeInv
    <3>3. CASE ReaderCancel(d) \/ ReaderRemove(d) \/ ReaderClose(d)
      BY <1>0, <3>3 DEF ReaderCancel, ReaderRemove, ReaderClose, ReaderMoves,
                        ReaderLeft, TypeInv
    <3>4. CASE ReaderMessage(d)
      BY <1>0, <3>4 DEF ReaderMessage, ReaderMoves, TypeInv
    <3> QED
      BY <2>1, <3>1, <3>2, <3>3, <3>4 DEF ReaderStep
  <2>2. ASSUME NEW d \in Conns, HandlerStep(d) PROVE reader'[c] = reader[c]
    BY <1>0, <2>2 DEF HandlerStep, Register, CountConnection, AddToWaitGroup,
                      StartWriter, StartReader, HandlerMoves, TypeInv
  <2>3. ASSUME NEW d \in Conns, WriterStep(d) PROVE UNCHANGED reader
    BY <2>3 DEF WriterStep, WriterFails, WriterSeesCancel, WriterSendsClose,
                WriterDone
  <2>4. CASE CloserStep \/ CancelBegin \/ UNCHANGED vars
    BY <2>4 DEF CloserStep, CancelBegin, CancelOne, CancelEnd, Wait, WaitReturns,
                CloseBegin, CloseOne, CloseEnd, vars
  <2>5. ASSUME NEW d \in Conns,
               Upgrade(d) \/ UpgradeFails(d) \/ \E how \in Departures : PeerGoes(d, how)
        PROVE  UNCHANGED reader
    BY <2>5 DEF Upgrade, UpgradeFails, PeerGoes
  <2> QED
    BY <2>1, <2>2, <2>3, <2>4, <2>5 DEF Next, Environment
<1> QED
  BY <1>1, <1>2, <1>3

\* Every step of a shutdown and of the pumps of a gone peer brings the end
\* nearer; together with SleeperWoken and GoneLetGo, the hub never gets stuck.
THEOREM HubProgress == Spec => HubGoesOn
<1>1. IInv /\ [Next]_vars =>
        [/\ closer # "idle" =>
              \/ UNCHANGED <<closer, todo, ToClose>>
              \/ ToClose' < ToClose
         /\ \A c \in Conns : handler[c] = "returned" /\ peer[c] # "up" =>
              /\ UNCHANGED <<handler[c], peer[c]>>
              /\ writer'[c] = writer[c] \/ WriterLeft(c)' < WriterLeft(c)
              /\ reader'[c] = reader[c] \/ ReaderLeft(c)' < ReaderLeft(c)]_vars
  BY CloserWindsDown, PumpsWindDown
<1>2. Spec => WindsDown
  BY <1>1, Invariance, PTL DEF Spec, WindsDown
<1> QED
  BY <1>2, SleeperWoken, GoneLetGo, PTL DEF HubGoesOn

-----------------------------------------------------------------------------
(* The panic *)

\* What is known from the moment the closer is woken: the connections it covers
\* have no writePump left, so whatever the counter holds is for others.
Woken ==
  /\ closer \in {"woken", "panicked"} => \A c \in covered : writer[c] = "done"
  /\ closer = "panicked" => wg # 0

\* The last writePump wakes the closer.
LEMMA LastWriter ==
  ASSUME IInv, NEW c \in Conns, WriterDone(c), wg = 1, NEW d \in covered
  PROVE  writer'[d] = "done"
<1>1. Writing \subseteq Conns /\ IsFiniteSet(Writing)
  BY ConnsAssumption, FS_Subset DEF Writing
<1>2. c \in Writing
  BY DEF IInv, Shape, PumpsFollowHandler, WriterDone, WriterMoves, Writing, Added
<1>3. Cardinality(Writing \ {c}) = 0
  <2>1. Cardinality(Writing) = 1
    BY DEF IInv, WaitGroupMatchesWriters
  <2>2. Cardinality(Writing \ {c}) = Cardinality(Writing) - 1
    BY <1>1, <1>2, FS_RemoveElement
  <2>3. QED
    BY <2>1, <2>2
<1>4. Writing \ {c} = {}
  <2>1. IsFiniteSet(Writing \ {c})
    BY <1>1, FS_Subset
  <2>2. QED
    BY <1>3, <2>1, FS_EmptySet
<1>5. d = c \/ writer[d] = "done"
  BY <1>4 DEF IInv, Shape, TypeInv, PumpsFollowHandler, Writing
<1>6. QED
  BY <1>5 DEF WriterDone, WriterMoves, IInv, Shape, TypeInv

LEMMA WokenStep == IInv /\ Woken /\ [Next]_vars => Woken'
<1> SUFFICES ASSUME IInv, Woken, [Next]_vars PROVE Woken'
  OBVIOUS
<1> USE DEF Woken, IInv, Shape, TypeInv, Running, HandlerMoves, WriterMoves,
            ReaderMoves, CloserMoves, pumpVars, netVars, mapVars, closerVars
<1>1. CASE CloserStep
  BY <1>1 DEF CloserStep, CancelOne, CancelEnd, Wait, WaitReturns, CloseBegin,
     CloseOne, CloseEnd
<1>2. CASE CancelBegin
  BY <1>2 DEF CancelBegin
<1>3. ASSUME NEW c \in Conns, HandlerStep(c) PROVE Woken'
  <2>1. CASE StartWriter(c)
    <3>1. writer[c] = "off"
      BY <2>1 DEF StartWriter, PumpsFollowHandler
    <3>2. QED
      BY <2>1, <3>1 DEF StartWriter
  <2>2. CASE ~StartWriter(c)
    BY <1>3, <2>2 DEF HandlerStep, Register, CountConnection, AddToWaitGroup, StartReader
  <2>3. QED
    BY <2>1, <2>2
<1>4. ASSUME NEW c \in Conns, WriterStep(c) PROVE Woken'
  <2>1. CASE WriterDone(c)
    <3>1. closer' \in {"woken", "panicked"} => \A d \in covered : writer'[d] = "done"
      <4>1. CASE wg = 1 /\ closer = "asleep"
        BY <2>1, <4>1, LastWriter
      <4>2. CASE ~(wg = 1 /\ closer = "asleep")
        BY <2>1, <4>2 DEF WriterDone
      <4>3. QED
        BY <4>1, <4>2
    <3>2. covered' = covered /\ closer' # "panicked"
      BY <2>1 DEF WriterDone
    <3>3. QED
      BY <3>1, <3>2
  <2>2. CASE ~WriterDone(c)
    BY <1>4, <2>2 DEF WriterStep, WriterFails, WriterSeesCancel, WriterSendsClose
  <2>3. QED
    BY <2>1, <2>2
<1>5. ASSUME NEW c \in Conns, ReaderStep(c) PROVE Woken'
  BY <1>5 DEF ReaderStep, ReaderStart, ReaderCheck, ReaderFails, ReaderCloseFrame,
     ReaderCancel, ReaderRemove, ReaderClose
<1>6. ASSUME NEW c \in Conns,
             \/ Upgrade(c) \/ UpgradeFails(c) \/ ReaderMessage(c)
             \/ \E how \in Departures : PeerGoes(c, how)
      PROVE  Woken'
  BY <1>6 DEF Upgrade, UpgradeFails, ReaderMessage, PeerGoes
<1>7. CASE UNCHANGED vars
  BY <1>7 DEF vars
<1>8. QED
  BY <1>1, <1>2, <1>3, <1>4, <1>5, <1>6, <1>7 DEF Next, Environment

\* With no Add while the closer is being woken, the counter is still zero.
LEMMA StillZero ==
  ASSUME IInv, closer = "woken" => wg = 0, closer # "panicked", [Next]_vars,
         closer = "woken" => wg' <= wg, WaitGroupMatchesWriters'
  PROVE  (closer' = "woken" => wg' = 0) /\ closer' # "panicked"
<1>1. wg \in Nat /\ wg' \in Nat
  <2>1. IsFiniteSet(Writing) /\ IsFiniteSet(Writing')
    BY ConnsAssumption, FS_Subset DEF Writing
  <2>2. QED
    BY <2>1, FS_CardinalityType DEF IInv, WaitGroupMatchesWriters
<1> USE DEF CloserMoves, pumpVars, netVars, mapVars, closerVars
<1>2. CASE \E c \in Conns : WriterDone(c)
  BY <1>1, <1>2 DEF WriterDone
<1>3. CASE WaitReturns
  BY <1>3 DEF WaitReturns
<1>4. CASE ~WaitReturns /\ \A c \in Conns : ~WriterDone(c)
  <2>1. closer' = closer \/ closer' \notin {"woken", "panicked"}
    <3>1. CASE CloserStep \/ CancelBegin
      BY <1>4, <3>1 DEF CloserStep, CancelBegin, CancelOne, CancelEnd, Wait, CloseBegin,
         CloseOne, CloseEnd
    <3>2. ASSUME NEW c \in Conns, HandlerStep(c) \/ WriterStep(c) \/ ReaderStep(c)
          PROVE  closer' = closer
      BY <1>4, <3>2 DEF HandlerStep, Register, CountConnection, AddToWaitGroup,
         StartWriter, StartReader, WriterStep, WriterFails, WriterSeesCancel,
         WriterSendsClose, ReaderStep, ReaderStart, ReaderCheck, ReaderFails,
         ReaderCloseFrame, ReaderCancel, ReaderRemove, ReaderClose
    <3>3. ASSUME NEW c \in Conns,
                 \/ Upgrade(c) \/ UpgradeFails(c) \/ ReaderMessage(c)
                 \/ \E how \in Departures : PeerGoes(c, how)
          PROVE  closer' = closer
      BY <3>3 DEF Upgrade, UpgradeFails, ReaderMessage, PeerGoes
    <3>4. QED
      BY <3>1, <3>2, <3>3 DEF Next, Environment, vars
  <2>2. QED
    BY <1>1, <2>1
<1>5. QED
  BY <1>2, <1>3, <1>4

\* The wait group panics only over connections that are announced late, and only
\* when one is announced just while Wait is being woken: what remains true of
\* NoPanic.
THEOREM PanicIsLate == Spec => PanicNeedsLateAdd
<1>1. Init => Woken
  BY DEF Init, Woken
<1>2. Spec => [](IInv /\ Woken)
  BY <1>1, Invariance, WokenStep, PTL DEF Spec
<1>3. IInv /\ Woken => OnlyLatePanic
  <2> SUFFICES ASSUME IInv, Woken, closer = "panicked" PROVE Writing \ covered # {}
    BY DEF OnlyLatePanic
  <2>1. Writing # {}
    BY FS_EmptySet DEF IInv, Woken, WaitGroupMatchesWriters
  <2>2. Writing \cap covered = {}
    BY DEF Woken, Writing
  <2>3. QED
    BY <2>1, <2>2
<1> DEFINE Zero == (closer = "woken" => wg = 0) /\ closer # "panicked"
<1>4. Init => Zero
  BY DEF Init
<1>5. IInv /\ Zero /\ [Next]_vars /\ [closer = "woken" => wg' <= wg]_vars /\ IInv'
        => Zero'
  <2> SUFFICES ASSUME IInv, Zero, [Next]_vars, IInv',
                      [closer = "woken" => wg' <= wg]_vars
               PROVE  Zero'
    OBVIOUS
  <2>1. CASE UNCHANGED vars
    BY <2>1 DEF vars, closerVars
  <2>2. CASE closer = "woken" => wg' <= wg
    BY <2>2, StillZero DEF IInv
  <2>3. QED
    BY <2>1, <2>2
<1>6. Zero => NoPanic
  BY DEF NoPanic
<1>7. Spec /\ NoAddOnWake => []NoPanic
  BY <1>4, <1>5, <1>6, Invariance, PTL DEF Spec, NoAddOnWake
<1>8. QED
  BY <1>2, <1>3, <1>7, PTL DEF PanicNeedsLateAdd
=============================================================================
