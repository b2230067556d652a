------------------------- MODULE MemoryStoreProofs --------------------------
(***************************************************************************)
(* Proofs about MemoryStore, for any sets of goroutines, identifiers and   *)
(* contents and any bound on the clock.                                    *)
(*                                                                         *)
(* TypeOK and LockInv (who is where follows from the state of the lock)    *)
(* are inductive by themselves.  OpInv ties the place of a goroutine to    *)
(* its request, DataInv what it has copied to the map: both need the lock, *)
(* since only a goroutine alone in its section writes the map.             *)
(***************************************************************************)
EXTENDS MemoryStore, FiniteSetTheorems, TLAPS

LockInv ==
  \A p \in Procs :
    /\ pc[p] \in ReadSection <=> p \in readers
    /\ pc[p] \in {"drain"} \cup WriteSection <=> pending = p
    /\ pc[p] \in WriteSection => readers = {}

\* Requests as they reach each place of an operation.
OpInv ==
  \A p \in Procs :
    /\ pc[p] = "idle" => req[p] = NoRequest /\ ~canceled[p]
    /\ pc[p] # "idle" => req[p] \in Request
    /\ pc[p] \notin {"idle", "entry", "answered"} =>
         ArgumentError(req[p]) = "nil"
    /\ pc[p] \in {"rlock", "rwait", "read"} => req[p].op \in {"list", "get"}
    /\ pc[p] = "copy" => req[p].op = "list"
    /\ pc[p] \in {"lock", "drain"} => req[p].op \in {"create", "update", "delete"}
    /\ pc[p] = "look" => req[p].op \in {"update", "delete"}
    /\ pc[p] = "write" => req[p].op \in {"create", "update", "delete"}

\* An item is stored under its own identifier, which has been issued, and its
\* times are in the past and in order.
ItemsInv ==
  \A i \in Ids :
    items[i] # NoItem => /\ items[i].id = i /\ i \in issued
                         /\ items[i].created <= items[i].updated
                         /\ items[i].updated <= now

\* What List has copied and what it has still to visit make up the map.
CopyInv ==
  \A p \in Procs :
    /\ pc[p] \in {"entry", "rlock", "rwait", "read"} => got[p] = {}
    /\ pc[p] = "idle" => got[p] = {}
    /\ pc[p] = "copy" =>
         /\ todo[p] \subseteq Live(items)
         /\ got[p] \cup {items[i] : i \in todo[p]} = Stored(items)

DataInv == ItemsInv /\ CopyInv /\ LookedUpIsCurrent

IInv == TypeOK /\ LockInv /\ OpInv /\ DataInv

-----------------------------------------------------------------------------
(* The arguments of a request that reached the lock *)

LEMMA RequestArguments ==
  ASSUME NEW r \in Request, ArgumentError(r) = "nil"
  PROVE  /\ r.op \in {"list", "get", "create", "update", "delete"}
         /\ r.op \in {"get", "update", "delete"} => r.id \in Ids
         /\ r.op \in {"create", "update"} => r.content \in Contents
  BY DEF Request, ArgumentError

LEMMA ItemsMade ==
  ASSUME NEW i \in Ids, NEW c \in Contents, NEW t \in Time, NEW old \in Item
  PROVE  NewItem(i, c, t) \in Item /\ Revised(old, c, t) \in Item
  BY DEF NewItem, Revised, Item

LEMMA RepliesMade ==
  ASSUME NEW S \in SUBSET Item, NEW e \in Error
  PROVE  Success(S) \in Reply /\ Failure(e) \in Reply /\ NoReply \in Reply
  BY DEF Success, Failure, NoReply, Reply, Error

-----------------------------------------------------------------------------
LEMMA InitIInv == Init => IInv
<1> SUFFICES ASSUME Init PROVE IInv
  OBVIOUS
<1>1. TypeOK
  BY RepliesMade, ItemsAssumption DEF Init, TypeOK, ItemMap, Time, PC, Error
<1>2. LockInv /\ OpInv /\ DataInv
  BY NoProcAssumption
  DEF Init, LockInv, OpInv, DataInv, ItemsInv, CopyInv, LookedUpIsCurrent,
      ReadSection, WriteSection
<1> QED
  BY <1>1, <1>2 DEF IInv

LEMMA TypeStep == IInv /\ [Next]_vars => TypeOK'
<1> SUFFICES ASSUME IInv, [Next]_vars PROVE TypeOK'
  OBVIOUS
<1> USE DEF IInv, TypeOK, Goes, Answers, callVars, lockVars, copyVars
<1>1. CASE Tick
  BY <1>1, ItemsAssumption DEF Tick, Time
<1>2. ASSUME NEW p \in Procs, NEW r \in Calls, Call(p, r) PROVE TypeOK'
  BY <1>2, CallsAssumption DEF Call, PC
<1>3. ASSUME NEW p \in Procs, Cancel(p) PROVE TypeOK'
  BY <1>3 DEF Cancel
<1>4. ASSUME NEW p \in Procs, LockAnnounces(p) PROVE TypeOK'
  BY <1>4 DEF LockAnnounces, PC
<1>5. ASSUME NEW p \in Procs, Runs(p) PROVE TypeOK'
  <2>1. CASE Refuse(p)
    <3>1. ArgumentError(req[p]) \in Error
      BY DEF ArgumentError, Error
    <3> QED
      BY <2>1, <3>1, RepliesMade DEF Refuse, PC, Error
  <2>2. CASE Accept(p)
    BY <2>2 DEF Accept, PC
  <2>3. CASE RLock(p) \/ RLockQueues(p) \/ RUnlock(p)
    BY <2>3 DEF RLock, RLockQueues, RUnlock, PC, ReadSection
  <2>4. CASE Lock(p)
    BY <2>4 DEF Lock, PC, WriteSection
  <2>5. CASE Unlock(p)
    BY <2>5 DEF Unlock, PC, ReadSection
  <2>6. CASE Get(p)
    <3>1. items[req[p].id] # NoItem => items[req[p].id] \in Item
      BY <2>6, RequestArguments DEF Get, OpInv, ItemMap
    <3> QED
      BY <2>6, <3>1, RepliesMade DEF Get, PC, ReadSection, Error
  <2>7. CASE ListBegin(p)
    BY <2>7 DEF ListBegin, PC, ReadSection, Live
  <2>8. ASSUME NEW i \in Ids, ListCopy(p, i) PROVE TypeOK'
    <3>1. items[i] \in Item
      BY <2>8 DEF ListCopy, ItemMap, DataInv, CopyInv, Live
    <3> QED
      BY <2>8, <3>1 DEF ListCopy
  <2>9. CASE ListEnd(p)
    BY <2>9, RepliesMade DEF ListEnd, PC, ReadSection, Error
  <2>10. CASE Create(p)
    <3>1. req[p].content \in Contents
      BY <2>10, RequestArguments DEF Create, OpInv
    <3>2. PICK i \in Ids \ issued :
            /\ items' = [items EXCEPT ![i] = NewItem(i, req[p].content, now)]
            /\ issued' = issued \cup {i}
            /\ reply' = [reply EXCEPT ![p] =
                            Success({NewItem(i, req[p].content, now)})]
      BY <2>10 DEF Create
    <3>3. NewItem(i, req[p].content, now) \in Item
      BY <3>1 DEF NewItem, Item
    <3>4. Success({NewItem(i, req[p].content, now)}) \in Reply
      BY <3>3, RepliesMade DEF Error
    <3> QED
      BY <2>10, <3>2, <3>3, <3>4 DEF Create, PC, WriteSection, ItemMap
  <2>11. CASE LookMisses(p)
    BY <2>11, RepliesMade DEF LookMisses, PC, WriteSection, Error
  <2>12. CASE LookHits(p)
    <3>1. items[req[p].id] \in Item
      BY <2>12, RequestArguments DEF LookHits, OpInv, ItemMap
    <3> QED
      BY <2>12, <3>1 DEF LookHits, PC, WriteSection
  <2>13. CASE Update(p)
    <3>1. req[p].content \in Contents /\ req[p].id \in Ids
      BY <2>13, RequestArguments DEF Update, OpInv
    <3>2. PICK existing \in got[p] :
            LET new == Revised(existing, req[p].content, now)
            IN  /\ items' = [items EXCEPT ![req[p].id] = new]
                /\ reply' = [reply EXCEPT ![p] = Success({new})]
      BY <2>13 DEF Update
    <3>3. Revised(existing, req[p].content, now) \in Item
      BY <3>1 DEF Revised, Item
    <3>4. Success({Revised(existing, req[p].content, now)}) \in Reply
      BY <3>3, RepliesMade DEF Error
    <3> QED
      BY <2>13, <3>1, <3>2, <3>3, <3>4 DEF Update, PC, WriteSection, ItemMap
  <2>14. CASE Delete(p)
    <3>1. req[p].id \in Ids
      BY <2>14, RequestArguments DEF Delete, OpInv
    <3> QED
      BY <2>14, <3>1, RepliesMade DEF Delete, PC, WriteSection, ItemMap, Error
  <2>15. CASE Return(p)
    BY <2>15, RepliesMade DEF Return, PC, Error
  <2> QED
    BY <1>5, <2>1, <2>2, <2>3, <2>4, <2>5, <2>6, <2>7, <2>8, <2>9, <2>10, <2>11,
       <2>12, <2>13, <2>14, <2>15 DEF Runs
<1>6. CASE UNCHANGED vars
  BY <1>6 DEF vars
<1> QED
  BY <1>1, <1>2, <1>3, <1>4, <1>5, <1>6 DEF Next

-----------------------------------------------------------------------------
\* Only the steps of sync.RWMutex change who is in a section.
LEMMA LockStep == IInv /\ [Next]_vars => LockInv'
<1> SUFFICES ASSUME IInv, [Next]_vars PROVE LockInv'
  OBVIOUS
<1> USE DEF IInv, TypeOK, LockInv, ReadSection, WriteSection, PC, Goes, Answers,
            callVars, lockVars, copyVars
<1>1. CASE Tick
  BY <1>1 DEF Tick
<1>2. ASSUME NEW p \in Procs, NEW r \in Calls, Call(p, r) PROVE LockInv'
  BY <1>2 DEF Call
<1>3. ASSUME NEW p \in Procs, Cancel(p) PROVE LockInv'
  BY <1>3 DEF Cancel
<1>4. ASSUME NEW p \in Procs, LockAnnounces(p) PROVE LockInv'
  BY <1>4, NoProcAssumption DEF LockAnnounces
<1>5. ASSUME NEW p \in Procs, Runs(p) PROVE LockInv'
  <2>1. CASE Refuse(p) \/ Accept(p)
    BY <2>1 DEF Refuse, Accept
  <2>2. CASE RLock(p)
    BY <2>2, NoProcAssumption DEF RLock
  <2>3. CASE RLockQueues(p)
    BY <2>3 DEF RLockQueues
  <2>4. CASE RUnlock(p)
    BY <2>4 DEF RUnlock
  <2>5. CASE Lock(p)
    BY <2>5 DEF Lock
  <2>6. CASE Unlock(p)
    BY <2>6, NoProcAssumption DEF Unlock
  <2>7. CASE Get(p) \/ ListBegin(p) \/ ListEnd(p)
    BY <2>7 DEF Get, ListBegin, ListEnd
  <2>8. ASSUME NEW i \in Ids, ListCopy(p, i) PROVE LockInv'
    BY <2>8 DEF ListCopy
  <2>9. CASE Create(p)
    BY <2>9 DEF Create
  <2>10. CASE LookMisses(p) \/ LookHits(p)
    BY <2>10 DEF LookMisses, LookHits
  <2>11. CASE Update(p)
    BY <2>11 DEF Update
  <2>12. CASE Delete(p)
    BY <2>12 DEF Delete
  <2>13. CASE Return(p)
    BY <2>13 DEF Return
  <2> QED
    BY <1>5, <2>1, <2>2, <2>3, <2>4, <2>5, <2>6, <2>7, <2>8, <2>9, <2>10, <2>11,
       <2>12, <2>13 DEF Runs
<1>6. CASE UNCHANGED vars
  BY <1>6 DEF vars
<1> QED
  BY <1>1, <1>2, <1>3, <1>4, <1>5, <1>6 DEF Next

LEMMA OpStep == IInv /\ [Next]_vars => OpInv'
<1> SUFFICES ASSUME IInv, [Next]_vars PROVE OpInv'
  OBVIOUS
<1> USE DEF IInv, TypeOK, OpInv, ReadSection, WriteSection, PC, Goes, Answers,
            callVars, lockVars, copyVars
<1>1. CASE Tick
  BY <1>1 DEF Tick
<1>2. ASSUME NEW p \in Procs, NEW r \in Calls, Call(p, r) PROVE OpInv'
  BY <1>2, CallsAssumption DEF Call
<1>3. ASSUME NEW p \in Procs, Cancel(p) PROVE OpInv'
  BY <1>3 DEF Cancel
<1>4. ASSUME NEW p \in Procs, LockAnnounces(p) PROVE OpInv'
  BY <1>4 DEF LockAnnounces
<1>5. ASSUME NEW p \in Procs, Runs(p) PROVE OpInv'
  <2>1. CASE Refuse(p)
    BY <2>1 DEF Refuse
  <2>2. CASE Accept(p)
    BY <2>2, RequestArguments DEF Accept
  <2>3. CASE RLock(p) \/ RLockQueues(p) \/ RUnlock(p)
    BY <2>3 DEF RLock, RLockQueues, RUnlock
  <2>4. CASE Lock(p)
    BY <2>4 DEF Lock
  <2>5. CASE Unlock(p)
    BY <2>5 DEF Unlock
  <2>6. CASE Get(p) \/ ListBegin(p) \/ ListEnd(p)
    BY <2>6 DEF Get, ListBegin, ListEnd
  <2>7. ASSUME NEW i \in Ids, ListCopy(p, i) PROVE OpInv'
    BY <2>7 DEF ListCopy
  <2>8. CASE Create(p)
    BY <2>8 DEF Create
  <2>9. CASE LookMisses(p) \/ LookHits(p)
    BY <2>9 DEF LookMisses, LookHits
  <2>10. CASE Update(p)
    BY <2>10 DEF Update
  <2>11. CASE Delete(p)
    BY <2>11 DEF Delete
  <2>12. CASE Return(p)
    BY <2>12 DEF Return
  <2> QED
    BY <1>5, <2>1, <2>2, <2>3, <2>4, <2>5, <2>6, <2>7, <2>8, <2>9, <2>10, <2>11,
       <2>12 DEF Runs
<1>6. CASE UNCHANGED vars
  BY <1>6 DEF vars
<1> QED
  BY <1>1, <1>2, <1>3, <1>4, <1>5, <1>6 DEF Next

-----------------------------------------------------------------------------
\* A goroutine in the writing part is alone with the map.
LEMMA WriterIsAlone ==
  ASSUME IInv, NEW p \in Procs, pc[p] \in WriteSection,
         NEW q \in Procs, q # p
  PROVE  pc[q] \notin ReadSection \cup WriteSection
  BY DEF IInv, LockInv

\* A step that leaves the map and the copies alone and moves p to a place of
\* which DataInv asks nothing.
LEMMA DataKept ==
  ASSUME IInv, UNCHANGED <<items, issued, now, req, got, todo>>,
         NEW p \in Procs, \A q \in Procs \ {p} : pc'[q] = pc[q],
         \/ pc'[p] \in {"lock", "drain", "look", "runlock", "unlock", "answered"}
         \/ pc'[p] \in {"rlock", "rwait", "read"} /\ got[p] = {}
         \/ pc'[p] = "write" /\ req[p].op = "create"
         \/ pc'[p] = pc[p]
  PROVE  DataInv'
<1>1. ItemsInv'
  BY DEF IInv, DataInv, ItemsInv
<1>2. CopyInv'
  BY DEF IInv, DataInv, CopyInv, Live, Stored
<1>3. LookedUpIsCurrent'
  BY DEF IInv, DataInv, LookedUpIsCurrent
<1> QED
  BY <1>1, <1>2, <1>3 DEF DataInv

\* A write by p: nobody else is in a section, so nobody holds copies of the
\* map, and the new value under one key is all ItemsInv has to hear of.
LEMMA DataWritten ==
  ASSUME IInv, TypeOK', NEW p \in Procs, pc[p] = "write",
         pc' = [pc EXCEPT ![p] = "unlock"],
         UNCHANGED <<now, req, got, todo>>,
         NEW i \in Ids, NEW v,
         items' = [items EXCEPT ![i] = v],
         issued \subseteq issued',
         v # NoItem => /\ v.id = i /\ i \in issued'
                       /\ v.created <= v.updated /\ v.updated <= now
  PROVE  DataInv'
<1>1. ItemsInv'
  BY DEF IInv, DataInv, ItemsInv, TypeOK, ItemMap
<1>2. \A q \in Procs : pc'[q] \notin {"copy", "write", "look"}
  BY WriterIsAlone DEF IInv, TypeOK, ReadSection, WriteSection, PC
<1>3. CopyInv' /\ LookedUpIsCurrent'
  BY <1>2 DEF IInv, TypeOK, DataInv, CopyInv, LookedUpIsCurrent
<1> QED
  BY <1>1, <1>3 DEF DataInv

LEMMA DataStep == IInv /\ [Next]_vars => DataInv'
<1> SUFFICES ASSUME IInv, [Next]_vars PROVE DataInv'
  OBVIOUS
<1>0. TypeOK'
  BY TypeStep
<1> USE DEF Goes, Answers, callVars, lockVars, copyVars
<1>1. CASE Tick
  BY <1>1 DEF Tick, IInv, TypeOK, Time, ItemMap, Item, DataInv, ItemsInv, CopyInv,
              LookedUpIsCurrent, Live, Stored
<1>2. ASSUME NEW p \in Procs, NEW r \in Calls, Call(p, r) PROVE DataInv'
  <2>1. got[p] = {}
    BY <1>2 DEF Call, IInv, DataInv, CopyInv
  <2>2. pc'[p] = "entry" /\ \A q \in Procs \ {p} : UNCHANGED <<pc[q], req[q]>>
    BY <1>2 DEF Call, IInv, TypeOK
  <2>3. ItemsInv'
    BY <1>2 DEF Call, IInv, DataInv, ItemsInv
  <2>4. CopyInv'
    BY <1>2, <2>1, <2>2 DEF Call, IInv, DataInv, CopyInv, Live, Stored
  <2>5. LookedUpIsCurrent'
    BY <1>2, <2>2 DEF Call, IInv, DataInv, LookedUpIsCurrent
  <2> QED
    BY <2>3, <2>4, <2>5 DEF DataInv
<1>3. ASSUME NEW p \in Procs, Cancel(p) PROVE DataInv'
  BY <1>3, DataKept DEF Cancel
<1>4. ASSUME NEW p \in Procs, LockAnnounces(p) PROVE DataInv'
  <2>1. pc'[p] = "drain" /\ \A q \in Procs \ {p} : pc'[q] = pc[q]
    BY <1>4 DEF LockAnnounces, IInv, TypeOK
  <2> QED
    BY <1>4, <2>1, DataKept DEF LockAnnounces
<1>5. ASSUME NEW p \in Procs, Runs(p) PROVE DataInv'
  <2>1. CASE Refuse(p)
    <3>1. pc'[p] = "answered" /\ \A q \in Procs \ {p} : pc'[q] = pc[q]
      BY <2>1 DEF Refuse, IInv, TypeOK
    <3> QED
      BY <2>1, <3>1, DataKept DEF Refuse
  <2>2. CASE Accept(p)
    <3>1. got[p] = {}
      BY <2>2 DEF Accept, IInv, DataInv, CopyInv
    <3>2. /\ pc'[p] \in {"rlock", "lock"}
          /\ \A q \in Procs \ {p} : pc'[q] = pc[q]
      BY <2>2 DEF Accept, IInv, TypeOK
    <3> QED
      BY <2>2, <3>1, <3>2, DataKept DEF Accept
  <2>3. CASE RLock(p) \/ RLockQueues(p)
    <3>1. got[p] = {}
      BY <2>3 DEF RLock, RLockQueues, IInv, DataInv, CopyInv
    <3>2. /\ pc'[p] \in {"read", "rwait"}
          /\ \A q \in Procs \ {p} : pc'[q] = pc[q]
      BY <2>3 DEF RLock, RLockQueues, IInv, TypeOK
    <3> QED
      BY <2>3, <3>1, <3>2, DataKept DEF RLock, RLockQueues
  <2>4. CASE RUnlock(p)
    <3>1. pc'[p] = "answered" /\ \A q \in Procs \ {p} : pc'[q] = pc[q]
      BY <2>4 DEF RUnlock, IInv, TypeOK
    <3> QED
      BY <2>4, <3>1, DataKept DEF RUnlock
  <2>5. CASE Lock(p)
    <3>1. /\ pc'[p] = "look" \/ (pc'[p] = "write" /\ req[p].op = "create")
          /\ \A q \in Procs \ {p} : pc'[q] = pc[q]
      BY <2>5 DEF Lock, IInv, TypeOK
    <3> QED
      BY <2>5, <3>1, DataKept DEF Lock
  <2>6. CASE Unlock(p)
    <3>1. \A q \in Procs : pc[q] = "rwait" => got[q] = {}
      BY DEF IInv, DataInv, CopyInv
    <3>2. \A q \in Procs :
            \/ pc'[q] = "answered"
            \/ pc'[q] = "read" /\ pc[q] = "rwait"
            \/ pc'[q] = pc[q]
      BY <2>6 DEF Unlock
    <3>3. ItemsInv'
      BY <2>6 DEF Unlock, IInv, DataInv, ItemsInv
    <3>4. CopyInv'
      BY <2>6, <3>1, <3>2 DEF Unlock, IInv, DataInv, CopyInv, Live, Stored
    <3>5. LookedUpIsCurrent'
      BY <2>6, <3>2 DEF Unlock, IInv, DataInv, LookedUpIsCurrent
    <3> QED
      BY <3>3, <3>4, <3>5 DEF DataInv
  <2>7. CASE Get(p) \/ ListEnd(p)
    <3>1. pc'[p] = "runlock" /\ \A q \in Procs \ {p} : pc'[q] = pc[q]
      BY <2>7 DEF Get, ListEnd, IInv, TypeOK
    <3> QED
      BY <2>7, <3>1, DataKept DEF Get, ListEnd
  <2>8. CASE ListBegin(p)
    <3>1. got[p] = {}
      BY <2>8 DEF ListBegin, IInv, DataInv, CopyInv
    <3> QED
      BY <2>8, <3>1 DEF ListBegin, IInv, TypeOK, DataInv, ItemsInv, CopyInv,
                        LookedUpIsCurrent, Live, Stored
  <2>9. ASSUME NEW i \in Ids, ListCopy(p, i) PROVE DataInv'
    <3>2. got' = [got EXCEPT ![p] = @ \cup {items[i]}]
      BY <2>9 DEF ListCopy
    <3>3. got[p] \cup {items[j] : j \in todo[p]} = Stored(items)
      BY <2>9 DEF ListCopy, IInv, DataInv, CopyInv
    <3>4. got'[p] \cup {items[j] : j \in todo'[p]} = Stored(items)
      BY <2>9, <3>2, <3>3 DEF ListCopy, IInv, TypeOK
    <3> QED
      BY <2>9, <3>2, <3>4 DEF ListCopy, IInv, TypeOK, DataInv, ItemsInv, CopyInv,
                              LookedUpIsCurrent, Live, Stored
  <2>10. CASE Create(p)
    <3>1. PICK i \in Ids \ issued :
            /\ items' = [items EXCEPT ![i] = NewItem(i, req[p].content, now)]
            /\ issued' = issued \cup {i}
      BY <2>10 DEF Create
    <3>2. now <= now
      BY DEF IInv, TypeOK, Time
    <3> QED
      BY <1>0, <2>10, <3>1, <3>2, DataWritten DEF Create, NewItem
  <2>11. CASE LookMisses(p)
    <3>1. pc'[p] = "unlock" /\ \A q \in Procs \ {p} : pc'[q] = pc[q]
      BY <2>11 DEF LookMisses, IInv, TypeOK
    <3> QED
      BY <2>11, <3>1, DataKept DEF LookMisses
  <2>12. CASE LookHits(p)
    BY <2>12 DEF LookHits, IInv, TypeOK, DataInv, ItemsInv, CopyInv,
                 LookedUpIsCurrent, Live, Stored
  <2>13. CASE Update(p)
    <3> DEFINE old == items[req[p].id]
               new == Revised(old, req[p].content, now)
    <3>1. got[p] = {old} /\ old # NoItem /\ req[p].id \in Ids
      BY <2>13, RequestArguments
      DEF Update, IInv, OpInv, DataInv, LookedUpIsCurrent
    <3>2. items' = [items EXCEPT ![req[p].id] = new]
      BY <2>13, <3>1 DEF Update
    <3>3. old \in Item /\ now \in Time
      BY <3>1 DEF IInv, TypeOK, ItemMap
    <3>4. /\ old.id = req[p].id /\ req[p].id \in issued
          /\ old.created <= old.updated /\ old.updated <= now
      BY <3>1 DEF IInv, DataInv, ItemsInv
    <3>5. old.created <= now
      BY <3>3, <3>4 DEF Item, Time
    <3>6. /\ new.id = req[p].id
          /\ new.created <= new.updated /\ new.updated <= now
      BY <3>3, <3>4, <3>5 DEF Revised, Time
    <3> HIDE DEF old, new
    <3> QED
      BY <1>0, <2>13, <3>1, <3>2, <3>4, <3>6, DataWritten DEF Update
  <2>14. CASE Delete(p)
    <3>1. req[p].id \in Ids
      BY <2>14, RequestArguments DEF Delete, IInv, OpInv
    <3> QED
      BY <1>0, <2>14, <3>1, DataWritten DEF Delete
  <2>15. CASE Return(p)
    BY <2>15 DEF Return, IInv, TypeOK, DataInv, ItemsInv, CopyInv,
                 LookedUpIsCurrent, Live, Stored
  <2> QED
    BY <1>5, <2>1, <2>2, <2>3, <2>4, <2>5, <2>6, <2>7, <2>8, <2>9, <2>10, <2>11,
       <2>12, <2>13, <2>14, <2>15 DEF Runs
<1>6. CASE UNCHANGED vars
  BY <1>6 DEF vars, IInv, DataInv, ItemsInv, CopyInv, LookedUpIsCurrent, Live, Stored
<1> QED
  BY <1>1, <1>2, <1>3, <1>4, <1>5, <1>6 DEF Next

-----------------------------------------------------------------------------
\* IInv is an invariant of every behaviour of the store.
THEOREM Invariance == Spec => []IInv
<1>1. IInv /\ [Next]_vars => IInv'
  BY TypeStep, LockStep, OpStep, DataStep DEF IInv
<1> QED
  BY InitIInv, <1>1, PTL DEF Spec

\* Type correctness of the store.
THEOREM TypeCorrect == Spec => []TypeOK
<1>1. IInv => TypeOK
  BY DEF IInv
<1> QED
  BY <1>1, Invariance, PTL

\* A goroutine that writes the map excludes every reader and writer.
THEOREM Exclusion == Spec => []WriterAlone
<1>1. IInv => WriterAlone
  BY WriterIsAlone DEF WriterAlone
<1> QED
  BY <1>1, Invariance, PTL

\* What Update and Delete looked up is what the map holds when they write.
THEOREM NoStaleLookup == Spec => []LookedUpIsCurrent
<1>1. IInv => LookedUpIsCurrent
  BY DEF IInv, DataInv
<1> QED
  BY <1>1, Invariance, PTL

-----------------------------------------------------------------------------
(* Action properties *)

\* The three actions that change the map, and what each one does to it.
LEMMA MapChanges ==
  ASSUME IInv, [Next]_vars
  PROVE  \/ UNCHANGED items
         \/ \E i \in Ids : /\ i \notin issued
                           /\ items' = [items EXCEPT ![i] = items'[i]]
         \/ \E i \in Ids : /\ items[i] # NoItem /\ items'[i] \in Item
                           /\ items' = [items EXCEPT ![i] = items'[i]]
                           /\ items'[i].created = items[i].created
                           /\ items'[i].updated = now
         \/ \E i \in Ids : items' = [items EXCEPT ![i] = NoItem]
<1>1. ASSUME NEW p \in Procs, Create(p)
      PROVE  \E i \in Ids : /\ i \notin issued
                            /\ items' = [items EXCEPT ![i] = items'[i]]
  BY <1>1 DEF Create, IInv, TypeOK, ItemMap
<1>2. ASSUME NEW p \in Procs, Update(p)
      PROVE  \E i \in Ids : /\ items[i] # NoItem /\ items'[i] \in Item
                            /\ items' = [items EXCEPT ![i] = items'[i]]
                            /\ items'[i].created = items[i].created
                            /\ items'[i].updated = now
  <2> DEFINE old == items[req[p].id]
             new == Revised(old, req[p].content, now)
  <2>1. got[p] = {old} /\ old # NoItem /\ req[p].id \in Ids
    BY <1>2, RequestArguments DEF Update, IInv, OpInv, DataInv, LookedUpIsCurrent
  <2>2. items' = [items EXCEPT ![req[p].id] = new]
    BY <1>2, <2>1 DEF Update
  <2>3. items'[req[p].id] = new
    BY <2>1, <2>2 DEF IInv, TypeOK, ItemMap
  <2>4. new.created = old.created /\ new.updated = now
    BY DEF Revised
  <2>5. new \in Item
    <3>1. req[p].content \in Contents
      BY <1>2, RequestArguments DEF Update, IInv, OpInv
    <3> QED
      BY <2>1, <3>1, ItemsMade DEF IInv, TypeOK, ItemMap
  <2> HIDE DEF new
  <2> QED
    BY <2>1, <2>2, <2>3, <2>4, <2>5
<1>3. ASSUME NEW p \in Procs, Delete(p)
      PROVE  \E i \in Ids : items' = [items EXCEPT ![i] = NoItem]
  BY <1>3, RequestArguments DEF Delete, Answers, Goes, IInv, OpInv
<1>4. ASSUME NEW p \in Procs, Runs(p), ~Create(p), ~Update(p), ~Delete(p)
      PROVE  UNCHANGED items
  BY <1>4 DEF Runs, Refuse, Accept, RLock, RLockQueues, RUnlock, Lock, Unlock,
              Get, ListBegin, ListCopy, ListEnd, LookMisses, LookHits, Return
<1> QED
  BY <1>1, <1>2, <1>3, <1>4 DEF Next, Tick, Call, Cancel, LockAnnounces, vars

\* A deleted item stays deleted: only Create fills an absent key, and it uses
\* an identifier that has never been issued.
THEOREM DeletedStaysDeleted == Spec => NoResurrection
<1>1. ASSUME IInv, [Next]_vars, NEW i \in issued, items[i] = NoItem
      PROVE  items'[i] = NoItem
  <2>1. i \in Ids /\ items \in ItemMap
    BY <1>1 DEF IInv, TypeOK
  <2> QED
    BY <1>1, <2>1, MapChanges DEF ItemMap
<1>2. IInv /\ [Next]_vars =>
        [\A i \in issued : items[i] = NoItem => items'[i] = NoItem]_vars
  BY <1>1
<1> QED
  BY <1>2, Invariance, PTL DEF Spec, NoResurrection

\* Creation times are immutable and update times never go back.
THEOREM TimesCorrect == Spec => TimesAdvance
<1>1. ASSUME IInv, [Next]_vars, NEW i \in Live(items) \cap Live(items)'
      PROVE  /\ items'[i].created = items[i].created
             /\ items'[i].updated >= items[i].updated
  <2>1. i \in Ids /\ items[i] \in Item /\ items[i] # NoItem /\ items'[i] # NoItem
    BY <1>1 DEF Live, IInv, TypeOK, ItemMap
  <2>2. items[i].updated \in Nat /\ now \in Nat /\ items[i].updated <= now
    BY <1>1, <2>1 DEF IInv, TypeOK, DataInv, ItemsInv, Item, Time
  <2>3. i \in issued
    BY <1>1, <2>1 DEF IInv, DataInv, ItemsInv
  <2>4. items \in ItemMap
    BY <1>1 DEF IInv, TypeOK
  <2> QED
    BY <1>1, <2>1, <2>2, <2>3, <2>4, MapChanges DEF ItemMap
<1>2. IInv /\ [Next]_vars =>
        [\A i \in Live(items) \cap Live(items)' :
           /\ items'[i].created = items[i].created
           /\ items'[i].updated >= items[i].updated]_vars
  BY <1>1
<1> QED
  BY <1>2, Invariance, PTL DEF Spec, TimesAdvance

-----------------------------------------------------------------------------
(* Nobody is stuck, and calls shorten *)

\* A reply is there when the result is known and not before, and a reader
\* queues behind a writer only.
PlaceInv ==
  \A p \in Procs :
    /\ pc[p] \notin {"runlock", "unlock", "answered"} => reply[p] = NoReply
    /\ pc[p] = "rwait" => pending # NoProc

\* Every call of Create that has no result yet will find an identifier.
CreatesInv == Cardinality(Creating) <= Cardinality(Ids \ issued)

LEMMA InitPlaces == Init => PlaceInv /\ CreatesInv
<1> SUFFICES ASSUME Init PROVE PlaceInv /\ CreatesInv
  OBVIOUS
<1>1. PlaceInv
  BY DEF Init, PlaceInv
<1>2. Creating = {}
  BY DEF Init, Creating, NoRequest
<1>3. IsFiniteSet(Ids \ issued)
  BY FiniteAssumption, FS_Subset
<1>4. CreatesInv
  BY <1>2, <1>3, FS_EmptySet, FS_CardinalityType DEF CreatesInv
<1> QED
  BY <1>1, <1>4

LEMMA PlaceStep == IInv /\ PlaceInv /\ [Next]_vars => PlaceInv'
<1> SUFFICES ASSUME IInv, PlaceInv, [Next]_vars PROVE PlaceInv'
  OBVIOUS
<1>0. TypeOK
  BY DEF IInv
<1> USE DEF PlaceInv, TypeOK, Goes, Answers, callVars, lockVars, copyVars
<1>1. CASE Tick
  BY <1>0, <1>1 DEF Tick
<1>2. ASSUME NEW p \in Procs, NEW r \in Calls, Call(p, r) PROVE PlaceInv'
  BY <1>0, <1>2 DEF Call
<1>3. ASSUME NEW p \in Procs, Cancel(p) PROVE PlaceInv'
  BY <1>0, <1>3 DEF Cancel
<1>4. ASSUME NEW p \in Procs, LockAnnounces(p) PROVE PlaceInv'
  BY <1>0, <1>4, NoProcAssumption DEF LockAnnounces
<1>5. ASSUME NEW p \in Procs, Runs(p) PROVE PlaceInv'
  <2>1. CASE Refuse(p) \/ Accept(p)
    BY <1>0, <2>1 DEF Refuse, Accept
  <2>2. CASE RLock(p) \/ RLockQueues(p)
    BY <1>0, <2>2 DEF RLock, RLockQueues
  <2>3. CASE RUnlock(p)
    BY <1>0, <2>3 DEF RUnlock
  <2>4. CASE Lock(p)
    BY <1>0, <2>4 DEF Lock
  <2>5. CASE Unlock(p)
    BY <1>0, <2>5 DEF Unlock
  <2>6. CASE Get(p) \/ ListBegin(p) \/ ListEnd(p)
    BY <1>0, <2>6 DEF Get, ListBegin, ListEnd
  <2>7. ASSUME NEW i \in Ids, ListCopy(p, i) PROVE PlaceInv'
    BY <1>0, <2>7 DEF ListCopy
  <2>8. CASE Create(p) \/ Update(p)
    BY <1>0, <2>8 DEF Create, Update
  <2>9. CASE LookMisses(p) \/ LookHits(p) \/ Delete(p)
    BY <1>0, <2>9 DEF LookMisses, LookHits, Delete
  <2>10. CASE Return(p)
    BY <1>0, <2>10 DEF Return
  <2> QED
    BY <1>5, <2>1, <2>2, <2>3, <2>4, <2>5, <2>6, <2>7, <2>8, <2>9, <2>10 DEF Runs
<1>6. CASE UNCHANGED vars
  BY <1>6 DEF vars
<1> QED
  BY <1>1, <1>2, <1>3, <1>4, <1>5, <1>6 DEF Next

\* Only Call adds to the calls of Create without a result, and only Create
\* uses an identifier up.
LEMMA CreatingKept ==
  ASSUME IInv, PlaceInv, NEW p \in Procs, Runs(p), ~Create(p)
  PROVE  Creating' \subseteq Creating /\ issued' = issued
<1>0. TypeOK
  BY DEF IInv
<1> USE DEF TypeOK, Goes, Answers, Creating, callVars, lockVars, copyVars
<1>1. CASE Refuse(p) \/ Accept(p)
  BY <1>0, <1>1 DEF Refuse, Accept, Failure, NoReply, Success
<1>2. CASE RLock(p) \/ RLockQueues(p) \/ RUnlock(p) \/ Lock(p) \/ Unlock(p)
  BY <1>0, <1>2 DEF RLock, RLockQueues, RUnlock, Lock, Unlock
<1>3. CASE Get(p)
  <2>1. req[p].op # "create"
    BY <1>3 DEF Get
  <2>2. UNCHANGED <<issued, req>> /\ \A q \in Procs \ {p} : reply'[q] = reply[q]
    BY <1>0, <1>3 DEF Get
  <2> QED
    BY <2>1, <2>2
<1>4. CASE ListBegin(p) \/ LookHits(p)
  BY <1>0, <1>4 DEF ListBegin, LookHits
<1>5. CASE ListEnd(p)
  <2>1. req[p].op # "create"
    BY <1>5 DEF ListEnd, IInv, OpInv
  <2>2. UNCHANGED <<issued, req>> /\ \A q \in Procs \ {p} : reply'[q] = reply[q]
    BY <1>0, <1>5 DEF ListEnd
  <2> QED
    BY <2>1, <2>2
<1>6. ASSUME NEW i \in Ids, ListCopy(p, i)
      PROVE  Creating' \subseteq Creating /\ issued' = issued
  BY <1>0, <1>6 DEF ListCopy
<1>7. CASE LookMisses(p) \/ Update(p) \/ Delete(p)
  <2>1. req[p].op # "create"
    BY <1>7 DEF LookMisses, Update, Delete, IInv, OpInv
  <2>2. UNCHANGED <<issued, req>> /\ \A q \in Procs \ {p} : reply'[q] = reply[q]
    <3>1. CASE LookMisses(p)
      BY <1>0, <3>1 DEF LookMisses
    <3>2. CASE Update(p)
      BY <1>0, <3>2 DEF Update
    <3>3. CASE Delete(p)
      BY <1>0, <3>3 DEF Delete
    <3> QED
      BY <1>7, <3>1, <3>2, <3>3
  <2> QED
    BY <2>1, <2>2
<1>8. CASE Return(p)
  <2>1. \A q \in Procs \ {p} : UNCHANGED <<req[q], reply[q]>>
    BY <1>0, <1>8 DEF Return
  <2>2. p \in Procs => req'[p].op = "none"
    BY <1>0, <1>8 DEF Return, NoRequest
  <2> QED
    BY <1>8, <2>1, <2>2 DEF Return
<1> QED
  BY <1>1, <1>2, <1>3, <1>4, <1>5, <1>6, <1>7, <1>8 DEF Runs

LEMMA CreatesStep == IInv /\ PlaceInv /\ CreatesInv /\ [Next]_vars => CreatesInv'
<1> SUFFICES ASSUME IInv, PlaceInv, CreatesInv, [Next]_vars PROVE CreatesInv'
  OBVIOUS
<1>0. TypeOK
  BY DEF IInv
<1>1. /\ IsFiniteSet(Creating) /\ IsFiniteSet(Ids \ issued)
      /\ Cardinality(Creating) \in Nat /\ Cardinality(Ids \ issued) \in Nat
  BY FiniteAssumption, FS_Subset, FS_CardinalityType DEF Creating
<1>2. ASSUME Creating' \subseteq Creating, issued' = issued PROVE CreatesInv'
  <2>1. /\ Cardinality(Creating') \in Nat
        /\ Cardinality(Creating') <= Cardinality(Creating)
    BY <1>1, <1>2, FS_Subset, FS_CardinalityType
  <2>2. Cardinality(Creating') <= Cardinality(Ids \ issued')
    BY <1>1, <1>2, <2>1 DEF CreatesInv
  <2> QED
    BY <2>2 DEF CreatesInv
<1>3. ASSUME NEW p \in Procs, NEW r \in Calls, Call(p, r) PROVE CreatesInv'
  <2>1. issued' = issued
    BY <1>3 DEF Call
  <2>2. CASE r.op # "create"
    <3>1. Creating' \subseteq Creating
      BY <1>0, <1>3, <2>2 DEF Call, Creating, TypeOK
    <3> QED
      BY <1>2, <2>1, <3>1
  <2>3. CASE r.op = "create"
    <3>1. Cardinality(Creating) < Cardinality(Ids \ issued)
      BY <1>3, <2>3 DEF Call, MayCreate
    <3>2. Creating' \subseteq Creating \cup {p}
      BY <1>0, <1>3 DEF Call, Creating, TypeOK
    <3>3. /\ IsFiniteSet(Creating \cup {p})
          /\ Cardinality(Creating \cup {p}) <= Cardinality(Creating) + 1
      <4>1. CASE p \in Creating
        <5>1. Creating \cup {p} = Creating
          BY <4>1
        <5> QED
          BY <1>1, <5>1
      <4>2. CASE p \notin Creating
        <5>1. /\ IsFiniteSet(Creating \cup {p})
              /\ Cardinality(Creating \cup {p}) = Cardinality(Creating) + 1
          BY <1>1, <4>2, FS_AddElement
        <5> QED
          BY <1>1, <5>1
      <4> QED
        BY <4>1, <4>2
    <3>4. /\ Cardinality(Creating') \in Nat
          /\ Cardinality(Creating \cup {p}) \in Nat
          /\ Cardinality(Creating') <= Cardinality(Creating \cup {p})
      BY <3>2, <3>3, FS_Subset, FS_CardinalityType
    <3>5. Cardinality(Creating') <= Cardinality(Ids \ issued')
      BY <1>1, <2>1, <3>1, <3>3, <3>4
    <3> QED
      BY <3>5 DEF CreatesInv
  <2> QED
    BY <2>2, <2>3
<1>4. ASSUME NEW p \in Procs, Create(p) PROVE CreatesInv'
  <2>1. PICK i \in Ids \ issued :
          /\ issued' = issued \cup {i}
          /\ reply' = [reply EXCEPT ![p] =
                         Success({NewItem(i, req[p].content, now)})]
    BY <1>4 DEF Create, Answers
  <2>2. p \in Creating
    BY <1>4 DEF Create, Creating, PlaceInv
  <2>3. Creating' = Creating \ {p}
    BY <1>0, <1>4, <2>1
    DEF Create, Creating, TypeOK, callVars, Success, NoReply
  <2>4. Ids \ issued' = (Ids \ issued) \ {i}
    BY <2>1
  <2>5. /\ Cardinality(Creating') = Cardinality(Creating) - 1
        /\ Cardinality(Ids \ issued') = Cardinality(Ids \ issued) - 1
    BY <1>1, <2>1, <2>2, <2>3, <2>4, FS_RemoveElement
  <2>6. Cardinality(Creating') <= Cardinality(Ids \ issued')
    BY <1>1, <2>5 DEF CreatesInv
  <2> QED
    BY <2>6 DEF CreatesInv
<1>5. ASSUME NEW p \in Procs, Runs(p), ~Create(p) PROVE CreatesInv'
  BY <1>2, <1>5, CreatingKept
<1>6. CASE Tick \/ \E p \in Procs : Cancel(p) \/ LockAnnounces(p)
  BY <1>2, <1>6 DEF Tick, Cancel, LockAnnounces, Creating, callVars
<1>7. CASE UNCHANGED vars
  BY <1>2, <1>7 DEF vars, callVars, Creating
<1> QED
  BY <1>3, <1>4, <1>5, <1>6, <1>7 DEF Next

LEMMA GoesOn == Spec => [](IInv /\ PlaceInv /\ CreatesInv)
BY InitIInv, TypeStep, LockStep, OpStep, DataStep, InitPlaces, PlaceStep,
   CreatesStep, Invariance, PTL DEF Spec

\* A goroutine that holds the lock, or waits for neither lock nor readers, has
\* a step to take.
LEMMA HoldersGoOn ==
  ASSUME IInv, PlaceInv, CreatesInv, NEW p \in Procs
  PROVE  /\ pc[p] \in ReadSection => CanGoOn(p)
         /\ pc[p] \in WriteSection => CanGoOn(p)
         /\ pc[p] \in {"entry", "rlock", "answered"} => CanGoOn(p)
<1>1. CASE pc[p] = "write" /\ req[p].op = "create"
  <2>1. p \in Creating
    BY <1>1 DEF Creating, PlaceInv
  <2>2. IsFiniteSet(Creating) /\ IsFiniteSet(Ids \ issued)
    BY FiniteAssumption, FS_Subset DEF Creating
  <2>3. Cardinality(Creating) \in Nat /\ Cardinality(Creating) # 0
    BY <2>1, <2>2, FS_EmptySet, FS_CardinalityType
  <2>4. Cardinality(Ids \ issued) # 0
    BY <2>2, <2>3, FS_CardinalityType DEF CreatesInv
  <2>5. Ids \ issued # {}
    BY <2>4, FS_EmptySet
  <2> QED
    BY <1>1, <2>5 DEF CanGoOn, ReadSection, WriteSection
<1>2. CASE pc[p] = "write" /\ req[p].op # "create"
  <2>1. req[p].op = "update" => got[p] # {}
    BY <1>2 DEF IInv, DataInv, LookedUpIsCurrent
  <2> QED
    BY <1>2, <2>1 DEF CanGoOn, ReadSection, WriteSection
<1>3. CASE pc[p] # "write"
  BY <1>3 DEF CanGoOn, ReadSection, WriteSection
<1> QED
  BY <1>1, <1>2, <1>3

\* The lock never leaves anybody behind: who waits for a writer waits for one
\* that runs or drains readers, and readers always run.
THEOREM StuckNowhere == Spec => []NobodyStuck
<1>1. ASSUME IInv, PlaceInv, CreatesInv, NEW p \in Procs, pc[p] # "idle"
      PROVE  \/ CanGoOn(p)
             \/ \E q \in WaitsFor(p) \cap Procs :
                  CanGoOn(q) \/ \E r \in WaitsFor(q) \cap Procs : CanGoOn(r)
  <2> USE <1>1
  <2>0. TypeOK /\ LockInv
    BY DEF IInv
  <2>1. ASSUME NEW q \in Procs, pc[q] = "drain"
        PROVE  CanGoOn(q) \/ \E r \in WaitsFor(q) \cap Procs : CanGoOn(r)
    <3>1. CASE readers = {}
      BY <2>1, <3>1 DEF CanGoOn
    <3>2. CASE readers # {}
      <4>1. PICK r \in readers : r \in Procs /\ pc[r] \in ReadSection
        BY <2>0, <3>2 DEF TypeOK, LockInv
      <4>2. CanGoOn(r)
        BY <4>1, HoldersGoOn
      <4> QED
        BY <2>1, <4>1, <4>2 DEF WaitsFor
    <3> QED
      BY <3>1, <3>2
  <2>2. CASE pc[p] = "drain"
    <3>1. CASE readers = {}
      BY <2>2, <3>1 DEF CanGoOn
    <3>2. CASE readers # {}
      <4>1. PICK r \in readers : r \in Procs /\ pc[r] \in ReadSection
        BY <2>0, <3>2 DEF TypeOK, LockInv
      <4>2. CanGoOn(r)
        BY <4>1, HoldersGoOn
      <4> QED
        BY <2>2, <4>1, <4>2 DEF WaitsFor
    <3> QED
      BY <3>1, <3>2
  <2>3. CASE pc[p] \in {"lock", "rwait"}
    <3>1. CASE pending = NoProc
      BY <2>3, <3>1 DEF PlaceInv, CanGoOn
    <3>2. CASE pending # NoProc
      <4>1. pending \in WaitsFor(p) \cap Procs
        BY <2>0, <2>3, <3>2 DEF TypeOK, WaitsFor
      <4>2. pc[pending] \in {"drain"} \cup WriteSection
        BY <2>0, <4>1 DEF LockInv
      <4>3. \/ CanGoOn(pending)
            \/ \E r \in WaitsFor(pending) \cap Procs : CanGoOn(r)
        BY <2>1, <4>1, <4>2, HoldersGoOn
      <4> QED
        BY <4>1, <4>3
    <3> QED
      BY <3>1, <3>2
  <2>4. CASE pc[p] \notin {"lock", "rwait", "drain"}
    BY <2>0, <2>4, HoldersGoOn DEF TypeOK, PC, ReadSection, WriteSection
  <2> QED
    BY <2>2, <2>3, <2>4
<1>2. IInv /\ PlaceInv /\ CreatesInv => NobodyStuck
  BY <1>1 DEF NobodyStuck, NotStuck
<1> QED
  BY <1>2, GoesOn, PTL

\* A step by p alone shortens its call, and leaves the other calls as they are.
LEMMA LeftDecreases ==
  ASSUME IInv, NEW p \in Procs,
         \/ \E r \in Calls : Call(p, r)
         \/ Cancel(p) \/ LockAnnounces(p) \/ Runs(p)
  PROVE  \A q \in Procs : pc[q] # "idle" =>
           UNCHANGED <<pc[q], todo[q]>> \/ Left(q)' < Left(q)
<1> DEFINE Shorter(q) == UNCHANGED <<pc[q], todo[q]>> \/ Left(q)' < Left(q)
<1>0. TypeOK
  BY DEF IInv
<1>1. /\ Cardinality(Ids) \in Nat
      /\ \A q \in Procs : Cardinality(todo[q]) \in Nat /\ IsFiniteSet(todo[q])
  BY <1>0, FiniteAssumption, FS_Subset, FS_CardinalityType DEF TypeOK
<1> USE DEF TypeOK, Goes, Answers, callVars, lockVars, copyVars
<1>2. ASSUME NEW r \in Calls, Call(p, r), NEW q \in Procs, pc[q] # "idle"
      PROVE  Shorter(q)
  BY <1>0, <1>2 DEF Call
<1>3. ASSUME Cancel(p), NEW q \in Procs PROVE Shorter(q)
  BY <1>0, <1>3 DEF Cancel
<1>4. ASSUME LockAnnounces(p), NEW q \in Procs PROVE Shorter(q)
  BY <1>0, <1>1, <1>4 DEF LockAnnounces, Left
<1>5. ASSUME Runs(p), NEW q \in Procs PROVE Shorter(q)
  <2>1. CASE Refuse(p) \/ Accept(p)
    BY <1>0, <1>1, <2>1 DEF Refuse, Accept, Left
  <2>2. CASE RLock(p) \/ RLockQueues(p)
    BY <1>0, <1>1, <2>2 DEF RLock, RLockQueues, Left
  <2>3. CASE RUnlock(p)
    BY <1>0, <1>1, <2>3 DEF RUnlock, Left
  <2>4. CASE Lock(p)
    BY <1>0, <1>1, <2>4 DEF Lock, Left
  <2>5. CASE Unlock(p)
    BY <1>0, <1>1, <2>5 DEF Unlock, Left
  <2>6. CASE Get(p)
    BY <1>0, <1>1, <2>6 DEF Get, Left
  <2>7. CASE ListBegin(p)
    <3>1. todo'[p] \subseteq Ids
      BY <1>0, <2>7 DEF ListBegin, Live
    <3>2. Cardinality(todo'[p]) \in Nat /\ Cardinality(todo'[p]) <= Cardinality(Ids)
      BY <3>1, FiniteAssumption, FS_Subset, FS_CardinalityType
    <3> QED
      BY <1>0, <1>1, <2>7, <3>2 DEF ListBegin, Left
  <2>8. ASSUME NEW i \in Ids, ListCopy(p, i) PROVE Shorter(q)
    <3>1. i \in todo[p] /\ todo'[p] = todo[p] \ {i}
      BY <1>0, <2>8 DEF ListCopy
    <3>2. Cardinality(todo'[p]) = Cardinality(todo[p]) - 1
      BY <1>1, <3>1, FS_RemoveElement
    <3> QED
      BY <1>0, <1>1, <2>8, <3>2 DEF ListCopy, Left
  <2>9. CASE ListEnd(p)
    BY <1>0, <1>1, <2>9 DEF ListEnd, Left
  <2>10. CASE Create(p) \/ Update(p) \/ Delete(p)
    <3>1. /\ pc[p] = "write" /\ pc' = [pc EXCEPT ![p] = "unlock"]
          /\ todo' = todo
      BY <2>10 DEF Create, Update, Delete
    <3> QED
      BY <1>0, <1>1, <3>1 DEF Left
  <2>11. CASE LookMisses(p) \/ LookHits(p)
    BY <1>0, <1>1, <2>11 DEF LookMisses, LookHits, Left
  <2>12. CASE Return(p)
    BY <1>0, <1>1, <2>12 DEF Return, Left
  <2> QED
    BY <1>5, <2>1, <2>2, <2>3, <2>4, <2>5, <2>6, <2>7, <2>8, <2>9, <2>10, <2>11,
       <2>12 DEF Runs
<1> QED
  BY <1>2, <1>3, <1>4, <1>5

\* While a writer drains, no reader comes in; while a reader is queued, the
\* writer it queued behind is the one it waits for.
LEMMA NobodyOvertakes ==
  ASSUME IInv, PlaceInv, [Next]_vars, NEW q \in Procs
  PROVE  /\ pc[q] = "drain" /\ pc'[q] = "drain" => readers' \subseteq readers
         /\ pc[q] = "rwait" /\ pc'[q] = "rwait" => pending' = pending
<1> DEFINE Fair == /\ pc[q] = "drain" /\ pc'[q] = "drain" => readers' \subseteq readers
                   /\ pc[q] = "rwait" /\ pc'[q] = "rwait" => pending' = pending
<1>0. TypeOK /\ LockInv
  BY DEF IInv
<1>1. ASSUME NEW p \in Procs, RLock(p) PROVE Fair
  BY <1>0, <1>1, NoProcAssumption DEF RLock, LockInv
<1>2. ASSUME NEW p \in Procs, LockAnnounces(p) PROVE Fair
  BY <1>0, <1>2 DEF LockAnnounces, PlaceInv
<1>3. ASSUME NEW p \in Procs, Unlock(p) PROVE Fair
  <2>1. pending = p
    BY <1>0, <1>3 DEF Unlock, LockInv, WriteSection
  <2>2. pc[q] # "drain"
    BY <1>0, <1>3, <2>1 DEF Unlock, LockInv
  <2>3. pc'[q] # "rwait"
    BY <1>3 DEF Unlock
  <2> QED
    BY <2>2, <2>3
<1>4. ASSUME NEW p \in Procs, RUnlock(p) PROVE Fair
  BY <1>4 DEF RUnlock
<1>5. ASSUME NEW p \in Procs, Runs(p), ~RLock(p), ~Unlock(p), ~RUnlock(p)
      PROVE  UNCHANGED <<readers, pending>>
  <2> USE DEF lockVars
  <2>1. CASE Refuse(p) \/ Accept(p) \/ RLockQueues(p) \/ Lock(p)
    BY <2>1 DEF Refuse, Accept, RLockQueues, Lock
  <2>2. CASE Get(p) \/ ListBegin(p) \/ (\E i \in Ids : ListCopy(p, i)) \/ ListEnd(p)
    BY <2>2 DEF Get, ListBegin, ListCopy, ListEnd
  <2>3. CASE Create(p) \/ LookMisses(p) \/ LookHits(p) \/ Update(p) \/ Delete(p)
    BY <2>3 DEF Create, LookMisses, LookHits, Update, Delete
  <2>4. CASE Return(p)
    BY <2>4 DEF Return
  <2> QED
    BY <1>5, <2>1, <2>2, <2>3, <2>4 DEF Runs
<1>6. ASSUME \/ Tick \/ UNCHANGED vars
             \/ \E p \in Procs : Cancel(p) \/ \E r \in Calls : Call(p, r)
      PROVE  UNCHANGED <<readers, pending>>
  BY <1>6 DEF Tick, Cancel, Call, lockVars, vars
<1> QED
  BY <1>1, <1>2, <1>3, <1>4, <1>5, <1>6 DEF Next

\* Every step of a call brings its return nearer, and neither queue of the lock
\* is overtaken.
THEOREM CallsGetShorter == Spec => CallsShorten
<1>1. ASSUME IInv, PlaceInv, [Next]_vars, NEW p \in Procs, pc[p] # "idle"
      PROVE  /\ UNCHANGED <<pc[p], todo[p]>> \/ Left(p)' < Left(p)
             /\ pc[p] = "drain" /\ pc'[p] = "drain" => readers' \subseteq readers
             /\ pc[p] = "rwait" /\ pc'[p] = "rwait" => pending' = pending
  <2>1. CASE Tick \/ UNCHANGED vars
    BY <1>1, <2>1, NobodyOvertakes DEF Tick, vars, copyVars
  <2>2. CASE Next /\ ~Tick
    BY <1>1, <2>2, LeftDecreases, NobodyOvertakes DEF Next
  <2> QED
    BY <1>1, <2>1, <2>2
<1>2. IInv /\ PlaceInv /\ [Next]_vars =>
        [\A p \in Procs : pc[p] # "idle" =>
           /\ UNCHANGED <<pc[p], todo[p]>> \/ Left(p)' < Left(p)
           /\ pc[p] = "drain" /\ pc'[p] = "drain" => readers' \subseteq readers
           /\ pc[p] = "rwait" /\ pc'[p] = "rwait" => pending' = pending]_vars
  BY <1>1
<1> QED
  BY <1>2, GoesOn, PTL DEF Spec, CallsShorten

\* A call of the store is never stuck and never goes round in circles.
THEOREM CallsProgress == Spec => CallsGoOn
<1>1. NobodyStuck => \A p \in Procs : NotStuck(p)
  BY DEF NobodyStuck
<1> QED
  BY <1>1, StuckNowhere, CallsGetShorter, PTL DEF CallsGoOn

-----------------------------------------------------------------------------
(* The store implements the atomic map of ItemStore *)

\* The operators of Items mean the same on both sides of the mapping.
LEMMA SameOperators ==
  /\ \A r : Abstract!ArgumentError(r) = ArgumentError(r)
  /\ \A m : Abstract!Live(m) = Live(m) /\ Abstract!Stored(m) = Stored(m)
  /\ \A S : Abstract!Success(S) = Success(S)
  /\ \A e : Abstract!Failure(e) = Failure(e)
  /\ \A i, c, t : Abstract!NewItem(i, c, t) = NewItem(i, c, t)
  /\ \A old, c, t : Abstract!Revised(old, c, t) = Revised(old, c, t)
  /\ Abstract!Request = Request
  /\ Abstract!NoRequest = NoRequest /\ Abstract!NoReply = NoReply
  BY DEF Abstract!ArgumentError, ArgumentError, Abstract!Live, Live,
         Abstract!Stored, Stored, Abstract!Success, Success, Abstract!Failure,
         Failure, Abstract!NewItem, NewItem, Abstract!Revised, Revised,
         Abstract!Request, Request, Abstract!NoRequest, NoRequest,
         Abstract!NoReply, NoReply

LEMMA StatusMoves ==
  ASSUME TypeOK, NEW p \in Procs, NEW from, NEW to, Goes(p, from, to),
         UNCHANGED canceled
  PROVE  /\ Status[p] = StatusOf(from, canceled[p])
         /\ Status' = [Status EXCEPT ![p] = StatusOf(to, canceled[p])]
  BY DEF TypeOK, Goes, Status

\* The moves that take effect: from before the linearisation point to after.
LEMMA TakesEffect ==
  ASSUME TypeOK, NEW p \in Procs, NEW from, NEW to, NEW a,
         Answers(p, from, to, a),
         from \in {"read", "copy", "look", "write"},
         to \in {"answered", "runlock", "unlock"},
         UNCHANGED <<now, callVars>>
  PROVE  Abstract!Answer(p, a)
<1>1. /\ StatusOf(from, canceled[p]) = "called"
      /\ StatusOf(to, canceled[p]) = "answered"
  BY DEF StatusOf
<1> QED
  BY <1>1, StatusMoves DEF Answers, Abstract!Answer, Abstract!Ends, callVars

LEMMA InitRefines == Init => Abstract!Init
  BY SameOperators DEF Init, Abstract!Init, Status, StatusOf

LEMMA StepRefines == IInv /\ [Next]_vars => [Abstract!Next]_(Abstract!vars)
<1> SUFFICES ASSUME IInv, [Next]_vars PROVE [Abstract!Next]_(Abstract!vars)
  OBVIOUS
<1> USE DEF callVars, lockVars, copyVars
<1>0. TypeOK
  BY DEF IInv
<1>1. CASE Tick
  <2>1. Status' = Status
    BY <1>1 DEF Tick, Status
  <2> QED
    BY <1>1, <2>1 DEF Tick, Abstract!Tick, Abstract!Next
<1>2. ASSUME NEW p \in Procs, NEW r \in Calls, Call(p, r) PROVE Abstract!Next
  <2>1. r \in Request
    BY CallsAssumption
  <2>2. PICK done \in BOOLEAN : canceled' = [canceled EXCEPT ![p] = done]
    BY <1>2 DEF Call
  <2>3. /\ Status[p] = "idle"
        /\ Status' = [Status EXCEPT ![p] = IF done THEN "doomed" ELSE "called"]
    BY <1>0, <1>2, <2>2 DEF Call, Goes, TypeOK, Status, StatusOf
  <2>4. ~done => canceled' = canceled \/ canceled[p]
    BY <1>0, <2>2 DEF TypeOK
  <2>5. ~canceled[p]
    BY <1>2 DEF Call, Goes, IInv, OpInv
  <2> QED
    BY SameOperators, <1>2, <2>1, <2>2, <2>3, <2>4, <2>5
    DEF Call, Abstract!Call, Abstract!Next
<1>3. ASSUME NEW p \in Procs, Cancel(p) PROVE Abstract!Next
  <2>1. /\ Status[p] # "idle"
        /\ \/ Status' = Status
           \/ Status[p] = "called" /\ Status' = [Status EXCEPT ![p] = "doomed"]
    BY <1>0, <1>3 DEF Cancel, TypeOK, Status, StatusOf
  <2> QED
    BY <1>3, <2>1 DEF Cancel, Abstract!Cancel, Abstract!Next
<1>4. ASSUME UNCHANGED <<items, issued, now, req, canceled, reply>>,
             Status' = Status
      PROVE  UNCHANGED Abstract!vars
  BY <1>4 DEF Abstract!vars
<1>5. ASSUME NEW p \in Procs, LockAnnounces(p) PROVE UNCHANGED Abstract!vars
  <2>1. Status' = Status
    BY <1>5 DEF LockAnnounces, Goes, Status, StatusOf
  <2> QED
    BY <1>4, <1>5, <2>1 DEF LockAnnounces
<1>6. ASSUME NEW p \in Procs, Runs(p) PROVE [Abstract!Next]_(Abstract!vars)
  <2>1. CASE Refuse(p)
    <3> DEFINE err == IF canceled[p] THEN "canceled" ELSE ArgumentError(req[p])
    <3>1. /\ err # "nil" /\ UNCHANGED <<items, issued, now, callVars>>
          /\ Answers(p, "entry", "answered", Failure(err))
      BY <2>1 DEF Refuse, Answers
    <3>2. Abstract!Ends(p, StatusOf("entry", canceled[p]), Failure(err))
      <4>1. StatusOf("answered", canceled[p]) = "answered"
        BY DEF StatusOf
      <4> QED
        BY <1>0, <3>1, <4>1, StatusMoves DEF Answers, Abstract!Ends
    <3>3. Abstract!Fails(p)
      <4>1. CASE canceled[p]
        BY SameOperators, <3>1, <3>2, <4>1 DEF Abstract!Fails, StatusOf
      <4>2. CASE ~canceled[p]
        BY SameOperators, <3>1, <3>2, <4>2
        DEF Abstract!Fails, Abstract!Answer, StatusOf
      <4> QED
        BY <4>1, <4>2
    <3> QED
      BY <3>3 DEF Abstract!Next
  <2>2. CASE Accept(p) \/ RLock(p) \/ RLockQueues(p) \/ RUnlock(p) \/ Lock(p)
             \/ ListBegin(p) \/ LookHits(p)
    <3>1. Status' = Status
      <4>1. /\ StatusOf(pc[p], canceled[p]) = StatusOf(pc'[p], canceled'[p])
            /\ \A q \in Procs \ {p} : pc'[q] = pc[q] /\ canceled'[q] = canceled[q]
        <5>1. CASE Accept(p) \/ Lock(p)
          BY <1>0, <5>1 DEF Accept, Lock, Goes, TypeOK, StatusOf
        <5>2. CASE RLock(p) \/ RLockQueues(p)
          BY <1>0, <5>2 DEF RLock, RLockQueues, Goes, TypeOK, StatusOf
        <5>3. CASE RUnlock(p) \/ ListBegin(p) \/ LookHits(p)
          BY <1>0, <5>3 DEF RUnlock, ListBegin, LookHits, Goes, TypeOK, StatusOf
        <5> QED
          BY <2>2, <5>1, <5>2, <5>3
      <4> QED
        BY <4>1 DEF Status
    <3>2. UNCHANGED <<items, issued, now, req, canceled, reply>>
      BY <2>2 DEF Accept, RLock, RLockQueues, RUnlock, Lock, ListBegin, LookHits
    <3> QED
      BY <1>4, <3>1, <3>2
  <2>3. CASE Unlock(p)
    <3>1. Status' = Status
      BY <2>3 DEF Unlock, Status, StatusOf
    <3> QED
      BY <1>4, <2>3, <3>1 DEF Unlock
  <2>4. ASSUME NEW i \in Ids, ListCopy(p, i) PROVE UNCHANGED Abstract!vars
    <3>1. Status' = Status
      BY <2>4 DEF ListCopy, Status
    <3> QED
      BY <1>4, <2>4, <3>1 DEF ListCopy
  <2>5. CASE Get(p)
    <3>1. ArgumentError(req[p]) = "nil" /\ req[p].id \in Ids /\ req[p].op = "get"
      BY <2>5, RequestArguments DEF Get, Answers, Goes, IInv, OpInv
    <3>2. CASE items[req[p].id] = NoItem
      <4>1. Abstract!Answer(p, Failure("not_found"))
        BY <1>0, <2>5, <3>2, TakesEffect DEF Get
      <4>2. Abstract!Fails(p)
        BY SameOperators, <2>5, <3>1, <3>2, <4>1 DEF Get, Abstract!Fails, Live
      <4> QED
        BY <4>2 DEF Abstract!Next
    <3>3. CASE items[req[p].id] # NoItem
      <4>1. Abstract!Answer(p, Success({items[req[p].id]}))
        BY <1>0, <2>5, <3>3, TakesEffect DEF Get
      <4>2. Abstract!Reads(p)
        BY SameOperators, <2>5, <3>1, <3>3, <4>1 DEF Get, Abstract!Reads, Live
      <4> QED
        BY <4>2 DEF Abstract!Next
    <3> QED
      BY <3>2, <3>3
  <2>6. CASE ListEnd(p)
    <3>1. req[p].op = "list" /\ got[p] = Stored(items)
      BY <2>6 DEF ListEnd, Answers, Goes, IInv, OpInv, DataInv, CopyInv
    <3>2. Abstract!Answer(p, Success(Stored(items)))
      BY <1>0, <2>6, <3>1, TakesEffect DEF ListEnd
    <3>3. Abstract!Reads(p)
      BY SameOperators, <2>6, <3>1, <3>2 DEF ListEnd, Abstract!Reads
    <3> QED
      BY <3>3 DEF Abstract!Next
  <2>7. CASE Create(p)
    <3>1. req[p].op = "create" /\ ArgumentError(req[p]) = "nil"
      BY <2>7 DEF Create, IInv, OpInv
    <3>2. PICK i \in Ids \ issued :
            /\ items' = [items EXCEPT ![i] = NewItem(i, req[p].content, now)]
            /\ issued' = issued \cup {i}
            /\ Answers(p, "write", "unlock",
                       Success({NewItem(i, req[p].content, now)}))
      BY <2>7 DEF Create
    <3>3. Abstract!Answer(p, Success({NewItem(i, req[p].content, now)}))
      BY <1>0, <2>7, <3>2, TakesEffect DEF Create
    <3>4. Abstract!Creates(p)
      BY SameOperators, <3>1, <3>2, <3>3 DEF Abstract!Creates
    <3> QED
      BY <3>4 DEF Abstract!Next
  <2>8. CASE LookMisses(p)
    <3>1. /\ ArgumentError(req[p]) = "nil" /\ req[p].id \in Ids
          /\ req[p].op \in {"update", "delete"}
      BY <2>8, RequestArguments DEF LookMisses, Answers, Goes, IInv, OpInv
    <3>2. Abstract!Answer(p, Failure("not_found"))
      BY <1>0, <2>8, TakesEffect DEF LookMisses
    <3>3. Abstract!Fails(p)
      BY SameOperators, <2>8, <3>1, <3>2 DEF LookMisses, Abstract!Fails, Live
    <3> QED
      BY <3>3 DEF Abstract!Next
  <2>9. CASE Update(p)
    <3> DEFINE new == Revised(items[req[p].id], req[p].content, now)
    <3>1. /\ ArgumentError(req[p]) = "nil" /\ req[p].id \in Ids
          /\ req[p].op = "update" /\ items[req[p].id] # NoItem
          /\ got[p] = {items[req[p].id]}
      BY <2>9, RequestArguments
      DEF Update, IInv, OpInv, DataInv, LookedUpIsCurrent
    <3>2. /\ items' = [items EXCEPT ![req[p].id] = new]
          /\ Answers(p, "write", "unlock", Success({new}))
      BY <2>9, <3>1 DEF Update
    <3>3. Abstract!Answer(p, Success({new}))
      BY <1>0, <2>9, <3>2, TakesEffect DEF Update
    <3>4. Abstract!Updates(p)
      BY SameOperators, <2>9, <3>1, <3>2, <3>3 DEF Update, Abstract!Updates, Live
    <3> QED
      BY <3>4 DEF Abstract!Next
  <2>10. CASE Delete(p)
    <3>1. /\ req[p].id \in Ids /\ req[p].op = "delete"
          /\ items[req[p].id] # NoItem
      BY <2>10, RequestArguments
      DEF Delete, Answers, Goes, IInv, OpInv, DataInv, LookedUpIsCurrent
    <3>2. Abstract!Answer(p, Success({}))
      BY <1>0, <2>10, TakesEffect DEF Delete
    <3>3. Abstract!Deletes(p)
      BY SameOperators, <2>10, <3>1, <3>2 DEF Delete, Abstract!Deletes, Live
    <3> QED
      BY <3>3 DEF Abstract!Next
  <2>11. CASE Return(p)
    <3>1. Status[p] = "answered" /\ Status' = [Status EXCEPT ![p] = "idle"]
      BY <1>0, <2>11 DEF Return, Goes, TypeOK, Status, StatusOf
    <3> QED
      BY SameOperators, <2>11, <3>1 DEF Return, Abstract!Return, Abstract!Next
  <2> QED
    BY <1>6, <2>1, <2>2, <2>3, <2>4, <2>5, <2>6, <2>7, <2>8, <2>9, <2>10, <2>11
    DEF Runs
<1>7. CASE UNCHANGED vars
  <2>1. Status' = Status
    BY <1>7 DEF vars, Status
  <2> QED
    BY <1>4, <1>7, <2>1 DEF vars
<1> QED
  BY <1>1, <1>2, <1>3, <1>5, <1>6, <1>7 DEF Next

\* The store is linearizable: every behaviour of MemoryStore is, under the
\* refinement mapping Status, a behaviour of the atomic map.
THEOREM Refinement == Spec => Linearizable
<1>1. Spec => Abstract!Spec
  BY InitRefines, StepRefines, Invariance, PTL DEF Spec, Abstract!Spec
<1> QED
  BY <1>1 DEF Linearizable
=============================================================================
