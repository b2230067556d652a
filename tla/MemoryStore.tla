---------------------------- MODULE MemoryStore -----------------------------
(***************************************************************************)
(* internal/store/memory.go: a Go map guarded by a sync.RWMutex.           *)
(*                                                                         *)
(* Every operation looks at its context and its arguments before it takes  *)
(* the lock; the deferred unlock runs when its result is known.  The steps *)
(* inside a critical section are separate actions: List copies the map one *)
(* entry at a time, Update and Delete look the key up before they write.   *)
(*                                                                         *)
(* The lock is sync.RWMutex as the Go library implements it: a writer that *)
(* waits for readers to leave keeps new readers out (pending), and a       *)
(* writer that leaves lets in at once every reader that queued meanwhile.  *)
(***************************************************************************)
EXTENDS Items

CONSTANTS
  NoProc,
  Calls       \* bound: the calls the goroutines make

ASSUME NoProcAssumption == NoProc \notin Procs
ASSUME CallsAssumption == Calls \subseteq Request
\* MayCreate counts goroutines and identifiers.
ASSUME FiniteAssumption == IsFiniteSet(Procs) /\ IsFiniteSet(Ids)

VARIABLES
  items,     \* s.items
  issued,    \* identifiers uuid.New has returned
  now,       \* the clock time.Now reads
  pc,        \* pc[p]: where goroutine p stands in its operation
  req,       \* req[p]: the operation and its arguments
  canceled,  \* canceled[p]: its context is done
  reply,     \* reply[p]: its result
  got,       \* got[p]: items it has copied out of the map
  todo,      \* todo[p]: keys List has still to visit
  readers,   \* s.mu: the goroutines that hold it for reading
  pending    \* s.mu: the writer that holds it or waits for the readers

callVars == <<req, canceled>>
lockVars == <<readers, pending>>
copyVars == <<got, todo>>
vars == <<items, issued, now, pc, callVars, reply, copyVars, lockVars>>

ReadSection  == {"read", "copy", "runlock"}
WriteSection == {"look", "write", "unlock"}
PC == {"idle", "entry", "rlock", "rwait", "lock", "drain", "answered"}
        \cup ReadSection \cup WriteSection

TypeOK ==
  /\ items \in ItemMap
  /\ issued \subseteq Ids
  /\ now \in Time
  /\ pc \in [Procs -> PC]
  /\ req \in [Procs -> Request \cup {NoRequest}]
  /\ canceled \in [Procs -> BOOLEAN]
  /\ reply \in [Procs -> Reply]
  /\ got \in [Procs -> SUBSET Item]
  /\ todo \in [Procs -> SUBSET Ids]
  /\ readers \subseteq Procs
  /\ pending \in Procs \cup {NoProc}

Init ==
  /\ items = [i \in Ids |-> NoItem]
  /\ issued = {}
  /\ now = 0
  /\ pc = [p \in Procs |-> "idle"]
  /\ req = [p \in Procs |-> NoRequest]
  /\ canceled = [p \in Procs |-> FALSE]
  /\ reply = [p \in Procs |-> NoReply]
  /\ got = [p \in Procs |-> {}]
  /\ todo = [p \in Procs |-> {}]
  /\ readers = {}
  /\ pending = NoProc

Goes(p, from, to) ==
  /\ pc[p] = from
  /\ pc' = [pc EXCEPT ![p] = to]

-----------------------------------------------------------------------------
(* The caller *)

\* Bound: no more calls of Create than there are identifiers left.
Creating == {p \in Procs : req[p].op = "create" /\ reply[p] = NoReply}
MayCreate == Cardinality(Creating) < Cardinality(Ids \ issued)

Call(p, r) ==
  /\ r.op = "create" => MayCreate
  /\ Goes(p, "idle", "entry")
  /\ req' = [req EXCEPT ![p] = r]
  /\ \E done \in BOOLEAN : canceled' = [canceled EXCEPT ![p] = done]
  /\ UNCHANGED <<items, issued, now, reply, copyVars, lockVars>>

Cancel(p) ==
  /\ pc[p] # "idle" /\ ~canceled[p]
  /\ canceled' = [canceled EXCEPT ![p] = TRUE]
  /\ UNCHANGED <<items, issued, now, pc, req, reply, copyVars, lockVars>>

Return(p) ==
  /\ Goes(p, "answered", "idle")
  /\ req' = [req EXCEPT ![p] = NoRequest]
  /\ canceled' = [canceled EXCEPT ![p] = FALSE]
  /\ reply' = [reply EXCEPT ![p] = NoReply]
  /\ got' = [got EXCEPT ![p] = {}]
  /\ UNCHANGED <<items, issued, now, todo, lockVars>>

\* Bound: MaxTime.
Tick ==
  /\ now < MaxTime
  /\ now' = now + 1
  /\ UNCHANGED <<items, issued, pc, callVars, reply, copyVars, lockVars>>

-----------------------------------------------------------------------------
(* Before the lock: the context first, then the arguments. *)

Refuse(p) ==
  LET err == IF canceled[p] THEN "canceled" ELSE ArgumentError(req[p])
  IN  /\ err # "nil"
      /\ Goes(p, "entry", "answered")
      /\ reply' = [reply EXCEPT ![p] = Failure(err)]
      /\ UNCHANGED <<items, issued, now, callVars, copyVars, lockVars>>

Accept(p) ==
  /\ ~canceled[p] /\ ArgumentError(req[p]) = "nil"
  /\ Goes(p, "entry", IF req[p].op \in {"list", "get"} THEN "rlock" ELSE "lock")
  /\ UNCHANGED <<items, issued, now, callVars, reply, copyVars, lockVars>>

-----------------------------------------------------------------------------
(* sync.RWMutex *)

RLock(p) ==
  /\ pending = NoProc
  /\ Goes(p, "rlock", "read")
  /\ readers' = readers \cup {p}
  /\ UNCHANGED <<items, issued, now, callVars, reply, copyVars, pending>>

RLockQueues(p) ==
  /\ pending # NoProc
  /\ Goes(p, "rlock", "rwait")
  /\ UNCHANGED <<items, issued, now, callVars, reply, copyVars, lockVars>>

RUnlock(p) ==
  /\ Goes(p, "runlock", "answered")
  /\ readers' = readers \ {p}
  /\ UNCHANGED <<items, issued, now, callVars, reply, copyVars, pending>>

LockAnnounces(p) ==
  /\ pending = NoProc
  /\ Goes(p, "lock", "drain")
  /\ pending' = p
  /\ UNCHANGED <<items, issued, now, callVars, reply, copyVars, readers>>

Lock(p) ==
  /\ readers = {}
  /\ Goes(p, "drain", IF req[p].op = "create" THEN "write" ELSE "look")
  /\ UNCHANGED <<items, issued, now, callVars, reply, copyVars, lockVars>>

Unlock(p) ==
  /\ pc[p] = "unlock"
  /\ pc' = [q \in Procs |-> IF q = p THEN "answered"
                            ELSE IF pc[q] = "rwait" THEN "read" ELSE pc[q]]
  /\ readers' = readers \cup {q \in Procs : pc[q] = "rwait"}
  /\ pending' = NoProc
  /\ UNCHANGED <<items, issued, now, callVars, reply, copyVars>>

-----------------------------------------------------------------------------
(* Inside the lock *)

Answers(p, from, to, a) ==
  /\ Goes(p, from, to)
  /\ reply' = [reply EXCEPT ![p] = a]

Get(p) ==
  /\ req[p].op = "get"
  /\ Answers(p, "read", "runlock",
             IF items[req[p].id] = NoItem THEN Failure("not_found")
             ELSE Success({items[req[p].id]}))
  /\ UNCHANGED <<items, issued, now, callVars, copyVars, lockVars>>

\* Mutant: List takes the keys under the lock and copies the items after it.
ListUnlocked(p) ==
  /\ req[p].op = "list"
  /\ Goes(p, "read", "copy")
  /\ todo' = [todo EXCEPT ![p] = Live(items)]
  /\ readers' = readers \ {p}
  /\ UNCHANGED <<items, issued, now, callVars, reply, got, pending>>

ListBegin(p) ==
  /\ req[p].op = "list"
  /\ Goes(p, "read", "copy")
  /\ todo' = [todo EXCEPT ![p] = Live(items)]
  /\ UNCHANGED <<items, issued, now, callVars, reply, got, lockVars>>

ListCopy(p, i) ==
  /\ pc[p] = "copy" /\ i \in todo[p]
  /\ got' = [got EXCEPT ![p] = @ \cup {items[i]}]
  /\ todo' = [todo EXCEPT ![p] = @ \ {i}]
  /\ UNCHANGED <<items, issued, now, pc, callVars, reply, lockVars>>

ListEnd(p) ==
  /\ todo[p] = {}
  /\ Answers(p, "copy", "runlock", Success(got[p]))
  /\ UNCHANGED <<items, issued, now, callVars, copyVars, lockVars>>

Create(p) ==
  /\ pc[p] = "write" /\ req[p].op = "create"
  /\ \E i \in Ids \ issued :
       /\ items' = [items EXCEPT ![i] = NewItem(i, req[p].content, now)]
       /\ issued' = issued \cup {i}
       /\ Answers(p, "write", "unlock",
                  Success({NewItem(i, req[p].content, now)}))
  /\ UNCHANGED <<now, callVars, copyVars, lockVars>>

\* Mutant: the early return on a missing key skips the unlock.
MissKeepsLock(p) ==
  /\ Answers(p, "look", "answered", Failure("not_found"))
  /\ items[req[p].id] = NoItem
  /\ UNCHANGED <<items, issued, now, callVars, copyVars, lockVars>>

\* Update and Delete read the map ...
LookMisses(p) ==
  /\ Answers(p, "look", "unlock", Failure("not_found"))
  /\ items[req[p].id] = NoItem
  /\ UNCHANGED <<items, issued, now, callVars, copyVars, lockVars>>

\* Mutant: the lock is released between the lookup and the write.
HitReleasesLock(p) ==
  /\ Goes(p, "look", "write")
  /\ items[req[p].id] # NoItem
  /\ got' = [got EXCEPT ![p] = {items[req[p].id]}]
  /\ pending' = NoProc
  /\ UNCHANGED <<items, issued, now, callVars, reply, todo, readers>>

LookHits(p) ==
  /\ Goes(p, "look", "write")
  /\ items[req[p].id] # NoItem
  /\ got' = [got EXCEPT ![p] = {items[req[p].id]}]
  /\ UNCHANGED <<items, issued, now, callVars, reply, todo, lockVars>>

\* Mutant: Update stamps the creation time again.
UpdateRestamps(p) ==
  /\ pc[p] = "write" /\ req[p].op = "update"
  /\ LET new == NewItem(req[p].id, req[p].content, now)
     IN  /\ items' = [items EXCEPT ![req[p].id] = new]
         /\ Answers(p, "write", "unlock", Success({new}))
  /\ UNCHANGED <<issued, now, callVars, copyVars, lockVars>>

\* ... and write it by what they read.
Update(p) ==
  /\ pc[p] = "write" /\ req[p].op = "update"
  /\ \E existing \in got[p] :
       LET new == Revised(existing, req[p].content, now)
       IN  /\ items' = [items EXCEPT ![req[p].id] = new]
           /\ Answers(p, "write", "unlock", Success({new}))
  /\ UNCHANGED <<issued, now, callVars, copyVars, lockVars>>

Delete(p) ==
  /\ req[p].op = "delete"
  /\ Answers(p, "write", "unlock", Success({}))
  /\ items' = [items EXCEPT ![req[p].id] = NoItem]
  /\ UNCHANGED <<issued, now, callVars, copyVars, lockVars>>

-----------------------------------------------------------------------------
\* What a goroutine does by itself once its operation has been called.
Runs(p) ==
  \/ Refuse(p) \/ Accept(p)
  \/ RLock(p) \/ RLockQueues(p) \/ RUnlock(p)
  \/ Lock(p) \/ Unlock(p)
  \/ Get(p) \/ ListBegin(p) \/ (\E i \in Ids : ListCopy(p, i)) \/ ListEnd(p)
  \/ Create(p) \/ LookMisses(p) \/ LookHits(p) \/ Update(p) \/ Delete(p)
  \/ Return(p)

Next ==
  \/ Tick
  \/ \E p \in Procs : \/ \E r \in Calls : Call(p, r)
                      \/ Cancel(p) \/ LockAnnounces(p) \/ Runs(p)

Spec == Init /\ [][Next]_vars

\* Every goroutine runs; sync.Mutex, which serialises the writers, hands the
\* lock to a waiter that has been overtaken for too long (starvation mode).
Fairness ==
  \A p \in Procs : WF_vars(Runs(p)) /\ SF_vars(LockAnnounces(p))

FairSpec == Spec /\ Fairness

-----------------------------------------------------------------------------
(* Properties *)

\* The lock does what it is there for: a writing goroutine is alone in its
\* critical section.
WriterAlone ==
  \A p, q \in Procs :
    pc[p] \in WriteSection /\ pc[q] \in ReadSection \cup WriteSection => p = q

\* Update and Delete write under the key they found, and what they found is
\* still what the map holds: no lost update, no write to a deleted key.
LookedUpIsCurrent ==
  \A p \in Procs :
    pc[p] = "write" /\ req[p].op \in {"update", "delete"} =>
      got[p] = {items[req[p].id]} /\ items[req[p].id] # NoItem

\* An identifier that was given out and is absent has been deleted: no
\* operation brings it back.
NoResurrection ==
  [][\A i \in issued : items[i] = NoItem => items'[i] = NoItem]_vars

\* An item's creation time never changes and its update time never goes back,
\* whatever the interleaving of the updates.
TimesAdvance ==
  [][\A i \in Live(items) \cap Live(items)' :
       /\ items'[i].created = items[i].created
       /\ items'[i].updated >= items[i].updated]_vars

\* The goroutines p cannot go on without: the writer that holds the lock or
\* announced itself, and for a writer the readers that came before it.
WaitsFor(p) ==
  IF pc[p] \in {"lock", "rwait"} THEN {pending}
  ELSE IF pc[p] = "drain" THEN readers ELSE {}

\* Whether p has a step to take now: the lock it asks for is free, the clock
\* of identifiers has not run out, Update still has the item it looked up.
CanGoOn(p) ==
  CASE pc[p] = "idle"  -> FALSE
    [] pc[p] = "rwait" -> FALSE
    [] pc[p] = "lock"  -> pending = NoProc
    [] pc[p] = "drain" -> readers = {}
    [] pc[p] = "write" -> /\ req[p].op = "create" => Ids \ issued # {}
                          /\ req[p].op = "update" => got[p] # {}
    [] OTHER           -> TRUE

\* p does not wait for the lock in vain: it has a step to take, or waits for one
\* that has, or for a writer that waits for readers that have.  In particular
\* no early return leaves s.mu held.
NotStuck(p) ==
  pc[p] # "idle" =>
    \/ CanGoOn(p)
    \/ \E q \in WaitsFor(p) \cap Procs :
         CanGoOn(q) \/ \E r \in WaitsFor(q) \cap Procs : CanGoOn(r)

NobodyStuck == \A p \in Procs : NotStuck(p)

\* The steps a call has still to take at most, the waiting left out.
Left(p) ==
  LET visits == Cardinality(Ids)
  IN  CASE pc[p] = "idle"                -> 0
        [] pc[p] = "answered"            -> 1
        [] pc[p] \in {"runlock", "unlock"} -> 2
        [] pc[p] = "write"               -> 3
        [] pc[p] = "copy"                -> 3 + Cardinality(todo[p])
        [] pc[p] \in {"look", "read"}    -> 4 + visits
        [] pc[p] \in {"drain", "rwait"}  -> 5 + visits
        [] pc[p] \in {"lock", "rlock"}   -> 6 + visits
        [] OTHER                         -> 7 + visits

\* No call goes round in circles and no wait is prolonged: each step of a call
\* brings its return nearer; no reader joins those a writer waits for, and a
\* reader that queued waits for one writer only.
CallsShorten ==
  [][\A p \in Procs : pc[p] # "idle" =>
       /\ UNCHANGED <<pc[p], todo[p]>> \/ Left(p)' < Left(p)
       /\ pc[p] = "drain" /\ pc'[p] = "drain" => readers' \subseteq readers
       /\ pc[p] = "rwait" /\ pc'[p] = "rwait" => pending' = pending]_vars

\* A call goes on: it is never stuck, and it never goes on for ever.
CallsGoOn == [](\A p \in Procs : NotStuck(p)) /\ CallsShorten

\* Every call returns: no operation is starved of the lock by a stream of
\* readers or writers.
EveryCallReturns == \A p \in Procs : (pc[p] = "entry") ~> (pc[p] = "idle")

\* The store is the atomic map of ItemStore.  A call takes effect when its
\* result is determined, still inside its critical section; before it has
\* looked at its context, a context that is done dooms it.
StatusOf(s, done) ==
  IF s = "idle" THEN "idle"
  ELSE IF s = "entry" /\ done THEN "doomed"
  ELSE IF s \in {"runlock", "unlock", "answered"} THEN "answered" ELSE "called"

Status == [p \in Procs |-> StatusOf(pc[p], canceled[p])]

Abstract == INSTANCE ItemStore WITH status <- Status

Linearizable == Abstract!Spec
=============================================================================
