----------------------------- MODULE ItemStore ------------------------------
(***************************************************************************)
(* What the Store interface promises (internal/store/store.go): an atomic  *)
(* map.  A call takes effect at one instant between its invocation and its *)
(* return, on the contents of the map at that instant, and a call that     *)
(* fails leaves the map alone.  A call made with a context that is done    *)
(* has no effect; one whose context ends later may have one, or not.       *)
(* MemoryStore is shown to implement it.                                   *)
(***************************************************************************)
EXTENDS Items

VARIABLES
  items,     \* the map
  issued,    \* the identifiers already given out
  now,       \* the clock
  status,    \* status[p]: "idle", "called", "answered", or "doomed" when the
             \* call will find its context done
  req,       \* req[p]: the call in progress
  canceled,  \* canceled[p]: its context has been cancelled
  reply      \* reply[p]: its result, once it has taken effect

vars == <<items, issued, now, status, req, canceled, reply>>

Init ==
  /\ items = [i \in Ids |-> NoItem]
  /\ issued = {}
  /\ now = 0
  /\ status = [p \in Procs |-> "idle"]
  /\ req = [p \in Procs |-> NoRequest]
  /\ canceled = [p \in Procs |-> FALSE]
  /\ reply = [p \in Procs |-> NoReply]

Call(p, r) ==
  /\ status[p] = "idle"
  /\ req' = [req EXCEPT ![p] = r]
  /\ \/ status' = [status EXCEPT ![p] = "called"] /\ UNCHANGED canceled
     \/ /\ status' = [status EXCEPT ![p] = "doomed"]
        /\ canceled' = [canceled EXCEPT ![p] = TRUE]
  /\ UNCHANGED <<items, issued, now, reply>>

Cancel(p) ==
  /\ status[p] # "idle"
  /\ canceled' = [canceled EXCEPT ![p] = TRUE]
  /\ \/ UNCHANGED status
     \/ status[p] = "called" /\ status' = [status EXCEPT ![p] = "doomed"]
  /\ UNCHANGED <<items, issued, now, req, reply>>

Return(p) ==
  /\ status[p] = "answered"
  /\ status' = [status EXCEPT ![p] = "idle"]
  /\ req' = [req EXCEPT ![p] = NoRequest]
  /\ canceled' = [canceled EXCEPT ![p] = FALSE]
  /\ reply' = [reply EXCEPT ![p] = NoReply]
  /\ UNCHANGED <<items, issued, now>>

Ends(p, from, a) ==
  /\ status[p] = from
  /\ status' = [status EXCEPT ![p] = "answered"]
  /\ reply' = [reply EXCEPT ![p] = a]
  /\ UNCHANGED <<now, req, canceled>>

Answer(p, a) == Ends(p, "called", a)

\* The call takes effect: it is refused, or it reads or writes the map.
Fails(p) ==
  /\ UNCHANGED <<items, issued>>
  /\ \/ Ends(p, "doomed", Failure("canceled"))
     \/ ArgumentError(req[p]) # "nil" /\ Answer(p, Failure(ArgumentError(req[p])))
     \/ /\ ArgumentError(req[p]) = "nil"
        /\ req[p].op \in {"get", "update", "delete"}
        /\ req[p].id \notin Live(items)
        /\ Answer(p, Failure("not_found"))

Reads(p) ==
  /\ UNCHANGED <<items, issued>>
  /\ \/ req[p].op = "list" /\ Answer(p, Success(Stored(items)))
     \/ /\ req[p].op = "get" /\ req[p].id \in Live(items)
        /\ Answer(p, Success({items[req[p].id]}))

Creates(p) ==
  /\ req[p].op = "create" /\ ArgumentError(req[p]) = "nil"
  /\ \E i \in Ids \ issued :
       /\ items' = [items EXCEPT ![i] = NewItem(i, req[p].content, now)]
       /\ issued' = issued \cup {i}
       /\ Answer(p, Success({NewItem(i, req[p].content, now)}))

Updates(p) ==
  /\ req[p].op = "update" /\ ArgumentError(req[p]) = "nil"
  /\ req[p].id \in Live(items)
  /\ LET new == Revised(items[req[p].id], req[p].content, now)
     IN  /\ items' = [items EXCEPT ![req[p].id] = new]
         /\ Answer(p, Success({new}))
  /\ UNCHANGED issued

Deletes(p) ==
  /\ req[p].op = "delete" /\ req[p].id \in Live(items)
  /\ items' = [items EXCEPT ![req[p].id] = NoItem]
  /\ Answer(p, Success({}))
  /\ UNCHANGED issued

Tick ==
  /\ now < MaxTime
  /\ now' = now + 1
  /\ UNCHANGED <<items, issued, status, req, canceled, reply>>

Next ==
  \/ Tick
  \/ \E p \in Procs :
       \/ \E r \in Request : Call(p, r)
       \/ Cancel(p) \/ Return(p)
       \/ Fails(p) \/ Reads(p) \/ Creates(p) \/ Updates(p) \/ Deletes(p)

Spec == Init /\ [][Next]_vars
=============================================================================
