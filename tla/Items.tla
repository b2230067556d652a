------------------------------- MODULE Items --------------------------------
(***************************************************************************)
(* The data of the item store: internal/model/item.go and the contract of  *)
(* internal/store/store.go.  Name, description and price of an item are    *)
(* one value, its contents; a time is a natural number.                    *)
(***************************************************************************)
EXTENDS Naturals, FiniteSets

CONSTANTS
  Procs,      \* the goroutines that call the store
  Ids,        \* the identifiers uuid.New will ever return
  Contents,   \* what an item may hold
  EmptyId,    \* the empty string given as an identifier
  NilItem,    \* a nil *model.Item given as an argument
  NoItem,     \* an absent key of the map
  MaxTime     \* bound: the clock stops here

ASSUME ItemsAssumption ==
  /\ EmptyId \notin Ids
  /\ NilItem \notin Contents
  /\ MaxTime \in Nat

Time == 0 .. MaxTime

Item == [id : Ids, content : Contents, created : Time, updated : Time]

ASSUME NoItemAssumption == NoItem \notin Item

\* The map of the store: a key is absent when its value is NoItem.
ItemMap == [Ids -> Item \cup {NoItem}]

Live(items) == {i \in Ids : items[i] # NoItem}

\* What List has to return, whatever the order of the slice.
Stored(items) == {items[i] : i \in Live(items)}

\* The calls of the Store interface with the arguments each one takes.
Request ==
  [op : {"list"}, id : {EmptyId}, content : {NilItem}]
    \cup [op : {"get", "delete"}, id : Ids \cup {EmptyId}, content : {NilItem}]
    \cup [op : {"create"}, id : {EmptyId}, content : Contents \cup {NilItem}]
    \cup [op : {"update"}, id : Ids \cup {EmptyId},
          content : Contents \cup {NilItem}]

NoRequest == [op |-> "none", id |-> EmptyId, content |-> NilItem]

\* ErrInvalidID, ErrNilItem and ErrNotFound, and the context's error.
Error == {"nil", "canceled", "invalid_id", "nil_item", "not_found"}

Reply == [err : Error, items : SUBSET Item]

Success(S) == [err |-> "nil", items |-> S]
Failure(e) == [err |-> e, items |-> {}]
NoReply    == Success({})

\* The error an operation finds in its arguments before it takes the lock:
\* the identifier is looked at before the item.
ArgumentError(r) ==
  IF r.op \in {"get", "update", "delete"} /\ r.id = EmptyId THEN "invalid_id"
  ELSE IF r.op \in {"create", "update"} /\ r.content = NilItem THEN "nil_item"
  ELSE "nil"

NewItem(i, c, t) == [id |-> i, content |-> c, created |-> t, updated |-> t]

\* Update builds a new value and keeps only the creation time of the old one.
Revised(old, c, t) ==
  [id |-> old.id, content |-> c, created |-> old.created, updated |-> t]
=============================================================================
