------------------------------ MODULE Pipeline ------------------------------
(***************************************************************************)
(* The path of a request through the API server: the middleware chain of   *)
(* server.setupMiddleware, the authenticators, the REST and the GraphQL    *)
(* handler, and the calls they make of the instrumented store.             *)
(*                                                                         *)
(* Each element of Procs is a request, with the goroutine of net/http that *)
(* handles it.  The resolvers of a GraphQL request run in a goroutine of   *)
(* their own (graphql.Do), one call of the store after the other; its      *)
(* handler does not wait for them when the context of the request is done, *)
(* and the resolvers go on by themselves.  A REST handler makes its one    *)
(* call itself and waits for it.                                           *)
(*                                                                         *)
(* The store is the atomic map of ItemStore, which MemoryStore is shown to *)
(* implement.  Times play no part here, and its clock stands still.        *)
(***************************************************************************)
EXTENDS Items, Authenticators

CONSTANTS
  Order,   \* the authenticators in the order they are tried; <<>>: none is set
  Inputs   \* bound: the requests that clients make

\* One call of the store, and whether the handler finds its arguments valid.
Work == [call : Request, valid : BOOLEAN]

Changes(work) == work.call.op \in {"create", "update", "delete"}

\* upgrade: whether the header Upgrade says "websocket", on whatever path.
Input ==
  [kind : {"rest", "graphql", "public"}, upgrade : BOOLEAN, creds : Credentials,
   calls : Seq(Work)]

\* What Auth lets by: the public paths, and whatever asks for an upgrade.
Exempt(i) == i.kind = "public" \/ i.upgrade

ASSUME ProcsAssumption == IsFiniteSet(Procs)
ASSUME OrderAssumption == Order \in Seq(Method)
\* What the handlers let through, the store does not find fault with.  A query
\* is one field here; what ends an operation of several is true of mutations.
ASSUME InputsAssumption ==
  \A i \in Inputs :
    /\ i \in Input
    /\ i.kind = "public"  => i.calls = <<>>
    /\ i.kind = "rest"    => Len(i.calls) = 1
    /\ i.kind = "graphql" => Len(i.calls) > 0
    /\ Len(i.calls) > 1   => \A n \in DOMAIN i.calls : Changes(i.calls[n])
    /\ \A n \in DOMAIN i.calls :
         i.calls[n].valid => ArgumentError(i.calls[n].call) = "nil"

VARIABLES items, issued, now, status, req, canceled, reply

storeVars == <<items, issued, now, status, req, canceled, reply>>

Store == INSTANCE ItemStore

VARIABLES
  input,     \* input[p]: what the client has sent
  at,        \* at[p]: where the goroutine of net/http stands
  tried,     \* tried[p]: the authenticators that found no credentials
  verdict,   \* verdict[p]: "none", the method that accepted it, or the error
  exec,      \* exec[p]: where the goroutine that calls the store stands
  next,      \* next[p]: the call it is at
  err,       \* err[p]: the error that ended it
  done,      \* done[p]: the context of the request is done
  answer,    \* answer[p]: the response; "errors" is a 200 that lists errors
  wrote,     \* wrote[p]: how often it has changed the map (history)
  inFlight,  \* http_requests_in_flight
  total,     \* http_requests_total
  panics,    \* panics_recovered_total
  attempts,  \* auth_attempts_total
  ops        \* store_operations_total

handlerVars == <<input, at, tried, verdict, answer>>
execVars    == <<exec, next, err, wrote>>
httpMetrics == <<inFlight, total, panics>>
vars == <<storeVars, handlerVars, execVars, done, httpMetrics, attempts, ops>>

Result == {"success", "failure"}
Answer == {"none", "ok", "created", "no_content", "errors", "bad_request",
           "unauthorized", "not_found", "internal_error"}
NoInput ==
  [kind |-> "none", upgrade |-> FALSE, creds |-> [m \in Method |-> "absent"],
   calls |-> <<>>]

TypeOK ==
  /\ items \in ItemMap /\ issued \subseteq Ids /\ now \in Time
  /\ status \in [Procs -> {"idle", "called", "answered", "doomed"}]
  /\ req \in [Procs -> Request \cup {NoRequest}]
  /\ canceled \in [Procs -> BOOLEAN]
  /\ reply \in [Procs -> Reply]
  /\ input \in [Procs -> Inputs \cup {NoInput}]
  /\ at \in [Procs -> {"new", "auth", "handle", "wait", "unwind", "done"}]
  /\ tried \in [Procs -> 0 .. Len(Order)]
  /\ verdict \in [Procs -> {"none"} \cup Method \cup AuthError]
  /\ exec \in [Procs -> {"idle", "run", "call", "over"}]
  /\ next \in [Procs -> Nat \ {0}]
  /\ err \in [Procs -> Error \cup {"invalid"}]
  /\ done \in [Procs -> BOOLEAN]
  /\ answer \in [Procs -> Answer]
  /\ wrote \in [Procs -> Nat]
  /\ inFlight \in Nat /\ total \in Nat /\ panics \in Nat
  /\ attempts \in [Result -> Nat]
  /\ ops \in [{"list", "get", "create", "update", "delete"} -> [Result -> Nat]]

Init ==
  /\ Store!Init
  /\ input = [p \in Procs |-> NoInput]
  /\ at = [p \in Procs |-> "new"]
  /\ tried = [p \in Procs |-> 0]
  /\ verdict = [p \in Procs |-> "none"]
  /\ exec = [p \in Procs |-> "idle"]
  /\ next = [p \in Procs |-> 1]
  /\ err = [p \in Procs |-> "nil"]
  /\ done = [p \in Procs |-> FALSE]
  /\ answer = [p \in Procs |-> "none"]
  /\ wrote = [p \in Procs |-> 0]
  /\ inFlight = 0 /\ total = 0 /\ panics = 0
  /\ attempts = [r \in Result |-> 0]
  /\ ops = [o \in {"list", "get", "create", "update", "delete"} |->
              [r \in Result |-> 0]]

Goes(p, from, to) ==
  /\ at[p] = from
  /\ at' = [at EXCEPT ![p] = to]

Runs(p, from, to) ==
  /\ exec[p] = from
  /\ exec' = [exec EXCEPT ![p] = to]

Kind(p) == input[p].kind
Now(p)  == input[p].calls[next[p]]

-----------------------------------------------------------------------------
(* Metrics and Auth *)

\* Without authenticators there is no Auth.
Arrive(p, i) ==
  /\ Goes(p, "new", IF Exempt(i) \/ Order = <<>> THEN "handle" ELSE "auth")
  /\ input' = [input EXCEPT ![p] = i]
  /\ inFlight' = inFlight + 1
  /\ UNCHANGED <<storeVars, tried, verdict, answer, execVars, done, total, panics,
                 attempts, ops>>

Responds(p, from, a) ==
  /\ Goes(p, from, "unwind")
  /\ answer' = [answer EXCEPT ![p] = a]

Decides(p, v) ==
  /\ verdict' = [verdict EXCEPT ![p] = v]
  /\ attempts' = [attempts EXCEPT ![IF v \in Method THEN "success" ELSE "failure"] = @ + 1]
  /\ UNCHANGED <<storeVars, input, tried, execVars, done, httpMetrics, ops>>

\* MultiAuthenticator: one after the other, until one finds credentials.
Untried(p) == at[p] = "auth" /\ tried[p] < Len(Order)
Tries(p)   == Order[tried[p] + 1]
Errors(p)  == Verdicts(Tries(p), input[p].creds[Tries(p)])

\* Mutant: the next authenticator is tried after any error.
PassesAnyError(p) ==
  /\ Untried(p) /\ Errors(p) # {"nil"}
  /\ tried' = [tried EXCEPT ![p] = @ + 1]
  /\ UNCHANGED <<storeVars, input, at, verdict, answer, execVars, done,
                 httpMetrics, attempts, ops>>

Passes(p) ==
  /\ Untried(p) /\ "unauthenticated" \in Errors(p)
  /\ tried' = [tried EXCEPT ![p] = @ + 1]
  /\ UNCHANGED <<storeVars, input, at, verdict, answer, execVars, done,
                 httpMetrics, attempts, ops>>

Accepts(p) ==
  /\ Untried(p) /\ "nil" \in Errors(p)
  /\ Goes(p, "auth", "handle") /\ UNCHANGED answer
  /\ Decides(p, Tries(p))

Refuses(p) ==
  /\ \/ Untried(p) /\ \E e \in Errors(p) \ {"nil", "unauthenticated"} : Decides(p, e)
     \/ tried[p] = Len(Order) /\ Decides(p, "unauthenticated")
  /\ Responds(p, "auth", "unauthorized")

-----------------------------------------------------------------------------
(* The handler *)

\* /health, /ready and /metrics
AnswerPublic(p) ==
  /\ Kind(p) = "public" /\ Responds(p, "handle", "ok")
  /\ UNCHANGED <<storeVars, input, tried, verdict, execVars, done, httpMetrics,
                 attempts, ops>>

Begin(p) ==
  /\ Kind(p) # "public" /\ Goes(p, "handle", "wait")
  /\ Runs(p, "idle", "run")
  /\ UNCHANGED <<storeVars, input, tried, verdict, answer, next, err, wrote, done,
                 httpMetrics, attempts, ops>>

\* Mutant: an item that is not there counts as deleted.
StatusIdempotent(op, e) ==
  CASE op = "delete" /\ e \in {"nil", "not_found"} -> "no_content"
    [] op = "create" /\ e = "nil" -> "created"
    [] e = "nil" -> "ok"
    [] op # "list" /\ e = "not_found" -> "not_found"
    [] e = "invalid" \/ (op # "list" /\ e = "invalid_id") -> "bad_request"
    [] OTHER -> "internal_error"

\* The REST status of an error of the store.
Status(op, e) ==
  CASE e = "nil" -> (CASE op = "create" -> "created"
                       [] op = "delete" -> "no_content"
                       [] OTHER -> "ok")
    [] e = "invalid" -> "bad_request"
    [] op # "list" /\ e = "not_found" -> "not_found"
    [] op # "list" /\ e = "invalid_id" -> "bad_request"
    [] OTHER -> "internal_error"

\* GraphQL answers 200 and lists what went wrong.
Listed(e) == IF e = "nil" THEN "ok" ELSE "errors"

Outcome(p) ==
  IF Kind(p) = "rest" THEN Status(Now(p).call.op, err[p]) ELSE Listed(err[p])

\* Mutant: nobody is told when the client has gone.
AnswerIfHeard(p) ==
  /\ exec[p] = "over" /\ ~done[p]
  /\ Responds(p, "wait", Outcome(p))
  /\ UNCHANGED <<storeVars, input, tried, verdict, execVars, done, httpMetrics,
                 attempts, ops>>

Answers(p) ==
  /\ exec[p] = "over"
  /\ Responds(p, "wait", Outcome(p))
  /\ UNCHANGED <<storeVars, input, tried, verdict, execVars, done, httpMetrics,
                 attempts, ops>>

\* graphql.Do returns when the context is done, whatever its goroutine does.
Abandon(p) ==
  /\ Kind(p) = "graphql" /\ done[p] /\ Responds(p, "wait", "errors")
  /\ UNCHANGED <<storeVars, input, tried, verdict, execVars, done, httpMetrics,
                 attempts, ops>>

\* The context of the request, which a call of the store in progress shares.
LosesContext(p) ==
  /\ done' = [done EXCEPT ![p] = TRUE]
  /\ IF status[p] = "idle" THEN UNCHANGED storeVars ELSE Store!Cancel(p)

Disconnect(p) ==
  /\ at[p] \notin {"new", "done"} /\ ~done[p]
  /\ LosesContext(p)
  /\ UNCHANGED <<handlerVars, execVars, httpMetrics, attempts, ops>>

\* Metrics counts what has been answered; net/http cancels the context.
Unwind(p) ==
  /\ Goes(p, "unwind", "done")
  /\ inFlight' = inFlight - 1 /\ total' = total + 1
  /\ LosesContext(p)
  /\ UNCHANGED <<input, tried, verdict, answer, execVars, panics, attempts, ops>>

\* Mutant: the gauge is decremented after the handler and not by a defer.
RecoverWithoutDec(p) ==
  /\ Kind(p) = "rest" /\ Goes(p, "handle", "done")
  /\ answer' = [answer EXCEPT ![p] = "internal_error"]
  /\ panics' = panics + 1
  /\ LosesContext(p)
  /\ UNCHANGED <<input, tried, verdict, execVars, inFlight, total, attempts, ops>>

\* A handler that panics is cut short up to Recovery: of Metrics, only what it
\* deferred is run.
Recover(p) ==
  /\ Kind(p) = "rest" /\ Goes(p, "handle", "done")
  /\ answer' = [answer EXCEPT ![p] = "internal_error"]
  /\ inFlight' = inFlight - 1 /\ panics' = panics + 1
  /\ LosesContext(p)
  /\ UNCHANGED <<input, tried, verdict, execVars, total, attempts, ops>>

-----------------------------------------------------------------------------
(* The calls of the store *)

\* Invalid input does not reach the store.
Reject(p) ==
  /\ Runs(p, "run", "over") /\ ~Now(p).valid
  /\ err' = [err EXCEPT ![p] = "invalid"]
  /\ UNCHANGED <<storeVars, handlerVars, next, wrote, done, httpMetrics, attempts, ops>>

\* Mutant: a resolver calls the store with context.Background.
CallDetached(p) ==
  /\ Runs(p, "run", "call") /\ Now(p).valid
  /\ Store!Call(p, Now(p).call) /\ ~canceled'[p]
  /\ UNCHANGED <<handlerVars, next, err, wrote, done, httpMetrics, attempts, ops>>

\* The call is made with the context of the request.
Call(p) ==
  /\ Runs(p, "run", "call") /\ Now(p).valid
  /\ Store!Call(p, Now(p).call) /\ canceled'[p] = done[p]
  /\ UNCHANGED <<handlerVars, next, err, wrote, done, httpMetrics, attempts, ops>>

TakeEffect(p) ==
  /\ \/ (Store!Fails(p) \/ Store!Reads(p)) /\ UNCHANGED wrote
     \/ /\ Store!Creates(p) \/ Store!Updates(p) \/ Store!Deletes(p)
        /\ wrote' = [wrote EXCEPT ![p] = @ + 1]
  /\ UNCHANGED <<handlerVars, exec, next, err, done, httpMetrics, attempts, ops>>

\* Mutant: a call that has failed is made again.
MovesOnOrRetries(p) ==
  /\ err' = [err EXCEPT ![p] = reply[p].err]
  /\ IF reply[p].err # "nil" THEN Runs(p, "call", "run") /\ UNCHANGED next
     ELSE IF next[p] < Len(input[p].calls)
     THEN Runs(p, "call", "run") /\ next' = [next EXCEPT ![p] = @ + 1]
     ELSE Runs(p, "call", "over") /\ UNCHANGED next

\* The field after this one, when there is one and this one has not failed: all
\* mutations are of a non-null type, and the first error ends the operation.
MovesOn(p) ==
  /\ err' = [err EXCEPT ![p] = reply[p].err]
  /\ IF reply[p].err = "nil" /\ next[p] < Len(input[p].calls)
     THEN Runs(p, "call", "run") /\ next' = [next EXCEPT ![p] = @ + 1]
     ELSE Runs(p, "call", "over") /\ UNCHANGED next

\* Mutant: a failed field does not keep the next ones from being resolved.
ReturnsRegardless(p) ==
  /\ Store!Return(p)
  /\ err' = [err EXCEPT ![p] = IF reply[p].err = "nil" THEN @ ELSE reply[p].err]
  /\ IF next[p] < Len(input[p].calls)
     THEN Runs(p, "call", "run") /\ next' = [next EXCEPT ![p] = @ + 1]
     ELSE Runs(p, "call", "over") /\ UNCHANGED next
  /\ ops' = [ops EXCEPT ![req[p].op][IF reply[p].err = "nil" THEN "success"
                                     ELSE "failure"] = @ + 1]
  /\ UNCHANGED <<handlerVars, wrote, done, httpMetrics, attempts>>

\* Mutant: the decorator does not look at the error.
ReturnsUnexamined(p) ==
  /\ Store!Return(p)
  /\ MovesOn(p)
  /\ ops' = [ops EXCEPT ![req[p].op]["success"] = @ + 1]
  /\ UNCHANGED <<handlerVars, wrote, done, httpMetrics, attempts>>

\* InstrumentedStore counts the call by its result.
Returns(p) ==
  /\ Store!Return(p)
  /\ MovesOn(p)
  /\ ops' = [ops EXCEPT ![req[p].op][IF reply[p].err = "nil" THEN "success"
                                     ELSE "failure"] = @ + 1]
  /\ UNCHANGED <<handlerVars, wrote, done, httpMetrics, attempts>>

-----------------------------------------------------------------------------
HandlerStep(p) ==
  \/ Passes(p) \/ Accepts(p) \/ Refuses(p)
  \/ AnswerPublic(p) \/ Begin(p) \/ Answers(p) \/ Abandon(p) \/ Unwind(p)

ExecStep(p) == Reject(p) \/ Call(p) \/ TakeEffect(p) \/ Returns(p)

Next ==
  \E p \in Procs :
    \/ \E i \in Inputs : Arrive(p, i)
    \/ Disconnect(p) \/ Recover(p)
    \/ HandlerStep(p) \/ ExecStep(p)

Spec == Init /\ [][Next]_vars

\* Goroutines run, and calls of the store return (MemoryStore!EveryCallReturns).
Fairness == \A p \in Procs : WF_vars(HandlerStep(p)) /\ WF_vars(ExecStep(p))

FairSpec == Spec /\ Fairness

-----------------------------------------------------------------------------
(* Properties *)

Ongoing  == {p \in Procs : at[p] \notin {"new", "done"}}
Ended    == {p \in Procs : at[p] = "done"}
Accepted == {p \in Procs : verdict[p] \in Method}
Refused  == {p \in Procs : verdict[p] \in AuthError}

\* The metrics of HTTP and of authentication say what has happened, with or
\* without panics: the gauge comes back to zero, every request that has ended
\* is counted once, and so is every decision of an authenticator.
MetricsAddUp ==
  /\ inFlight = Cardinality(Ongoing)
  /\ total + panics = Cardinality(Ended)
  /\ attempts["success"] = Cardinality(Accepted)
  /\ attempts["failure"] = Cardinality(Refused)

\* The items that exist can be told from store_operations_total alone, but for
\* the calls that are returning: created less deleted.
Returning(op) ==
  Cardinality({p \in Procs : /\ status[p] = "answered"
                             /\ req[p].op = op /\ reply[p].err = "nil"})

OpsMatchStore ==
  LET created == ops["create"]["success"] + Returning("create")
      deleted == ops["delete"]["success"] + Returning("delete")
  IN  /\ created = Cardinality(issued)
      /\ created = deleted + Cardinality(Live(items))

\* The response says what became of the request.  A REST request that is told
\* of an error has changed nothing; the mutations of a GraphQL request are
\* carried out up to the first that fails, and "ok" means all of them.
Writes(p, n) ==
  Cardinality({k \in 1 .. n : Changes(input[p].calls[k])})

AnswerTellsEffect ==
  \A p \in Procs :
    /\ exec[p] = "idle" => wrote[p] = 0
    /\ exec[p] = "over" =>
         wrote[p] = Writes(p, IF err[p] = "nil" THEN Len(input[p].calls) ELSE next[p] - 1)
    /\ Kind(p) = "rest" /\ answer[p] # "none" =>
         wrote[p] = IF answer[p] \in {"ok", "created", "no_content"}
                    THEN Writes(p, 1) ELSE 0
    /\ Kind(p) = "graphql" /\ answer[p] = "ok" =>
         wrote[p] = Writes(p, Len(input[p].calls))

\* What is decided about a request is decided by the first method it holds
\* credentials for.  Only an accepted request reaches a handler, or one that Auth
\* has let by, and of such a one nothing is decided, whatever it holds.
Held(p) == {k \in DOMAIN Order : input[p].creds[Order[k]] # "absent"}
First(p) == CHOOSE k \in Held(p) : \A j \in Held(p) : k <= j

FirstCredentialsDecide ==
  \A p \in Procs :
    /\ verdict[p] # "none" =>
         IF Held(p) = {} THEN verdict[p] = "unauthenticated"
         ELSE LET m == Order[First(p)]
              IN  \/ verdict[p] = m /\ input[p].creds[m] = "good"
                  \/ verdict[p] = InvalidError[m]
    /\ Exempt(input[p]) => verdict[p] = "none"
    /\ exec[p] # "idle" /\ Order # <<>> =>
         Exempt(input[p]) \/ verdict[p] \in Method

\* Once the context of a request is done, the request changes nothing any more
\* and gets no further call past the store's look at its context, but for the
\* one call that had already looked; the resolvers that graphql.Do has left
\* behind are no exception.
DoneWritesNoMore ==
  [][\A p \in Procs :
       done[p] /\ status[p] # "called" =>
         status'[p] # "called" /\ wrote'[p] = wrote[p]]_vars

\* A deletion that a response confirms is final, whatever other requests do
\* meanwhile and afterwards: the item existed and never comes back, and nobody
\* else is told to have deleted it.
Deleted(p, n) ==
  {input[p].calls[k].call.id :
     k \in {j \in 1 .. n : input[p].calls[j].call.op = "delete"}}

ToldDeleted(p) ==
  IF answer[p] \in {"ok", "no_content"} THEN Deleted(p, Len(input[p].calls)) ELSE {}

DeletionsAreFinal ==
  \A p \in Procs :
    /\ ToldDeleted(p) \subseteq issued \ Live(items)
    /\ \A q \in Procs \ {p} : ToldDeleted(p) \cap ToldDeleted(q) = {}

\* Every request is answered and leaves no goroutine behind.
EveryRequestEnds ==
  \A p \in Procs :
    (at[p] # "new") ~> (at[p] = "done" /\ exec[p] \in {"idle", "over"})

-----------------------------------------------------------------------------
(* Progress: the part of EveryRequestEnds that needs no fairness            *)

\* The steps that the goroutine of net/http has still to take at most.
HandlerLeft(p) ==
  CASE at[p] = "new"    -> Len(Order) + 5
    [] at[p] = "auth"   -> Len(Order) + 4 - tried[p]
    [] at[p] = "handle" -> 3
    [] at[p] = "wait"   -> 2
    [] at[p] = "unwind" -> 1
    [] OTHER            -> 0

\* The same of the goroutine that calls the store, once it has begun: three for
\* every call, to make it, to have it take effect and to return from it.
ExecLeft(p) ==
  CASE exec[p] = "run" -> 3 * (Len(input[p].calls) - next[p]) + 3
    [] exec[p] = "call" /\ status[p] # "answered" ->
         3 * (Len(input[p].calls) - next[p]) + 2
    [] exec[p] = "call" /\ status[p] = "answered" ->
         3 * (Len(input[p].calls) - next[p]) + 1
    [] OTHER -> 0

\* Nobody waits for what will not come: an authenticator has an answer, a handler
\* that waits has resolvers to wait for, and these have a call to make or to wait
\* for, of the store that knows of it.
NoRequestStuck ==
  \A p \in Procs :
    /\ Untried(p) => Errors(p) # {}
    /\ at[p] = "handle" => exec[p] = "idle"
    /\ at[p] = "wait" => exec[p] # "idle"
    /\ exec[p] = "run" => next[p] \in DOMAIN input[p].calls /\ status[p] = "idle"
    /\ exec[p] = "call" => status[p] # "idle" /\ req[p] \in Request

\* One of its goroutines has a step less to take, or its client has gone.
Advances(p) ==
  \/ HandlerLeft(p)' < HandlerLeft(p)
  \/ /\ HandlerLeft(p)' = HandlerLeft(p)
     /\ \/ ExecLeft(p)' < ExecLeft(p)
        \/ ExecLeft(p)' = ExecLeft(p) /\ ~done[p] /\ done'[p]

Rests(p) == UNCHANGED <<HandlerLeft(p), ExecLeft(p), done[p]>>

\* No request gets stuck, and every step takes one request nearer to its end and
\* leaves the others where they are: none is tried again, retried or held up by
\* another one, and a client that disconnects adds nothing to what is left.
RequestsGoOn ==
  /\ []NoRequestStuck
  /\ [][\E p \in Procs : Advances(p) /\ \A q \in Procs \ {p} : Rests(q)]_vars

=============================================================================
