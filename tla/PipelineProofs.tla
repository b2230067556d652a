--------------------------- MODULE PipelineProofs ---------------------------
(***************************************************************************)
(* Proofs about Pipeline, for any finite set of requests, any inputs that  *)
(* meet its assumptions and any list of authenticators.                    *)
(*                                                                         *)
(* The inductive invariant has four parts: the types; Path, how the two    *)
(* goroutines of a request, its call of the store and its context fit      *)
(* together; Decided, what the authenticators have found so far; and       *)
(* MetricsAddUp, which rests on the others.  That a request whose context  *)
(* is done changes nothing any more follows from Path.                     *)
(***************************************************************************)
EXTENDS Pipeline, FiniteSetTheorems, TLAPS

StoreTypes ==
  /\ items \in ItemMap /\ issued \subseteq Ids /\ now \in Time
  /\ status \in [Procs -> {"idle", "called", "answered", "doomed"}]
  /\ req \in [Procs -> Request \cup {NoRequest}]
  /\ canceled \in [Procs -> BOOLEAN]
  /\ reply \in [Procs -> Reply]

\* TypeOK but for the sign of the gauge, which needs counting.
Types ==
  /\ StoreTypes
  /\ input \in [Procs -> Inputs \cup {NoInput}]
  /\ at \in [Procs -> {"new", "auth", "handle", "wait", "unwind", "done"}]
  /\ tried \in [Procs -> 0 .. Len(Order)]
  /\ verdict \in [Procs -> {"none"} \cup Method \cup AuthError]
  /\ exec \in [Procs -> {"idle", "run", "call", "over"}]
  /\ next \in [Procs -> Nat \ {0}]
  /\ err \in [Procs -> Error \cup {"invalid"}]
  /\ done \in [Procs -> BOOLEAN]
  /\ answer \in [Procs -> Answer]
  /\ wrote \in [Procs -> Nat]
  /\ inFlight \in Int /\ total \in Nat /\ panics \in Nat
  /\ attempts \in [Result -> Nat]
  /\ ops \in [{"list", "get", "create", "update", "delete"} -> [Result -> Nat]]

PathOf(p) ==
  /\ at[p] # "new" => input[p] \in Inputs
  /\ exec[p] # "idle" => at[p] \in {"wait", "unwind", "done"} /\ Kind(p) # "public"
  /\ at[p] = "wait" => exec[p] # "idle"
  /\ exec[p] = "idle" => next[p] = 1
  /\ exec[p] \in {"run", "call"} => next[p] \in DOMAIN input[p].calls
  /\ exec[p] = "call" <=> status[p] # "idle"
  /\ status[p] = "idle" => ~canceled[p]
  /\ status[p] # "idle" => req[p] \in Request

Path == \A p \in Procs : PathOf(p)

DecidedOf(p) ==
  /\ at[p] = "new" => tried[p] = 0
  /\ \A k \in 1 .. tried[p] : input[p].creds[Order[k]] = "absent"
  /\ at[p] \in {"new", "auth"} => verdict[p] = "none"
  /\ at[p] = "auth" => ~Exempt(input[p])
  /\ Exempt(input[p]) => verdict[p] = "none"
  /\ at[p] \in {"handle", "wait"} \/ exec[p] # "idle" =>
       Order = <<>> \/ Exempt(input[p]) \/ verdict[p] \in Method

Decided == \A p \in Procs : DecidedOf(p)

\* FirstCredentialsDecide, of one request: its decision, and its way in.
Rightly(p) ==
  verdict[p] # "none" =>
    IF Held(p) = {} THEN verdict[p] = "unauthenticated"
    ELSE LET m == Order[First(p)]
         IN  \/ verdict[p] = m /\ input[p].creds[m] = "good"
             \/ verdict[p] = InvalidError[m]

LetIn(p) ==
  /\ Exempt(input[p]) => verdict[p] = "none"
  /\ exec[p] # "idle" /\ Order # <<>> => Exempt(input[p]) \/ verdict[p] \in Method

IInv == Types /\ Path /\ Decided /\ FirstCredentialsDecide /\ MetricsAddUp

-----------------------------------------------------------------------------
(* Types *)

LEMMA InputFacts ==
  ASSUME NEW i \in Inputs
  PROVE  /\ i \in Input
         /\ \A n \in DOMAIN i.calls : i.calls[n] \in Work
         /\ i.kind # "public" => Len(i.calls) > 0
<1>1. /\ i \in Input
      /\ i.kind = "rest"    => Len(i.calls) = 1
      /\ i.kind = "graphql" => Len(i.calls) > 0
  BY InputsAssumption
<1>2. i.kind \in {"rest", "graphql", "public"} /\ i.calls \in Seq(Work)
  BY <1>1 DEF Input
<1>3. QED
  BY <1>1, <1>2

\* The instance of ItemStore has the operators of Items.
LEMMA SameOperators ==
  /\ \A r : Store!ArgumentError(r) = ArgumentError(r)
  /\ \A m : Store!Live(m) = Live(m) /\ Store!Stored(m) = Stored(m)
  /\ \A S : Store!Success(S) = Success(S)
  /\ \A e : Store!Failure(e) = Failure(e)
  /\ \A i, c, t : Store!NewItem(i, c, t) = NewItem(i, c, t)
  /\ \A old, c, t : Store!Revised(old, c, t) = Revised(old, c, t)
  /\ Store!Request = Request
  /\ Store!NoRequest = NoRequest /\ Store!NoReply = NoReply
  BY DEF Store!ArgumentError, ArgumentError, Store!Live, Live, Store!Stored, Stored,
         Store!Success, Success, Store!Failure, Failure, Store!NewItem, NewItem,
         Store!Revised, Revised, Store!Request, Request, Store!NoRequest, NoRequest,
         Store!NoReply, NoReply

\* The steps of the store that a step of a request may take.
StoreStep(p) ==
  \/ \E r \in Request : Store!Call(p, r)
  \/ Store!Cancel(p) \/ Store!Return(p)
  \/ Store!Fails(p) \/ Store!Reads(p)
  \/ Store!Creates(p) \/ Store!Updates(p) \/ Store!Deletes(p)

LEMMA StoreKeepsTypes ==
  ASSUME StoreTypes, NEW p \in Procs, StoreStep(p),
         status[p] # "idle" => req[p] \in Request
  PROVE  StoreTypes'
<1> USE DEF StoreTypes, Store!Answer, Store!Ends
<1>1. CASE \E r \in Request : Store!Call(p, r)
  <2>1. PICK r \in Request : Store!Call(p, r)
    BY <1>1
  <2>2. /\ req' = [req EXCEPT ![p] = r]
        /\ UNCHANGED <<items, issued, now, reply>>
    BY <2>1 DEF Store!Call
  <2>3. /\ status' \in [Procs -> {"idle", "called", "answered", "doomed"}]
        /\ canceled' \in [Procs -> BOOLEAN]
    BY <2>1 DEF Store!Call
  <2>4. QED
    BY <2>2, <2>3
<1>2. CASE Store!Cancel(p)
  BY <1>2 DEF Store!Cancel
<1>3. CASE Store!Return(p)
  BY SameOperators, <1>3 DEF Store!Return, NoReply, Success, Reply, Error
<1>4. CASE Store!Fails(p)
  BY SameOperators, <1>4 DEF Store!Fails, Failure, Reply, Error, ArgumentError
<1>5. CASE Store!Reads(p)
  <2>1. Stored(items) \subseteq Item
    BY DEF Stored, Live, ItemMap
  <2>2. req[p].op = "get" /\ req[p].id \in Live(items) => {items[req[p].id]} \subseteq Item
    BY DEF Live, ItemMap
  <2>3. QED
    <3>1. PICK S \in SUBSET Item :
             UNCHANGED <<items, issued>> /\ Store!Answer(p, Success(S))
      BY SameOperators, <1>5, <2>1, <2>2 DEF Store!Reads
    <3>2. QED
      BY <3>1 DEF Success, Reply, Error
<1>6. CASE Store!Creates(p)
  <2>1. req[p].content \in Contents
    BY SameOperators, <1>6 DEF Store!Creates, ArgumentError, Request
  <2>2. \A i \in Ids : NewItem(i, req[p].content, now) \in Item
    BY <2>1 DEF NewItem, Item
  <2>3. QED
    BY SameOperators, <1>6, <2>2 DEF Store!Creates, Success, Reply, Error, ItemMap
<1>7. CASE Store!Updates(p)
  <2>1. req[p].content \in Contents /\ req[p].id \in Ids
    BY SameOperators, <1>7 DEF Store!Updates, ArgumentError, Request, Live
  <2>2. items[req[p].id] \in Item
    BY SameOperators, <1>7, <2>1 DEF Store!Updates, Live, ItemMap
  <2>3. Revised(items[req[p].id], req[p].content, now) \in Item
    BY <2>1, <2>2 DEF Revised, Item
  <2>4. QED
    BY SameOperators, <1>7, <2>1, <2>3 DEF Store!Updates, Success, Reply, Error, ItemMap
<1>8. CASE Store!Deletes(p)
  BY SameOperators, <1>8 DEF Store!Deletes, Success, Reply, Error, ItemMap
<1>9. QED
  BY <1>1, <1>2, <1>3, <1>4, <1>5, <1>6, <1>7, <1>8 DEF StoreStep

\* What the steps of a request do to the store: one of its steps, or nothing.
LEMMA RequestOfStore ==
  ASSUME Types, Path, NEW p \in Procs,
         \/ \E i \in Inputs : Arrive(p, i)
         \/ Disconnect(p) \/ Recover(p) \/ HandlerStep(p) \/ ExecStep(p)
  PROVE  StoreStep(p) \/ UNCHANGED storeVars
<1>1. CASE \E i \in Inputs : Arrive(p, i)
  BY <1>1 DEF Arrive
<1>2. CASE Disconnect(p) \/ Recover(p) \/ Unwind(p)
  BY <1>2 DEF Disconnect, Recover, Unwind, LosesContext, StoreStep
<1>3. CASE HandlerStep(p)
  BY <1>2, <1>3 DEF HandlerStep, Passes, Accepts, Refuses, Decides, AnswerPublic,
     Begin, Answers, Abandon
<1>4. CASE Call(p)
  <2>1. Now(p).call \in Request
    BY <1>4, InputFacts DEF Call, Runs, Now, Path, PathOf, Work
  <2>2. QED
    BY <1>4, <2>1 DEF Call, StoreStep
<1>5. CASE Reject(p) \/ TakeEffect(p) \/ Returns(p)
  BY <1>5 DEF Reject, TakeEffect, Returns, StoreStep
<1>6. QED
  BY <1>1, <1>2, <1>3, <1>4, <1>5 DEF ExecStep

LEMMA Started == Init => IInv
<1> SUFFICES ASSUME Init PROVE IInv
  OBVIOUS
<1> USE DEF Init, Store!Init
<1>1. Types
  BY SameOperators, ItemsAssumption, OrderAssumption DEF Types, StoreTypes, ItemMap, Time, Reply,
     NoReply, Success, Error, Answer, Result
<1>2. Path /\ Decided /\ FirstCredentialsDecide
  BY SameOperators DEF Path, PathOf, Decided, DecidedOf, FirstCredentialsDecide, NoInput, Kind
<1>3. MetricsAddUp
  <2>1. Ongoing = {} /\ Ended = {} /\ Accepted = {} /\ Refused = {}
    BY DEF Ongoing, Ended, Accepted, Refused, Method, AuthError, InvalidError
  <2>2. QED
    BY <2>1, FS_EmptySet DEF MetricsAddUp, Result
<1>4. QED
  BY <1>1, <1>2, <1>3 DEF IInv

\* What the authenticator that is tried may return.
LEMMA VerdictFacts ==
  ASSUME Types, Path, NEW p \in Procs, Untried(p)
  PROVE  LET m == Tries(p)
             c == input[p].creds[m]
         IN  /\ tried[p] + 1 \in DOMAIN Order /\ m \in Method
             /\ "unauthenticated" \in Errors(p) <=> c = "absent"
             /\ "nil" \in Errors(p) => c = "good"
             /\ \A e \in Errors(p) \ {"nil", "unauthenticated"} :
                  e = InvalidError[m] /\ c # "absent"
<1>1. tried[p] + 1 \in DOMAIN Order /\ Tries(p) \in Method
  BY OrderAssumption DEF Untried, Tries, Types
<1>2. input[p].creds \in [Method -> Credential]
  BY InputFacts DEF Untried, Path, PathOf, Input, Credentials
<1>3. input[p].creds[Tries(p)] \in {"absent", "bad", "good"}
  BY <1>1, <1>2 DEF Credential
<1>4. InvalidError[Tries(p)] \notin {"nil", "unauthenticated"}
  BY <1>1 DEF Method, InvalidError
<1>5. QED
  BY <1>1, <1>3, <1>4 DEF Errors, Verdicts, Verdict, TokenVerdicts

\* A step is one of a request.
Step(p) ==
  \/ \E i \in Inputs : Arrive(p, i)
  \/ Disconnect(p) \/ Recover(p) \/ HandlerStep(p) \/ ExecStep(p)

\* A decision is recorded with the request and counted as success or failure.
LEMMA DecisionTypes ==
  ASSUME Types, NEW p \in Procs, NEW v \in Method \cup AuthError, Decides(p, v)
  PROVE  /\ verdict' \in [Procs -> {"none"} \cup Method \cup AuthError]
         /\ attempts' \in [Result -> Nat]
<1>1. PICK r \in Result : attempts' = [attempts EXCEPT ![r] = @ + 1]
  BY DEF Decides, Result
<1>2. attempts \in [Result -> Nat]
  BY DEF Types
<1>3. attempts' \in [Result -> Nat]
  BY <1>1, <1>2
<1>4. verdict \in [Procs -> {"none"} \cup Method \cup AuthError]
  BY DEF Types
<1>5. verdict' = [verdict EXCEPT ![p] = v]
  BY DEF Decides
<1>6. QED
  BY <1>3, <1>4, <1>5

LEMMA TypesStep == Types /\ Path /\ [Next]_vars => Types'
<1> SUFFICES ASSUME Types, Path, [Next]_vars PROVE Types'
  OBVIOUS
<1>1. ASSUME NEW p \in Procs, Step(p) PROVE StoreTypes'
  <2>1. StoreStep(p) \/ UNCHANGED storeVars
    BY <1>1, RequestOfStore DEF Step
  <2>2. CASE UNCHANGED storeVars
    BY <2>2 DEF Types, StoreTypes, storeVars
  <2>3. CASE StoreStep(p)
    BY <2>3, StoreKeepsTypes DEF Types, Path, PathOf
  <2>4. QED
    BY <2>1, <2>2, <2>3
<1>2. ASSUME NEW p \in Procs, NEW i \in Inputs, Arrive(p, i) PROVE Types'
  <2>1. StoreTypes'
    BY <1>1, <1>2 DEF Step
  <2>2. QED
    BY <1>2, <2>1 DEF Types, Arrive, Goes, execVars
<1>3. ASSUME NEW p \in Procs, Disconnect(p) PROVE Types'
  BY <1>1, <1>3 DEF Types, Disconnect, LosesContext, handlerVars, execVars,
     httpMetrics, Step
<1>4. ASSUME NEW p \in Procs, Recover(p) PROVE Types'
  <2>1. StoreTypes'
    BY <1>1, <1>4 DEF Step
  <2>2. QED
    BY <1>4, <2>1 DEF Types, Recover, Goes, LosesContext, Answer, execVars
<1>5. ASSUME NEW p \in Procs, HandlerStep(p) PROVE Types'
  <2> USE DEF execVars, httpMetrics, Goes, Responds, Answer
  <2>0. StoreTypes'
    BY <1>1, <1>5 DEF Step
  <2>1. CASE Passes(p)
    BY <2>0, <2>1, OrderAssumption DEF Types, Passes, Untried
  <2>2. CASE Accepts(p)
    <3>1. Tries(p) \in Method /\ Decides(p, Tries(p))
      BY <2>2, OrderAssumption DEF Accepts, Untried, Tries, Types
    <3>2. /\ verdict' \in [Procs -> {"none"} \cup Method \cup AuthError]
          /\ attempts' \in [Result -> Nat]
      BY <3>1, DecisionTypes
    <3>3. QED
      BY <2>0, <2>2, <3>1, <3>2 DEF Types, Accepts, Decides
  <2>3. CASE Refuses(p)
    <3>1. PICK v \in AuthError : Decides(p, v)
      <4>1. ASSUME Untried(p) PROVE Errors(p) \subseteq {"nil"} \cup AuthError
        BY <4>1, VerdictFacts DEF AuthError
      <4>2. QED
        BY <2>3, <4>1 DEF Refuses, AuthError
    <3>2. /\ verdict' \in [Procs -> {"none"} \cup Method \cup AuthError]
          /\ attempts' \in [Result -> Nat]
      BY <3>1, DecisionTypes
    <3>3. QED
      BY <2>0, <2>3, <3>1, <3>2 DEF Types, Refuses, Decides
  <2>4. CASE AnswerPublic(p)
    BY <2>0, <2>4 DEF Types, AnswerPublic
  <2>5. CASE Begin(p)
    BY <2>0, <2>5 DEF Types, Begin, Runs
  <2>6. CASE Answers(p)
    <3>1. \A op, e : Status(op, e) \in Answer
      BY DEF Status
    <3>2. Outcome(p) \in Answer
      BY <3>1 DEF Outcome, Listed
    <3>3. QED
      BY <2>0, <2>6, <3>2 DEF Types, Answers
  <2>7. CASE Abandon(p)
    BY <2>0, <2>7 DEF Types, Abandon
  <2>8. CASE Unwind(p)
    BY <2>0, <2>8 DEF Types, Unwind, LosesContext
  <2>9. QED
    BY <1>5, <2>1, <2>2, <2>3, <2>4, <2>5, <2>6, <2>7, <2>8 DEF HandlerStep
<1>6. ASSUME NEW p \in Procs, ExecStep(p) PROVE Types'
  <2> USE DEF handlerVars, httpMetrics, Runs
  <2>0. StoreTypes'
    BY <1>1, <1>6 DEF Step
  <2>1. CASE Reject(p)
    BY <2>0, <2>1 DEF Types, Reject
  <2>2. CASE Call(p)
    BY <2>0, <2>2 DEF Types, Call
  <2>3. CASE TakeEffect(p)
    BY <2>0, <2>3 DEF Types, TakeEffect
  <2>4. CASE Returns(p)
    <3>1. exec[p] = "call"
      BY <2>4 DEF Returns, MovesOn
    <3>2. req[p].op \in {"list", "get", "create", "update", "delete"}
      BY <3>1 DEF Path, PathOf, Request
    <3>3. reply[p].err \in Error
      BY DEF Types, StoreTypes, Reply
    <3>4. next' \in [Procs -> Nat \ {0}] /\ exec' \in [Procs -> {"idle", "run", "call", "over"}]
      <4>1. CASE Runs(p, "call", "run") /\ next' = [next EXCEPT ![p] = @ + 1]
        BY <4>1 DEF Types
      <4>2. CASE Runs(p, "call", "over") /\ UNCHANGED next
        BY <4>2 DEF Types
      <4>3. QED
        BY <2>4, <4>1, <4>2 DEF Returns, MovesOn
    <3>5. err' \in [Procs -> Error \cup {"invalid"}]
      BY <2>4, <3>3 DEF Types, Returns, MovesOn
    <3>6. ops' \in [{"list", "get", "create", "update", "delete"} -> [Result -> Nat]]
      <4> DEFINE r == IF reply[p].err = "nil" THEN "success" ELSE "failure"
                 counted == [ops[req[p].op] EXCEPT ![r] = @ + 1]
      <4>1. ops' = [ops EXCEPT ![req[p].op] = counted]
        BY <2>4 DEF Returns
      <4>2. ops[req[p].op] \in [Result -> Nat] /\ r \in Result
        BY <3>2 DEF Types, Result
      <4>3. counted \in [Result -> Nat]
        <5> HIDE DEF r
        <5> QED
          BY <4>2
      <4>4. QED
        BY <4>1, <4>3 DEF Types
    <3>7. QED
      BY <2>0, <2>4, <3>4, <3>5, <3>6 DEF Types, Returns
  <2>5. QED
    BY <1>6, <2>1, <2>2, <2>3, <2>4 DEF ExecStep
<1>7. CASE UNCHANGED vars
  BY <1>7 DEF Types, StoreTypes, vars, storeVars, handlerVars, execVars, httpMetrics
<1>8. QED
  BY <1>2, <1>3, <1>4, <1>5, <1>6, <1>7 DEF Next

\* The end of a context leaves a call of the store in progress, if there is one.
LEMMA ContextMoves ==
  ASSUME StoreTypes, NEW p \in Procs, LosesContext(p)
  PROVE  /\ req' = req
         /\ \A q \in Procs : /\ status'[q] = "idle" <=> status[q] = "idle"
                             /\ status[q] = "idle" => canceled'[q] = canceled[q]
                             /\ status'[q] = "called" => status[q] = "called"
         /\ \A q \in Procs \ {p} : /\ status'[q] = status[q]
                                   /\ canceled'[q] = canceled[q]
                                   /\ reply'[q] = reply[q]
<1>1. CASE UNCHANGED storeVars
  BY <1>1 DEF storeVars
<1>2. CASE Store!Cancel(p)
  BY <1>2 DEF Store!Cancel, StoreTypes
<1>3. QED
  BY <1>1, <1>2 DEF LosesContext

\* A call takes effect only after it has been made and before it returns.
LEMMA EffectMoves ==
  ASSUME NEW p \in Procs,
         \/ Store!Fails(p) \/ Store!Reads(p) \/ Store!Creates(p)
         \/ Store!Updates(p) \/ Store!Deletes(p)
  PROVE  /\ status[p] \in {"called", "doomed"}
         /\ status' = [status EXCEPT ![p] = "answered"]
         /\ UNCHANGED <<req, canceled>>
<1> USE DEF Store!Answer, Store!Ends
<1>1. CASE Store!Fails(p)
  BY <1>1 DEF Store!Fails
<1>2. CASE Store!Reads(p)
  BY <1>2 DEF Store!Reads
<1>3. CASE Store!Creates(p)
  BY <1>3 DEF Store!Creates
<1>4. CASE Store!Updates(p) \/ Store!Deletes(p)
  BY <1>4 DEF Store!Updates, Store!Deletes
<1>5. QED
  BY <1>1, <1>2, <1>3, <1>4

\* What the invariants say of a request does not depend on the other requests.
Same(q) ==
  UNCHANGED <<at[q], input[q], tried[q], verdict[q], exec[q], next[q], done[q],
              wrote[q], status[q], canceled[q], req[q]>>

LEMMA OthersSame ==
  ASSUME Types, NEW p \in Procs, Step(p), NEW q \in Procs \ {p}
  PROVE  Same(q)
<1> USE DEF Same, Types, StoreTypes, Goes, Runs, Responds, storeVars,
            handlerVars, execVars
<1>1. CASE \E i \in Inputs : Arrive(p, i)
  BY <1>1 DEF Arrive
<1>2. ASSUME LosesContext(p)
      PROVE  UNCHANGED <<done[q], status[q], canceled[q], req[q]>>
  BY <1>2, ContextMoves DEF LosesContext
<1>3. CASE Disconnect(p)
  BY <1>2, <1>3 DEF Disconnect
<1>4. CASE Recover(p)
  BY <1>2, <1>4 DEF Recover
<1>5. CASE HandlerStep(p)
  <2>1. CASE Passes(p) \/ AnswerPublic(p) \/ Begin(p) \/ Answers(p) \/ Abandon(p)
    BY <2>1 DEF Passes, AnswerPublic, Begin, Answers, Abandon
  <2>2. CASE Accepts(p)
    BY <2>2 DEF Accepts, Decides
  <2>3. CASE Refuses(p)
    BY <2>3 DEF Refuses, Decides
  <2>4. CASE Unwind(p)
    BY <1>2, <2>4 DEF Unwind
  <2>5. QED
    BY <1>5, <2>1, <2>2, <2>3, <2>4 DEF HandlerStep
<1>6. CASE Reject(p)
  BY <1>6 DEF Reject
<1>7. CASE Call(p)
  BY <1>7 DEF Call, Store!Call
<1>8. CASE TakeEffect(p)
  <2>1. UNCHANGED wrote \/ wrote' = [wrote EXCEPT ![p] = @ + 1]
    BY <1>8 DEF TakeEffect
  <2>2. QED
    BY <1>8, <2>1, EffectMoves DEF TakeEffect
<1>9. CASE Returns(p)
  <2>1. \/ exec' = [exec EXCEPT ![p] = "over"] /\ UNCHANGED next
        \/ exec' = [exec EXCEPT ![p] = "run"] /\ next' = [next EXCEPT ![p] = @ + 1]
    BY <1>9 DEF Returns, MovesOn
  <2>2. UNCHANGED <<status[q], canceled[q], req[q]>>
    BY <1>9 DEF Returns, Store!Return
  <2>3. QED
    BY <1>9, <2>1, <2>2 DEF Returns
<1>10. QED
  BY <1>1, <1>3, <1>4, <1>5, <1>6, <1>7, <1>8, <1>9 DEF Step, ExecStep

LEMMA PathStep == Types /\ Path /\ [Next]_vars => Path'
<1>1. ASSUME Types, Path, NEW p \in Procs, Step(p)
      PROVE  PathOf(p)'
  <2>0. PathOf(p)
    BY <1>1 DEF Path
  <2>1. ASSUME LosesContext(p)
        PROVE  /\ status'[p] = "idle" <=> status[p] = "idle"
               /\ status[p] = "idle" => canceled'[p] = canceled[p]
               /\ req'[p] = req[p]
    BY <1>1, <2>1, ContextMoves DEF Types
  <2> USE DEF PathOf, Types, StoreTypes, Kind, Goes, Runs, Responds, storeVars,
              handlerVars, execVars
  <2>2. ASSUME NEW i \in Inputs, Arrive(p, i) PROVE PathOf(p)'
    BY <1>1, <2>0, <2>2 DEF Arrive
  <2>3. CASE Disconnect(p)
    BY <1>1, <2>0, <2>1, <2>3 DEF Disconnect
  <2>4. CASE Recover(p)
    BY <1>1, <2>0, <2>1, <2>4 DEF Recover
  <2>5. CASE Unwind(p)
    BY <1>1, <2>0, <2>1, <2>5 DEF Unwind
  <2>6. CASE Passes(p) \/ AnswerPublic(p) \/ Answers(p) \/ Abandon(p)
    BY <1>1, <2>0, <2>6 DEF Passes, AnswerPublic, Answers, Abandon
  <2>7. CASE Accepts(p)
    BY <1>1, <2>0, <2>7 DEF Accepts, Decides
  <2>8. CASE Refuses(p)
    BY <1>1, <2>0, <2>8 DEF Refuses, Decides
  <2>9. CASE Begin(p)
    <3>1. input[p] \in Inputs /\ exec[p] = "idle" /\ next[p] = 1
      BY <1>1, <2>0, <2>9 DEF Begin
    <3>2. 1 \in DOMAIN input[p].calls
      BY <2>9, <3>1, InputFacts DEF Begin, Input
    <3>3. QED
      BY <1>1, <2>0, <2>9, <3>1, <3>2 DEF Begin
  <2>10. CASE Reject(p)
    BY <1>1, <2>0, <2>10 DEF Reject
  <2>11. CASE Call(p)
    <3>1. Now(p).call \in Request
      BY <2>0, <2>11, InputFacts DEF Call, Now, Work
    <3>2. QED
      BY <1>1, <2>0, <2>11, <3>1 DEF Call, Store!Call
  <2>12. CASE TakeEffect(p)
    BY <1>1, <2>0, <2>12, EffectMoves DEF TakeEffect
  <2>13. CASE Returns(p)
    <3>1. status'[p] = "idle" /\ ~canceled'[p]
      BY <1>1, <2>13 DEF Returns, Store!Return
    <3>2. exec[p] = "call" /\ UNCHANGED <<input, at>>
      BY <2>13 DEF Returns, MovesOn
    <3>3. input[p].calls \in Seq(Work)
      BY <2>0, <3>2, InputFacts DEF Input
    <3>4. CASE exec' = [exec EXCEPT ![p] = "over"] /\ UNCHANGED next
      BY <1>1, <2>0, <3>1, <3>2, <3>4
    <3>5. CASE /\ exec' = [exec EXCEPT ![p] = "run"]
               /\ next' = [next EXCEPT ![p] = @ + 1]
               /\ next[p] < Len(input[p].calls)
      BY <1>1, <2>0, <3>1, <3>2, <3>3, <3>5
    <3>6. QED
      BY <2>13, <3>4, <3>5 DEF Returns, MovesOn
  <2>14. QED
    BY <1>1, <2>2, <2>3, <2>4, <2>5, <2>6, <2>7, <2>8, <2>9, <2>10, <2>11, <2>12,
       <2>13 DEF Step, HandlerStep, ExecStep
<1>2. ASSUME NEW p \in Procs, PathOf(p), Same(p) PROVE PathOf(p)'
  BY <1>2 DEF PathOf, Same, Kind
<1>3. ASSUME Types, Path, NEW p \in Procs, Step(p) PROVE Path'
  BY <1>1, <1>2, <1>3, OthersSame DEF Path
<1>4. ASSUME Path, UNCHANGED vars PROVE Path'
  BY <1>4 DEF Path, PathOf, Kind, vars, storeVars, handlerVars, execVars
<1>5. QED
  BY <1>3, <1>4 DEF Next, Step

-----------------------------------------------------------------------------
(* The store *)

LEMMA TypesAndPath == Spec => [](Types /\ Path)
<1>1. Init => Types /\ Path
  BY Started DEF IInv
<1>2. Types /\ Path /\ [Next]_vars => (Types /\ Path)'
  BY TypesStep, PathStep
<1>3. QED
  BY <1>1, <1>2, PTL DEF Spec

\* A request whose context is done changes nothing any more and gets no further
\* call past the store's look at its context.
THEOREM DoneRequestsAreOver == Spec => DoneWritesNoMore
<1>1. Types /\ Path /\ [Next]_vars =>
        [\A p \in Procs : done[p] /\ status[p] # "called" =>
                           status'[p] # "called" /\ wrote'[p] = wrote[p]]_vars
  <2> SUFFICES ASSUME Types, Path, Next,
                      NEW q \in Procs, done[q], status[q] # "called"
               PROVE  status'[q] # "called" /\ wrote'[q] = wrote[q]
    OBVIOUS
  <2>1. PICK p \in Procs : Step(p)
    BY DEF Next, Step
  <2>2. CASE p # q
    BY <2>1, <2>2, OthersSame DEF Same
  <2>3. CASE p = q
    <3>1. CASE Disconnect(q) \/ Recover(q) \/ Unwind(q)
      <4>1. LosesContext(q) /\ UNCHANGED wrote
        BY <3>1 DEF Disconnect, Recover, Unwind, execVars
      <4>2. QED
        BY <4>1, ContextMoves DEF Types
    <3>2. CASE \/ \E i \in Inputs : Arrive(q, i)
               \/ Passes(q) \/ Accepts(q) \/ Refuses(q) \/ AnswerPublic(q)
               \/ Begin(q) \/ Answers(q) \/ Abandon(q) \/ Reject(q)
      BY <3>2 DEF Arrive, Passes, Accepts, Refuses, Decides, AnswerPublic, Begin,
         Answers, Abandon, Reject, storeVars, execVars
    <3>3. CASE Call(q)
      <4>1. status[q] = "idle" /\ ~canceled[q] /\ canceled'[q]
        BY <3>3 DEF Call, Store!Call, Path, PathOf
      <4>2. status' = [status EXCEPT ![q] = "doomed"]
        BY <3>3, <4>1 DEF Call, Store!Call
      <4>3. QED
        BY <3>3, <4>2 DEF Call, Types, StoreTypes
    <3>4. CASE TakeEffect(q)
      <4>1. ~(Store!Creates(q) \/ Store!Updates(q) \/ Store!Deletes(q))
        BY DEF Store!Creates, Store!Updates, Store!Deletes, Store!Answer, Store!Ends
      <4>2. status' = [status EXCEPT ![q] = "answered"]
        BY <3>4, EffectMoves DEF TakeEffect
      <4>3. QED
        BY <3>4, <4>1, <4>2 DEF TakeEffect, Types, StoreTypes
    <3>5. CASE Returns(q)
      BY <3>5 DEF Returns, Store!Return, Types, StoreTypes
    <3>6. QED
      BY <2>1, <2>3, <3>1, <3>2, <3>3, <3>4, <3>5 DEF Step, HandlerStep, ExecStep
  <2>4. QED
    BY <2>2, <2>3
<1>2. QED
  BY <1>1, TypesAndPath, PTL DEF Spec, DoneWritesNoMore

-----------------------------------------------------------------------------
(* The authenticators *)

\* The authenticator that finds credentials is the first that could.
LEMMA FirstHeld ==
  ASSUME Types, Path, NEW p \in Procs, DecidedOf(p), Untried(p),
         input[p].creds[Tries(p)] # "absent"
  PROVE  Held(p) # {} /\ First(p) = tried[p] + 1
<1>1. tried[p] + 1 \in Held(p)
  BY VerdictFacts DEF Held, Tries
<1>2. Held(p) \subseteq Nat /\ tried[p] \in Nat
  BY OrderAssumption DEF Held, Types
<1>3. \A j \in Held(p) : tried[p] + 1 <= j
  <2>1. \A j \in Held(p) : j \notin 1 .. tried[p] /\ j >= 1
    BY OrderAssumption DEF Held, DecidedOf
  <2>2. QED
    BY <1>2, <2>1
<1>4. First(p) \in Held(p) /\ \A j \in Held(p) : First(p) <= j
  BY <1>1, <1>3 DEF First
<1>5. QED
  BY <1>1, <1>2, <1>3, <1>4

LEMMA DecidedStep ==
  ASSUME Types, Path, Decided, FirstCredentialsDecide, [Next]_vars
  PROVE  Decided' /\ FirstCredentialsDecide'
<1>0. FirstCredentialsDecide <=> \A p \in Procs : Rightly(p) /\ LetIn(p)
  BY DEF FirstCredentialsDecide, Rightly, LetIn
<1>00. FirstCredentialsDecide' <=> \A p \in Procs : Rightly(p)' /\ LetIn(p)'
  BY DEF FirstCredentialsDecide, Rightly, LetIn
<1>1. ASSUME NEW p \in Procs, Step(p)
      PROVE  DecidedOf(p)' /\ Rightly(p)'
  <2>0. DecidedOf(p) /\ Rightly(p) /\ PathOf(p)
    BY <1>0 DEF Decided, Path
  <2>1. ASSUME UNCHANGED <<input, verdict>> PROVE Rightly(p)'
    BY <2>0, <2>1 DEF Rightly, Held, First
  <2>2. CASE \E i \in Inputs : Arrive(p, i)
    <3>1. PICK i \in Inputs : Arrive(p, i)
      BY <2>2
    <3>2. /\ tried'[p] = 0 /\ verdict'[p] = "none" /\ exec'[p] = "idle"
          /\ at'[p] = IF Exempt(i) \/ Order = <<>> THEN "handle" ELSE "auth"
          /\ input'[p] = i
      BY <2>0, <3>1 DEF Arrive, Goes, DecidedOf, PathOf, Types, execVars
    <3>3. QED
      BY <3>2 DEF DecidedOf, Rightly, Kind
  <2>3. CASE Passes(p)
    <3>1. DecidedOf(p)'
      BY <2>0, <2>3, VerdictFacts DEF Passes, Untried, Tries, DecidedOf, Types, Kind, execVars
    <3>2. QED
      BY <2>1, <2>3, <3>1 DEF Passes
  <2>4. CASE Accepts(p)
    <3>1. /\ verdict'[p] = Tries(p) /\ UNCHANGED <<input, tried, exec>>
          /\ at[p] = "auth" /\ at'[p] = "handle"
      BY <2>4 DEF Accepts, Decides, Goes, Types, execVars
    <3>2. Tries(p) \in Method /\ input[p].creds[Tries(p)] = "good"
      BY <2>4, VerdictFacts DEF Accepts
    <3>3. Held(p) # {} /\ Order[First(p)] = Tries(p)
      BY <2>0, <2>4, <3>2, FirstHeld DEF Accepts, Tries
    <3>4. Rightly(p)'
      BY <3>1, <3>2, <3>3 DEF Rightly, Held, First
    <3>5. QED
      BY <2>0, <3>1, <3>2, <3>4 DEF DecidedOf
  <2>5. CASE Refuses(p)
    <3>1. /\ UNCHANGED <<input, tried, exec>>
          /\ at[p] = "auth" /\ at'[p] = "unwind"
      BY <2>5 DEF Refuses, Decides, Responds, Goes, Types, execVars
    <3>2. exec[p] = "idle"
      BY <2>0, <3>1 DEF PathOf
    <3>3. DecidedOf(p)'
      BY <2>0, <3>1, <3>2 DEF DecidedOf
    <3>4. CASE tried[p] = Len(Order) /\ Decides(p, "unauthenticated")
      <4>1. Held(p) = {}
        BY <2>0, <3>4, OrderAssumption DEF Held, DecidedOf
      <4>2. QED
        BY <3>1, <3>3, <3>4, <4>1 DEF Rightly, Held, Decides, Types
    <3>5. CASE /\ Untried(p)
               /\ \E e \in Errors(p) \ {"nil", "unauthenticated"} : Decides(p, e)
      <4>1. PICK e \in Errors(p) \ {"nil", "unauthenticated"} : Decides(p, e)
        BY <3>5
      <4>2. e = InvalidError[Tries(p)] /\ input[p].creds[Tries(p)] # "absent"
        BY <3>5, VerdictFacts
      <4>3. Held(p) # {} /\ Order[First(p)] = Tries(p)
        BY <2>0, <3>5, <4>2, FirstHeld DEF Tries
      <4>4. verdict'[p] = InvalidError[Tries(p)]
        BY <4>1, <4>2 DEF Decides, Types
      <4>5. QED
        BY <3>1, <3>3, <4>3, <4>4 DEF Rightly, Held, First
    <3>6. QED
      BY <2>5, <3>4, <3>5 DEF Refuses
  <2>6. CASE \/ Disconnect(p) \/ Recover(p) \/ AnswerPublic(p) \/ Begin(p)
             \/ Answers(p) \/ Abandon(p) \/ Unwind(p) \/ ExecStep(p)
    <3>1. UNCHANGED <<input, tried, verdict>>
      BY <2>6 DEF Disconnect, Recover, AnswerPublic, Begin, Answers, Abandon, Unwind,
         ExecStep, Reject, Call, TakeEffect, Returns, handlerVars
    <3>2. /\ at'[p] = "new" => at[p] = "new"
          /\ at'[p] \in {"new", "auth"} => at[p] \in {"new", "auth"}
          /\ at'[p] = "auth" => at[p] = "auth"
          /\ at'[p] \in {"handle", "wait"} => at[p] \in {"handle", "wait"}
      BY <2>6 DEF Disconnect, Recover, AnswerPublic, Begin, Answers, Abandon, Unwind,
         ExecStep, Reject, Call, TakeEffect, Returns, handlerVars, Goes, Responds, Types
    <3>3. exec'[p] # "idle" => exec[p] # "idle" \/ at[p] = "handle"
      BY <2>6 DEF Disconnect, Recover, AnswerPublic, Begin, Answers, Abandon, Unwind,
         ExecStep, Reject, Call, TakeEffect, Returns, execVars, Goes, Responds, Runs,
         MovesOn, Types
    <3>4. DecidedOf(p)'
      BY <2>0, <3>1, <3>2, <3>3 DEF DecidedOf, Kind
    <3>5. QED
      BY <2>1, <3>1, <3>4
  <2>7. QED
    BY <1>1, <2>2, <2>3, <2>4, <2>5, <2>6 DEF Step, HandlerStep
<1>2. ASSUME NEW p \in Procs, Same(p) PROVE DecidedOf(p)' /\ Rightly(p)'
  <2>1. DecidedOf(p)'
    BY <1>2 DEF Decided, DecidedOf, Same, Kind
  <2>2. Held(p)' = Held(p) /\ First(p)' = First(p)
    BY <1>2 DEF Held, First, Same
  <2>3. QED
    BY <1>0, <1>2, <2>1, <2>2 DEF Rightly, Same
<1>3. \A p \in Procs : DecidedOf(p)' /\ Rightly(p)'
  <2>1. CASE UNCHANGED vars
    BY <1>2, <2>1 DEF Same, vars, storeVars, handlerVars, execVars
  <2>2. ASSUME NEW p \in Procs, Step(p) PROVE \A q \in Procs : DecidedOf(q)' /\ Rightly(q)'
    BY <1>1, <1>2, <2>2, OthersSame
  <2>3. QED
    BY <2>1, <2>2 DEF Next, Step
<1>4. \A p \in Procs : LetIn(p)'
  BY <1>3 DEF DecidedOf, LetIn
<1>5. QED
  BY <1>00, <1>3, <1>4 DEF Decided

\* The requests that hold no credentials are refused, the others are decided by
\* the first method they hold credentials for, and only what is accepted gets to
\* a handler, or what Auth exempts, of which nothing is decided: Auth over
\* MultiAuthenticator, for every list of authenticators.
THEOREM FirstDecides == Spec => []FirstCredentialsDecide
<1>1. Init => Types /\ Path /\ Decided /\ FirstCredentialsDecide
  BY Started DEF IInv
<1>2. Types /\ Path /\ Decided /\ FirstCredentialsDecide /\ [Next]_vars =>
        (Types /\ Path /\ Decided /\ FirstCredentialsDecide)'
  BY TypesStep, PathStep, DecidedStep
<1>3. QED
  BY <1>1, <1>2, PTL DEF Spec

-----------------------------------------------------------------------------
(* The metrics *)

\* What one request more or less does to a count of requests.
LEMMA Counting ==
  ASSUME NEW S \in SUBSET Procs, NEW p \in Procs
  PROVE  /\ Cardinality(S) \in Nat
         /\ p \notin S => Cardinality(S \cup {p}) = Cardinality(S) + 1
         /\ p \in S => Cardinality(S \ {p}) = Cardinality(S) - 1
<1>1. IsFiniteSet(S)
  BY ProcsAssumption, FS_Subset
<1>2. QED
  BY <1>1, FS_CardinalityType, FS_AddElement, FS_RemoveElement

LEMMA MetricsStep ==
  ASSUME Types, Path, Decided, MetricsAddUp, [Next]_vars
  PROVE  MetricsAddUp'
<1> USE DEF MetricsAddUp
<1>1. /\ Ongoing \subseteq Procs /\ Ended \subseteq Procs
      /\ Accepted \subseteq Procs /\ Refused \subseteq Procs
  BY DEF Ongoing, Ended, Accepted, Refused
<1>2. /\ inFlight \in Int /\ total \in Nat /\ panics \in Nat
      /\ attempts \in [{"success", "failure"} -> Nat]
  BY DEF Types, Result
<1>3. ASSUME NEW p \in Procs, NEW i \in Inputs, Arrive(p, i) PROVE MetricsAddUp'
  <2>1. Ongoing' = Ongoing \cup {p} /\ p \notin Ongoing /\ Ended' = Ended
    BY <1>3 DEF Arrive, Goes, Ongoing, Ended, Types
  <2>2. Accepted' = Accepted /\ Refused' = Refused
    BY <1>3 DEF Arrive, Accepted, Refused
  <2>3. inFlight' = inFlight + 1 /\ UNCHANGED <<total, panics, attempts>>
    BY <1>3 DEF Arrive
  <2>4. QED
    BY <1>1, <1>2, <2>1, <2>2, <2>3, Counting
<1>4. ASSUME NEW p \in Procs, Unwind(p) \/ Recover(p) PROVE MetricsAddUp'
  <2>1. /\ Ongoing' = Ongoing \ {p} /\ p \in Ongoing
        /\ Ended' = Ended \cup {p} /\ p \notin Ended
    <3>1. at[p] \in {"unwind", "handle"} /\ at' = [at EXCEPT ![p] = "done"]
      BY <1>4 DEF Unwind, Recover, Goes
    <3>2. at \in [Procs -> {"new", "auth", "handle", "wait", "unwind", "done"}]
      BY DEF Types
    <3>3. QED
      BY <3>1, <3>2 DEF Ongoing, Ended
  <2>2. Accepted' = Accepted /\ Refused' = Refused
    BY <1>4 DEF Unwind, Recover, Accepted, Refused
  <2>3. /\ inFlight' = inFlight - 1 /\ attempts' = attempts
        /\ total' + panics' = total + panics + 1
    BY <1>2, <1>4 DEF Unwind, Recover
  <2>4. QED
    BY <1>1, <1>2, <2>1, <2>2, <2>3, Counting
<1>5. ASSUME NEW p \in Procs, Accepts(p) PROVE MetricsAddUp'
  <2>1. Ongoing' = Ongoing /\ Ended' = Ended
    BY <1>5 DEF Accepts, Goes, Ongoing, Ended, Types
  <2>2. verdict[p] = "none" /\ Tries(p) \in Method /\ Decides(p, Tries(p))
    BY <1>5, VerdictFacts DEF Accepts, Goes, Decided, DecidedOf
  <2>3. /\ "none" \notin Method /\ "none" \notin AuthError
        /\ Tries(p) \notin AuthError
    BY <2>2 DEF Method, AuthError, InvalidError
  <2>4. Accepted' = Accepted \cup {p} /\ p \notin Accepted /\ Refused' = Refused
    BY <2>2, <2>3 DEF Decides, Accepted, Refused, Types
  <2>5. /\ attempts'["success"] = attempts["success"] + 1
        /\ attempts'["failure"] = attempts["failure"]
        /\ UNCHANGED httpMetrics
    BY <1>2, <2>2 DEF Decides
  <2>6. QED
    BY <1>1, <1>2, <2>1, <2>4, <2>5, Counting DEF httpMetrics
<1>6. ASSUME NEW p \in Procs, Refuses(p) PROVE MetricsAddUp'
  <2>1. Ongoing' = Ongoing /\ Ended' = Ended
    BY <1>6 DEF Refuses, Responds, Goes, Ongoing, Ended, Types
  <2>2. PICK v \in AuthError : Decides(p, v)
    <3>1. ASSUME Untried(p) PROVE Errors(p) \subseteq {"nil"} \cup AuthError
      BY <3>1, VerdictFacts DEF AuthError
    <3>2. QED
      BY <1>6, <3>1 DEF Refuses, AuthError
  <2>3. verdict[p] = "none"
    BY <1>6 DEF Refuses, Responds, Goes, Decided, DecidedOf
  <2>4. "none" \notin Method /\ "none" \notin AuthError /\ v \notin Method
    BY <2>2 DEF Method, AuthError, InvalidError
  <2>5. Refused' = Refused \cup {p} /\ p \notin Refused /\ Accepted' = Accepted
    BY <2>2, <2>3, <2>4 DEF Decides, Accepted, Refused, Types
  <2>6. /\ attempts'["failure"] = attempts["failure"] + 1
        /\ attempts'["success"] = attempts["success"]
        /\ UNCHANGED httpMetrics
    BY <1>2, <2>2, <2>4 DEF Decides
  <2>7. QED
    BY <1>1, <1>2, <2>1, <2>5, <2>6, Counting DEF httpMetrics
<1>7. ASSUME NEW p \in Procs,
             \/ Passes(p) \/ Disconnect(p) \/ AnswerPublic(p) \/ Begin(p)
             \/ Answers(p) \/ Abandon(p) \/ ExecStep(p)
      PROVE  MetricsAddUp'
  <2>1. UNCHANGED <<httpMetrics, attempts, verdict>>
    BY <1>7 DEF Passes, Disconnect, AnswerPublic, Begin, Answers, Abandon, ExecStep,
       Reject, Call, TakeEffect, Returns, handlerVars
  <2>2. Ongoing' = Ongoing /\ Ended' = Ended
    <3>1. \/ at' = at
          \/ /\ at[p] \in {"handle", "wait"}
             /\ at' = [at EXCEPT ![p] = "wait"] \/ at' = [at EXCEPT ![p] = "unwind"]
      BY <1>7 DEF Passes, Disconnect, AnswerPublic, Begin, Answers, Abandon, ExecStep,
         Reject, Call, TakeEffect, Returns, handlerVars, Responds, Goes
    <3>2. at \in [Procs -> {"new", "auth", "handle", "wait", "unwind", "done"}]
      BY DEF Types
    <3>3. QED
      BY <3>1, <3>2 DEF Ongoing, Ended
  <2>3. QED
    BY <2>1, <2>2 DEF Accepted, Refused, httpMetrics
<1>8. CASE UNCHANGED vars
  BY <1>8 DEF vars, handlerVars, httpMetrics, Ongoing, Ended, Accepted, Refused
<1>9. QED
  BY <1>3, <1>4, <1>5, <1>6, <1>7, <1>8 DEF Next, HandlerStep

LEMMA Inductive == Spec => []IInv
<1>1. IInv /\ [Next]_vars => IInv'
  BY TypesStep, PathStep, DecidedStep, MetricsStep DEF IInv
<1>2. QED
  BY <1>1, Started, PTL DEF Spec

\* The gauge of requests in flight counts the requests in flight, and the
\* counters every request that has ended and every decision, whether handlers
\* panic or not.
THEOREM MetricsAreExact == Spec => []MetricsAddUp
<1>1. IInv => MetricsAddUp
  BY DEF IInv
<1>2. QED
  BY <1>1, Inductive, PTL

\* The variables have their types; in particular, the gauge is never negative.
THEOREM TypeCorrect == Spec => []TypeOK
<1>1. IInv => TypeOK
  <2> SUFFICES ASSUME IInv PROVE TypeOK
    OBVIOUS
  <2>1. inFlight \in Nat
    <3>1. IsFiniteSet(Ongoing)
      BY ProcsAssumption, FS_Subset DEF Ongoing
    <3>2. QED
      BY <3>1, FS_CardinalityType DEF IInv, MetricsAddUp
  <2>2. QED
    BY <2>1 DEF IInv, Types, StoreTypes, TypeOK
<1>2. QED
  BY <1>1, Inductive, PTL

-----------------------------------------------------------------------------
(* Progress *)

\* A step of the handler, an arrival or a panic takes the handler nearer to its
\* end.
LEMMA HandlerAdvances ==
  ASSUME Types, Path, NEW p \in Procs,
         \/ \E i \in Inputs : Arrive(p, i)
         \/ Recover(p) \/ HandlerStep(p)
  PROVE  HandlerLeft(p)' < HandlerLeft(p)
<1>0. /\ Len(Order) \in Nat /\ tried[p] \in Nat /\ tried[p] <= Len(Order)
      /\ tried \in [Procs -> 0 .. Len(Order)]
      /\ p \in DOMAIN at /\ p \in DOMAIN tried
  BY OrderAssumption DEF Types
<1> USE DEF Goes, Responds, HandlerLeft
<1>1. CASE \E i \in Inputs : Arrive(p, i)
  <2>1. at[p] = "new" /\ at'[p] \in {"handle", "auth"} /\ tried' = tried
    BY <1>0, <1>1 DEF Arrive
  <2>2. HandlerLeft(p) = Len(Order) + 5
    BY <2>1
  <2>3. HandlerLeft(p)' \in {3, Len(Order) + 4 - tried[p]}
    BY <2>1
  <2>4. QED
    BY <1>0, <2>2, <2>3
<1>2. CASE Passes(p)
  <2>1. at[p] = "auth" /\ at'[p] = "auth" /\ tried'[p] = tried[p] + 1
    BY <1>0, <1>2 DEF Passes, Untried
  <2>2. HandlerLeft(p) = Len(Order) + 4 - tried[p]
    BY <2>1
  <2>3. HandlerLeft(p)' = Len(Order) + 4 - (tried[p] + 1)
    BY <2>1
  <2>4. QED
    BY <1>0, <2>2, <2>3
<1>3. CASE Accepts(p) \/ Refuses(p)
  <2>1. at[p] = "auth" /\ at'[p] \in {"handle", "unwind"}
    BY <1>0, <1>3 DEF Accepts, Refuses
  <2>2. HandlerLeft(p) = Len(Order) + 4 - tried[p]
    BY <2>1
  <2>3. HandlerLeft(p)' \in {3, 1}
    BY <2>1
  <2>4. QED
    BY <1>0, <2>2, <2>3
<1>4. CASE AnswerPublic(p) \/ Begin(p) \/ Recover(p)
  <2>1. at[p] = "handle" /\ at'[p] \in {"unwind", "wait", "done"}
    BY <1>0, <1>4 DEF AnswerPublic, Begin, Recover
  <2>2. QED
    BY <2>1
<1>5. CASE Answers(p) \/ Abandon(p)
  <2>1. at[p] = "wait" /\ at'[p] = "unwind"
    BY <1>0, <1>5 DEF Answers, Abandon
  <2>2. QED
    BY <2>1
<1>6. CASE Unwind(p)
  <2>1. at[p] = "unwind" /\ at'[p] = "done"
    BY <1>0, <1>6 DEF Unwind
  <2>2. QED
    BY <2>1
<1>7. QED
  BY <1>1, <1>2, <1>3, <1>4, <1>5, <1>6 DEF HandlerStep

\* A step of the goroutine that calls the store takes it nearer to its end, and
\* leaves the handler where it is.
LEMMA ExecAdvances ==
  ASSUME Types, Path, NEW p \in Procs, ExecStep(p)
  PROVE  HandlerLeft(p)' = HandlerLeft(p) /\ ExecLeft(p)' < ExecLeft(p)
<1>0. PathOf(p)
  BY DEF Path
<1>1. /\ input' = input /\ at' = at /\ tried' = tried
      /\ exec[p] \in {"run", "call"}
      /\ status[p] = "idle" <=> exec[p] = "run"
  BY <1>0, EffectMoves DEF ExecStep, Reject, Call, TakeEffect, Returns, MovesOn, Runs,
     handlerVars, PathOf, Store!Return, Types
<1>2. HandlerLeft(p)' = HandlerLeft(p)
  BY <1>1 DEF HandlerLeft
<1> DEFINE len == Len(input[p].calls)
           left == 3 * (len - next[p])
<1>3. len \in Nat /\ next[p] \in Nat /\ next[p] <= len
  <2>1. input[p] \in Inputs
    BY <1>0, <1>1 DEF PathOf
  <2>2. input[p].calls \in Seq(Work)
    BY <2>1, InputFacts DEF Input
  <2>3. QED
    BY <1>0, <1>1, <2>2 DEF PathOf, Types
<1>4. left \in Nat
  BY <1>3
<1>5. /\ exec \in [Procs -> {"idle", "run", "call", "over"}]
      /\ next \in [Procs -> Nat \ {0}]
      /\ status \in [Procs -> {"idle", "called", "answered", "doomed"}]
  BY DEF Types, StoreTypes
<1>6. CASE Reject(p)
  <2>1. exec[p] = "run" /\ exec'[p] = "over"
    BY <1>5, <1>6 DEF Reject, Runs
  <2>2. ExecLeft(p) = left + 3 /\ ExecLeft(p)' = 0
    BY <2>1 DEF ExecLeft
  <2>3. QED
    BY <1>2, <1>4, <2>2
<1>7. CASE Call(p)
  <2>1. exec[p] = "run" /\ exec'[p] = "call" /\ next' = next
    BY <1>5, <1>7 DEF Call, Runs
  <2>2. status'[p] \in {"called", "doomed"}
    BY <1>5, <1>7 DEF Call, Store!Call
  <2>3. ExecLeft(p) = left + 3
    BY <2>1 DEF ExecLeft
  <2>4. ExecLeft(p)' = left + 2
    BY <1>1, <2>1, <2>2 DEF ExecLeft
  <2>5. QED
    BY <1>2, <1>4, <2>3, <2>4
<1>8. CASE TakeEffect(p)
  <2>1. exec' = exec /\ next' = next
    BY <1>8 DEF TakeEffect
  <2>2. status[p] \in {"called", "doomed"} /\ status'[p] = "answered"
    BY <1>5, <1>8, EffectMoves DEF TakeEffect
  <2>3. exec[p] = "call"
    BY <1>1, <2>2
  <2>4. ExecLeft(p) = left + 2
    BY <2>2, <2>3 DEF ExecLeft
  <2>5. ExecLeft(p)' = left + 1
    BY <1>1, <2>1, <2>2, <2>3 DEF ExecLeft
  <2>6. QED
    BY <1>2, <1>4, <2>4, <2>5
<1>9. CASE Returns(p)
  <2>1. exec[p] = "call" /\ status[p] = "answered"
    BY <1>9 DEF Returns, MovesOn, Runs, Store!Return
  <2>2. ExecLeft(p) = left + 1
    BY <2>1 DEF ExecLeft
  <2>3. CASE exec' = [exec EXCEPT ![p] = "over"]
    <3>1. exec'[p] = "over"
      BY <1>5, <2>3
    <3>2. ExecLeft(p)' = 0
      BY <3>1 DEF ExecLeft
    <3>3. QED
      BY <1>2, <1>4, <2>2, <3>2
  <2>4. CASE /\ exec' = [exec EXCEPT ![p] = "run"]
             /\ next' = [next EXCEPT ![p] = @ + 1]
             /\ next[p] < len
    <3>1. exec'[p] = "run" /\ next'[p] = next[p] + 1
      BY <1>5, <2>4
    <3>2. ExecLeft(p)' = 3 * (len - (next[p] + 1)) + 3
      BY <1>1, <3>1 DEF ExecLeft
    <3>3. QED
      BY <1>2, <1>3, <2>2, <3>2
  <2>5. QED
    BY <1>9, <2>3, <2>4 DEF Returns, MovesOn, Runs
<1>10. QED
  BY <1>6, <1>7, <1>8, <1>9 DEF ExecStep

\* A client that disconnects leaves both where they are, and does so once.
LEMMA DisconnectsOnce ==
  ASSUME Types, NEW p \in Procs, Disconnect(p)
  PROVE  /\ HandlerLeft(p)' = HandlerLeft(p) /\ ExecLeft(p)' = ExecLeft(p)
         /\ ~done[p] /\ done'[p]
<1>1. /\ input' = input /\ at' = at /\ tried' = tried /\ exec' = exec /\ next' = next
      /\ ~done[p] /\ done'[p]
  BY DEF Disconnect, LosesContext, handlerVars, execVars, Types
<1>2. status'[p] = status[p] \/ (status[p] = "called" /\ status'[p] = "doomed")
  BY DEF Disconnect, LosesContext, storeVars, Store!Cancel, Types, StoreTypes
<1>3. QED
  BY <1>1, <1>2 DEF HandlerLeft, ExecLeft

\* Every step takes one request nearer to its end and leaves the others where
\* they are, and none waits for what will not come: what EveryRequestEnds rests
\* on besides fairness, for any number of requests and any inputs.
THEOREM RequestProgress == Spec => RequestsGoOn
<1>1. Types /\ Path => NoRequestStuck
  <2> SUFFICES ASSUME Types, Path, NEW p \in Procs
               PROVE  /\ Untried(p) => Errors(p) # {}
                      /\ at[p] = "handle" => exec[p] = "idle"
                      /\ at[p] = "wait" => exec[p] # "idle"
                      /\ exec[p] = "run" =>
                           next[p] \in DOMAIN input[p].calls /\ status[p] = "idle"
                      /\ exec[p] = "call" => status[p] # "idle" /\ req[p] \in Request
    BY DEF NoRequestStuck
  <2>1. Errors(p) # {}
    BY DEF Errors, Verdicts, TokenVerdicts
  <2>2. QED
    BY <2>1 DEF Path, PathOf
<1>2. Types /\ Path /\ [Next]_vars =>
        [\E p \in Procs : Advances(p) /\ \A q \in Procs \ {p} : Rests(q)]_vars
  <2> SUFFICES ASSUME Types, Path, Next
               PROVE  \E p \in Procs : Advances(p) /\ \A q \in Procs \ {p} : Rests(q)
    OBVIOUS
  <2>1. PICK p \in Procs : Step(p)
    BY DEF Next, Step
  <2>2. Advances(p)
    BY <2>1, HandlerAdvances, ExecAdvances, DisconnectsOnce DEF Advances, Step
  <2>3. ASSUME NEW q \in Procs \ {p} PROVE Rests(q)
    BY <2>1, OthersSame DEF Rests, Same, HandlerLeft, ExecLeft
  <2>4. QED
    BY <2>2, <2>3
<1>3. QED
  BY <1>1, <1>2, TypesAndPath, PTL DEF Spec, RequestsGoOn
=============================================================================
