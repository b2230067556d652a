---------------------------- MODULE EffectProofs ----------------------------
(***************************************************************************)
(* Proofs about what the requests of Pipeline change: that a response      *)
(* tells it, that store_operations_total adds up to it, and that a deletion*)
(* is final once it is confirmed, for any finite set of requests, any      *)
(* inputs and any list of authenticators.                                  *)
(*                                                                         *)
(* Effect says, for each point on the way of a request, how many of its    *)
(* calls have changed the map; Counted, how the counters, the calls that   *)
(* are returning and the map fit together; Final, that what the calls      *)
(* carried out so far have deleted is gone, and gone by one of them only.  *)
(***************************************************************************)
EXTENDS PipelineProofs

\* The calls before the one at hand have been carried out, and so has that one
\* once it has succeeded.
EffectOf(p) ==
  /\ exec[p] = "idle" => wrote[p] = 0
  /\ exec[p] = "run" => wrote[p] = Writes(p, next[p] - 1)
  /\ status[p] # "idle" => req[p] = Now(p).call
  /\ status[p] \in {"called", "doomed"} => wrote[p] = Writes(p, next[p] - 1)
  /\ status[p] = "answered" =>
       wrote[p] = Writes(p, IF reply[p].err = "nil" THEN next[p] ELSE next[p] - 1)
  /\ exec[p] = "over" =>
       /\ next[p] \in DOMAIN input[p].calls
       /\ err[p] = "nil" => next[p] = Len(input[p].calls)
       /\ wrote[p] = Writes(p, IF err[p] = "nil" THEN next[p] ELSE next[p] - 1)

\* A REST handler answers when its call is over, and no handler calls a success
\* what is not one.
Succeeded(p) == exec[p] = "over" /\ err[p] = "nil"

AnsweredOf(p) ==
  /\ answer[p] # "none" => at[p] \in {"unwind", "done"}
  /\ Kind(p) = "rest" /\ at[p] \in {"unwind", "done"} => exec[p] \in {"idle", "over"}
  /\ Kind(p) = "rest" /\ answer[p] # "none" =>
       (answer[p] \in {"ok", "created", "no_content"} <=> Succeeded(p))
  /\ Kind(p) = "graphql" /\ answer[p] = "ok" => Succeeded(p)
  /\ Kind(p) = "graphql" => answer[p] # "no_content"

Effect == \A p \in Procs : EffectOf(p) /\ AnsweredOf(p)

-----------------------------------------------------------------------------
(* Counting the calls that change the map *)

LEMMA WritesStep ==
  ASSUME Types, NEW p \in Procs, NEW n \in Nat \ {0}
  PROVE  /\ Writes(p, 0) = 0
         /\ Writes(p, n) \in Nat /\ Writes(p, n - 1) \in Nat
         /\ Writes(p, n) = Writes(p, n - 1)
                             + (IF Changes(input[p].calls[n]) THEN 1 ELSE 0)
<1> DEFINE W(m) == {k \in 1 .. m : Changes(input[p].calls[k])}
<1>1. \A m \in Nat : IsFiniteSet(W(m))
  <2> TAKE m \in Nat
  <2>1. IsFiniteSet(1 .. m)
    BY FS_Interval
  <2>2. QED
    BY <2>1, FS_Subset
<1>2. W(0) = {}
  OBVIOUS
<1>3. n \notin W(n - 1)
  OBVIOUS
<1>4. W(n) = IF Changes(input[p].calls[n]) THEN W(n - 1) \cup {n} ELSE W(n - 1)
  OBVIOUS
<1>5. \A m : Writes(p, m) = Cardinality(W(m))
  BY DEF Writes
<1> HIDE DEF W
<1>6. IsFiniteSet(W(n)) /\ IsFiniteSet(W(n - 1))
  BY <1>1
<1>7. Cardinality(W(n)) \in Nat /\ Cardinality(W(n - 1)) \in Nat
  BY <1>6, FS_CardinalityType
<1>8. Cardinality(W(n - 1) \cup {n}) = Cardinality(W(n - 1)) + 1
  BY <1>3, <1>6, FS_AddElement
<1>9. Cardinality({}) = 0
  BY FS_EmptySet
<1>10. Writes(p, 0) = 0
  BY <1>2, <1>5, <1>9
<1>11. Writes(p, n) \in Nat /\ Writes(p, n - 1) \in Nat
  BY <1>5, <1>7
<1>12. CASE Changes(input[p].calls[n])
  <2>1. Cardinality(W(n)) = Cardinality(W(n - 1)) + 1
    BY <1>4, <1>8, <1>12
  <2>2. QED
    BY <1>5, <1>10, <1>11, <1>12, <2>1
<1>13. CASE ~Changes(input[p].calls[n])
  <2>1. Cardinality(W(n)) = Cardinality(W(n - 1))
    BY <1>4, <1>13
  <2>2. QED
    BY <1>5, <1>10, <1>11, <1>13, <2>1
<1>14. QED
  BY <1>12, <1>13

\* Writes only looks at the input.
LEMMA WritesSame ==
  ASSUME NEW p \in Procs, UNCHANGED input[p]
  PROVE  \A n : Writes(p, n)' = Writes(p, n)
BY DEF Writes

-----------------------------------------------------------------------------
(* The other requests *)

LEMMA OthersKeep ==
  ASSUME Types, NEW p \in Procs, Step(p), NEW q \in Procs \ {p}
  PROVE  UNCHANGED <<err[q], answer[q], reply[q]>>
<1> USE DEF Types, StoreTypes, Goes, Runs, Responds, storeVars, handlerVars, execVars
<1>1. CASE \E i \in Inputs : Arrive(p, i)
  BY <1>1 DEF Arrive
<1>2. ASSUME LosesContext(p) PROVE UNCHANGED reply[q]
  BY <1>2, ContextMoves
<1>3. CASE Disconnect(p)
  BY <1>2, <1>3 DEF Disconnect
<1>4. CASE Recover(p)
  BY <1>2, <1>4 DEF Recover
<1>5. CASE HandlerStep(p)
  <2>1. CASE Passes(p) \/ AnswerPublic(p) \/ Begin(p) \/ Answers(p) \/ Abandon(p)
    BY <2>1 DEF Passes, AnswerPublic, Begin, Answers, Abandon
  <2>2. CASE Accepts(p)
    BY <2>2 DEF Accepts, Decides
  <2>3. CASE Refuses(p)
    BY <2>3 DEF Refuses, Decides
  <2>4. CASE Unwind(p)
    BY <1>2, <2>4 DEF Unwind
  <2>5. QED
    BY <1>5, <2>1, <2>2, <2>3, <2>4 DEF HandlerStep
<1>6. CASE Reject(p)
  BY <1>6 DEF Reject
<1>7. CASE Call(p)
  BY <1>7 DEF Call, Store!Call
<1>8. CASE TakeEffect(p)
  <2>1. \E a : reply' = [reply EXCEPT ![p] = a]
    BY <1>8 DEF TakeEffect, Store!Fails, Store!Reads, Store!Creates,
       Store!Updates, Store!Deletes, Store!Answer, Store!Ends
  <2>2. QED
    BY <1>8, <2>1 DEF TakeEffect
<1>9. CASE Returns(p)
  BY <1>9 DEF Returns, MovesOn, Store!Return
<1>10. QED
  BY <1>1, <1>3, <1>4, <1>5, <1>6, <1>7, <1>8, <1>9 DEF Step, ExecStep

LEMMA SameEffect ==
  ASSUME NEW q \in Procs, EffectOf(q), AnsweredOf(q), Same(q),
         UNCHANGED <<err[q], answer[q], reply[q]>>
  PROVE  EffectOf(q)' /\ AnsweredOf(q)'
<1>1. \A n : Writes(q, n)' = Writes(q, n)
  BY WritesSame DEF Same
<1>2. EffectOf(q)'
  BY <1>1 DEF EffectOf, Same, Now
<1>3. QED
  BY <1>2 DEF AnsweredOf, Succeeded, Same, Kind

-----------------------------------------------------------------------------
(* The steps of one request *)

\* A step of the handler leaves the calls alone, and what follows from them.
LEMMA HandlerKeepsEffect ==
  ASSUME Types, Path, NEW p \in Procs, EffectOf(p),
         UNCHANGED <<input[p], exec[p], next[p], err[p], wrote[p], reply[p], req[p]>>,
         \/ status'[p] = status[p]
         \/ (status[p] = "called" /\ status'[p] = "doomed")
  PROVE  EffectOf(p)'
<1>1. \A n : Writes(p, n)' = Writes(p, n)
  BY WritesSame
<1>2. Now(p)' = Now(p)
  BY DEF Now
<1>3. QED
  BY <1>1, <1>2 DEF EffectOf

\* So does the end of a context, but that a call in progress may be doomed.
LEMMA ContextKeeps ==
  ASSUME Types, NEW p \in Procs, LosesContext(p)
  PROVE  /\ UNCHANGED <<reply, req, items, issued>>
         /\ \/ status' = status
            \/ (status[p] = "called" /\ status' = [status EXCEPT ![p] = "doomed"])
<1>1. CASE UNCHANGED storeVars
  BY <1>1 DEF storeVars
<1>2. CASE Store!Cancel(p)
  BY <1>2 DEF Store!Cancel
<1>3. QED
  BY <1>1, <1>2 DEF LosesContext

\* The steps of the handler and of the client.
LEMMA HandlerEffect ==
  ASSUME Types, Path, NEW p \in Procs, EffectOf(p), AnsweredOf(p),
         Disconnect(p) \/ Recover(p) \/ HandlerStep(p)
  PROVE  EffectOf(p)' /\ AnsweredOf(p)'
<1> USE DEF Types, StoreTypes, Goes, Runs, Responds, handlerVars, execVars
<1>0. PathOf(p)
  BY DEF Path
<1>1. ASSUME LosesContext(p), UNCHANGED execVars, UNCHANGED input PROVE EffectOf(p)'
  <2>1. /\ UNCHANGED <<reply, req>>
        /\ \/ status' = status
           \/ (status[p] = "called" /\ status' = [status EXCEPT ![p] = "doomed"])
    BY <1>1, ContextKeeps
  <2>2. status'[p] = status[p] \/ (status[p] = "called" /\ status'[p] = "doomed")
    BY <2>1
  <2>3. QED
    BY <1>1, <2>1, <2>2, HandlerKeepsEffect
<1>2. CASE Disconnect(p)
  <2>1. AnsweredOf(p)'
    BY <1>2 DEF Disconnect, AnsweredOf, Succeeded, Kind
  <2>2. QED
    BY <1>1, <1>2, <2>1 DEF Disconnect
<1>3. CASE Recover(p)
  <2>1. exec[p] = "idle"
    BY <1>0, <1>3 DEF Recover, PathOf
  <2>2. AnsweredOf(p)'
    BY <1>3, <2>1 DEF Recover, AnsweredOf, Succeeded, Kind
  <2>3. QED
    BY <1>1, <1>3, <2>2 DEF Recover
<1>4. CASE Unwind(p)
  <2>1. AnsweredOf(p)'
    BY <1>4 DEF Unwind, AnsweredOf, Succeeded, Kind
  <2>2. QED
    BY <1>1, <1>4, <2>1 DEF Unwind
<1>5. ASSUME UNCHANGED <<storeVars, execVars, input>> PROVE EffectOf(p)'
  <2>1. /\ UNCHANGED <<input[p], exec[p], next[p], err[p], wrote[p], reply[p], req[p]>>
        /\ status'[p] = status[p]
    BY <1>5 DEF storeVars
  <2>2. QED
    BY <2>1, HandlerKeepsEffect
<1>6. CASE Passes(p)
  <2>1. AnsweredOf(p)'
    BY <1>6 DEF Passes, AnsweredOf, Succeeded, Kind
  <2>2. QED
    BY <1>5, <1>6, <2>1 DEF Passes
<1>7. CASE Accepts(p)
  <2>1. AnsweredOf(p)'
    BY <1>7 DEF Accepts, Decides, AnsweredOf, Succeeded, Kind
  <2>2. QED
    BY <1>5, <1>7, <2>1 DEF Accepts, Decides
<1>8. CASE Refuses(p)
  <2>1. /\ exec[p] = "idle" /\ at[p] = "auth"
        /\ at' = [at EXCEPT ![p] = "unwind"]
        /\ answer' = [answer EXCEPT ![p] = "unauthorized"]
        /\ UNCHANGED <<storeVars, execVars, input>>
    BY <1>0, <1>8 DEF Refuses, Decides, PathOf
  <2>2. AnsweredOf(p)'
    BY <2>1 DEF AnsweredOf, Succeeded, Kind
  <2>3. QED
    BY <1>5, <2>1, <2>2
<1>9. CASE AnswerPublic(p)
  <2>1. AnsweredOf(p)'
    BY <1>9 DEF AnswerPublic, AnsweredOf, Succeeded, Kind
  <2>2. QED
    BY <1>5, <1>9, <2>1 DEF AnswerPublic
<1>10. CASE Abandon(p)
  <2>1. AnsweredOf(p)'
    BY <1>10 DEF Abandon, AnsweredOf, Succeeded, Kind
  <2>2. QED
    BY <1>5, <1>10, <2>1 DEF Abandon
<1>11. CASE Answers(p)
  <2>1. Kind(p) = "rest" =>
          (Outcome(p) \in {"ok", "created", "no_content"} <=> err[p] = "nil")
    BY DEF Outcome, Status
  <2>2. Kind(p) = "graphql" =>
          Outcome(p) # "no_content" /\ (Outcome(p) = "ok" <=> err[p] = "nil")
    BY DEF Outcome, Listed
  <2>3. /\ exec[p] = "over" /\ UNCHANGED <<storeVars, execVars, input>>
        /\ at'[p] = "unwind" /\ answer'[p] = Outcome(p)
    BY <1>11 DEF Answers
  <2>4. AnsweredOf(p)'
    BY <2>1, <2>2, <2>3 DEF AnsweredOf, Succeeded, Kind
  <2>5. QED
    BY <1>5, <2>3, <2>4
<1>12. CASE Begin(p)
  <2>1. /\ exec[p] = "idle" /\ next[p] = 1 /\ status[p] = "idle"
        /\ exec'[p] = "run" /\ at'[p] = "wait"
        /\ UNCHANGED <<storeVars, input, answer, next, err, wrote>>
    BY <1>0, <1>12 DEF Begin, PathOf
  <2>2. at[p] = "handle"
    BY <1>12 DEF Begin
  <2>3. Writes(p, 0)' = 0
    BY <2>1, WritesStep, WritesSame
  <2>4. EffectOf(p)'
    BY <2>1, <2>3 DEF EffectOf, storeVars
  <2>5. AnsweredOf(p)'
    BY <2>1, <2>2 DEF AnsweredOf, Succeeded, Kind
  <2>6. QED
    BY <2>4, <2>5
<1>13. QED
  BY <1>2, <1>3, <1>4, <1>6, <1>7, <1>8, <1>9, <1>10, <1>11, <1>12 DEF HandlerStep

\* A call that takes effect and succeeds has changed the map if that is what it
\* is for; one that fails has not.
LEMMA EffectOfCall ==
  ASSUME Types, Path, NEW p \in Procs, TakeEffect(p)
  PROVE  /\ status[p] \in {"called", "doomed"} /\ status'[p] = "answered"
         /\ \/ reply'[p].err # "nil" /\ wrote'[p] = wrote[p]
            \/ /\ reply'[p].err = "nil"
               /\ wrote'[p] = wrote[p] + (IF req[p].op \in {"create", "update", "delete"}
                                          THEN 1 ELSE 0)
<1>0. /\ wrote[p] \in Nat /\ reply \in [Procs -> Reply] 
      /\ status \in [Procs -> {"idle", "called", "answered", "doomed"}]
  BY DEF Types, StoreTypes
<1>1. status[p] \in {"called", "doomed"} /\ status'[p] = "answered"
  BY <1>0, EffectMoves DEF TakeEffect
<1> USE DEF Store!Answer, Store!Ends, Success, Failure
<1>2. CASE Store!Fails(p) /\ UNCHANGED wrote
  <2>1. reply'[p].err # "nil"
    BY SameOperators, <1>0, <1>2 DEF Store!Fails
  <2>2. QED
    BY <1>1, <1>2, <2>1
<1>3. CASE Store!Reads(p) /\ UNCHANGED wrote
  <2>1. reply'[p].err = "nil" /\ req[p].op \in {"list", "get"}
    BY SameOperators, <1>0, <1>3 DEF Store!Reads
  <2>2. QED
    BY <1>0, <1>1, <1>3, <2>1
<1>4. CASE /\ Store!Creates(p) \/ Store!Updates(p) \/ Store!Deletes(p)
           /\ wrote' = [wrote EXCEPT ![p] = @ + 1]
  <2>1. reply'[p].err = "nil" /\ req[p].op \in {"create", "update", "delete"}
    <3>1. \E S : reply' = [reply EXCEPT ![p] = Success(S)]
      BY SameOperators, <1>4 DEF Store!Creates, Store!Updates, Store!Deletes
    <3>2. reply'[p].err = "nil"
      BY <1>0, <3>1
    <3>3. QED
      BY <1>4, <3>2 DEF Store!Creates, Store!Updates, Store!Deletes
  <2>2. wrote'[p] = wrote[p] + 1
    BY <1>4 DEF Types
  <2>3. QED
    BY <1>1, <2>1, <2>2
<1>5. QED
  BY <1>2, <1>3, <1>4 DEF TakeEffect

\* The steps of the goroutine that calls the store, and the first one.
LEMMA ExecEffect ==
  ASSUME Types, Path, NEW p \in Procs, EffectOf(p), AnsweredOf(p),
         (\E i \in Inputs : Arrive(p, i)) \/ ExecStep(p)
  PROVE  EffectOf(p)' /\ AnsweredOf(p)'
<1> USE DEF Types, StoreTypes, Goes, Runs
<1>0. PathOf(p)
  BY DEF Path
<1>1. \A n : UNCHANGED input[p] => Writes(p, n)' = Writes(p, n)
  BY WritesSame
<1>2. CASE \E i \in Inputs : Arrive(p, i)
  <2>1. /\ exec[p] = "idle" /\ status[p] = "idle" /\ answer[p] = "none"
        /\ UNCHANGED <<storeVars, execVars, answer>>
    BY <1>0, <1>2 DEF Arrive, PathOf, AnsweredOf
  <2>2. QED
    BY <2>1 DEF EffectOf, AnsweredOf, storeVars, execVars
<1>3. ASSUME ExecStep(p), exec[p] \in {"run", "call"},
             exec'[p] = "over" => at'[p] = at[p], UNCHANGED handlerVars
      PROVE  AnsweredOf(p)'
  <2>1. ~(Kind(p) = "rest" /\ at[p] \in {"unwind", "done"})
    BY <1>3 DEF AnsweredOf
  <2>2. ~(Kind(p) = "graphql" /\ answer[p] = "ok")
    BY <1>3 DEF AnsweredOf, Succeeded
  <2>3. QED
    BY <1>3, <2>1, <2>2 DEF AnsweredOf, Kind, handlerVars
<1>4. CASE Reject(p)
  <2>1. /\ exec[p] = "run" /\ exec'[p] = "over" /\ err'[p] = "invalid"
        /\ UNCHANGED <<storeVars, handlerVars, next, wrote>>
    BY <1>4 DEF Reject
  <2>2. next[p] \in DOMAIN input[p].calls
    BY <1>0, <2>1 DEF PathOf
  <2>3. EffectOf(p)'
    BY <1>0, <1>1, <2>1, <2>2 DEF EffectOf, PathOf, storeVars, handlerVars
  <2>4. QED
    BY <1>3, <1>4, <2>1, <2>3 DEF ExecStep, handlerVars
<1>5. CASE Call(p)
  <2>1. /\ exec[p] = "run" /\ exec'[p] = "call"
        /\ status'[p] \in {"called", "doomed"} /\ req'[p] = Now(p).call
        /\ UNCHANGED <<handlerVars, next, err, wrote>>
    BY <1>5 DEF Call, Store!Call
  <2>2. Now(p)' = Now(p)
    BY <2>1 DEF Now, handlerVars
  <2>3. EffectOf(p)'
    BY <1>1, <2>1, <2>2 DEF EffectOf, handlerVars
  <2>4. QED
    BY <1>3, <1>5, <2>1, <2>3 DEF ExecStep, handlerVars
<1>6. CASE TakeEffect(p)
  <2>1. /\ exec[p] = "call" /\ UNCHANGED <<handlerVars, exec, next, err, req>>
        /\ status[p] \in {"called", "doomed"} /\ status'[p] = "answered"
    BY <1>0, <1>6, EffectOfCall, EffectMoves DEF TakeEffect, PathOf
  <2>2. /\ req[p] = input[p].calls[next[p]].call
        /\ wrote[p] = Writes(p, next[p] - 1)
    BY <2>1 DEF EffectOf, Now
  <2>3. Changes(input[p].calls[next[p]]) <=> req[p].op \in {"create", "update", "delete"}
    BY <2>2 DEF Changes
  <2>4. Writes(p, next[p]) = Writes(p, next[p] - 1)
          + (IF req[p].op \in {"create", "update", "delete"} THEN 1 ELSE 0)
    BY <2>3, WritesStep
  <2>5. wrote'[p] = Writes(p, IF reply'[p].err = "nil" THEN next[p] ELSE next[p] - 1)
    BY <1>6, <2>2, <2>4, EffectOfCall
  <2>6. Now(p)' = Now(p)
    BY <2>1 DEF Now, handlerVars
  <2>7. EffectOf(p)'
    BY <1>1, <2>1, <2>2, <2>5, <2>6 DEF EffectOf, Now, handlerVars
  <2>8. QED
    BY <1>3, <1>6, <2>1, <2>7 DEF ExecStep, handlerVars
<1>7. CASE Returns(p)
  <2>1. /\ exec[p] = "call" /\ status[p] = "answered" /\ status'[p] = "idle"
        /\ err'[p] = reply[p].err /\ UNCHANGED <<handlerVars, wrote>>
    BY <1>7 DEF Returns, MovesOn, Store!Return
  <2>2. /\ next[p] \in DOMAIN input[p].calls
        /\ wrote[p] = Writes(p, IF reply[p].err = "nil" THEN next[p] ELSE next[p] - 1)
    BY <1>0, <2>1 DEF PathOf, EffectOf
  <2>3. input[p].calls \in Seq(Work)
    BY <1>0, <2>1, InputFacts DEF PathOf, Input
  <2>4. CASE reply[p].err = "nil" /\ next[p] < Len(input[p].calls)
    <3>1. exec'[p] = "run" /\ next'[p] = next[p] + 1
      BY <1>7, <2>4 DEF Returns, MovesOn
    <3>2. next'[p] - 1 = next[p]
      BY <3>1
    <3>3. EffectOf(p)'
      BY <1>1, <2>1, <2>2, <2>4, <3>1, <3>2 DEF EffectOf, handlerVars
    <3>4. QED
      BY <1>3, <1>7, <2>1, <3>1, <3>3 DEF ExecStep, handlerVars
  <2>5. CASE ~(reply[p].err = "nil" /\ next[p] < Len(input[p].calls))
    <3>1. exec'[p] = "over" /\ next' = next
      BY <1>7, <2>5 DEF Returns, MovesOn
    <3>2. reply[p].err = "nil" => next[p] = Len(input[p].calls)
      BY <2>2, <2>3, <2>5
    <3>3. EffectOf(p)'
      BY <1>1, <2>1, <2>2, <3>1, <3>2 DEF EffectOf, handlerVars
    <3>4. QED
      BY <1>3, <1>7, <2>1, <3>1, <3>3 DEF ExecStep, handlerVars
  <2>6. QED
    BY <2>4, <2>5
<1>8. QED
  BY <1>2, <1>4, <1>5, <1>6, <1>7 DEF ExecStep

LEMMA EffectStep == Types /\ Path /\ Effect /\ [Next]_vars => Effect'
<1>1. ASSUME Types, Path, Effect, NEW p \in Procs, Step(p) PROVE Effect'
  <2>1. EffectOf(p)' /\ AnsweredOf(p)'
    BY <1>1, HandlerEffect, ExecEffect DEF Effect, Step
  <2>2. \A q \in Procs \ {p} : EffectOf(q)' /\ AnsweredOf(q)'
    BY <1>1, OthersSame, OthersKeep, SameEffect DEF Effect
  <2>3. QED
    BY <2>1, <2>2 DEF Effect
<1>2. ASSUME Effect, UNCHANGED vars PROVE Effect'
  <2> SUFFICES ASSUME NEW q \in Procs PROVE EffectOf(q)' /\ AnsweredOf(q)'
    BY DEF Effect
  <2>1. Same(q) /\ UNCHANGED <<err[q], answer[q], reply[q]>>
    BY <1>2 DEF Same, vars, storeVars, handlerVars, execVars
  <2>2. QED
    BY <1>2, <2>1, SameEffect DEF Effect
<1>3. QED
  BY <1>1, <1>2 DEF Next, Step

LEMMA EffectAtFirst == Init => Effect
<1> SUFFICES ASSUME Init, NEW p \in Procs PROVE EffectOf(p) /\ AnsweredOf(p)
  BY DEF Effect
<1>1. exec[p] = "idle" /\ wrote[p] = 0 /\ answer[p] = "none"
  BY DEF Init
<1>2. status[p] = "idle"
  BY DEF Init, Store!Init
<1>3. QED
  BY <1>1, <1>2 DEF EffectOf, AnsweredOf

\* The response says what became of the request: whoever is told of success has
\* had all the calls carried out, a REST request that is told of an error has
\* changed nothing, and a GraphQL operation ends with its first error.
THEOREM AnswersTellEffect == Spec => []AnswerTellsEffect
<1>1. Init => Effect
  BY EffectAtFirst
<1>2. Types /\ Path /\ Effect => AnswerTellsEffect
  <2> SUFFICES ASSUME Types, Path, Effect, NEW p \in Procs
               PROVE  /\ exec[p] = "idle" => wrote[p] = 0
                      /\ exec[p] = "over" =>
                           wrote[p] = Writes(p, IF err[p] = "nil"
                                                THEN Len(input[p].calls) ELSE next[p] - 1)
                      /\ Kind(p) = "rest" /\ answer[p] # "none" =>
                           wrote[p] = IF answer[p] \in {"ok", "created", "no_content"}
                                      THEN Writes(p, 1) ELSE 0
                      /\ Kind(p) = "graphql" /\ answer[p] = "ok" =>
                           wrote[p] = Writes(p, Len(input[p].calls))
    BY DEF AnswerTellsEffect
  <2>1. PathOf(p) /\ EffectOf(p) /\ AnsweredOf(p)
    BY DEF Path, Effect
  <2>2. ASSUME Kind(p) = "rest", answer[p] # "none"
        PROVE  wrote[p] = IF answer[p] \in {"ok", "created", "no_content"}
                          THEN Writes(p, 1) ELSE 0
    <3>1. exec[p] \in {"idle", "over"} /\ input[p] \in Inputs
      BY <2>1, <2>2 DEF AnsweredOf, PathOf
    <3>2. CASE exec[p] = "idle"
      BY <2>1, <2>2, <3>2 DEF EffectOf, AnsweredOf, Succeeded
    <3>3. CASE exec[p] = "over"
      <4>1. Len(input[p].calls) = 1 /\ input[p].calls \in Seq(Work)
        BY <2>2, <3>1, InputsAssumption DEF Kind, Input
      <4>2. next[p] = 1
        BY <2>1, <3>3, <4>1 DEF EffectOf
      <4>3. Writes(p, 0) = 0
        BY WritesStep
      <4>4. QED
        BY <2>1, <2>2, <3>3, <4>2, <4>3 DEF EffectOf, AnsweredOf, Succeeded
    <3>4. QED
      BY <3>1, <3>2, <3>3
  <2>3. QED
    BY <2>1, <2>2 DEF EffectOf, AnsweredOf, Succeeded
<1>3. QED
  BY <1>1, <1>2, EffectStep, TypesAndPath, PTL DEF Spec
-----------------------------------------------------------------------------
(* The counters of the store *)

\* The calls that Returning counts.
Back(op) ==
  {p \in Procs : status[p] = "answered" /\ req[p].op = op /\ reply[p].err = "nil"}

Counted ==
  /\ IsFiniteSet(issued) /\ Live(items) \subseteq issued
  /\ OpsMatchStore

\* The two equations of OpsMatchStore.
Balanced(createdOps, deletedOps, returningCreate, returningDelete, known, live) ==
  /\ createdOps + returningCreate = known
  /\ createdOps + returningCreate = deletedOps + returningDelete + live

LEMMA Balance ==
  /\ OpsMatchStore <=>
       Balanced(ops["create"]["success"], ops["delete"]["success"],
                Cardinality(Back("create")), Cardinality(Back("delete")),
                Cardinality(issued), Cardinality(Live(items)))
  /\ OpsMatchStore' <=>
       Balanced(ops'["create"]["success"], ops'["delete"]["success"],
                Cardinality(Back("create")'), Cardinality(Back("delete")'),
                Cardinality(issued'), Cardinality(Live(items)'))
BY DEF OpsMatchStore, Returning, Back, Balanced

\* The sets that are counted are finite.
LEMMA Counts ==
  ASSUME Types, Counted
  PROVE  /\ \A op : Back(op) \in SUBSET Procs /\ Cardinality(Back(op)) \in Nat
         /\ ops["create"]["success"] \in Nat /\ ops["delete"]["success"] \in Nat
         /\ Cardinality(issued) \in Nat
         /\ IsFiniteSet(Live(items)) /\ Cardinality(Live(items)) \in Nat
<1>1. \A op : Back(op) \in SUBSET Procs
  BY DEF Back
<1>2. \A op : Cardinality(Back(op)) \in Nat
  BY <1>1, Counting
<1>3. IsFiniteSet(issued) /\ IsFiniteSet(Live(items))
  BY FS_Subset DEF Counted
<1>4. Cardinality(issued) \in Nat /\ Cardinality(Live(items)) \in Nat
  BY <1>3, FS_CardinalityType
<1>5. QED
  BY <1>1, <1>2, <1>3, <1>4 DEF Types, Result

LEMMA CountedSame ==
  ASSUME Counted, UNCHANGED issued, Live(items)' = Live(items),
         ops'["create"]["success"] = ops["create"]["success"],
         ops'["delete"]["success"] = ops["delete"]["success"],
         Back("create")' = Back("create"), Back("delete")' = Back("delete")
  PROVE  Counted'
BY Balance DEF Counted

\* A call begins to return: it is counted with the others if it has created or
\* deleted something.
LEMMA BackEffect ==
  ASSUME Types, Path, NEW p \in Procs, TakeEffect(p), NEW op
  PROVE  /\ p \notin Back(op)
         /\ Back(op)' = IF req[p].op = op /\ reply'[p].err = "nil"
                        THEN Back(op) \cup {p} ELSE Back(op)
<1>1. /\ status[p] \in {"called", "doomed"}
      /\ status' = [status EXCEPT ![p] = "answered"] /\ req' = req
  BY EffectMoves DEF TakeEffect
<1>2. \A q \in Procs \ {p} : reply'[q] = reply[q]
  BY OthersKeep DEF Step, ExecStep
<1>3. status \in [Procs -> {"idle", "called", "answered", "doomed"}]
  BY DEF Types, StoreTypes
<1>4. p \notin Back(op)
  BY <1>1 DEF Back
<1>5. \A q \in Procs \ {p} : q \in Back(op)' <=> q \in Back(op)
  BY <1>1, <1>2, <1>3 DEF Back
<1>6. p \in Back(op)' <=> req[p].op = op /\ reply'[p].err = "nil"
  BY <1>1, <1>3 DEF Back
<1>7. Back(op) \subseteq Procs /\ Back(op)' \subseteq Procs
  BY DEF Back
<1>8. QED
  BY <1>4, <1>5, <1>6, <1>7

LEMMA CountedEffect ==
  ASSUME Types, Path, Counted, NEW p \in Procs, TakeEffect(p)
  PROVE  Counted'
<1>0. /\ ops' = ops /\ items \in ItemMap /\ now \in Time
      /\ reply \in [Procs -> Reply] /\ req[p] \in Request
      /\ status[p] \in {"called", "doomed"}
  BY EffectMoves DEF TakeEffect, Types, StoreTypes, Path, PathOf
<1> USE DEF Store!Answer, Store!Ends
<1>1. ASSUME UNCHANGED issued, Live(items)' = Live(items),
             reply'[p].err # "nil" \/ req[p].op \notin {"create", "delete"}
      PROVE  Counted'
  <2>1. Back("create")' = Back("create") /\ Back("delete")' = Back("delete")
    BY <1>1, BackEffect
  <2>2. QED
    BY <1>0, <1>1, <2>1, CountedSame
<1>2. CASE Store!Fails(p)
  <2>1. \E e \in Error \ {"nil"} : reply' = [reply EXCEPT ![p] = Failure(e)]
    BY SameOperators, <1>2 DEF Store!Fails, Error, ArgumentError
  <2>2. reply'[p].err # "nil"
    BY <1>0, <2>1 DEF Failure
  <2>3. UNCHANGED <<items, issued>>
    BY <1>2 DEF Store!Fails
  <2>4. QED
    BY <1>1, <2>2, <2>3 DEF Live
<1>3. CASE Store!Reads(p)
  <2>1. req[p].op \in {"list", "get"} /\ UNCHANGED <<items, issued>>
    BY <1>3 DEF Store!Reads
  <2>2. QED
    BY <1>1, <2>1 DEF Live
<1>4. CASE Store!Updates(p)
  <2>1. /\ req[p].op = "update" /\ req[p].id \in Live(items) /\ UNCHANGED issued
        /\ items' = [items EXCEPT ![req[p].id] =
                       Revised(items[req[p].id], req[p].content, now)]
    BY SameOperators, <1>4 DEF Store!Updates
  <2>2. req[p].content \in Contents
    BY SameOperators, <1>0, <1>4 DEF Store!Updates, ArgumentError, Request
  <2>3. req[p].id \in Ids /\ items[req[p].id] \in Item
    BY <1>0, <2>1 DEF Live, ItemMap
  <2>4. Revised(items[req[p].id], req[p].content, now) \in Item
    BY <1>0, <2>2, <2>3 DEF Revised, Item
  <2>5. Live(items)' = Live(items)
    BY <1>0, <2>1, <2>3, <2>4, NoItemAssumption DEF Live, ItemMap
  <2>6. QED
    BY <1>1, <2>1, <2>5
<1>5. CASE Store!Creates(p)
  <2>1. PICK i \in Ids \ issued :
          /\ items' = [items EXCEPT ![i] = NewItem(i, req[p].content, now)]
          /\ issued' = issued \cup {i}
          /\ reply' = [reply EXCEPT ![p] = Success({NewItem(i, req[p].content, now)})]
    BY SameOperators, <1>5 DEF Store!Creates
  <2>2. req[p].op = "create" /\ req[p].content \in Contents
    BY SameOperators, <1>0, <1>5 DEF Store!Creates, ArgumentError, Request
  <2>3. NewItem(i, req[p].content, now) # NoItem
    BY <1>0, <2>2, NoItemAssumption DEF NewItem, Item
  <2>4. Live(items)' = Live(items) \cup {i} /\ i \notin Live(items)
    BY <1>0, <2>1, <2>3 DEF Live, ItemMap, Counted
  <2>5. reply'[p].err = "nil"
    BY <1>0, <2>1 DEF Success
  <2>6. /\ Back("create")' = Back("create") \cup {p} /\ p \notin Back("create")
        /\ Back("delete")' = Back("delete")
    BY <2>2, <2>5, BackEffect
  <2>7. Cardinality(Back("create")') = Cardinality(Back("create")) + 1
    BY <2>6, Counts, Counting
  <2>8. /\ IsFiniteSet(issued') /\ Cardinality(issued') = Cardinality(issued) + 1
        /\ Cardinality(Live(items)') = Cardinality(Live(items)) + 1
    BY <2>1, <2>4, Counts, FS_AddElement DEF Counted
  <2>9. OpsMatchStore'
    BY <1>0, <2>6, <2>7, <2>8, Balance, Counts DEF Balanced, Counted
  <2>10. QED
    BY <2>1, <2>4, <2>8, <2>9 DEF Counted
<1>6. CASE Store!Deletes(p)
  <2>1. /\ req[p].op = "delete" /\ req[p].id \in Live(items) /\ UNCHANGED issued
        /\ items' = [items EXCEPT ![req[p].id] = NoItem]
        /\ reply' = [reply EXCEPT ![p] = Success({})]
    BY SameOperators, <1>6 DEF Store!Deletes
  <2>2. Live(items)' = Live(items) \ {req[p].id}
    BY <1>0, <2>1 DEF Live, ItemMap
  <2>3. reply'[p].err = "nil"
    BY <1>0, <2>1 DEF Success
  <2>4. /\ Back("delete")' = Back("delete") \cup {p} /\ p \notin Back("delete")
        /\ Back("create")' = Back("create")
    BY <2>1, <2>3, BackEffect
  <2>5. Cardinality(Back("delete")') = Cardinality(Back("delete")) + 1
    BY <2>4, Counts, Counting
  <2>6. Cardinality(Live(items)') = Cardinality(Live(items)) - 1
    <3>1. IsFiniteSet(Live(items))
      BY Counts
    <3>2. Cardinality(Live(items) \ {req[p].id}) = Cardinality(Live(items)) - 1
      BY <2>1, <3>1, FS_RemoveElement
    <3>3. QED
      BY <2>2, <3>2
  <2>7. OpsMatchStore'
    BY <1>0, <2>1, <2>4, <2>5, <2>6, Balance, Counts DEF Balanced, Counted
  <2>8. QED
    BY <2>1, <2>2, <2>7 DEF Counted
<1>7. QED
  BY <1>2, <1>3, <1>4, <1>5, <1>6 DEF TakeEffect

LEMMA CountedReturn ==
  ASSUME Types, Path, Counted, NEW p \in Procs, Returns(p)
  PROVE  Counted'
<1> DEFINE r == IF reply[p].err = "nil" THEN "success" ELSE "failure"
<1>1. /\ status[p] = "answered" /\ status' = [status EXCEPT ![p] = "idle"]
      /\ req' = [req EXCEPT ![p] = NoRequest] /\ reply' = [reply EXCEPT ![p] = NoReply]
      /\ UNCHANGED <<items, issued>>
  BY SameOperators DEF Returns, Store!Return
<1>2. ops' = [ops EXCEPT ![req[p].op][r] = @ + 1]
  BY DEF Returns
<1>3. status \in [Procs -> {"idle", "called", "answered", "doomed"}]
  BY DEF Types, StoreTypes
<1>4. ASSUME NEW op
      PROVE  Back(op)' = Back(op) \ {p}
  BY <1>1, <1>3 DEF Back
<1>5. /\ ops \in [{"list", "get", "create", "update", "delete"} -> [Result -> Nat]]
      /\ req[p].op \in {"list", "get", "create", "update", "delete"}
  BY <1>1 DEF Types, Path, PathOf, Request
<1>6. ASSUME NEW op \in {"create", "delete"}
      PROVE  /\ Back(op)' = Back(op) \ {p}
             /\ \/ /\ p \in Back(op) /\ ops'[op]["success"] = ops[op]["success"] + 1
                \/ /\ p \notin Back(op) /\ ops'[op]["success"] = ops[op]["success"]
  <2>1. CASE req[p].op = op /\ reply[p].err = "nil"
    <3>1. p \in Back(op)
      BY <1>1, <2>1 DEF Back
    <3>2. ops'[op]["success"] = ops[op]["success"] + 1
      BY <1>2, <1>5, <2>1 DEF Result
    <3>3. QED
      BY <1>4, <3>1, <3>2
  <2>2. CASE ~(req[p].op = op /\ reply[p].err = "nil")
    <3>1. p \notin Back(op)
      BY <2>2 DEF Back
    <3>2. ops'[op]["success"] = ops[op]["success"]
      BY <1>2, <1>5, <2>2 DEF Result
    <3>3. QED
      BY <1>4, <3>1, <3>2
  <2>3. QED
    BY <2>1, <2>2
<1>7. ASSUME NEW op \in {"create", "delete"}
      PROVE  ops'[op]["success"] + Cardinality(Back(op)')
               = ops[op]["success"] + Cardinality(Back(op))
  <2>1. p \in Back(op) => Cardinality(Back(op)') = Cardinality(Back(op)) - 1
    BY <1>6, Counts, Counting
  <2>2. p \notin Back(op) => Back(op)' = Back(op)
    BY <1>6
  <2>3. Cardinality(Back(op)) \in Nat /\ ops[op]["success"] \in Nat
    BY <1>5, Counts DEF Result
  <2>4. QED
    BY <1>6, <2>1, <2>2, <2>3
<1>8. Live(items)' = Live(items)
  BY <1>1 DEF Live
<1>9. OpsMatchStore'
  BY <1>1, <1>7, <1>8, Balance DEF Balanced, Counted
<1>10. QED
  BY <1>1, <1>8, <1>9 DEF Counted

LEMMA CountedStep == Types /\ Path /\ Counted /\ [Next]_vars => Counted'
<1>1. ASSUME Types, Path, Counted, NEW p \in Procs, Step(p) PROVE Counted'
  <2>1. CASE TakeEffect(p)
    BY <1>1, <2>1, CountedEffect
  <2>2. CASE Returns(p)
    BY <1>1, <2>2, CountedReturn
  <2>3. ASSUME UNCHANGED <<items, issued, reply, ops>>,
               \A q \in Procs : /\ status'[q] = "answered" <=> status[q] = "answered"
                                /\ status[q] = "answered" => req'[q] = req[q]
        PROVE  Counted'
    <3>1. Back("create")' = Back("create") /\ Back("delete")' = Back("delete")
      BY <2>3 DEF Back
    <3>2. Live(items)' = Live(items)
      BY <2>3 DEF Live
    <3>3. QED
      BY <1>1, <2>3, <3>1, <3>2, CountedSame
  <2>4. CASE Call(p)
    <3>1. /\ UNCHANGED <<items, issued, reply, ops>> /\ status[p] = "idle"
          /\ status'[p] \in {"called", "doomed"}
      BY <1>1, <2>4 DEF Call, Store!Call, Types, StoreTypes
    <3>2. \A q \in Procs \ {p} : status'[q] = status[q] /\ req'[q] = req[q]
      BY <1>1, OthersSame DEF Same
    <3>3. QED
      BY <2>3, <3>1, <3>2
  <2>5. CASE Disconnect(p) \/ Recover(p) \/ Unwind(p)
    <3>1. LosesContext(p) /\ UNCHANGED ops
      BY <2>5 DEF Disconnect, Recover, Unwind
    <3>2. /\ UNCHANGED <<reply, req, items, issued>>
          /\ \/ status' = status
             \/ (status[p] = "called" /\ status' = [status EXCEPT ![p] = "doomed"])
      BY <1>1, <3>1, ContextKeeps
    <3>3. \A q \in Procs : status'[q] = "answered" <=> status[q] = "answered"
      BY <1>1, <3>2 DEF Types, StoreTypes
    <3>4. QED
      BY <2>3, <3>1, <3>2, <3>3
  <2>6. CASE \/ \E i \in Inputs : Arrive(p, i)
             \/ Passes(p) \/ Accepts(p) \/ Refuses(p) \/ AnswerPublic(p)
             \/ Begin(p) \/ Answers(p) \/ Abandon(p) \/ Reject(p)
    <3>1. UNCHANGED <<storeVars, ops>>
      BY <2>6 DEF Arrive, Passes, Accepts, Refuses, Decides, AnswerPublic, Begin,
         Answers, Abandon, Reject
    <3>2. QED
      BY <2>3, <3>1 DEF storeVars
  <2>7. QED
    BY <1>1, <2>1, <2>2, <2>4, <2>5, <2>6 DEF Step, HandlerStep, ExecStep
<1>2. ASSUME Counted, UNCHANGED vars PROVE Counted'
  <2>1. UNCHANGED <<storeVars, ops>>
    BY <1>2 DEF vars
  <2>2. QED
    BY <1>2, <2>1, CountedSame DEF storeVars, Back, Live
<1>3. QED
  BY <1>1, <1>2 DEF Next, Step

LEMMA CountedAtFirst == Init => Counted
<1> SUFFICES ASSUME Init PROVE Counted
  OBVIOUS
<1>1. Back("create") = {} /\ Back("delete") = {}
  BY DEF Init, Store!Init, Back
<1>2. issued = {} /\ Live(items) = {}
  BY DEF Init, Store!Init, Live
<1>3. ops["create"]["success"] = 0 /\ ops["delete"]["success"] = 0
  BY DEF Init, Result
<1>4. IsFiniteSet({}) /\ Cardinality({}) = 0
  BY FS_EmptySet
<1>5. OpsMatchStore
  BY <1>1, <1>2, <1>3, <1>4, Balance DEF Balanced
<1>6. QED
  BY <1>2, <1>4, <1>5 DEF Counted

\* The items that exist can be told from store_operations_total: what has been
\* created less what has been deleted, but for the calls that are returning.
THEOREM OperationsAddUp == Spec => []OpsMatchStore
<1>1. Init => Counted
  BY CountedAtFirst
<1>2. Counted => OpsMatchStore
  BY DEF Counted
<1>3. QED
  BY <1>1, <1>2, CountedStep, TypesAndPath, PTL DEF Spec

-----------------------------------------------------------------------------
(* What is deleted stays deleted *)

\* The calls of p that have succeeded are the first Carried(p).
Carried(p) ==
  CASE exec[p] = "idle" -> 0
    [] exec[p] = "run" -> next[p] - 1
    [] exec[p] = "call" ->
         IF status[p] = "answered" /\ reply[p].err = "nil" THEN next[p] ELSE next[p] - 1
    [] OTHER -> IF err[p] = "nil" THEN next[p] ELSE next[p] - 1

DeletedBy(p) == Deleted(p, Carried(p))

Final ==
  \A p \in Procs :
    /\ DeletedBy(p) \subseteq issued \ Live(items)
    /\ \A q \in Procs \ {p} : DeletedBy(p) \cap DeletedBy(q) = {}

\* What a call does to the map: it brings back nothing that has been issued, and
\* a deletion that succeeds takes away what has been there.
LEMMA MapEffect ==
  ASSUME Types, Path, Counted, NEW p \in Procs, TakeEffect(p)
  PROVE  /\ issued \subseteq issued' /\ Live(items)' \cap issued \subseteq Live(items)
         /\ reply'[p].err = "nil" /\ req[p].op = "delete" =>
              /\ req[p].id \in Live(items) \ Live(items)'
              /\ issued' = issued
<1>0. /\ items \in ItemMap /\ reply \in [Procs -> Reply]
      /\ status[p] \in {"called", "doomed"} /\ Live(items) \subseteq issued
  BY EffectMoves DEF TakeEffect, Types, StoreTypes, Counted
<1> USE DEF Store!Answer, Store!Ends
<1>1. CASE Store!Fails(p)
  <2>1. \E e \in Error \ {"nil"} : reply' = [reply EXCEPT ![p] = Failure(e)]
    BY SameOperators, <1>1 DEF Store!Fails, Error, ArgumentError
  <2>2. reply'[p].err # "nil"
    BY <1>0, <2>1 DEF Failure
  <2>3. QED
    BY <1>1, <2>2 DEF Store!Fails, Live
<1>2. CASE Store!Reads(p)
  BY <1>2 DEF Store!Reads, Live
<1>3. CASE Store!Updates(p)
  <2>1. /\ req[p].op = "update" /\ req[p].id \in Live(items) /\ UNCHANGED issued
        /\ \E new : items' = [items EXCEPT ![req[p].id] = new]
    BY SameOperators, <1>3 DEF Store!Updates
  <2>2. Live(items)' \subseteq Live(items)
    BY <1>0, <2>1 DEF Live, ItemMap
  <2>3. QED
    BY <2>1, <2>2
<1>4. CASE Store!Creates(p)
  <2>1. PICK i \in Ids \ issued : /\ \E new : items' = [items EXCEPT ![i] = new]
                                  /\ issued' = issued \cup {i}
    BY SameOperators, <1>4 DEF Store!Creates
  <2>2. Live(items)' \subseteq Live(items) \cup {i}
    BY <1>0, <2>1 DEF Live, ItemMap
  <2>3. req[p].op = "create"
    BY <1>4 DEF Store!Creates
  <2>4. QED
    BY <2>1, <2>2, <2>3
<1>5. CASE Store!Deletes(p)
  <2>1. /\ req[p].id \in Live(items) /\ UNCHANGED issued
        /\ items' = [items EXCEPT ![req[p].id] = NoItem]
    BY SameOperators, <1>5 DEF Store!Deletes
  <2>2. Live(items)' = Live(items) \ {req[p].id}
    BY <1>0, <2>1 DEF Live, ItemMap
  <2>3. QED
    BY <2>1, <2>2
<1>6. QED
  BY <1>1, <1>2, <1>3, <1>4, <1>5 DEF TakeEffect

LEMMA DeletedSame ==
  ASSUME NEW p \in Procs, UNCHANGED input[p], Carried(p)' = Carried(p)
  PROVE  DeletedBy(p)' = DeletedBy(p)
BY DEF DeletedBy, Deleted

\* Only a call that takes effect adds to what is deleted, or touches the map.
LEMMA DeletedQuiet ==
  ASSUME Types, Path, NEW p \in Procs, Step(p), ~TakeEffect(p)
  PROVE  DeletedBy(p)' = DeletedBy(p) /\ UNCHANGED <<items, issued>>
<1> USE DEF Types, StoreTypes, Goes, Runs, Responds, handlerVars, execVars
<1>0. PathOf(p)
  BY DEF Path
<1>1. CASE \E i \in Inputs : Arrive(p, i)
  <2>1. exec[p] = "idle" /\ UNCHANGED <<storeVars, execVars>>
    BY <1>0, <1>1 DEF Arrive, PathOf
  <2>2. Carried(p) = 0 /\ Carried(p)' = 0
    BY <2>1 DEF Carried
  <2>3. DeletedBy(p) = {} /\ DeletedBy(p)' = {}
    BY <2>2 DEF DeletedBy, Deleted
  <2>4. QED
    BY <2>1, <2>3 DEF storeVars
<1>2. CASE Disconnect(p) \/ Recover(p) \/ Unwind(p)
  <2>1. LosesContext(p) /\ UNCHANGED <<input, execVars>>
    BY <1>2 DEF Disconnect, Recover, Unwind
  <2>2. /\ UNCHANGED <<reply, items, issued>>
        /\ status'[p] = "answered" <=> status[p] = "answered"
    BY <2>1, ContextKeeps
  <2>3. Carried(p)' = Carried(p)
    BY <2>1, <2>2 DEF Carried
  <2>4. QED
    BY <2>1, <2>2, <2>3, DeletedSame
<1>3. CASE \/ Passes(p) \/ Accepts(p) \/ Refuses(p) \/ AnswerPublic(p)
           \/ Answers(p) \/ Abandon(p)
  <2>1. UNCHANGED <<storeVars, execVars, input>>
    BY <1>3 DEF Passes, Accepts, Refuses, Decides, AnswerPublic, Answers, Abandon
  <2>2. Carried(p)' = Carried(p)
    BY <2>1 DEF Carried, storeVars
  <2>3. QED
    BY <2>1, <2>2, DeletedSame DEF storeVars
<1>4. CASE Begin(p)
  <2>1. /\ exec[p] = "idle" /\ exec'[p] = "run" /\ next'[p] = 1
        /\ UNCHANGED <<storeVars, input>>
    BY <1>0, <1>4 DEF Begin, PathOf
  <2>2. Carried(p)' = Carried(p)
    BY <2>1 DEF Carried
  <2>3. QED
    BY <2>1, <2>2, DeletedSame DEF storeVars
<1>5. CASE Reject(p)
  <2>1. /\ exec[p] = "run" /\ exec'[p] = "over" /\ err'[p] = "invalid"
        /\ UNCHANGED <<storeVars, input, next>>
    BY <1>5 DEF Reject
  <2>2. Carried(p)' = Carried(p)
    BY <2>1 DEF Carried
  <2>3. QED
    BY <2>1, <2>2, DeletedSame DEF storeVars
<1>6. CASE Call(p)
  <2>1. /\ exec[p] = "run" /\ exec'[p] = "call" /\ status'[p] # "answered"
        /\ UNCHANGED <<input, next, items, issued>>
    BY <1>6 DEF Call, Store!Call
  <2>2. Carried(p)' = Carried(p)
    BY <2>1 DEF Carried
  <2>3. QED
    BY <2>1, <2>2, DeletedSame
<1>7. CASE Returns(p)
  <2>1. /\ exec[p] = "call" /\ status[p] = "answered" /\ err'[p] = reply[p].err
        /\ UNCHANGED <<input, items, issued>>
        /\ \/ reply[p].err = "nil" /\ exec'[p] = "run" /\ next'[p] = next[p] + 1
           \/ exec'[p] = "over" /\ next'[p] = next[p]
    BY <1>7 DEF Returns, MovesOn, Store!Return
  <2>2. CASE reply[p].err = "nil" /\ exec'[p] = "run" /\ next'[p] = next[p] + 1
    <3>1. next[p] \in Nat /\ next'[p] - 1 = next[p]
      BY <2>2
    <3>2. Carried(p) = next[p] /\ Carried(p)' = next[p]
      BY <2>1, <2>2, <3>1 DEF Carried
    <3>3. QED
      BY <2>1, <3>2, DeletedSame
  <2>3. CASE exec'[p] = "over" /\ next'[p] = next[p]
    <3>1. Carried(p)' = Carried(p)
      BY <2>1, <2>3 DEF Carried
    <3>2. QED
      BY <2>1, <3>1, DeletedSame
  <2>4. QED
    BY <2>1, <2>2, <2>3
<1>8. QED
  BY <1>1, <1>2, <1>3, <1>4, <1>5, <1>6, <1>7 DEF Step, HandlerStep, ExecStep

\* What takes effect adds the item it deletes, if it succeeds at that.
LEMMA DeletedEffect ==
  ASSUME Types, Path, NEW p \in Procs, EffectOf(p), TakeEffect(p)
  PROVE  DeletedBy(p)' = IF reply'[p].err = "nil" /\ req[p].op = "delete"
                         THEN DeletedBy(p) \cup {req[p].id} ELSE DeletedBy(p)
<1>1. /\ status[p] \in {"called", "doomed"} /\ status'[p] = "answered"
      /\ UNCHANGED <<input, exec, next>>
  BY EffectOfCall DEF TakeEffect, handlerVars
<1>2. exec[p] = "call" /\ next[p] \in Nat \ {0} /\ req[p] = input[p].calls[next[p]].call
  BY <1>1 DEF Path, PathOf, Types, EffectOf, Now
<1>3. Carried(p) = next[p] - 1
  BY <1>1, <1>2 DEF Carried
<1>4. Carried(p)' = IF reply'[p].err = "nil" THEN next[p] ELSE next[p] - 1
  BY <1>1, <1>2 DEF Carried
<1>5. Deleted(p, next[p]) = IF req[p].op = "delete"
                            THEN Deleted(p, next[p] - 1) \cup {req[p].id}
                            ELSE Deleted(p, next[p] - 1)
  <2>1. 1 .. next[p] = (1 .. next[p] - 1) \cup {next[p]}
    BY <1>2
  <2>2. QED
    BY <1>2, <2>1 DEF Deleted
<1>6. \A n : Deleted(p, n)' = Deleted(p, n)
  BY <1>1 DEF Deleted
<1>7. QED
  BY <1>3, <1>4, <1>5, <1>6 DEF DeletedBy

LEMMA FinalStep ==
  Types /\ Path /\ Effect /\ Counted /\ Final /\ [Next]_vars => Final'
<1>1. ASSUME Types, Path, Effect, Counted, Final, NEW p \in Procs, Step(p)
      PROVE  Final'
  <2>1. \A q \in Procs \ {p} : DeletedBy(q)' = DeletedBy(q)
    <3> TAKE q \in Procs \ {p}
    <3>1. Same(q) /\ UNCHANGED <<err[q], reply[q]>>
      BY <1>1, OthersSame, OthersKeep
    <3>2. Carried(q)' = Carried(q)
      BY <3>1 DEF Carried, Same
    <3>3. QED
      BY <3>1, <3>2, DeletedSame DEF Same
  <2>2. CASE ~TakeEffect(p)
    <3>1. \A q \in Procs : DeletedBy(q)' = DeletedBy(q)
      BY <1>1, <2>1, <2>2, DeletedQuiet
    <3>2. UNCHANGED <<items, issued>>
      BY <1>1, <2>2, DeletedQuiet
    <3>3. QED
      BY <1>1, <3>1, <3>2 DEF Final, Live
  <2>3. CASE TakeEffect(p)
    <3>1. /\ issued \subseteq issued' /\ Live(items)' \cap issued \subseteq Live(items)
          /\ Live(items) \subseteq issued
      BY <1>1, <2>3, MapEffect DEF Counted
    <3>2. \A q \in Procs : DeletedBy(q) \subseteq issued' \ Live(items)'
      BY <1>1, <3>1 DEF Final
    <3>3. CASE reply'[p].err = "nil" /\ req[p].op = "delete"
      <4>1. /\ req[p].id \in Live(items) \ Live(items)' /\ req[p].id \in issued'
            /\ DeletedBy(p)' = DeletedBy(p) \cup {req[p].id}
        BY <1>1, <2>3, <3>1, <3>3, MapEffect, DeletedEffect DEF Effect
      <4>2. \A q \in Procs : req[p].id \notin DeletedBy(q)
        BY <1>1, <4>1 DEF Final
      <4>3. QED
        BY <1>1, <2>1, <3>2, <4>1, <4>2 DEF Final
    <3>4. CASE ~(reply'[p].err = "nil" /\ req[p].op = "delete")
      <4>1. \A q \in Procs : DeletedBy(q)' = DeletedBy(q)
        BY <1>1, <2>1, <2>3, <3>4, DeletedEffect DEF Effect
      <4>2. QED
        BY <1>1, <3>2, <4>1 DEF Final
    <3>5. QED
      BY <3>3, <3>4
  <2>4. QED
    BY <2>2, <2>3
<1>2. ASSUME Final, UNCHANGED vars PROVE Final'
  <2>1. UNCHANGED <<input, exec, next, err, status, reply, items, issued>>
    BY <1>2 DEF vars, storeVars, handlerVars, execVars
  <2>2. \A q \in Procs : DeletedBy(q)' = DeletedBy(q)
    BY <2>1 DEF DeletedBy, Deleted, Carried
  <2>3. QED
    BY <1>2, <2>1, <2>2 DEF Final, Live
<1>3. QED
  BY <1>1, <1>2 DEF Next, Step

\* The deletions that a response confirms are among those that were carried out.
LEMMA ToldIsDeleted ==
  ASSUME Path, Effect, NEW p \in Procs
  PROVE  ToldDeleted(p) \subseteq DeletedBy(p)
<1> SUFFICES ASSUME answer[p] \in {"ok", "no_content"}
             PROVE  Deleted(p, Len(input[p].calls)) \subseteq DeletedBy(p)
  BY DEF ToldDeleted
<1>0. PathOf(p) /\ EffectOf(p) /\ AnsweredOf(p)
  BY DEF Path, Effect
<1>1. input[p] \in Inputs /\ input[p] \in Input
  BY <1>0, InputFacts DEF PathOf, AnsweredOf
<1>2. CASE Succeeded(p)
  <2>1. Carried(p) = Len(input[p].calls)
    BY <1>0, <1>2 DEF Succeeded, EffectOf, Carried
  <2>2. QED
    BY <2>1 DEF DeletedBy
<1>3. CASE Kind(p) = "public"
  <2>1. Len(input[p].calls) = 0
    BY <1>1, <1>3, InputsAssumption DEF Kind
  <2>2. QED
    BY <2>1 DEF Deleted
<1>4. CASE Kind(p) \in {"rest", "graphql"} /\ ~Succeeded(p)
  BY <1>0, <1>4 DEF AnsweredOf
<1>5. QED
  BY <1>1, <1>2, <1>3, <1>4 DEF Input, Kind

\* What a response says to be deleted was there, is gone for good, and nobody
\* else is told to have deleted it, whatever the other requests do.
THEOREM DeletionsHold == Spec => []DeletionsAreFinal
<1>1. Init => Effect
  BY EffectAtFirst
<1>2. Init => Counted
  BY CountedAtFirst
<1>3. Init => Final
  <2> SUFFICES ASSUME Init, NEW p \in Procs PROVE DeletedBy(p) = {}
    BY DEF Final
  <2>1. Carried(p) = 0
    BY DEF Init, Carried
  <2>2. QED
    BY <2>1 DEF DeletedBy, Deleted
<1>4. Path /\ Effect /\ Final => DeletionsAreFinal
  BY ToldIsDeleted DEF Final, DeletionsAreFinal
<1>5. QED
  BY <1>1, <1>2, <1>3, <1>4, EffectStep, CountedStep, FinalStep, TypesAndPath, PTL
     DEF Spec
=============================================================================
