-------------------------- MODULE JwksCacheProofs ---------------------------
(***************************************************************************)
(* Safety of JwksCache, for any number of verifiers, tokens and published  *)
(* key sets and for any retry limit.                                       *)
(*                                                                         *)
(* RefusedForAReason is not inductive: that the key a verifier holds was   *)
(* published (Holding) follows from CacheIsAKeySet once the verifier is    *)
(* usable (Calls), and that it has refreshed follows from what it carries  *)
(* from one step of refreshKeys to the next (Carried).                     *)
(***************************************************************************)
EXTENDS JwksCache, TLAPS

\* A call is made of a verifier the constructor has returned, with a token
\* whose header is in order until it ends with an answer.
Calling(v) ==
  /\ pc[v] # "idle" => ready /\ token[v] \in Tokens
  /\ pc[v] # "done" => answer[v] = "none"
  /\ pc[v] \notin {"idle", "done"} => HeaderError(token[v]) = "none"

\* The key at hand was published under the id of the token.
Holds(v) ==
  pc[v] = "found" => \E n \in Published : /\ Lists(n, token[v])
                                         /\ KeySet[n][token[v].kid] = held[v]

\* What a goroutine carries through refreshKeys.
Carries(r) ==
  /\ pc[r] = "fetch" => attempt[r] < MaxRetries /\ fetched[r] = 0
  /\ pc[r] = "discover" => attempt[r] = 0 /\ fetched[r] = 0
  /\ pc[r] \in {"store", "relook"} => fetched[r] \in Published

Calls   == \A v \in Verifiers : Calling(v)
Holding == \A v \in Verifiers : Holds(v)
Carried == \A r \in Goroutines : Carries(r)

IInv ==
  TypeOK /\ Calls /\ Carried /\ Holding /\ CacheIsAKeySet /\ RefusedForAReason

USE JwksAssumption

-----------------------------------------------------------------------------
LEMMA KeySets == \A n \in 1 .. Last : KeySet[n] \in KeyMaps
OBVIOUS

\* What getKey finds in a published set is a key.
LEMMA Mapped ==
  ASSUME NEW m \in KeyMaps, NEW id \in DOMAIN m
  PROVE  m[id] \in Keys
BY DEF KeyMaps

LEMMA Started == Init => IInv
<1> SUFFICES ASSUME Init PROVE IInv
  OBVIOUS
<1> USE DEF Init
<1>1. \A v \in Verifiers : pc[v] = "idle"
  BY DEF Goroutines
<1>2. pc[Refresher] = "discover"
  BY DEF Goroutines
<1>3. TypeOK
  <2>1. pc \in [Goroutines -> VerifierPC \cup RefresherPC]
    BY DEF VerifierPC, RefresherPC
  <2>2. attempt \in [Goroutines -> 0 .. MaxRetries]
    OBVIOUS
  <2>3. fetched \in [Goroutines -> 0 .. Last]
    OBVIOUS
  <2>4. /\ token \in [Verifiers -> Tokens \cup {NoToken}]
        /\ held \in [Verifiers -> Keys \cup {NoKey}]
        /\ answer \in [Verifiers -> {"none", "accepted"} \cup Refusal]
    OBVIOUS
  <2>5. keys \in KeyMaps
    <3>1. keys \in [{} -> Keys] /\ {} \in SUBSET Kids
      BY DEF NoKeys
    <3>2. QED
      BY <3>1 DEF KeyMaps
  <2>6. version \in 1 .. Last /\ now \in 0 .. MaxTime
    OBVIOUS
  <2>7. QED
    BY <1>1, <1>2, <2>1, <2>2, <2>3, <2>4, <2>5, <2>6
       DEF TypeOK, VerifierPC, RefresherPC
<1>4. Carried
  BY <1>1, <1>2 DEF Carried, Carries, Goroutines
<1>5. Calls /\ Holding
  BY <1>1 DEF Calls, Calling, Holding, Holds
<1>6. CacheIsAKeySet /\ RefusedForAReason
  BY DEF CacheIsAKeySet, RefusedForAReason, Grounded
<1>7. QED
  BY <1>3, <1>4, <1>5, <1>6 DEF IInv

-----------------------------------------------------------------------------
(* Refusals *)

\* A ground does not go away: sets stay published and the clock moves on.
LEMMA GroundKept ==
  ASSUME TypeOK, TypeOK', version <= version', now <= now',
         NEW v \in Verifiers, Grounded(v, token[v], answer[v]),
         answer[v] # "none" => token[v] \in Tokens,
         token'[v] = token[v], answer'[v] = answer[v],
         fetched'[v] = fetched[v], attempt'[v] = attempt[v]
  PROVE  Grounded(v, token[v], answer[v])'
<1>1. \A n \in Published : n \in Published'
  BY DEF Published, TypeOK
<1>2. \A t : Signed(t) => Signed(t)'
  BY <1>1 DEF Signed, Vouches, Lists
<1>3. answer[v] = "expired" => now' > token[v].expiry - 2
  <2> SUFFICES ASSUME answer[v] = "expired" PROVE now' > token[v].expiry - 2
    OBVIOUS
  <2>1. token[v].expiry \in Nat
    BY DEF Token
  <2>2. QED
    BY <2>1 DEF Grounded, TypeOK
<1>4. QED
  BY <1>1, <1>2, <1>3 DEF Grounded, Lists, Vouches

LEMMA NoAnswerGrounded ==
  ASSUME NEW v, NEW t, NEW said, said \in {"none", "accepted"}
  PROVE  Grounded(v, t, said)
BY DEF Grounded

-----------------------------------------------------------------------------
(* Types *)

LEMMA TypeKept == TypeOK /\ Calls /\ Carried /\ [Next]_vars => TypeOK'
<1> SUFFICES ASSUME TypeOK, Calls, Carried, [Next]_vars PROVE TypeOK'
  OBVIOUS
<1> USE DEF TypeOK, Calls, Calling, Goroutines, VerifierPC, RefresherPC,
            calls, fetches, provider
<1>1. CASE Rotate
  BY <1>1 DEF Rotate
<1>2. CASE ChangeReachability
  BY <1>2 DEF ChangeReachability
<1>12. CASE TimePasses
  BY <1>12 DEF TimePasses
<1>3. CASE Stop
  BY <1>3 DEF Stop
<1>4. CASE SeesStop
  BY <1>4 DEF SeesStop, Goes
<1>5. ASSUME NEW r \in Goroutines, RefreshStep(r) PROVE TypeOK'
  <2>1. CASE Fetch(r)
    BY <2>1 DEF Fetch, Goes
  <2>2. CASE FetchFails(r)
    <3>1. UNCHANGED <<provider, keys, token, held, fetched, ready, stop>>
      BY <2>2 DEF FetchFails
    <3>2. CASE /\ attempt[r] + 1 < MaxRetries
               /\ attempt' = [attempt EXCEPT ![r] = @ + 1]
               /\ UNCHANGED <<pc, answer>>
      BY <3>1, <3>2
    <3>3. CASE AfterFailure(r) /\ r = Refresher
      <4>1. PICK to \in {"loop", "dead"} : pc' = [pc EXCEPT ![r] = to]
        BY <3>3 DEF AfterFailure, Goes
      <4>2. attempt' = [attempt EXCEPT ![r] = 0] /\ UNCHANGED answer
        BY <3>3 DEF AfterFailure
      <4>3. QED
        BY <3>1, <3>3, <4>1, <4>2
    <3>4. CASE AfterFailure(r) /\ r # Refresher
      <4>1. /\ pc' = [pc EXCEPT ![r] = "done"]
            /\ answer' = [answer EXCEPT ![r] = "unreachable"]
            /\ attempt' = [attempt EXCEPT ![r] = MaxRetries]
        BY <3>4 DEF AfterFailure, Answers
      <4>2. "unreachable" \in Refusal
        BY DEF Refusal
      <4>3. QED
        BY <3>1, <3>4, <4>1, <4>2
    <3>5. QED
      BY <2>2, <3>2, <3>3, <3>4 DEF FetchFails
  <2>3. CASE Store(r)
    <3>1. fetched[r] \in 1 .. Last
      BY <2>3 DEF Store, Returns, Goes, Carried, Carries, Published
    <3>2. keys' \in KeyMaps
      BY <2>3, <3>1, KeySets DEF Store
    <3>3. QED
      BY <2>3, <3>2 DEF Store, Returns, Goes
  <2>4. QED
    BY <1>5, <2>1, <2>2, <2>3 DEF RefreshStep
<1>6. CASE Discover
  BY <1>6 DEF Discover, Goes
<1>7. CASE Tick
  BY <1>7 DEF Tick, Goes, Clear
<1>8. ASSUME NEW v \in Verifiers,
             LookupHits(v) \/ LookupMisses(v) \/ RelookHits(v)
               \/ RelookMisses(v) \/ Check(v) \/ Return(v)
      PROVE  TypeOK'
  <2>1. ASSUME Finds(v), \E from : Goes(v, from, "found") PROVE TypeOK'
    <3>1. keys[token[v].kid] \in Keys
      BY <2>1, Mapped DEF Finds
    <3>2. QED
      BY <2>1, <3>1 DEF Finds, Goes, Clear
  <2>2. CASE LookupHits(v) \/ RelookHits(v)
    BY <2>1, <2>2 DEF LookupHits, RelookHits
  <2>3. CASE LookupMisses(v)
    BY <2>3 DEF LookupMisses, Goes, Clear
  <2>4. CASE RelookMisses(v)
    BY <2>4 DEF RelookMisses, Answers, Refusal
  <2>5. CASE Check(v)
    <3>1. Verdict(token[v], held[v]) \in {"accepted"} \cup Refusal
      BY DEF Verdict, Refusal
    <3>2. QED
      BY <2>5, <3>1 DEF Check, Answers
  <2>6. CASE Return(v)
    BY <2>6 DEF Return, Goes, Clear
  <2>7. QED
    BY <1>8, <2>2, <2>3, <2>4, <2>5, <2>6
<1>9. ASSUME NEW v \in Verifiers, NEW t \in Tokens, Authenticate(v, t)
      PROVE  TypeOK'
  <2>1. HeaderError(t) \in {"none"} \cup Refusal
    BY DEF HeaderError, Refusal
  <2>2. UNCHANGED <<provider, keys, held, fetches, ready, stop>>
        /\ token' = [token EXCEPT ![v] = t]
    BY <1>9 DEF Authenticate
  <2>3. \/ pc' = [pc EXCEPT ![v] = "lookup"] /\ UNCHANGED answer
        \/ /\ pc' = [pc EXCEPT ![v] = "done"]
           /\ answer' = [answer EXCEPT ![v] = HeaderError(t)]
    BY <1>9 DEF Authenticate, Goes, Answers
  <2>4. answer' \in [Verifiers -> {"none", "accepted"} \cup Refusal]
    BY <2>1, <2>3
  <2>5. /\ pc' \in [Goroutines -> VerifierPC \cup RefresherPC]
        /\ \A w \in Verifiers : pc'[w] \in VerifierPC
        /\ pc'[Refresher] \in RefresherPC
    BY <2>3
  <2>6. QED
    BY <2>2, <2>4, <2>5
<1>10. CASE UNCHANGED vars
  BY <1>10 DEF vars
<1>11. QED
  BY <1>1, <1>2, <1>3, <1>4, <1>5, <1>6, <1>7, <1>8, <1>9, <1>10, <1>12
     DEF Next, RefresherStep, VerifierStep

-----------------------------------------------------------------------------
(* The steps *)

\* Steps of the provider and of Stop.
LEMMA WorldKeeps ==
  IInv /\ (Rotate \/ ChangeReachability \/ TimePasses \/ Stop) /\ TypeOK' => IInv'
<1> SUFFICES ASSUME IInv, Rotate \/ ChangeReachability \/ TimePasses \/ Stop,
                    TypeOK'
             PROVE  IInv'
  OBVIOUS
<1>1. /\ UNCHANGED <<keys, pc, token, held, answer, attempt, fetched, ready>>
      /\ version <= version' /\ now <= now'
  BY DEF Rotate, ChangeReachability, TimePasses, Stop, IInv, TypeOK, calls,
         fetches, provider
<1>2. \A n \in Published : n \in Published'
  BY <1>1 DEF Published, IInv, TypeOK
<1>3. Calls' /\ Carried'
  BY <1>1, <1>2 DEF IInv, Calls, Calling, Carried, Carries, HeaderError
<1>4. Holding'
  BY <1>1, <1>2 DEF IInv, Holding, Holds, Lists
<1>5. CacheIsAKeySet'
  BY <1>1, <1>2 DEF IInv, CacheIsAKeySet, Published
<1>6. RefusedForAReason'
  <2> SUFFICES ASSUME NEW v \in Verifiers
               PROVE  Grounded(v, token[v], answer[v])'
    BY DEF RefusedForAReason
  <2>1. answer[v] # "none" => token[v] \in Tokens
    BY DEF IInv, Calls, Calling
  <2>2. QED
    BY <1>1, <2>1, GroundKept DEF IInv, RefusedForAReason
<1>7. QED
  BY <1>3, <1>4, <1>5, <1>6 DEF IInv

\* A step of one goroutine: what has to be shown is what becomes of it.
Alone(r) ==
  /\ version' = version /\ now' = now /\ (ready => ready')
  /\ \A g \in Goroutines \ {r} :
       pc'[g] = pc[g] /\ attempt'[g] = attempt[g] /\ fetched'[g] = fetched[g]
  /\ \A v \in Verifiers \ {r} :
       token'[v] = token[v] /\ held'[v] = held[v] /\ answer'[v] = answer[v]

LEMMA AloneKeeps ==
  ASSUME IInv, TypeOK', NEW r \in Goroutines, Alone(r),
         CacheIsAKeySet', Carries(r)',
         r \in Verifiers => /\ Calling(r)' /\ Holds(r)'
                            /\ Grounded(r, token[r], answer[r])'
  PROVE  IInv'
<1>1. Published' = Published
  BY DEF Alone, Published
<1>2. Carried'
  BY <1>1 DEF Alone, IInv, Carried, Carries
<1>3. ASSUME NEW v \in Verifiers \ {r}
      PROVE  Calling(v)' /\ Holds(v)' /\ Grounded(v, token[v], answer[v])'
  <2>1. v \in Goroutines \ {r} /\ Calling(v) /\ Holds(v)
    BY <1>3 DEF Goroutines, IInv, Calls, Holding
  <2>2. Calling(v)'
    BY <2>1 DEF Alone, Calling, HeaderError
  <2>3. Holds(v)'
    BY <1>1, <2>1 DEF Alone, Holds, Lists
  <2>4. answer[v] # "none" => token[v] \in Tokens
    BY <2>1 DEF Calling
  <2>5. Grounded(v, token[v], answer[v])
    BY DEF IInv, RefusedForAReason
  <2>6. version <= version' /\ now <= now'
    BY DEF Alone, IInv, TypeOK
  <2>7. Grounded(v, token[v], answer[v])'
    BY <2>1, <2>4, <2>5, <2>6, GroundKept DEF Alone, IInv
  <2>8. QED
    BY <2>2, <2>3, <2>7
<1>4. Calls' /\ Holding' /\ RefusedForAReason'
  BY <1>3 DEF Calls, Holding, RefusedForAReason
<1>5. QED
  BY <1>2, <1>4 DEF IInv

\* A step that leaves the cache alone leaves it a published set.
LEMMA CacheStays ==
  ASSUME CacheIsAKeySet, version' = version, keys' = keys, ready' = ready
  PROVE  CacheIsAKeySet'
BY DEF CacheIsAKeySet

LEMMA FetchKeeps ==
  ASSUME IInv, TypeOK', NEW r \in Goroutines, Fetch(r)
  PROVE  IInv'
<1> USE DEF IInv, TypeOK
<1>1. /\ UNCHANGED <<version, up, now, keys, token, held, answer, ready, stop>>
      /\ pc[r] = "fetch" /\ pc' = [pc EXCEPT ![r] = "store"]
      /\ fetched' = [fetched EXCEPT ![r] = version]
      /\ attempt' = [attempt EXCEPT ![r] = 0]
  BY DEF Fetch, Goes, provider, calls
<1>2. Alone(r)
  BY <1>1 DEF Alone, Goroutines
<1>3. CacheIsAKeySet'
  BY <1>1, CacheStays
<1>4. Carries(r)'
  BY <1>1 DEF Carries, Published
<1>5. ASSUME r \in Verifiers
      PROVE  Calling(r)' /\ Holds(r)' /\ Grounded(r, token[r], answer[r])'
  <2>1. Calling(r)'
    BY <1>1, <1>5 DEF Calls, Calling, HeaderError, Goroutines
  <2>2. QED
    BY <1>1, <2>1, NoAnswerGrounded DEF Holds, Calling, Grounded
<1>6. QED
  BY <1>2, <1>3, <1>4, <1>5, AloneKeeps

LEMMA FetchFailsKeeps ==
  ASSUME IInv, TypeOK', NEW r \in Goroutines, FetchFails(r)
  PROVE  IInv'
<1> USE DEF IInv, TypeOK
<1>1. /\ UNCHANGED <<version, now, keys, token, held, fetched, ready, stop>>
      /\ pc[r] = "fetch"
  BY DEF FetchFails, provider
<1>2. CacheIsAKeySet'
  BY <1>1, CacheStays
<1>3. fetched[r] = 0
  BY <1>1 DEF Carried, Carries
<1>4. CASE /\ attempt[r] + 1 < MaxRetries
           /\ attempt' = [attempt EXCEPT ![r] = @ + 1]
           /\ UNCHANGED <<pc, answer>>
  <2>1. Alone(r)
    BY <1>1, <1>4 DEF Alone, Goroutines
  <2>2. Carries(r)'
    BY <1>1, <1>3, <1>4 DEF Carries
  <2>3. ASSUME r \in Verifiers
        PROVE  Calling(r)' /\ Holds(r)' /\ Grounded(r, token[r], answer[r])'
    <3>1. Calling(r)'
      BY <1>1, <1>4, <2>3 DEF Calls, Calling, HeaderError
    <3>2. QED
      BY <1>1, <1>4, <3>1 DEF Holds, Calling, Grounded
  <2>4. QED
    BY <1>2, <2>1, <2>2, <2>3, AloneKeeps
<1>5. CASE AfterFailure(r) /\ r = Refresher
  <2>1. PICK to \in {"loop", "dead"} : pc' = [pc EXCEPT ![r] = to]
    BY <1>5 DEF AfterFailure, Goes
  <2>2. attempt' = [attempt EXCEPT ![r] = 0] /\ UNCHANGED answer
    BY <1>5 DEF AfterFailure
  <2>3. Alone(r)
    BY <1>1, <2>1, <2>2 DEF Alone, Goroutines
  <2>4. Carries(r)'
    BY <2>1 DEF Carries
  <2>5. QED
    BY <1>2, <1>5, <2>3, <2>4, AloneKeeps
<1>6. CASE AfterFailure(r) /\ r # Refresher
  <2>1. /\ pc' = [pc EXCEPT ![r] = "done"]
        /\ answer' = [answer EXCEPT ![r] = "unreachable"]
        /\ attempt' = [attempt EXCEPT ![r] = MaxRetries]
    BY <1>6 DEF AfterFailure, Answers
  <2>2. r \in Verifiers
    BY <1>6 DEF Goroutines
  <2>3. Alone(r)
    BY <1>1, <2>1 DEF Alone, Goroutines
  <2>4. Carries(r)'
    BY <2>1 DEF Carries
  <2>5. Calling(r)' /\ Holds(r)'
    BY <1>1, <2>1, <2>2 DEF Calls, Calling, Holds
  <2>6. Grounded(r, token[r], answer[r])'
    BY <1>1, <1>3, <2>1, <2>2 DEF Grounded
  <2>7. QED
    BY <1>2, <2>3, <2>4, <2>5, <2>6, AloneKeeps
<1>7. QED
  BY <1>4, <1>5, <1>6 DEF FetchFails

LEMMA StoreKeeps ==
  ASSUME IInv, TypeOK', NEW r \in Goroutines, Store(r)
  PROVE  IInv'
<1> USE DEF IInv, TypeOK
<1>1. /\ UNCHANGED <<version, now, token, held, answer, attempt, stop>>
      /\ pc[r] = "store" /\ keys' = KeySet[fetched[r]]
      /\ pc' = [pc EXCEPT ![r] = IF r = Refresher THEN "loop" ELSE "relook"]
      /\ fetched' = IF r = Refresher THEN [fetched EXCEPT ![r] = 0] ELSE fetched
  BY DEF Store, Returns, Goes, provider, calls
<1>2. ready => ready'
  BY DEF Store, Returns
<1>3. fetched[r] \in Published
  BY <1>1 DEF Carried, Carries
<1>4. Alone(r)
  BY <1>1, <1>2 DEF Alone, Goroutines
<1>5. CacheIsAKeySet'
  BY <1>1, <1>3 DEF CacheIsAKeySet, Published
<1>6. Carries(r)'
  BY <1>1, <1>3 DEF Carries, Published
<1>7. ASSUME r \in Verifiers
      PROVE  Calling(r)' /\ Holds(r)' /\ Grounded(r, token[r], answer[r])'
  <2>1. Calling(r)'
    BY <1>1, <1>2, <1>7 DEF Calls, Calling, HeaderError
  <2>2. QED
    BY <1>1, <1>7, <2>1 DEF Holds, Calling, Grounded
<1>8. QED
  BY <1>4, <1>5, <1>6, <1>7, AloneKeeps

LEMMA RefresherKeeps ==
  ASSUME IInv, TypeOK', Discover \/ Tick \/ SeesStop
  PROVE  IInv'
<1> USE DEF IInv, TypeOK
<1> DEFINE r == Refresher
<1>1. /\ UNCHANGED <<version, now, keys, token, held, answer, ready, stop>>
      /\ \E to \in {"fetch", "dead", "stopped"} : pc' = [pc EXCEPT ![r] = to]
  BY DEF Discover, Tick, SeesStop, Goes, provider, calls
<1>2. \/ UNCHANGED <<attempt, fetched>>
      \/ /\ attempt' = [attempt EXCEPT ![r] = 0]
         /\ fetched' = [fetched EXCEPT ![r] = 0]
  BY DEF Discover, Tick, SeesStop, Clear, fetches
<1>3. Alone(r)
  BY <1>1, <1>2 DEF Alone, Goroutines
<1>4. CacheIsAKeySet'
  BY <1>1, CacheStays
<1>5. Carries(r)'
  <2>1. CASE Discover
    <3>1. attempt[r] = 0 /\ fetched[r] = 0
      BY <2>1 DEF Discover, Goes, Carried, Carries, Goroutines
    <3>2. QED
      BY <1>1, <2>1, <3>1 DEF Discover, fetches, Carries, Goroutines
  <2>2. CASE Tick
    BY <1>1, <2>2 DEF Tick, Clear, Carries, Goroutines
  <2>3. CASE SeesStop
    BY <2>3 DEF SeesStop, Goes, Carries, Goroutines
  <2>4. QED
    BY <2>1, <2>2, <2>3
<1>6. QED
  BY <1>3, <1>4, <1>5, AloneKeeps DEF Goroutines

LEMMA AuthenticateKeeps ==
  ASSUME IInv, TypeOK', NEW v \in Verifiers, NEW t \in Tokens, Authenticate(v, t)
  PROVE  IInv'
<1> USE DEF IInv, TypeOK
<1>1. /\ UNCHANGED <<version, now, keys, held, attempt, fetched, ready, stop>>
      /\ ready /\ pc[v] = "idle" /\ token' = [token EXCEPT ![v] = t]
  BY DEF Authenticate, provider, fetches
<1>2. v \in Goroutines /\ answer[v] = "none"
  BY <1>1 DEF Goroutines, Calls, Calling
<1>3. CacheIsAKeySet'
  BY <1>1, CacheStays
<1>4. CASE /\ HeaderError(t) = "none"
           /\ pc' = [pc EXCEPT ![v] = "lookup"] /\ UNCHANGED answer
  <2>1. Alone(v)
    BY <1>1, <1>4 DEF Alone, Goroutines
  <2>2. Carries(v)' /\ Holds(v)'
    BY <1>2, <1>4 DEF Carries, Holds
  <2>3. Calling(v)'
    BY <1>1, <1>2, <1>4 DEF Calling, HeaderError
  <2>4. Grounded(v, token[v], answer[v])'
    BY <1>2, <1>4, NoAnswerGrounded DEF Grounded
  <2>5. QED
    BY <1>2, <1>3, <2>1, <2>2, <2>3, <2>4, AloneKeeps
<1>5. CASE /\ HeaderError(t) # "none"
           /\ pc' = [pc EXCEPT ![v] = "done"]
           /\ answer' = [answer EXCEPT ![v] = HeaderError(t)]
  <2>1. Alone(v)
    BY <1>1, <1>5 DEF Alone, Goroutines
  <2>2. Carries(v)' /\ Holds(v)'
    BY <1>2, <1>5 DEF Carries, Holds
  <2>3. Calling(v)'
    BY <1>1, <1>2, <1>5 DEF Calling
  <2>4. Grounded(v, token[v], answer[v])'
    BY <1>1, <1>5 DEF Grounded, HeaderError
  <2>5. QED
    BY <1>2, <1>3, <2>1, <2>2, <2>3, <2>4, AloneKeeps
<1>6. QED
  BY <1>4, <1>5 DEF Authenticate, Goes, Answers

\* LookupHits and RelookHits.
LEMMA FindsKeeps ==
  ASSUME IInv, TypeOK', NEW v \in Verifiers, Finds(v),
         pc[v] \in {"lookup", "relook"}, pc' = [pc EXCEPT ![v] = "found"]
  PROVE  IInv'
<1> USE DEF IInv, TypeOK
<1>1. /\ UNCHANGED <<version, now, keys, token, answer, ready, stop>>
      /\ token[v].kid \in DOMAIN keys
      /\ held' = [held EXCEPT ![v] = keys[token[v].kid]]
      /\ attempt' = [attempt EXCEPT ![v] = 0]
      /\ fetched' = [fetched EXCEPT ![v] = 0]
  BY DEF Finds, Clear, provider
<1>2. v \in Goroutines
  BY DEF Goroutines
<1>3. CacheIsAKeySet'
  BY <1>1, CacheStays
<1>4. Alone(v)
  BY <1>1 DEF Alone, Goroutines
<1>5. Carries(v)'
  BY <1>2 DEF Carries
<1>6. ready /\ Calling(v)'
  BY <1>1, <1>2 DEF Calls, Calling, HeaderError
<1>7. Holds(v)'
  <2>1. PICK n \in Published : keys = KeySet[n]
    BY <1>6 DEF CacheIsAKeySet, Published
  <2>2. Published' = Published
    BY <1>1 DEF Published
  <2>3. Lists(n, token[v])' /\ KeySet[n][token'[v].kid] = held'[v]
    BY <1>1, <2>1 DEF Lists
  <2>4. QED
    BY <2>2, <2>3 DEF Holds
<1>8. Grounded(v, token[v], answer[v])'
  BY <1>2, <1>6 DEF Calling, Grounded
<1>9. QED
  BY <1>2, <1>3, <1>4, <1>5, <1>6, <1>7, <1>8, AloneKeeps

LEMMA MissKeeps ==
  ASSUME IInv, TypeOK', NEW v \in Verifiers, LookupMisses(v) \/ RelookMisses(v)
  PROVE  IInv'
<1> USE DEF IInv, TypeOK
<1>1. /\ UNCHANGED <<version, now, keys, token, held, ready, stop>>
      /\ token[v].kid \notin DOMAIN keys
  BY DEF LookupMisses, RelookMisses, provider, calls
<1>2. v \in Goroutines
  BY DEF Goroutines
<1>3. CacheIsAKeySet'
  BY <1>1, CacheStays
<1>4. CASE LookupMisses(v)
  <2>1. /\ pc[v] = "lookup" /\ pc' = [pc EXCEPT ![v] = "fetch"] /\ UNCHANGED answer
        /\ attempt' = [attempt EXCEPT ![v] = 0]
        /\ fetched' = [fetched EXCEPT ![v] = 0]
    BY <1>4 DEF LookupMisses, Goes, Clear, calls
  <2>2. Alone(v)
    BY <1>1, <2>1 DEF Alone, Goroutines
  <2>3. Carries(v)' /\ Holds(v)'
    BY <1>2, <2>1 DEF Carries, Holds
  <2>4. Calling(v)'
    BY <1>1, <1>2, <2>1 DEF Calls, Calling, HeaderError
  <2>5. Grounded(v, token[v], answer[v])'
    BY <1>2, <2>1, <2>4 DEF Calling, Grounded
  <2>6. QED
    BY <1>2, <1>3, <2>2, <2>3, <2>4, <2>5, AloneKeeps
<1>5. CASE RelookMisses(v)
  <2>1. /\ pc[v] = "relook" /\ pc' = [pc EXCEPT ![v] = "done"]
        /\ answer' = [answer EXCEPT ![v] = "unknown key"]
        /\ UNCHANGED <<attempt, fetched>>
    BY <1>5 DEF RelookMisses, Answers, fetches
  <2>2. Alone(v)
    BY <1>1, <2>1 DEF Alone, Goroutines
  <2>3. Carries(v)' /\ Holds(v)'
    BY <1>2, <2>1 DEF Carries, Holds
  <2>4. ready /\ Calling(v)'
    BY <1>1, <1>2, <2>1 DEF Calls, Calling
  <2>5. fetched[v] \in Published
    BY <1>2, <2>1 DEF Carried, Carries
  <2>6. \E n \in Published : ~Lists(n, token[v])
    BY <1>1, <2>4 DEF CacheIsAKeySet, Published, Lists
  <2>7. Grounded(v, token[v], answer[v])'
    BY <1>1, <2>1, <2>5, <2>6 DEF Grounded, Published, Lists
  <2>8. QED
    BY <1>2, <1>3, <2>2, <2>3, <2>4, <2>7, AloneKeeps
<1>6. QED
  BY <1>4, <1>5

\* What Verdict says of a token and the key that was found under its id.
LEMMA VerdictCorrect ==
  ASSUME TypeOK, NEW t \in Tokens, NEW key, HeaderError(t) = "none",
         NEW n \in Published, Lists(n, t), KeySet[n][t.kid] = key
  PROVE  /\ \A v : Grounded(v, t, Verdict(t, key))
         /\ Verdict(t, key) = "accepted" =>
              t.flaws = {} /\ now <= t.expiry /\ Signed(t)
<1>1. t.expiry \in Nat /\ t.flaws \in SUBSET Flaw
  BY DEF Token
<1>2. t.signer = key => Signed(t)
  BY DEF Signed, Vouches
<1>3. t.signer # key => Lists(n, t) /\ ~Vouches(n, t)
  BY DEF Vouches
<1>4. t.expiry % 2 \in 0 .. 1
  BY <1>1
<1>5. now \in Int
  BY DEF TypeOK
<1>6. Expired(t) => now > t.expiry - 2
  BY <1>1, <1>4, <1>5 DEF Expired
<1>7. ~Expired(t) => now <= t.expiry
  BY <1>1, <1>4, <1>5 DEF Expired
<1>8. Verdict(t, key) = "accepted" =>
        t.flaws = {} /\ now <= t.expiry /\ Signed(t)
  <2> SUFFICES ASSUME Verdict(t, key) = "accepted"
               PROVE  t.flaws = {} /\ now <= t.expiry /\ Signed(t)
    OBVIOUS
  <2>1. /\ "encoding" \notin t.flaws /\ "payload" \notin t.flaws
        /\ "issuer" \notin t.flaws /\ "audience" \notin t.flaws
        /\ t.signer = key /\ ~Expired(t)
    BY DEF Verdict
  <2>2. "header" \notin t.flaws /\ "algorithm" \notin t.flaws
    BY DEF HeaderError
  <2>3. t.flaws = {}
    BY <1>1, <2>1, <2>2 DEF Flaw
  <2>4. QED
    BY <1>2, <1>7, <2>1, <2>3
<1>9. ASSUME NEW v PROVE Grounded(v, t, Verdict(t, key))
  <2>1. CASE "encoding" \in t.flaws
    BY <2>1 DEF Verdict, Grounded
  <2>2. CASE "encoding" \notin t.flaws /\ t.signer # key
    BY <1>3, <2>2 DEF Verdict, Grounded
  <2>3. CASE "encoding" \notin t.flaws /\ t.signer = key
    BY <1>2, <1>6, <2>3 DEF Verdict, Grounded
  <2>4. QED
    BY <2>1, <2>2, <2>3
<1>10. QED
  BY <1>8, <1>9

LEMMA CheckKeeps ==
  ASSUME IInv, TypeOK', NEW v \in Verifiers, Check(v)
  PROVE  /\ IInv'
         /\ answer'[v] = "accepted" =>
              token[v].flaws = {} /\ now <= token[v].expiry /\ Signed(token[v])
<1> USE DEF IInv, TypeOK
<1>1. /\ UNCHANGED <<version, now, keys, token, attempt, fetched, ready, stop>>
      /\ pc[v] = "found" /\ pc' = [pc EXCEPT ![v] = "done"]
      /\ answer' = [answer EXCEPT ![v] = Verdict(token[v], held[v])]
      /\ held' = [held EXCEPT ![v] = NoKey]
  BY DEF Check, Answers, provider, fetches
<1>2. v \in Goroutines
  BY DEF Goroutines
<1>3. CacheIsAKeySet'
  BY <1>1, CacheStays
<1>4. Alone(v)
  BY <1>1 DEF Alone, Goroutines
<1>5. Carries(v)' /\ Holds(v)'
  BY <1>1, <1>2 DEF Carries, Holds
<1>6. Calling(v)'
  BY <1>1, <1>2 DEF Calls, Calling
<1>7. PICK n \in Published : Lists(n, token[v]) /\ KeySet[n][token[v].kid] = held[v]
  BY <1>1 DEF Holding, Holds
<1>8. token[v] \in Tokens /\ HeaderError(token[v]) = "none"
  BY <1>1 DEF Calls, Calling
<1>9. /\ Grounded(v, token[v], Verdict(token[v], held[v]))
      /\ Verdict(token[v], held[v]) = "accepted" =>
           token[v].flaws = {} /\ now <= token[v].expiry /\ Signed(token[v])
  BY <1>7, <1>8, VerdictCorrect
<1>10. answer'[v] = Verdict(token[v], held[v])
  BY <1>1
<1>11. Grounded(v, token[v], answer[v])'
  BY <1>1, <1>9, <1>10 DEF Grounded, Signed, Published, Vouches, Lists
<1>12. QED
  BY <1>2, <1>3, <1>4, <1>5, <1>6, <1>9, <1>10, <1>11, AloneKeeps

LEMMA ReturnKeeps ==
  ASSUME IInv, TypeOK', NEW v \in Verifiers, Return(v)
  PROVE  IInv'
<1> USE DEF IInv, TypeOK
<1>1. /\ UNCHANGED <<version, now, keys, ready, stop>>
      /\ pc' = [pc EXCEPT ![v] = "idle"]
      /\ token' = [token EXCEPT ![v] = NoToken]
      /\ held' = [held EXCEPT ![v] = NoKey]
      /\ answer' = [answer EXCEPT ![v] = "none"]
      /\ attempt' = [attempt EXCEPT ![v] = 0]
      /\ fetched' = [fetched EXCEPT ![v] = 0]
  BY DEF Return, Goes, Clear, provider
<1>2. v \in Goroutines
  BY DEF Goroutines
<1>3. CacheIsAKeySet'
  BY <1>1, CacheStays
<1>4. Alone(v)
  BY <1>1 DEF Alone, Goroutines
<1>5. Carries(v)' /\ Holds(v)' /\ Calling(v)'
  BY <1>1, <1>2 DEF Carries, Holds, Calling
<1>6. Grounded(v, token[v], answer[v])'
  BY <1>1 DEF Grounded
<1>7. QED
  BY <1>2, <1>3, <1>4, <1>5, <1>6, AloneKeeps

LEMMA Kept == IInv /\ [Next]_vars => IInv'
<1> SUFFICES ASSUME IInv, [Next]_vars PROVE IInv'
  OBVIOUS
<1>1. TypeOK'
  BY TypeKept DEF IInv
<1>2. CASE Rotate \/ ChangeReachability \/ TimePasses \/ Stop
  BY <1>1, <1>2, WorldKeeps
<1>3. CASE Discover \/ Tick \/ SeesStop
  BY <1>1, <1>3, RefresherKeeps
<1>4. ASSUME NEW r \in Goroutines, RefreshStep(r) PROVE IInv'
  BY <1>1, <1>4, FetchKeeps, FetchFailsKeeps, StoreKeeps DEF RefreshStep
<1>5. ASSUME NEW v \in Verifiers, VerifierStep(v) PROVE IInv'
  <2>1. CASE LookupHits(v) \/ RelookHits(v)
    BY <1>1, <2>1, FindsKeeps DEF LookupHits, RelookHits, Goes
  <2>2. CASE LookupMisses(v) \/ RelookMisses(v)
    BY <1>1, <2>2, MissKeeps
  <2>3. CASE Check(v)
    BY <1>1, <2>3, CheckKeeps
  <2>4. CASE Return(v)
    BY <1>1, <2>4, ReturnKeeps
  <2>5. QED
    BY <1>4, <1>5, <2>1, <2>2, <2>3, <2>4 DEF VerifierStep, Goroutines
<1>6. ASSUME NEW v \in Verifiers, NEW t \in Tokens, Authenticate(v, t) PROVE IInv'
  BY <1>1, <1>6, AuthenticateKeeps
<1>7. CASE UNCHANGED vars
  <2>1. UNCHANGED <<version, now, keys, pc, token, held, answer, attempt, fetched,
                    ready, stop>>
    BY <1>7 DEF vars, provider, calls, fetches
  <2>2. Alone(Refresher)
    BY <2>1 DEF Alone
  <2>3. Carries(Refresher)' /\ CacheIsAKeySet'
    BY <2>1, CacheStays DEF IInv, Carried, Carries, Goroutines, Published
  <2>4. QED
    BY <1>1, <2>2, <2>3, AloneKeeps DEF Goroutines
<1>8. QED
  BY <1>2, <1>3, <1>4, <1>5, <1>6, <1>7 DEF Next, RefresherStep, Goroutines

-----------------------------------------------------------------------------
(* The theorems *)

\* The strengthening is an invariant of OIDC authentication.
THEOREM Invariance == Spec => []IInv
BY Started, Kept, PTL DEF Spec

\* Type correctness, and with it that refreshKeys never makes more than
\* maxJWKSRetries attempts.
THEOREM TypeCorrect == Spec => []TypeOK
BY Invariance, PTL DEF IInv

\* The cache of a usable verifier is one whole published key set, however
\* many refreshes overlap and whatever becomes of them.
THEOREM CacheCorrect == Spec => []CacheIsAKeySet
BY Invariance, PTL DEF IInv

\* Whatever is refused is refused for a ground that the token, the key sets
\* published so far or the unreachable provider gave.
THEOREM RefusalsCorrect == Spec => []RefusedForAReason
BY Invariance, PTL DEF IInv

\* Only tokens without a flaw, in time, and signed by a published key of their
\* id are accepted.
THEOREM AcceptancesCorrect == Spec => AcceptsTheGenuine
<1>1. IInv /\ [Next]_vars =>
        [\A v \in Verifiers :
           answer[v] # "accepted" /\ answer'[v] = "accepted" =>
             /\ token[v].flaws = {} /\ now <= token[v].expiry
             /\ Signed(token[v])]_vars
  <2> SUFFICES ASSUME IInv, [Next]_vars, NEW v \in Verifiers,
                      answer[v] # "accepted", answer'[v] = "accepted"
               PROVE  /\ token[v].flaws = {} /\ now <= token[v].expiry
                      /\ Signed(token[v])
    OBVIOUS
  <2>1. TypeOK'
    BY TypeKept DEF IInv
  <2>2. answer' # answer
    OBVIOUS
  <2>3. answer \in [Verifiers -> {"none", "accepted"} \cup Refusal]
    BY DEF IInv, TypeOK
  <2>4. ASSUME NEW r \in Goroutines, RefreshStep(r) PROVE FALSE
    BY <2>2, <2>3, <2>4
       DEF RefreshStep, Fetch, FetchFails, AfterFailure, Answers, Store, Returns,
           calls
  <2>5. ASSUME NEW w \in Verifiers, NEW t \in Tokens, Authenticate(w, t) PROVE FALSE
    BY <2>2, <2>3, <2>5 DEF Authenticate, Answers, HeaderError
  <2>6. ASSUME NEW w \in Verifiers, VerifierStep(w) PROVE Check(w)
    <3>1. ~(LookupHits(w) \/ LookupMisses(w) \/ RelookHits(w) \/ RelookMisses(w)
            \/ Return(w))
      BY <2>2, <2>3
         DEF LookupHits, LookupMisses, RelookHits, RelookMisses, Return, Finds,
             Answers, calls
    <3>2. QED
      BY <2>4, <2>6, <3>1 DEF VerifierStep, Goroutines
  <2>7. \E w \in Verifiers : Check(w)
    BY <2>2, <2>4, <2>5, <2>6
       DEF Next, vars, calls, Rotate, ChangeReachability, TimePasses, Stop,
           SeesStop, RefresherStep, Discover, Tick, Goroutines
  <2>8. Check(v)
    BY <2>3, <2>7 DEF Check, Answers
  <2>9. QED
    BY <2>1, <2>8, CheckKeeps
<1>2. QED
  BY <1>1, Invariance, PTL DEF Spec, AcceptsTheGenuine

\* Nothing but an answer of the provider changes the cache.
THEOREM OutageHarmless == Spec => OutageKeepsKeys
<1>1. [Next]_vars =>
        [~up /\ (\A r \in Goroutines : pc[r] # "store") => keys' = keys]_vars
  <2> SUFFICES ASSUME [Next]_vars, ~up,
                      \A r \in Goroutines : pc[r] # "store"
               PROVE  keys' = keys
    OBVIOUS
  <2>1. ASSUME NEW r \in Goroutines, RefreshStep(r) PROVE keys' = keys
    BY <2>1 DEF RefreshStep, Fetch, FetchFails, Store, Returns, Goes
  <2>2. ASSUME NEW v \in Verifiers,
               LookupHits(v) \/ LookupMisses(v) \/ RelookHits(v)
                 \/ RelookMisses(v) \/ Check(v) \/ Return(v)
        PROVE  keys' = keys
    BY <2>2 DEF LookupHits, LookupMisses, RelookHits, RelookMisses, Finds, Check,
                Return
  <2>3. QED
    BY <2>1, <2>2
       DEF Next, vars, Rotate, ChangeReachability, TimePasses, Stop, SeesStop,
           RefresherStep, Discover, Tick, VerifierStep, Authenticate, Goroutines
<1>2. QED
  BY <1>1, PTL DEF Spec, OutageKeepsKeys

-----------------------------------------------------------------------------
(* Progress *)

\* VerifyGoesOn, of one goroutine.
Shortens(r) ==
  pc[r] \notin {"idle", "loop"} =>
    (pc'[r] = pc[r] /\ attempt'[r] = attempt[r]) \/ Left(r)' < Left(r)

\* A step of refreshKeys: an attempt, or on from it.
LEMMA RefreshShortens ==
  ASSUME IInv, NEW g \in Goroutines, RefreshStep(g), NEW r \in Goroutines
  PROVE  Shortens(r)
<1> USE DEF IInv, TypeOK
<1>1. CASE Fetch(g)
  <2>1. /\ pc[g] = "fetch" /\ pc' = [pc EXCEPT ![g] = "store"]
        /\ attempt' = [attempt EXCEPT ![g] = 0]
    BY <1>1 DEF Fetch, Goes
  <2>2. attempt[g] \in Nat /\ attempt[g] < MaxRetries
    BY <2>1 DEF Carried, Carries
  <2>3. QED
    BY <2>1, <2>2 DEF Shortens, Left
<1>2. CASE FetchFails(g)
  <2>1. pc[g] = "fetch"
    BY <1>2 DEF FetchFails
  <2>2. attempt[g] \in Nat /\ attempt[g] < MaxRetries
    BY <2>1 DEF Carried, Carries
  <2>3. CASE attempt' = [attempt EXCEPT ![g] = @ + 1] /\ UNCHANGED pc
    BY <2>1, <2>2, <2>3 DEF Shortens, Left
  <2>4. CASE AfterFailure(g)
    <3>1. /\ \E to \in {"loop", "dead", "done"} : pc' = [pc EXCEPT ![g] = to]
          /\ \E n \in {0, MaxRetries} : attempt' = [attempt EXCEPT ![g] = n]
      BY <2>4 DEF AfterFailure, Goes, Answers
    <3>2. QED
      BY <2>1, <2>2, <3>1 DEF Shortens, Left
  <2>5. QED
    BY <1>2, <2>3, <2>4 DEF FetchFails
<1>3. CASE Store(g)
  <2>1. /\ pc[g] = "store" /\ UNCHANGED attempt
        /\ \E to \in {"loop", "relook"} : pc' = [pc EXCEPT ![g] = to]
    BY <1>3 DEF Store, Returns, Goes
  <2>2. QED
    BY <2>1 DEF Shortens, Left
<1>4. QED
  BY <1>1, <1>2, <1>3 DEF RefreshStep

\* A step of Verify outside refreshKeys.
LEMMA VerifierShortens ==
  ASSUME IInv, NEW v \in Verifiers, NEW r \in Goroutines,
         LookupHits(v) \/ LookupMisses(v) \/ RelookHits(v) \/ RelookMisses(v)
           \/ Check(v) \/ Return(v)
  PROVE  Shortens(r)
<1> USE DEF IInv, TypeOK
<1>1. v \in Goroutines /\ MaxRetries \in Nat
  BY DEF Goroutines
<1>2. CASE LookupHits(v) \/ RelookHits(v)
  <2>1. /\ pc[v] \in {"lookup", "relook"} /\ pc' = [pc EXCEPT ![v] = "found"]
        /\ attempt' = [attempt EXCEPT ![v] = 0]
    BY <1>2 DEF LookupHits, RelookHits, Goes, Finds, Clear
  <2>2. QED
    BY <1>1, <2>1 DEF Shortens, Left
<1>3. CASE LookupMisses(v)
  <2>1. /\ pc[v] = "lookup" /\ pc' = [pc EXCEPT ![v] = "fetch"]
        /\ attempt' = [attempt EXCEPT ![v] = 0]
    BY <1>3 DEF LookupMisses, Goes, Clear
  <2>2. QED
    BY <1>1, <2>1 DEF Shortens, Left
<1>4. CASE RelookMisses(v) \/ Check(v)
  <2>1. /\ pc[v] \in {"relook", "found"} /\ pc' = [pc EXCEPT ![v] = "done"]
        /\ UNCHANGED attempt
    BY <1>4 DEF RelookMisses, Check, Answers, fetches
  <2>2. QED
    BY <1>1, <2>1 DEF Shortens, Left
<1>5. CASE Return(v)
  <2>1. /\ pc[v] = "done" /\ pc' = [pc EXCEPT ![v] = "idle"]
        /\ attempt' = [attempt EXCEPT ![v] = 0]
    BY <1>5 DEF Return, Goes, Clear
  <2>2. QED
    BY <1>1, <2>1 DEF Shortens, Left
<1>6. QED
  BY <1>2, <1>3, <1>4, <1>5

LEMMA StepShortens ==
  ASSUME IInv, [Next]_vars, NEW r \in Goroutines
  PROVE  Shortens(r)
<1> USE DEF IInv, TypeOK
<1>1. CASE Rotate \/ ChangeReachability \/ TimePasses \/ Stop \/ UNCHANGED vars
  BY <1>1 DEF Rotate, ChangeReachability, TimePasses, Stop, vars, fetches, Shortens
<1>2. CASE SeesStop \/ Tick
  <2>1. /\ pc[Refresher] = "loop"
        /\ \A g \in Goroutines \ {Refresher} :
             pc'[g] = pc[g] /\ attempt'[g] = attempt[g]
    BY <1>2 DEF SeesStop, Tick, Goes, Clear, fetches
  <2>2. QED
    BY <2>1 DEF Shortens
<1>3. CASE Discover
  <2>1. /\ pc[Refresher] = "discover" /\ UNCHANGED attempt
        /\ \E to \in {"fetch", "dead"} : pc' = [pc EXCEPT ![Refresher] = to]
    BY <1>3 DEF Discover, Goes, fetches
  <2>2. Refresher \in Goroutines /\ attempt[Refresher] \in Nat
    BY DEF Goroutines
  <2>3. QED
    BY <2>1, <2>2 DEF Shortens, Left
<1>4. ASSUME NEW g \in Goroutines, RefreshStep(g) PROVE Shortens(r)
  BY <1>4, RefreshShortens
<1>5. ASSUME NEW v \in Verifiers, VerifierStep(v) PROVE Shortens(r)
  BY <1>4, <1>5, VerifierShortens DEF VerifierStep, Goroutines
<1>6. ASSUME NEW v \in Verifiers, NEW t \in Tokens, Authenticate(v, t)
      PROVE  Shortens(r)
  <2>1. /\ pc[v] = "idle" /\ UNCHANGED attempt
        /\ \A g \in Goroutines \ {v} : pc'[g] = pc[g]
    BY <1>6 DEF Authenticate, Goes, Answers, fetches
  <2>2. QED
    BY <2>1 DEF Shortens
<1>7. QED
  BY <1>1, <1>2, <1>3, <1>4, <1>5, <1>6 DEF Next, RefresherStep, Goroutines

\* A verification and a refresh always have a step to take and never take more
\* than their number, for any number of verifiers and of attempts and for a
\* provider that comes and goes as it likes.
THEOREM VerifyProgress == Spec => VerifyGoesOn
<1>1. IInv => NoRefreshStuck
  BY DEF IInv, NoRefreshStuck, Carried, Carries, Calls, Calling
<1>2. IInv /\ [Next]_vars =>
        [\A r \in Goroutines : pc[r] \notin {"idle", "loop"} =>
           UNCHANGED <<pc[r], attempt[r]>> \/ Left(r)' < Left(r)]_vars
  BY StepShortens DEF Shortens
<1>3. QED
  BY <1>1, <1>2, Invariance, PTL DEF Spec, VerifyGoesOn

\* What a step does to the refreshes about to store and to the cache: all but
\* Fetch and Store leave both alone, or take a refresh away.
LEMMA CacheMoves ==
  ASSUME IInv, [Next]_vars, version' = version
  PROVE  \/ /\ UNCHANGED keys
            /\ \A r \in Goroutines : pc'[r] = "store" =>
                 \/ pc[r] = "store" /\ fetched'[r] = fetched[r]
                 \/ fetched'[r] = version
         \/ \E g \in Goroutines : Store(g)
<1> USE DEF IInv, TypeOK
<1> DEFINE Quiet ==
      /\ UNCHANGED keys
      /\ \A r \in Goroutines : pc'[r] = "store" =>
           \/ pc[r] = "store" /\ fetched'[r] = fetched[r]
           \/ fetched'[r] = version
<1>1. CASE Rotate \/ ChangeReachability \/ TimePasses \/ Stop \/ UNCHANGED vars
  BY <1>1 DEF Rotate, ChangeReachability, TimePasses, Stop, vars, fetches
<1>2. CASE SeesStop \/ Tick \/ Discover
  <2>1. /\ UNCHANGED keys
        /\ \E to \in {"stopped", "fetch", "dead"} : pc' = [pc EXCEPT ![Refresher] = to]
    BY <1>2 DEF SeesStop, Tick, Discover, Goes
  <2>2. \A g \in Goroutines \ {Refresher} : fetched'[g] = fetched[g]
    BY <1>2 DEF SeesStop, Tick, Discover, Clear, fetches
  <2>3. Quiet
    BY <2>1, <2>2 DEF Goroutines
  <2>4. QED
    BY <2>3
<1>3. ASSUME NEW g \in Goroutines, Fetch(g) \/ FetchFails(g) PROVE Quiet
  <2>1. CASE Fetch(g)
    BY <1>3, <2>1 DEF Fetch, Goes
  <2>2. CASE FetchFails(g)
    <3>1. /\ UNCHANGED <<keys, fetched>>
          /\ \/ UNCHANGED pc
             \/ \E to \in {"loop", "dead", "done"} : pc' = [pc EXCEPT ![g] = to]
      BY <2>2 DEF FetchFails, AfterFailure, Goes, Answers
    <3>2. QED
      BY <3>1
  <2>3. QED
    BY <1>3, <2>1, <2>2
<1>4. ASSUME NEW v \in Verifiers,
             LookupHits(v) \/ LookupMisses(v) \/ RelookHits(v) \/ RelookMisses(v)
               \/ Check(v) \/ Return(v)
      PROVE  Quiet
  <2>1. /\ UNCHANGED keys
        /\ \E to \in {"found", "fetch", "done", "idle"} : pc' = [pc EXCEPT ![v] = to]
    BY <1>4 DEF LookupHits, LookupMisses, RelookHits, RelookMisses, Check, Return,
                Finds, Goes, Answers
  <2>2. \A g \in Goroutines \ {v} : fetched'[g] = fetched[g]
    BY <1>4 DEF LookupHits, LookupMisses, RelookHits, RelookMisses, Check, Return,
                Finds, Clear, fetches
  <2>3. QED
    BY <2>1, <2>2
<1>5. ASSUME NEW v \in Verifiers, NEW t \in Tokens, Authenticate(v, t) PROVE Quiet
  <2>1. /\ UNCHANGED <<keys, fetched>>
        /\ \E to \in {"lookup", "done"} : pc' = [pc EXCEPT ![v] = to]
    BY <1>5 DEF Authenticate, Goes, Answers, fetches
  <2>2. QED
    BY <2>1
<1>6. QED
  BY <1>1, <1>2, <1>3, <1>4, <1>5
     DEF Next, RefresherStep, VerifierStep, RefreshStep, Goroutines

\* A refresh that stores takes itself off the stale ones.
LEMMA StoreMoves ==
  ASSUME IInv, NEW g \in Goroutines, Store(g)
  PROVE  /\ pc[g] = "store" /\ fetched[g] \in Published
         /\ keys' = KeySet[fetched[g]] /\ g \notin Stale'
         /\ Stale' \subseteq Stale
         /\ UNCHANGED <<token, held, answer, version>>
<1> USE DEF IInv, TypeOK
<1>1. /\ pc[g] = "store" /\ UNCHANGED <<token, held, answer, version>>
      /\ \E to \in {"loop", "relook"} : pc' = [pc EXCEPT ![g] = to]
      /\ keys' = KeySet[fetched[g]]
      /\ \A r \in Goroutines \ {g} : fetched'[r] = fetched[r]
  BY DEF Store, Returns, Goes, calls, provider
<1>2. QED
  BY <1>1 DEF Carried, Carries, Stale

LEMMA StaleDrains ==
  ASSUME IInv, [Next]_vars, version' = version
  PROVE  /\ Stale' \subseteq Stale
         /\ keys' \in {keys, KeySet[version]} \/ Stale' # Stale
<1>1. CASE \E g \in Goroutines : Store(g)
  <2>1. PICK g \in Goroutines : Store(g)
    BY <1>1
  <2>2. fetched[g] = version \/ g \in Stale
    BY <2>1, StoreMoves DEF Stale
  <2>3. QED
    BY <2>1, <2>2, StoreMoves
<1>2. CASE ~\E g \in Goroutines : Store(g)
  <2>1. UNCHANGED keys
    BY <1>2, CacheMoves
  <2>2. Stale' \subseteq Stale
    BY <1>2, CacheMoves DEF Stale
  <2>3. QED
    BY <2>1, <2>2
<1>3. QED
  BY <1>1, <1>2

\* What a settled cache makes of one verification.
SettledOf(v) ==
  /\ pc[v] = "found" => /\ Lists(version, token[v])
                        /\ KeySet[version][token[v].kid] = held[v]
  /\ answer[v] = "accepted" => Vouches(version, token[v])
  /\ answer[v] \in {"unknown key", "signature"} => ~Vouches(version, token[v])

LEMMA SettledMatters ==
  Settled <=> /\ keys = KeySet[version] /\ Stale = {}
              /\ \A v \in Verifiers : SettledOf(v)
BY DEF Settled, SettledOf

\* A step leaves a verification alone, or it decides it by the settled cache.
LEMMA SettledStep ==
  ASSUME IInv, [Next]_vars, version' = version, Settled, NEW v \in Verifiers
  PROVE  SettledOf(v)'
<1> USE DEF IInv, TypeOK
<1>1. SettledOf(v) /\ keys = KeySet[version] /\ v \in Goroutines
  BY SettledMatters DEF Goroutines
<1>2. ASSUME pc'[v] # "found" \/ (pc'[v] = pc[v] /\ held'[v] = held[v]),
             token'[v] = token[v],
             answer'[v] = answer[v] \/ answer'[v] = "unreachable"
      PROVE  SettledOf(v)'
  BY <1>1, <1>2 DEF SettledOf, Lists, Vouches
<1>3. ASSUME pc'[v] # "found",
             answer'[v] \notin {"accepted", "unknown key", "signature"}
      PROVE  SettledOf(v)'
  BY <1>3 DEF SettledOf
<1>4. CASE Rotate \/ ChangeReachability \/ TimePasses \/ Stop \/ UNCHANGED vars
  BY <1>2, <1>4 DEF Rotate, ChangeReachability, TimePasses, Stop, vars, calls
<1>5. CASE SeesStop \/ Tick \/ Discover
  <2>1. UNCHANGED <<token, held, answer>> /\ pc'[v] = pc[v]
    BY <1>1, <1>5 DEF SeesStop, Tick, Discover, Goes, calls
  <2>2. QED
    BY <1>2, <2>1
<1>6. ASSUME NEW g \in Goroutines, RefreshStep(g) PROVE SettledOf(v)'
  <2>1. CASE Fetch(g) \/ Store(g)
    <3>1. /\ UNCHANGED <<token, held, answer>>
          /\ \E to \in {"store", "loop", "relook"} : pc' = [pc EXCEPT ![g] = to]
      BY <2>1 DEF Fetch, Store, Returns, Goes, calls
    <3>2. QED
      BY <1>1, <1>2, <3>1
  <2>2. CASE FetchFails(g)
    <3>1. /\ UNCHANGED <<token, held>>
          /\ \/ UNCHANGED pc
             \/ \E to \in {"loop", "dead", "done"} : pc' = [pc EXCEPT ![g] = to]
          /\ UNCHANGED answer \/ answer' = [answer EXCEPT ![g] = "unreachable"]
      BY <2>2 DEF FetchFails, AfterFailure, Goes, Answers
    <3>2. QED
      BY <1>1, <1>2, <3>1
  <2>3. QED
    BY <1>6, <2>1, <2>2 DEF RefreshStep
<1>7. ASSUME NEW w \in Verifiers \ {v},
             VerifierStep(w) \/ \E t \in Tokens : Authenticate(w, t)
      PROVE  SettledOf(v)'
  <2>1. CASE RefreshStep(w)
    BY <1>6, <2>1 DEF Goroutines
  <2>2. CASE ~RefreshStep(w)
    <3>1. /\ pc'[v] = pc[v] /\ token'[v] = token[v] /\ held'[v] = held[v]
          /\ answer'[v] = answer[v]
      BY <1>1, <1>7, <2>2
         DEF VerifierStep, LookupHits, LookupMisses, RelookHits, RelookMisses,
             Check, Return, Finds, Goes, Answers, Authenticate, calls
    <3>2. QED
      BY <1>2, <3>1
  <2>3. QED
    BY <2>1, <2>2
<1>8. CASE VerifierStep(v)
  <2>1. CASE LookupHits(v) \/ RelookHits(v)
    <3>1. /\ pc[v] \in {"lookup", "relook"} /\ UNCHANGED <<token, answer>>
          /\ token[v].kid \in DOMAIN keys
          /\ held' = [held EXCEPT ![v] = keys[token[v].kid]]
      BY <2>1 DEF LookupHits, RelookHits, Finds, Goes
    <3>2. answer'[v] = "none"
      BY <3>1 DEF Calls, Calling
    <3>3. Lists(version, token[v])' /\ KeySet[version][token'[v].kid] = held'[v]
      BY <1>1, <3>1 DEF Lists
    <3>4. QED
      BY <3>2, <3>3 DEF SettledOf
  <2>2. CASE LookupMisses(v) \/ Return(v)
    <3>1. /\ \E to \in {"fetch", "idle"} : pc' = [pc EXCEPT ![v] = to]
          /\ answer'[v] = "none"
      BY <2>2 DEF LookupMisses, Return, Goes, Calls, Calling, calls
    <3>2. QED
      BY <1>1, <1>3, <3>1
  <2>3. CASE RelookMisses(v)
    <3>1. /\ pc' = [pc EXCEPT ![v] = "done"] /\ UNCHANGED token
          /\ answer' = [answer EXCEPT ![v] = "unknown key"]
          /\ token[v].kid \notin DOMAIN keys
      BY <2>3 DEF RelookMisses, Answers
    <3>2. ~Vouches(version, token[v])'
      BY <1>1, <3>1 DEF Vouches, Lists
    <3>3. QED
      BY <1>1, <3>1, <3>2 DEF SettledOf
  <2>4. CASE Check(v)
    <3>1. /\ pc[v] = "found" /\ pc' = [pc EXCEPT ![v] = "done"]
          /\ UNCHANGED token
          /\ answer' = [answer EXCEPT ![v] = Verdict(token[v], held[v])]
      BY <2>4 DEF Check, Answers
    <3>2. Lists(version, token[v]) /\ KeySet[version][token[v].kid] = held[v]
      BY <1>1, <3>1 DEF SettledOf
    <3>3. Vouches(version, token[v]) <=> token[v].signer = held[v]
      BY <3>2 DEF Vouches
    <3>4. /\ Verdict(token[v], held[v]) = "accepted" => token[v].signer = held[v]
          /\ Verdict(token[v], held[v]) = "signature" => token[v].signer # held[v]
          /\ Verdict(token[v], held[v]) # "unknown key"
      BY DEF Verdict
    <3>5. Vouches(version, token[v])' <=> Vouches(version, token[v])
      BY <3>1 DEF Vouches, Lists
    <3>6. QED
      BY <1>1, <3>1, <3>3, <3>4, <3>5 DEF SettledOf
  <2>5. QED
    BY <1>1, <1>6, <1>8, <2>1, <2>2, <2>3, <2>4 DEF VerifierStep
<1>9. ASSUME NEW t \in Tokens, Authenticate(v, t) PROVE SettledOf(v)'
  <2>1. /\ pc'[v] \in {"lookup", "done"}
        /\ answer'[v] \in {"none", "malformed", "algorithm"}
    BY <1>1, <1>9 DEF Authenticate, Goes, Answers, HeaderError, Calls, Calling
  <2>2. QED
    BY <1>3, <2>1
<1>10. QED
  BY <1>4, <1>5, <1>6, <1>7, <1>8, <1>9 DEF Next, RefresherStep, Goroutines

LEMMA SettledStays ==
  ASSUME IInv, [Next]_vars, version' = version, Settled
  PROVE  Settled'
<1>1. Stale' = {} /\ keys' = KeySet[version']
  BY StaleDrains DEF Settled
<1>2. \A v \in Verifiers : SettledOf(v)'
  BY SettledStep
<1>3. QED
  BY <1>1, <1>2 DEF Settled, SettledOf

\* From one publication to the next the cache converges, for any number of
\* refreshes that overtake each other, and with it what is accepted and refused.
THEOREM CacheConvergence == Spec => CacheConverges
<1>1. IInv /\ [Next]_vars =>
        [version' = version =>
           /\ Stale' \subseteq Stale
           /\ keys' \in {keys, KeySet[version]} \/ Stale' # Stale
           /\ Settled => Settled']_vars
  BY StaleDrains, SettledStays
<1>2. QED
  BY <1>1, Invariance, PTL DEF Spec, CacheConverges
=============================================================================
