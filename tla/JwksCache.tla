----------------------------- MODULE JwksCache ------------------------------
(***************************************************************************)
(* OIDC authentication: Verify and the key cache behind it, of             *)
(* internal/auth/oidc_verifier.go, and Authenticate of internal/auth/oidc.go. *)
(*                                                                         *)
(* Request goroutines (Verifiers) look up the key of a token; one that     *)
(* does not find it refreshes the cache itself and looks again (getKey).   *)
(* The refresher runs the constructor and then backgroundRefresh.  All of  *)
(* them call refreshKeys, which fetches the provider's key set without a   *)
(* lock and stores it under v.mu later: two actions.  The sections of v.mu *)
(* read or write v.keys once, so each is one step.                         *)
(*                                                                         *)
(* The provider is external: it publishes one key set after another and it *)
(* answers or not.  A key set maps key ids to keys; it is what fetchJWKS   *)
(* keeps of a document, and it may well be empty.  The delays between      *)
(* attempts and between refreshes are not modelled, only their number and  *)
(* order.  A token has a key id, a signer, an expiry and whatever else is  *)
(* wrong with it.                                                          *)
(***************************************************************************)
EXTENDS Integers

CONSTANTS
  Verifiers,     \* goroutines that verify tokens
  Refresher,     \* NewOIDCTokenVerifier, then backgroundRefresh
  Kids, Keys,    \* key ids, of tokens and of keys; the keys themselves
  Tokens,        \* what clients send
  NoToken,       \* no token at hand
  NoKey,         \* no key looked up
  Last,          \* bound: the provider publishes the key sets 1 .. Last
  KeySet,        \* KeySet[n]: the keys of the n-th one, by their ids
  MaxRetries,    \* maxJWKSRetries
  MaxTime        \* bound: the last half second of the clock

\* What may be wrong with a token, its key and its expiry apart: parts or a
\* header that cannot be read, an algorithm other than RS256, RS384 and RS512,
\* a signature or a payload that cannot be read, another issuer, an audience
\* list without the one configured.
Flaw == {"header", "algorithm", "encoding", "payload", "issuer", "audience"}

\* Times are in half seconds.
Token == [kid : Kids, signer : Keys, flaws : SUBSET Flaw, expiry : Nat]

KeyMaps == UNION {[ids -> Keys] : ids \in SUBSET Kids}

ASSUME JwksAssumption ==
  /\ Refresher \notin Verifiers
  /\ Tokens \subseteq Token /\ NoToken \notin Tokens
  /\ NoKey \notin Keys
  /\ Last \in Nat \ {0}
  /\ KeySet \in [1 .. Last -> KeyMaps]
  /\ MaxRetries \in Nat \ {0}
  /\ MaxTime \in Nat

VARIABLES
  version,   \* the provider publishes KeySet[version]
  up,        \* the provider answers
  now,       \* the clock
  keys,      \* v.keys
  pc,        \* pc[r]: where goroutine r stands
  token,     \* token[v]: what v verifies
  held,      \* held[v]: the key that getKey has returned to v
  answer,    \* answer[v]: how the verification ended
  attempt,   \* attempt[r]: attempts of refreshKeys that have failed
  fetched,   \* fetched[r]: the key set r fetched last, 0 for none
  ready,     \* the constructor has returned a verifier
  stop       \* v.stopRefresh is closed

provider == <<version, up, now>>
calls    == <<token, held, answer>>
fetches  == <<attempt, fetched>>
vars     == <<provider, keys, pc, calls, fetches, ready, stop>>

Goroutines == Verifiers \cup {Refresher}

VerifierPC  == {"idle", "lookup", "fetch", "store", "relook", "found", "done"}
RefresherPC == {"discover", "fetch", "store", "loop", "stopped", "dead"}

Refusal ==
  {"malformed", "algorithm", "unknown key", "unreachable", "signature",
   "issuer", "expired", "audience"}

TypeOK ==
  /\ version \in 1 .. Last
  /\ up \in BOOLEAN
  /\ now \in 0 .. MaxTime
  /\ keys \in KeyMaps
  /\ pc \in [Goroutines -> VerifierPC \cup RefresherPC]
  /\ \A v \in Verifiers : pc[v] \in VerifierPC
  /\ pc[Refresher] \in RefresherPC
  /\ token \in [Verifiers -> Tokens \cup {NoToken}]
  /\ held \in [Verifiers -> Keys \cup {NoKey}]
  /\ answer \in [Verifiers -> {"none", "accepted"} \cup Refusal]
  /\ attempt \in [Goroutines -> 0 .. MaxRetries]
  /\ fetched \in [Goroutines -> 0 .. Last]
  /\ ready \in BOOLEAN
  /\ stop \in BOOLEAN

NoKeys == [id \in {} |-> NoKey]

Init ==
  /\ version = 1 /\ up = TRUE /\ now = 0
  /\ keys = NoKeys
  /\ pc = [r \in Goroutines |-> IF r = Refresher THEN "discover" ELSE "idle"]
  /\ token = [v \in Verifiers |-> NoToken]
  /\ held = [v \in Verifiers |-> NoKey]
  /\ answer = [v \in Verifiers |-> "none"]
  /\ attempt = [r \in Goroutines |-> 0]
  /\ fetched = [r \in Goroutines |-> 0]
  /\ ready = FALSE
  /\ stop = FALSE

Goes(r, from, to) ==
  /\ pc[r] = from
  /\ pc' = [pc EXCEPT ![r] = to]

-----------------------------------------------------------------------------
(* The provider, and the clock *)

Rotate ==
  /\ version < Last
  /\ version' = version + 1
  /\ UNCHANGED <<up, now, keys, pc, calls, fetches, ready, stop>>

ChangeReachability ==
  /\ up' = ~up
  /\ UNCHANGED <<version, now, keys, pc, calls, fetches, ready, stop>>

TimePasses ==
  /\ now < MaxTime
  /\ now' = now + 1
  /\ UNCHANGED <<version, up, keys, pc, calls, fetches, ready, stop>>

-----------------------------------------------------------------------------
(* refreshKeys *)

\* attempt and fetched are of one call of refreshKeys.
Clear(r) ==
  /\ attempt' = [attempt EXCEPT ![r] = 0]
  /\ fetched' = [fetched EXCEPT ![r] = 0]

Answers(v, how) ==
  /\ pc' = [pc EXCEPT ![v] = "done"]
  /\ answer' = [answer EXCEPT ![v] = how]

Fetch(r) ==
  /\ up
  /\ Goes(r, "fetch", "store")
  /\ fetched' = [fetched EXCEPT ![r] = version]
  /\ attempt' = [attempt EXCEPT ![r] = 0]
  /\ UNCHANGED <<provider, keys, calls, ready, stop>>

\* Mutant of AfterFailure: getKey ignores the error of its refresh.
IgnoresFailure(r) ==
  /\ attempt' = [attempt EXCEPT ![r] = 0]
  /\ UNCHANGED answer
  /\ Goes(r, "fetch", IF r # Refresher THEN "relook"
                      ELSE IF ready THEN "loop" ELSE "dead")

\* Mutant of AfterFailure: backgroundRefresh returns on an error.
GivesUp(r) ==
  IF r = Refresher
    THEN /\ Goes(r, "fetch", IF ready THEN "stopped" ELSE "dead")
         /\ attempt' = [attempt EXCEPT ![r] = 0]
         /\ UNCHANGED answer
    ELSE /\ Answers(r, "unreachable")
         /\ attempt' = [attempt EXCEPT ![r] = MaxRetries]

\* What r does when its last attempt has failed: the initial refresh makes the
\* constructor fail, a later one is ignored, a verifier reports it.
AfterFailure(r) ==
  IF r = Refresher
    THEN /\ Goes(r, "fetch", IF ready THEN "loop" ELSE "dead")
         /\ attempt' = [attempt EXCEPT ![r] = 0]
         /\ UNCHANGED answer
    ELSE /\ Answers(r, "unreachable")
         /\ attempt' = [attempt EXCEPT ![r] = MaxRetries]

\* Mutant of FetchFails: the cache is emptied when no attempt is left.
FetchFailsAndForgets(r) ==
  /\ ~up /\ pc[r] = "fetch"
  /\ \/ /\ attempt[r] + 1 < MaxRetries
        /\ attempt' = [attempt EXCEPT ![r] = @ + 1]
        /\ UNCHANGED <<pc, answer, keys>>
     \/ attempt[r] + 1 = MaxRetries /\ AfterFailure(r) /\ keys' = NoKeys
  /\ UNCHANGED <<provider, token, held, fetched, ready, stop>>

\* Mutant of FetchFails: refreshKeys tries until it succeeds.
FetchFailsForever(r) ==
  /\ ~up /\ pc[r] = "fetch"
  /\ UNCHANGED vars

FetchFails(r) ==
  /\ ~up /\ pc[r] = "fetch"
  /\ \/ /\ attempt[r] + 1 < MaxRetries
        /\ attempt' = [attempt EXCEPT ![r] = @ + 1]
        /\ UNCHANGED <<pc, answer>>
     \/ attempt[r] + 1 = MaxRetries /\ AfterFailure(r)
  /\ UNCHANGED <<provider, keys, token, held, fetched, ready, stop>>

Returns(r) ==
  /\ Goes(r, "store", IF r = Refresher THEN "loop" ELSE "relook")
  /\ ready' = (ready \/ r = Refresher)
  /\ fetched' = IF r = Refresher THEN [fetched EXCEPT ![r] = 0] ELSE fetched
  /\ UNCHANGED <<provider, calls, attempt, stop>>

\* Mutant of Store: the keys are added to the map that is there.
StoreMerges(r) ==
  /\ Returns(r)
  /\ keys' = LET new == KeySet[fetched[r]]
             IN  [id \in DOMAIN keys \cup DOMAIN new |->
                    IF id \in DOMAIN new THEN new[id] ELSE keys[id]]

Store(r) == Returns(r) /\ keys' = KeySet[fetched[r]]

-----------------------------------------------------------------------------
(* Authenticate and Verify, which never looks at the context of its request *)

\* A token whose header cannot be used is refused before its key is looked up.
HeaderError(t) ==
  IF "header" \in t.flaws THEN "malformed"
  ELSE IF "algorithm" \in t.flaws THEN "algorithm"
  ELSE "none"

Authenticate(v, t) ==
  /\ ready /\ pc[v] = "idle"
  /\ token' = [token EXCEPT ![v] = t]
  /\ IF HeaderError(t) = "none" THEN Goes(v, "idle", "lookup") /\ UNCHANGED answer
                                ELSE Answers(v, HeaderError(t))
  /\ UNCHANGED <<provider, keys, held, fetches, ready, stop>>

Finds(v) ==
  /\ token[v].kid \in DOMAIN keys
  /\ held' = [held EXCEPT ![v] = keys[token[v].kid]]
  /\ Clear(v)
  /\ UNCHANGED <<provider, keys, token, answer, ready, stop>>

LookupHits(v) == Goes(v, "lookup", "found") /\ Finds(v)

LookupMisses(v) ==
  /\ Goes(v, "lookup", "fetch")
  /\ token[v].kid \notin DOMAIN keys
  /\ Clear(v)
  /\ UNCHANGED <<provider, keys, calls, ready, stop>>

RelookHits(v) == Goes(v, "relook", "found") /\ Finds(v)

\* Mutant: getKey refreshes until it finds the key.
RelookUntilFound(v) ==
  /\ Goes(v, "relook", "fetch")
  /\ token[v].kid \notin DOMAIN keys
  /\ UNCHANGED <<provider, keys, calls, fetches, ready, stop>>

RelookMisses(v) ==
  /\ pc[v] = "relook"
  /\ token[v].kid \notin DOMAIN keys
  /\ Answers(v, "unknown key")
  /\ UNCHANGED <<provider, keys, token, held, fetches, ready, stop>>

\* Mutant: the clock is read in whole seconds as well.
ExpiredBySeconds(t) == now - (now % 2) > t.expiry - (t.expiry % 2)

\* int64(payload.Exp) drops the half second.
Expired(t) == now > t.expiry - (t.expiry % 2)

\* The first check that fails decides.
Verdict(t, key) ==
  IF "encoding" \in t.flaws THEN "malformed"
  ELSE IF t.signer # key THEN "signature"
  ELSE IF "payload" \in t.flaws THEN "malformed"
  ELSE IF "issuer" \in t.flaws THEN "issuer"
  ELSE IF Expired(t) THEN "expired"
  ELSE IF "audience" \in t.flaws THEN "audience"
  ELSE "accepted"

\* With the key at hand the rest of Verify and Authenticate shares nothing but
\* the clock.
Check(v) ==
  /\ pc[v] = "found"
  /\ Answers(v, Verdict(token[v], held[v]))
  /\ held' = [held EXCEPT ![v] = NoKey]
  /\ UNCHANGED <<provider, keys, token, fetches, ready, stop>>

Return(v) ==
  /\ Goes(v, "done", "idle")
  /\ token' = [token EXCEPT ![v] = NoToken]
  /\ held' = [held EXCEPT ![v] = NoKey]
  /\ answer' = [answer EXCEPT ![v] = "none"]
  /\ Clear(v)
  /\ UNCHANGED <<provider, keys, ready, stop>>

-----------------------------------------------------------------------------
(* NewOIDCTokenVerifier and backgroundRefresh *)

Discover ==
  /\ Goes(Refresher, "discover", IF up THEN "fetch" ELSE "dead")
  /\ UNCHANGED <<provider, keys, calls, fetches, ready, stop>>

Tick ==
  /\ Goes(Refresher, "loop", "fetch")
  /\ Clear(Refresher)
  /\ UNCHANGED <<provider, keys, calls, ready, stop>>

\* Stop closes the channel; only the loop's select looks at it.
Stop ==
  /\ ready /\ ~stop
  /\ stop' = TRUE
  /\ UNCHANGED <<provider, keys, pc, calls, fetches, ready>>

SeesStop ==
  /\ stop
  /\ Goes(Refresher, "loop", "stopped")
  /\ UNCHANGED <<provider, keys, calls, fetches, ready, stop>>

-----------------------------------------------------------------------------
RefreshStep(r) == Fetch(r) \/ FetchFails(r) \/ Store(r)

VerifierStep(v) ==
  \/ RefreshStep(v) \/ LookupHits(v) \/ LookupMisses(v)
  \/ RelookHits(v) \/ RelookMisses(v) \/ Check(v) \/ Return(v)

RefresherStep == RefreshStep(Refresher) \/ Discover \/ Tick

Next ==
  \/ Rotate \/ ChangeReachability \/ TimePasses \/ Stop \/ SeesStop
  \/ RefresherStep
  \/ \E v \in Verifiers :
       VerifierStep(v) \/ \E t \in Tokens : Authenticate(v, t)

Spec == Init /\ [][Next]_vars

\* Goroutines run, an HTTP request ends (the client has a timeout), the
\* ticker ticks, and a select that finds both of its channels ready again and
\* again does not forever choose the ticker's.
Fairness ==
  /\ \A v \in Verifiers : WF_vars(VerifierStep(v))
  /\ WF_vars(RefresherStep)
  /\ SF_vars(SeesStop)

FairSpec == Spec /\ Fairness

-----------------------------------------------------------------------------
(* Properties *)

\* Once the verifier is usable, the cache is one whole key set that the
\* provider has published: refreshes that overlap never leave a mixture, and
\* one that fails never leaves part of a set.
CacheIsAKeySet == ready => \E n \in 1 .. version : keys = KeySet[n]

\* The cache only changes by an answer of the provider: while it cannot be
\* reached and no answer is on its way, what was cached stays ("the previously
\* cached keys remain valid until the next successful refresh").
OutageKeepsKeys ==
  [][~up /\ (\A r \in Goroutines : pc[r] # "store") => keys' = keys]_vars

\* Of the n-th key set: the key of t's id, and whether that is t's signer.
Lists(n, t) == t.kid \in DOMAIN KeySet[n]
Vouches(n, t) == Lists(n, t) /\ KeySet[n][t.kid] = t.signer

Published == 1 .. version
Signed(t) == \E n \in Published : Vouches(n, t)

\* A token that is accepted has no flaw, its time has not run out at that
\* moment, and its signer was published under its id.
AcceptsTheGenuine ==
  [][\A v \in Verifiers :
       answer[v] # "accepted" /\ answer'[v] = "accepted" =>
         /\ token[v].flaws = {} /\ now <= token[v].expiry
         /\ Signed(token[v])]_vars

Grounded(v, t, said) ==
  /\ said = "malformed" =>
       "header" \in t.flaws \/ "encoding" \in t.flaws \/ "payload" \in t.flaws
  /\ said = "algorithm" => "algorithm" \in t.flaws
  /\ said = "unknown key" =>
       fetched[v] \in Published /\ \E n \in Published : ~Lists(n, t)
  /\ said = "unreachable" => attempt[v] = MaxRetries /\ fetched[v] = 0
  /\ said = "signature" =>
       \E n \in Published : Lists(n, t) /\ ~Vouches(n, t)
  /\ said \in {"issuer", "audience"} => said \in t.flaws /\ Signed(t)
  /\ said = "expired" => now > t.expiry - 2 /\ Signed(t)

\* Every refusal has its ground.  A key is only unknown after a refresh in this
\* very call, and only where a published set lacks it; an unreachable provider
\* was asked MaxRetries times; a signature is wrong for a published key of that
\* id; what is said of the claims is said of a token a published key signed,
\* and a token is not refused as expired a second before its time.
RefusedForAReason == \A v \in Verifiers : Grounded(v, token[v], answer[v])

\* A verification ends, with the claims or with an error, however the provider
\* behaves.
VerifyReturns == \A v \in Verifiers : (pc[v] = "lookup") ~> (pc[v] = "idle")

\* Once the provider settles on its last key set and stays reachable, the
\* cache settles on it too, although refreshes of older sets may still be in
\* flight and the goroutines overtake each other; from then on a token passes
\* the check of its key exactly if this set vouches for it.
SettlesOnLast ==
  <>[](version = Last /\ up /\ ready /\ ~stop) =>
    <>[](/\ keys = KeySet[Last]
         /\ \A v \in Verifiers :
              /\ answer[v] = "accepted" => Vouches(Last, token[v])
              /\ answer[v] \in {"unknown key", "unreachable", "signature"} =>
                   ~Vouches(Last, token[v]))

\* Stop ends the background goroutine.
StopEndsRefresher == stop ~> (pc[Refresher] = "stopped")
-----------------------------------------------------------------------------
(* Progress: the part of the liveness properties that needs no fairness     *)

\* The steps r has still to take at most until its call returns: getKey
\* refreshes once, and refreshKeys has a number of attempts.
Left(r) ==
  CASE pc[r] = "discover" -> MaxRetries + 6
    [] pc[r] = "lookup"   -> MaxRetries + 5
    [] pc[r] = "fetch"    -> MaxRetries + 4 - attempt[r]
    [] pc[r] = "store"    -> 4
    [] pc[r] = "relook"   -> 3
    [] pc[r] = "found"    -> 2
    [] pc[r] = "done"     -> 1
    [] OTHER              -> 0

\* refreshKeys always has an attempt left, or keys to store; Verify has a token
\* to look up.
NoRefreshStuck ==
  /\ \A r \in Goroutines :
       /\ pc[r] = "fetch" => attempt[r] < MaxRetries
       /\ pc[r] = "store" => fetched[r] \in Published
  /\ \A v \in Verifiers : pc[v] # "idle" => token[v] \in Tokens

\* No step sets a verification or a refresh back, whatever the other ones do
\* to the cache meanwhile and however often the provider comes and goes.
VerifyGoesOn ==
  /\ []NoRefreshStuck
  /\ [][\A r \in Goroutines : pc[r] \notin {"idle", "loop"} =>
          UNCHANGED <<pc[r], attempt[r]>> \/ Left(r)' < Left(r)]_vars

\* The refreshes that are about to store a set the provider has replaced.
Stale == {r \in Goroutines : pc[r] = "store" /\ fetched[r] # version}

\* The cache holds the current set and no refresh will take it back, and so do
\* the verifications: what they found, accepted and refused it bears out.
Settled ==
  /\ keys = KeySet[version] /\ Stale = {}
  /\ \A v \in Verifiers :
       /\ pc[v] = "found" => /\ Lists(version, token[v])
                             /\ KeySet[version][token[v].kid] = held[v]
       /\ answer[v] = "accepted" => Vouches(version, token[v])
       /\ answer[v] \in {"unknown key", "signature"} => ~Vouches(version, token[v])

\* From one publication to the next the cache only moves towards the current
\* set: each refresh that was overtaken may set it back once, no other is ever
\* added to them, and once settled it stays so.
CacheConverges ==
  [][version' = version =>
       /\ Stale' \subseteq Stale
       /\ keys' \in {keys, KeySet[version]} \/ Stale' # Stale
       /\ Settled => Settled']_vars
=============================================================================
