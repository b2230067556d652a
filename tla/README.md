# Verification of restapi-example

TLA+ models of the server in `src/`: its concurrent core, the path of a request
through it, and its way from an environment to a running process and to its
end; the TLC runs that check them on small instances, and TLAPS proofs of their
safety for instances of every size. Paths below are relative to `src/`; line numbers are those of
`PROJECT.json`, whose `map` ties every definition to the code it stands for.

1. [The system](#1-the-system)
2. [Modules](#2-modules)
3. [Runs](#3-runs)
4. [Fairness](#4-fairness)
5. [Proofs](#5-proofs)
6. [Findings](#6-findings)
7. [What is not modelled](#7-what-is-not-modelled)
8. [Plan](#8-plan)

## 1. The system

One process serves a REST API, a GraphQL API and a WebSocket stream over an
in-memory item store, behind a chain of middlewares and one of several
authentication methods. `cmd/server/main.go` builds it, waits for SIGINT or
SIGTERM and shuts it down.

| component | code | state it keeps | operations | talks to |
|---|---|---|---|---|
| WebSocket hub | `internal/handler/websocket.go` | `clients` map under `mu`, wait group `wg`, the gauge `websocket_active_connections`, per connection a context, two goroutines, two tickers and the deadlines of its reads and writes | `HandleWebSocket`, `readPump`, `writePump`, `removeClient`, `CloseAllConnections` | its peers; called by the router and by `Server.Shutdown` |
| Memory store | `internal/store/memory.go`, contract in `store.go`, data in `internal/model/item.go` | `items` map under an `RWMutex` | `List`, `Get`, `Create`, `Update`, `Delete` | called by the REST and GraphQL handlers, each on its own goroutine |
| OIDC key cache | `internal/auth/oidc_verifier.go` | `keys` under an `RWMutex`, `stopRefresh` channel | `NewOIDCTokenVerifier`, `getKey`, `refreshKeys`, `backgroundRefresh`, `Stop` | the provider over HTTP; called by every authenticated request |
| Process and server lifecycle | `cmd/server/main.go`, `internal/server/server.go` | two `http.Server`s, the channel `serverErrors`, the shutdown context | `run`, `Start`, `Shutdown` | the hub, both servers, the span processor, signals |
| Token verification | `internal/auth/oidc_verifier.go`, `oidc.go` | none of its own, the clock | `Verify`, `Authenticate` | key cache |
| Authenticators | `internal/auth/{apikey,basic,mtls,multi}.go` | tables built once | `Authenticate` | called by the auth middleware |
| Middleware | `internal/middleware` | `http_requests_in_flight`, `http_requests_total`, `panics_recovered_total`, `auth_attempts_total` | recovery, request id, tracing, metrics, auth, logging, CORS | wraps every route of the API server |
| REST and GraphQL handlers | `internal/handler/{rest,graphql}.go` | none of their own; a GraphQL request runs its resolvers in a second goroutine | one handler per route or field | the store |
| Instrumented store | `internal/store/instrumented.go` | `store_operations_total` | pass-through | the store |
| Configuration | `internal/config/config.go`, `createAuthenticator` in `main.go` | the `Config`, built once | `Load`, `Validate`, and the constructors they feed | the environment, the files and the provider it names |
| Metrics and tracing | `internal/observability` | third-party registries | record, export, flush | collectors |

What is hard about it, and what has to be true:

* **Hub.** Three goroutines per connection and a shutdown share the map, the
  gauge and the wait group, and none of the updates of one connection are made
  together: it is registered, then counted, then announced to the wait group,
  and only then are its pumps started. Two paths unregister it. The gauge and
  the wait group must stay exact, a registered connection must be open, an open
  one must be tracked, and a shutdown must drain what it found, after a close
  message. A peer that falls silent must cost nothing for ever. Only a pong moves
  the read deadline, and pings share one goroutine with writes that may block: a
  peer that answers must be kept, one that does not must be found out in time.
* **Store.** A call checks its context, waits for a lock, then reads or writes.
  No interleaving may lose an update, mix two states in a listing, or bring a
  deleted item back; the whole must look like an atomic map.
* **Key cache and tokens.** Fetches overlap each other, outages and rotations, and
  are stored later than they were made; an id may be given to a new key. The
  cache must be one published key set, an outage must leave it alone, and it must
  settle when the provider does. A token that is accepted must be genuine and in
  its time, one that is refused must be refused for a reason, and every
  verification must end.
* **Startup.** Defaults, two validations and the constructors look at the same
  settings one after the other and have to agree: what listens must be what was
  asked for, with its authentication and its TLS, and what stops must have been
  stopped by something that is wrong.
* **Request pipeline.** A client may go away at any step, a handler may panic, a
  key may be out of reach, and a GraphQL request may be abandoned by its handler
  while its resolvers go on. The metrics must still add up, a response must not
  misstate what was changed, a deletion it confirms must be final, an ended
  context must end the writes, the first credentials a request holds must decide
  about it unless `Auth` exempts it, and nothing may be left running.
* **Lifecycle.** Hub, API server, probe server and span processor are closed in
  an order, with one deadline, and each step may fail and skip the rest. Exit
  status 0 must mean what an operator thinks it means.

`PROJECT.json` lists the hazards at the line where each bites, with the
properties that cover it.

## 2. Modules

### WebSocketHub

One program counter per goroutine: `handler[c]`, `writer[c]`, `reader[c]` and
`closer` for `CloseAllConnections`. An action is what a goroutine does between
two points at which another may observe it.

| code | model |
|---|---|
| `HandleWebSocket`, 69-98 | `Upgrade` / `UpgradeFails`, `Register`, `CountConnection`, `AddToWaitGroup`, `StartWriter`, `StartReader`: six separate steps, because the code holds nothing across them |
| `writePump`, 138-164 | `WriterFails`, `WriterSeesCancel`, `WriterSendsClose`, `WriterDone` (the deferred `wg.Done`) |
| `readPump`, 101-135 | `ReaderStart`, `ReaderCheck`, `ReaderMessage`, `ReaderFails`, `ReaderCloseFrame`, then the deferred `ReaderCancel`, `ReaderRemove`, `ReaderClose` |
| `CloseAllConnections`, 230-254 | `CancelBegin`/`CancelOne`/`CancelEnd` under `h.mu`, `Wait`/`WaitReturns`, `CloseBegin`/`CloseOne`/`CloseEnd` under `h.mu` |
| `h.mu` | held over several steps by the closer only; `MuFree` guards the one-step sections of the others |
| `sync.WaitGroup` | its counter `wg`; a waiter sleeps, is woken when the counter reaches zero and panics if the counter is positive again by the time it runs, as the library does |
| gorilla/websocket | a write fails after a close frame or on a closed connection, and may fail towards a peer that is gone; a read ends with a close frame, a message above `maxMessageSize`, silence for `pongWait`, or a closed connection |

A panic (`closer = "panicked"`) stops every step. `covered` is a history
variable: the connections that were registered and announced when
`CloseAllConnections` began, the ones it can be expected to drain. `rand.Read`
does not return errors in the Go version of `go.mod`, so the error path of
`generateSecureRandomInt` is left out.

### Items, ItemStore, MemoryStore

`Items` holds the data both levels share: items, requests, errors, and how
`Update` revises an item. `ItemStore` is the abstract specification, an atomic
map: a call is made, takes effect once, returns. `MemoryStore` follows
`memory.go` step by step: context check and argument checks before the lock
(`Refuse`, `Accept`), the `RWMutex` as the library implements it (a waiting
writer keeps new readers out; a leaving writer admits all readers that queued),
the lookup and the write of `Update` and `Delete` apart, `List` copying one
entry at a time, the deferred unlock after the result is known. `Linearizable`
maps a goroutine's program counter to *idle*, *called*, *answered* or, between
the look at a context that is done and the return, *doomed*, and leaves all other
variables as they are.

### Keepalive

One connection of the hub in time. Its goroutines are those of `WebSocketHub`
(`Hub == INSTANCE WebSocketHub WITH Conns <- {c}`, over the same variables), and
most of its actions are the hub's with the timers beside them; a value, a ping
and a close message are written in two steps, as a write may block.

| code | model |
|---|---|
| the two tickers, 139-140 | `sendIn`, `pingIn` count down to the next tick; `sendTick`, `pingTick` are their channels, which hold one tick |
| the select of `writePump`, 147-158 | `TakeSendTick`, `TakePingTick`, `SeeCancel`: any that is ready, so a value may go before a ping |
| `SetWriteDeadline`, 179, 191, 202 | `busy` counts how long a write has blocked; at `WriteWait` it fails |
| `SetReadDeadline`, 111-118 | `patience`; `SetDeadline` and `Pong` set it to `PongWait`, at 0 the read `TimesOut` |
| the peer | takes what is written to it within `DrainTime` and answers a ping within `PongDelay`, until it goes |

`Tick` lets one unit pass, and only when every goroutine waits: scheduling takes
no time, blocking does. `HubTimed` says that this is still the hub: the
abstraction by which `WebSocketHub` lets a read or a write fail only towards a
peer that is gone is what the timers amount to.

### JwksCache

Verifying goroutines and one refresher against a provider that publishes the
key sets `KeySet[1 .. Last]` one after another and is reachable or not, and a
clock.

| code | model |
|---|---|
| `refreshKeys`, 282-306 | `Fetch` reads the published set, `Store` stores it later (the lock covers only the second); `FetchFails` counts the attempts and takes the exit its caller would (`AfterFailure`): the constructor fails, the background loop goes on, a verification reports an error |
| `getKey`, 255-278 | `LookupHits`, `LookupMisses`, `RelookHits`, `RelookMisses` |
| `Authenticate`, oidc.go 46-79, and `Verify`, 158-252 | `Authenticate` refuses a header that cannot be used, `Check` goes through the rest in the order of the code with the key that getKey returned |
| `backgroundRefresh`, `Stop`, 151-154 and 309-324 | `Tick`, `SeesStop`, `Stop`; only the select of the loop sees the closed channel |

A key set maps ids to keys, so a rotation may withdraw a key, replace it under
its id or publish none that is usable. A token has an id, a signer, an expiry and
a set of flaws, one for each kind of thing that decoding and comparing can find
wrong; a signature is right if its signer is the key that was looked up. Times
are in half seconds, because the code cuts the fraction of the expiry off.

### Startup

The process from its environment to a server that is ready to start, one
goroutine, one step for each function that may stop it: `LoadServerEnv`,
`LoadAuthEnv`, `ValidateServer`, `ValidateAuth`, `InitLogger`, `InitTelemetry`,
`Create` and the constructors (`AddMTLS`, `AddTable`, `Discover`, `FetchKeys`,
`FetchFails`, or `PassOver` in multi mode), `Created`, `New`, `Start`. `env` is a
record of the variables the program acts on; a number may be any number, unset or
unreadable, a path stands for the content of its file, a table of users or keys
for the kinds of entries it has. What fails from outside, the logger, the
exporter, the provider, is a choice. The operators `Asked` and `Startable` say
what an environment asks for without any step of the code, and the properties
compare the two. `Lifecycle` goes on where `Startup` ends.

### Authenticators, Pipeline

`Authenticators` says what each authenticator answers to a credential: nothing
there, there and refused, there and accepted. A good token may also be refused,
for the reasons `JwksCache` has: its key is out of reach or was replaced, or it
expires on the way.

`Pipeline` follows requests through `setupMiddleware`'s chain, a handler and
the store. A request is an element of `Procs`; `at[p]` is the goroutine of
net/http, `exec[p]` the one that calls the store. For REST they are the same
goroutine, so the handler can only answer when `exec[p] = "over"`; for GraphQL
`graphql.Do` runs the resolvers in another one and returns when the context is
done (`Abandon`). The store is `Store == INSTANCE ItemStore`, over the same
variables: the atomic map that `MemoryStore` is shown to implement.

| code | model |
|---|---|
| `Metrics`, middleware.go 211-234 | `Arrive` increments the gauge, `Unwind` decrements it and counts the request |
| `Recovery`, 170-190 | `Recover`: a panic of a REST handler before its call of the store runs what was deferred and nothing else |
| `Auth`, middleware/auth.go 25-106 | `Arrive` lets by what is `Exempt`: the public paths, and every request with the header `Upgrade: websocket`, whatever its path and its credentials; `Accepts` and `Refuses` count the decision about the others |
| `MultiAuthenticator`, multi.go 32-53 | `Passes`, `Accepts`, `Refuses` over `Order`; one authenticator on its own is an `Order` of length 1, none at all the empty one |
| handlers, rest.go 66-203 | `Begin`, `Reject` (validation), `Call`, `Answers` with `Status` |
| resolvers, graphql.go 238-388 | the same, one call after the other; `MovesOn` ends the operation with the first error, because every mutation has a non-null type |
| `InstrumentedStore`, instrumented.go 34-87 | `TakeEffect` is the delegate's call, `Returns` counts it |
| net/http | `Disconnect` ends the context of a request and of its call at any step; so does the end of the handler (`LosesContext`) |

The context a call is made with is the one of its request (`canceled'[p] =
done[p]` in `Call`). `wrote` is a history variable. The public paths have the kind
"public"; an exempt request for the items or for GraphQL keeps its kind and goes
to the same handler as the others. The endpoint /ws itself is the hub's.
Preflight requests are answered by mux with 405 before any middleware, as no
route has the method OPTIONS, and are left out.

The store's clock stands still, as no property here is about times, and a resolver
that panics is turned into an error by graphql-go, which `Reject` covers. Every
step on the store's variables is one of `ItemStore`'s actions: that a handler
cannot reach past the interface is how the model is written, as it is how the code
is, and no property.

### Lifecycle

Composes `WebSocketHub` (`Hub == INSTANCE WebSocketHub`, same variables) with
`run`, `Start`, `Shutdown`, the probe server, the deadline and the span
processor. The hub's `CancelBegin` is taken by `SelectSignal` and by nothing
else; `ShutdownHTTP` waits for the hub's closer to be done; a WebSocket request
that the API server has accepted becomes a connection of the hub by
`AnswerUpgrade`. Hub steps of the composed system leave the rest unchanged,
except that a handler that ends leaves a span. `net/http`'s `Shutdown` is
external: it closes the listener and polls for idleness, so it may report the
deadline although the last request has just ended. A signal before
`signal.Notify` kills the process.

`MCWebSocketHub`, `MCMemoryStore`, `MCKeepalive`, `MCJwksCache`, `MCStartup`,
`MCPipeline` and `MCLifecycle` hold what the TLC instances need: symmetry sets,
the rotation of the keys and the tokens, the environments, the contending calls,
the requests. Definitions marked *Mutant* are plausible slips in the code; replacing the
original by one of them makes the property named in `PROJECT.json` fail.

## 3. Runs

Runs expected to pass, with `tlc -workers 2 -config <cfg> <module>`:

| run | instance | checks |
|---|---|---|
| hub_safety | 2 connections, both kinds of departure, symmetric | gauge and wait group exact; what is registered is open and what is open is tracked; shutdown closes what it found after its close message and drains it; no goroutine waits for what cannot come, and no step sets one back |
| hub_live | 2 connections, silent peers | a gone peer is released; `CloseAllConnections` returns unless a late stream holds it |
| keepalive | 1 connection, `pongWait` of 40 units, both kinds of departure | a peer that answers is kept, a lost one is dropped and released within `pongWait`, the timed connection is one of the hub |
| store_safety | 2 goroutines, 2 identifiers, 2 contents, 2 instants, every call and argument, symmetric | no resurrection, times monotone, linearizable; no call is stuck behind the lock or set back |
| store_liveness | 3 goroutines, 1 identifier: list, create, delete | no call is starved of the lock |
| jwks_rotation | 2 verifiers, the refresher, 3 key sets, 4 tokens, 2 attempts, a clock of 2 half seconds | cache is a published set, outage harmless, what is accepted is genuine, refusals have a ground; verifications end, the cache settles, `Stop` ends the refresher |
| startup | 12,682 environments, 3 attempts, the code's `maxJWKSRetries` | what listens is what was asked for, what stops has a reason, startup ends |
| pipeline | 2 requests at a time, 2 identifiers, 2 contents, three methods in order, requests of each kind, one of them exempt | metrics add up, with the store too; responses tell the effect, and a deletion they confirm is final; first credentials decide, or nothing does; an ended context ends the writes; each step takes one request nearer to its end; every request ends |
| lifecycle | 1 connection, 1 request, 1 probe, probe server and tracing on | meaning of exit status 0, order of the shutdown, no step sets the shutdown back, the process ends |

Runs expected to find a violation, one per finding of section 6: hub_panic,
lifecycle_spans, lifecycle_timeout.

**Why the bounds are enough to be interesting.**

* Hub: two connections give one that the shutdown covers and one that registers
  during it, in each of its phases, and both removal paths against each other;
  hub_live leaves close frames out because they end a connection by strictly
  fewer steps than silence.
* Keepalive: `pongWait` 40 and `pingPeriod` 36 keep the ratio the code computes,
  and `writeWait` 7 is longer than the 4 units between a ping and the deadline,
  as the code's 10s are longer than its 6s. Values every 3 units and writes of 1
  are the tightest that still leave room for a ping. What the peer is asked for is
  named in `PeerAssumption`: two writes fit between two values, and two writes and
  an answer between a ping and the deadline. A peer slower than that may be
  dropped although each of its writes succeeds within `writeWait`; the
  documentation makes no promise about it.
* Store: two goroutines give every pair of calls on the same or on different
  keys, in every interleaving; a third is needed only where a waiter can be
  overtaken by two others, and that run has it. Two instants tell an update time
  from a creation time.
* Key cache: two verifiers and the refresher can overtake each other in either
  direction; three key sets let one refresh be two rotations behind, and no two
  of them have a union that was published, so a mixture would show. One of them
  is empty, and the last gives the id of the first to another key. The tokens are
  one that is good until its key is replaced or the clock moves, one whose key
  comes late and whose audience is wrong, and two that end at their header; the
  clock passes every expiry that matters. Two attempts are one failure that is
  retried and one that is final; the proofs are for any number of attempts.
* Startup: the ports take every combination of nine values around their bounds
  and defaults, the other settings of the server every value; TLS, its files and
  client authentication are combined in every mode, and so are the settings of the
  methods. The three families vary settings that no single check relates to those
  of another family; the proofs are for all environments.
* Pipeline: two requests are one that changes the store under the other, and the
  interleavings of their counters; the inputs of `MCPipeline` hold every call of
  the store, mutations that fail at their first and at their second field, and
  every way through three methods and past them.
* Lifecycle: one request of each kind lets each stage of the shutdown find work
  or find none.

What these instances cannot say about larger ones is what section 5 proves.

Bounds in the models: `MaxTime` (store and tokens) and the number of identifiers,
`Last` (key sets), `Inputs`, `Tokens` and `Environments` (what clients send and
operators set) and the finite sets of connections, verifiers and requests. `silent` of `Keepalive`, a
history variable, is not counted past the value its property asks about. Nothing
else is capped: no retry, queue or interleaving is cut off.

`CHECK_DEADLOCK FALSE` is set where the system may stop: all connections of the
hub have ended, all requests of the pipeline have, the process has exited, or
startup has come to its end.

## 4. Fairness

* **Goroutines run.** Weak fairness per goroutine: the Go scheduler runs
  every goroutine that can run.
* **The lock.** Strong fairness of `LockAnnounces`: `sync.Mutex`, which
  serialises the writers of an `RWMutex`, goes into starvation mode and hands
  itself to a waiter overtaken for more than a millisecond. Readers need only
  weak fairness: a leaving writer admits them.
* **The select of `backgroundRefresh`.** Strong fairness of `SeesStop`: a
  select with two ready cases chooses at random.
* **Provider.** An HTTP request ends, because the client has a timeout.
  Nothing makes the provider come back or settle: `SettlesOnLast` assumes that in
  its own premise.
* **Requests.** The two goroutines of a request run, and a call of the store
  returns, which store_liveness checks of `MemoryStore`. Nothing makes a client
  disconnect or a handler panic.
* **Deadline.** Time passes, so `Expire` happens once the shutdown has begun.
* **Startup.** Its one goroutine runs, and the calls it makes over the network
  have a timeout, so that they return.
* **Clocks.** `Keepalive` needs no fairness: its properties are about where the
  clock may not get to. Nothing in `JwksCache` waits for its clock.
* **The world.** No fairness for peers, messages, requests, signals, rotation
  or cancellation. In `Lifecycle` nothing makes a request end: its handler or its
  client may outlast the deadline; nor does anything make a port open, so the
  goroutines of `Start` and of the probe server need no fairness.

## 5. Proofs

`tlapm <module>` proves all of these from the named assumptions on the constants
(finite sets of connections, requests, goroutines and identifiers, distinct special
values, at least one attempt and one key set, inputs of the form the handlers accept) for every number
of connections, goroutines, items, keys and requests.

| module | theorems | argument |
|---|---|---|
| WebSocketHubProofs | `TypeCorrect`, `GaugeCorrect`, `WaitGroupCorrect`, `RegistryCorrect`, `GracefulCloseHolds`, `CoveredDrainedHolds`, `SleeperWoken`, `GoneLetGo`, `HubProgress`, `PanicIsLate` | inductive invariant `IInv`: `Shape` ties the program counters of a connection to the map, the link and the context; `Gauge` and `WaitGroup` are the counting equations; `Drained` says how far each phase of the shutdown has brought the covered connections |
| MemoryStoreProofs | `TypeCorrect`, `Exclusion`, `NoStaleLookup`, `DeletedStaysDeleted`, `TimesCorrect`, `Refinement`, `StuckNowhere`, `CallsGetShorter`, `CallsProgress` | the lock invariant (who is in a section is in `readers` or is `pending`) gives exclusion; with it, what a goroutine copied is still in the map, and the step that determines a result is the abstract call's effect, all others stutter |
| KeepaliveProofs | `TypeCorrect`, `PromptPeerIsKept`, `LostPeerIsDropped`, `HubIsTimed` | invariant: `Values` and `Pings` bound the time since a ticker fired by what the writes and the answer in progress may take, `Deadline` bounds the read deadline by the time since the last ping; once a peer is lost, `Silence` says that its silence and the time left add up to `PongWait` at most. For all timers with `pongWait - pingPeriod < pingPeriod < pongWait` and every peer of `PeerAssumption` |
| JwksCacheProofs | `TypeCorrect`, `CacheCorrect`, `RefusalsCorrect`, `AcceptancesCorrect`, `OutageHarmless`, `VerifyProgress`, `CacheConvergence` | invariant: a goroutine on its way to `Store` carries a published set (`Carried`), only a usable verifier is asked and each stage of a call has the token it needs (`Calls`), and a key that was found is one published under the token's id (`Holding`) |
| StartupProofs | `ServesAsAsked`, `StopsForAReason`, `StartupProgress` | invariant: `Config` says what was loaded of the environment, `Valid` what the validations that are behind have established, `Progress` which methods have been created when a stage is reached, `Built` what `New` has made of them; together they turn a stage into what the environment must be. For all environments |
| PipelineProofs | `TypeCorrect`, `MetricsAreExact`, `FirstDecides`, `DoneRequestsAreOver`, `RequestProgress` | invariant: `Path` fits the two goroutines of a request, its call and its context together; `Decided` says what the authenticators tried so far have found, and that nothing is decided about what is exempt; the metrics are sizes of four sets that each step changes by at most one element. For any list of authenticators |
| EffectProofs | `AnswersTellEffect`, `OperationsAddUp`, `DeletionsHold` | over `PipelineProofs`: `Effect` says for each point on the way of a request how many of its calls have changed the map; `Counted` ties the counters, the calls that are returning, the identifiers issued and the live items together by counting; `Final` says that what the calls carried out so far have deleted had been issued, is not live, and was deleted by one request only |
| LifecycleProofs | `TypeCorrect`, `CleanExitHolds`, `ProbeIsLast`, `NoLateArrival`, `ConnectionsAreSafe`, `EveryWaitEnds`, `ShutdownProgress`, `LossesAreLate` | the hub is part of the process, by the way the process is specified (the lemma `HubOfProcess`), so the hub's theorems hold in it (`HubDrains` takes `CoveredDrained` over, `HubTypes` the type invariant, `ConnectionsAreSafe` the other safety properties, and `ShutdownProgress` uses the hub's progress); the rest follows from an invariant on the order of the stages |

Why the invariants need strengthening: `GaugeMatchesClients` alone is not
preserved by `CountConnection` unless a connection that is still to be counted is
known to be registered, which in turn holds only because neither its reader has
started nor the closer can take it out before all announced writers are done,
and so on through `Shape`. `CoveredDrained` speaks of the end of the shutdown;
`Drained` is what holds on the way. `Linearizable` needs `Exclusion` (a writer is
alone), `NoStaleLookup` (what `Update` and `Delete` looked up is still what the map
holds when they write), both theorems of their own, and that `List`'s partial copy
is a part of the map as it still is. `RefusedForAReason` speaks of answers; what a
goroutine carries and holds on its way to one has to be known first.

Counting arguments use the library's facts about cardinalities; a member added to
or removed from a finite set is stated as a lemma once and cited.

**Progress.** A liveness property of these models rests on two things: whoever has
to go on can, and going on comes to an end. Both are safety, and for every value of
the constants they are proved:

| theorem | nobody is stuck | every step counts | the liveness it stands under |
|---|---|---|---|
| `CallsProgress` | who waits for the lock waits for a holder with a step to take (`NotStuck`) | `Left` decreases with each step of a call, and neither the readers a writer waits for nor the writer a reader waits for are replaced | `EveryCallReturns` |
| `HubProgress` | a sleeping `h.wg.Wait` has a writer to wake it, both pumps of a gone peer can go on (`SleeperIsWoken`, `GoneIsLetGo`) | `ToClose`, `WriterLeft` and `ReaderLeft` decrease | `CloseReturnsUnlessStraggler`, `GonePeerReleased` |
| `ShutdownProgress` | what `run` waits for is under way (`WaitsEnd`) | `StagesLeft` decreases, and so does the hub's `ToClose` inside the process | `SignalEnds` |
| `VerifyProgress` | a refresh has an attempt left or a set to store | `Left` decreases with each step of a verification or refresh | `VerifyReturns` |
| `CacheConvergence` | | the overtaken refreshes (`Stale`) only become fewer between two publications, and a settled cache stays settled | `SettlesOnLast` |
| `RequestProgress` | a handler that waits has resolvers to wait for, and these a call to make or wait for | `HandlerLeft` and `ExecLeft` of one request decrease, in this order, all others stay | `EveryRequestEnds` |
| `StartupProgress` | only the last two stages have no step left | `StepsAhead` decreases with every step | `StartupEnds` |

Left out of them is what needs fairness: that a goroutine with a step to take takes
it, and that of several that want the lock none is passed over for ever.
`NoRequestStuck` leaves a call in progress to the store, which `CallsProgress` is
about; a connection registered late may hold `h.wg.Wait` (finding 2), so
`SleeperIsWoken` excepts it.

**What a refuted claim leaves.** Two of the claims that runs refute fail for one
reason each, and the proofs say that there is no other. `PanicIsLate`: the wait
group panics only over a connection that `CloseAllConnections` did not find in the
map, and not at all in a behaviour where no `h.wg.Add` falls between the last `Done`
and the moment `Wait` runs again (`PanicNeedsLateAdd`). `LossesAreLate`: a signalled
process that ends before its shutdown deadline exits 0 and has tried to flush its
spans (`OnlyLateLoss`), so spans are dropped only past the deadline
(`http.Server.Shutdown` is taken to fail by its context only; an error of closing a
listener is not modelled). Of the smaller disagreements of section 6, the first three
are bounded in the same way. `FirstDecides`: of the requests that `Auth` does not
exempt, only those a method has accepted get to a handler. `GracefulCloseHolds`:
`CloseAllConnections` itself closes no connection it found before the close message of
its writer. `CoveredDrainedHolds` and `CleanExitHolds`: when the process exits with
status 0, the connections that `CloseAllConnections` found are closed, but for one
whose reader is at its last step, the close itself.

Only model-checked: the liveness properties themselves (fairness, `ENABLED` and
leads-to are out of the prover's reach) and the runs that refute something. Only
proved: the type invariants, `VerifyGoesOn`, `CacheConverges`, `StartupGoesOn`,
`ConnectionsSafe`, `PanicNeedsLateAdd` and `OnlyLateLoss`, which hold for all constants and so for the instances of the runs.

## 6. Findings

Each is a behaviour of the code that a sentence of the repository excludes; the
run named produces the trace.

1. **hub_panic** (`websocket.go:92` and `:240`): a connection announced while
   `CloseAllConnections` is being woken from `h.wg.Wait()` makes the wait group
   panic; the test at `websocket_test.go:498` expects none.
2. **lifecycle_timeout** (`server.go:296`): `CloseAllConnections` gets no
   context; a connection registered after its cancelling loop keeps the process
   alive past `APP_SHUTDOWN_TIMEOUT` (`README.md:187`).
3. **lifecycle_spans** (`main.go:121`): a shutdown that misses its deadline
   returns before `telemetry.Shutdown`, and buffered spans are lost
   (`README.md:729`).

Smaller disagreements met on the way, which the models follow and no run is
about:

* A request for the items or for GraphQL with the header `Upgrade: websocket` gets
  to its handler undecided (`middleware/auth.go:46-50`), where `README.md:222`
  requires authentication of these paths; the comment at `auth.go:22-24` has the
  exemption. `FirstCredentialsDecide` states it.
* Both pumps see a cancelled context; the reader may close the connection before
  the writer has sent the close message of the comment at `websocket.go:227`.
  `GracefulClose` speaks of the connections that `CloseAllConnections` closes itself.
* A WebSocket request upgraded after the hub was closed and before the listener is
  closed stays open through a shutdown that reports success (`server.go:300`),
  where `README.md:449` has a graceful close. `CleanExit` speaks of the connections
  that the hub has found.
* The multi-mode example of `README.md:166` sets `APP_TLS_ENABLED=true` without
  the certificate and key that `validateTLS` requires; and TLS alone never adds
  mTLS to the methods, only `APP_TLS_CLIENT_AUTH=require` does.
* `hasAnyAuthConfig` (`config.go:461`, and the cases from `config_test.go:1151`
  on) accepts a multi mode with only TLS, an issuer or a client ID, which
  `createMultiAuthenticator` then refuses (`main.go:264`). Where another method is
  complete, a half-configured OIDC is left out without a word.
* The mode "mtls" on its own requires no TLS settings.
* `APP_SERVER_PORT=9090` alone conflicts with the default of the probe port.
* A refresh that overlaps a call's own and is older may be stored in between, so
  that a token is "unknown" although the call has just fetched its key
  (`oidc_verifier.go:265-271`). `RefusedForAReason` says how far this goes.
* A key replaced under its id leaves tokens of the new key refused, with a wrong
  signature, until the next refresh: only a missing id starts one.
* A trailing slash of the issuer URL is cut off for the discovery
  (`oidc_verifier.go:125`) and not for the comparison with the token's issuer
  (`:165`).

## 7. What is not modelled

* Contents of messages, items and tokens; wording of errors; logging.
* Of a token the bytes: that decoding, the signature and each claim are right or
  wrong is a flaw of it. Of the configured users, keys and files what they say:
  that they can be used or not is a kind of theirs. Settings that are only copied
  (the audience, those of Vault).
* The length of the delays between attempts and between refreshes of the key
  cache, and every duration that is measured. Only `Keepalive` has seconds that
  matter.
* RequestID, Logging and CORS: they change nothing that outlives a request.
* GraphQL queries of several fields, whose errors do not end the operation and
  which change nothing; GraphQL's parsing and type checks, after which a request
  that fails them has made no call.
* The exporter of metrics and spans, the registration of metrics, mux, net/http
  and gorilla/websocket beyond how the code above uses them.
* Charts, CI configuration, container files and load tests: no program logic.

## 8. Plan

Done: WebSocketHub and Keepalive over it, Items / ItemStore / MemoryStore,
JwksCache with the verification of tokens, Authenticators / Pipeline over
ItemStore, Startup, Lifecycle over WebSocketHub, and their proof modules.

Left:

1. **Hub of many connections in time**: `Keepalive` has one connection, which
   shares nothing but `h.mu` with the others.
2. **What is left of `TimeoutEnds`**: it fails because nothing bounds the hub's wait;
   that the process ends in time when no connection is registered late is liveness
   and needs a run, not a theorem.

The runs stay few, so that all of them can be repeated on every change of the
code: a new module brings one passing run, and where two runs ask questions of
the same instance they are merged.
