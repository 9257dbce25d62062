# A TLA+ model of Lura

Lura is a Go framework for API gateways: a router turns each configured
endpoint into an HTTP handler, the handler calls a proxy pipe, and the pipe
calls one or more backends and merges their responses. This directory holds a
model of the parts of it that keep state, run concurrently or can fail half
way, the model-checking runs of that model, and proofs about its core. Paths
are relative to the root of the repository.

## The system

At start:

    config file -> parser -> ServiceConfig.Init -> Normalize -> plugins loaded -> agents started
        -> Router.Run registers every endpoint -> plugins wrap the handler -> RunServer listens

One request:

    router (gin | mux) -> endpoint handler -> [static] -> [modifiers] -> [flatmap] -> merging
                                                                                     |  x N backends
        shadow pipe (its own context) <- copy of the request                          v
                          backend stack: filters, GraphQL -> concurrent calls -> load balancer -> HTTP client
                                                                                     ^
                                                         service discovery (DNS SRV cache)

### Components

For each: its state, its operations, what is hard, and what makes it correct.

* **Merging** (`proxy/merging.go`). State: one accumulator per request, two
  channels, the shared request. One goroutine per backend, or one backend after
  the other with parameters taken from earlier answers. Hard: answers in any
  order, the context ending at any moment, partial failures, reading one map
  while merging into it. Correct when the answer is a function of what the
  backends did, complete only if all were, every failure listed once, and no
  goroutine left behind. Which strategy runs, with which combiner and
  parameters, is read from an extra configuration with fallbacks of its own.
* **Concurrent calls** (`proxy/concurrent.go`). State: a collector, its local
  context and two channels. The first complete answer wins. Hard: losers that
  answer after the collector left, the two contexts. Correct when no complete
  answer that was taken is dropped and every call ends.
* **Service discovery and load balancing** (`sd/`, `proxy/balancing.go`). State:
  the cached list of hosts under an RWMutex, a round-robin counter. A refresher
  goroutine replaces the list. Hard: readers and writer, failed lookups, the
  counter wrapping, integer scaling of weights. Correct when readers see whole
  lists, the last good list survives failures, and the shares are fair.
* **Registers** (`register/`). State: maps of maps under locks. Hard:
  check-then-act in `Namespaced.Register`. Correct when it is a map of maps.
* **Request and backend stack** (`proxy/request.go`, `factory.go`, `graphql.go`,
  the filters, `http.go`, `http_response.go`). State: the maps and the body of
  a request, shared by goroutines to the extent that `Clone` and `CloneRequest`
  do not copy them. Hard: who sees whose writes; lists of headers and query
  strings, GraphQL variables from parameters or a body. Correct when stacks do not
  race and each backend receives its own request, with what the lists name.
* **Shadow proxy** (`proxy/shadow.go`): a second pipe that gets a copy of the
  request under a context of its own, and is built by the factory of the main
  one: several shadow backends are merged, under the merge's own timeout. Correct
  when nobody waits for it, only these timeouts cut it off, and it ends.
* **Static response, modifiers, entity formatter** (`proxy/static.go`,
  `plugin.go`, `formatter.go`): pure stages of the pipe whose order and
  treatment of missing responses matter.
* **Routers** (`router/gin`, `router/mux`): the request made for the pipe, the
  handler (context check, status, completion header, render) and the registration
  of the endpoints and of debug, echo, health and OPTIONS. `chi`, `gorilla`,
  `httptreemux` and `negroni` are adapters over `mux`. Hard: engines that differ in
  what a path that is registered twice does, in the notation of placeholders and
  in the keys of parameters. Correct when each request gets to its endpoint, with
  its parameters, and to no other.
* **HTTP server** (`transport/http/server`): certificates, versions and client
  authorities of TLS, the goroutine that serves, graceful shutdown. Hard: with
  `use_h2c` connections are hijacked, and the shutdown does not wait for them.
* **Configuration** (`config/`): the file is parsed, then one walk inherits
  defaults downwards and refuses what is wrong, then namespaces are renamed.
* **Plugins** (`plugin/`, `proxy/plugin`, `transport/http/*/plugin`): loaders
  that survive panics of plugins; wrappers of the handler and of the executor.
* **Async agents and back-off** (`async/`, `backoff/`): agents in an error group
  that retry; their jitter shares one random source.
* **Encoding** (`encoding/`): the decoders, and which one the name of an encoding
  gets. Its look-up, the one of the renders and the checks of the configuration
  each treat upper case differently; correct when they agree on what is passed on
  raw.
* **Logging, version**: output, not modelled.

`PROJECT.json` lists them with their status, and 40 hazards at their lines.

## The modules

`MC<M>.tla` gives the constants of module `M` their values for TLC; `.cfg` files
are named after the module they are about. Five modules are pure and have no
behaviour of their own: `MCServiceDiscovery` (`SrvWeights`), `MCEndpointPipe`
(`EntityFormatter`) and `MCRequestSharing` (`Forwarding`, `GraphQLRequest`,
`MergerConfig`) compare them with their properties over bounded inputs, in one
state of the run. Where several invariants of a module belong together, a named
conjunction of them (`CacheInv`, `ServerInv`, ...) is what the run checks. In the modules, operators introduced
by "A bug to guard against" are mutated forms of the definition that follows;
no specification uses them. They show that the properties can fail.

| Module | Code | What it is |
|---|---|---|
| `MergeData` | `merging.go`: `combineData`, `incrementalMergeAccumulator` | responses as the provenance of their keys, the accumulator |
| `MergePromise` | - | abstract: what a merging middleware promises its caller |
| `ParallelMerge` | `parallelMerge`, `requestPart` | one variable per local or channel, one action per select branch; implements `MergePromise` |
| `ParallelMergeProofs` | | the proofs about it |
| `SequentialMerge` | `sequentialMerge`, `sequentialRequestPart` | maps by reference, bodies read once; implements `MergePromise` |
| `SequentialMergeProofs` | | the proofs about it |
| `MergerConfig` | `merging.go`: `NewMergeDataMiddleware`, the getters, nested names | pure: what the extra configuration makes of the merge, and which value a nested name finds |
| `ConcurrentCalls` | `concurrent.go` | the collector, N calls, both contexts |
| `ConcurrentCallsProofs` | | the proofs about it |
| `SrvWeights` | `dnssrv/subscriber.go`: `resolve`, `compact`, `normalize`, `gcd` | pure; checked against what a list of instances has to be |
| `ServiceDiscovery` | `dnssrv`, `sd/loadbalancing.go`, `proxy/balancing.go` | refresher, RWMutex, readers, balancers, slices with their backing arrays |
| `ServiceDiscoveryProofs` | | the proofs about it and `SrvWeights` |
| `RequestSharing` | `request.go`, `factory.go`, `graphql.go`, filters, `http.go`, `shadow.go` | a heap of structs, maps and bodies; which goroutine points to which |
| `RequestSharingProofs` | | the proofs about it, `ShadowRequest`, and the pure `Forwarding`, `GraphQLRequest` and `MergerConfig` |
| `Forwarding` | `NewRequest` of gin, `NewRequestBuilder` of mux, `headers_filter.go`, `query_strings_filter.go` | pure: what of the client's headers and query strings a backend is sent |
| `GraphQLRequest` | `proxy/graphql.go`, `client/graphql/graphql.go` | pure: the options, and the variables a query or a mutation is sent with |
| `EndpointPipe` | `encoding.go`, `http.go`, `http_response.go`, `status.go`, `concurrent.go`, `plugin.go`, `static.go`, router handlers and renders | the way of an answer up to the client |
| `EndpointPipeProofs` | | the proofs about it and `EntityFormatter` |
| `EntityFormatter` | `formatter.go` | objects as sets of paths: target, allow and deny lists, mapping, group |
| `ShadowRequest` | `shadow.go` | the split of the backends, both pipes, the calls of the shadow one and the three contexts that may cut them off, a clock |
| `NamespaceMap` | - | abstract: a map of maps that changes in single steps |
| `NamespacedRegister` | `register.go` | the two levels of locks; implements `NamespaceMap` |
| `NamespacedRegisterProofs` | | the proofs about it |
| `PluginLoading` | the loaders, `server.go` and `executor.go` of the plugins | load, register, panic, wrap |
| `ConfigInit` | `parser.go`, `config.go` | `Parse`, the walk of `Init`, one place at a time, and `Normalize` |
| `AsyncAgent` | `asyncagent.go`, `backoff.go` | `Start`, the retry predicate, the shared jitter |
| `Routing` | `router/`: `Run` and what it registers, of gin, mux, chi, gorilla and httptreemux; the renders' look-up | handlers registered one after the other, and the operator `Answer`, which says who answers a request |
| `ServerLifecycle` | `server.go` | keys, the handshake, serving, shutdown, connections hijacked for h2c |
| `Startup` | the order of `parser.Parse`, the loaders, the agents, `Router.Run`, the plugins' `New`, `RunServer` | composes the five modules above: one deployment from the file of its configuration to its end |
| `StartupProofs` | | the proofs about it and the five modules it composes |

Composition: `ParallelMerge` and `SequentialMerge` extend `MergeData` and
instantiate `MergePromise`; the lists `MCServiceDiscovery` puts into the cache
are what `SrvWeights` computes at the scale of 100 (its assumption says so); `NamespacedRegister`
instantiates `NamespaceMap`; `Startup` composes `ConfigInit`, `PluginLoading`,
`AsyncAgent`, `Routing` and `ServerLifecycle`, each of which sees what the ones
before made of its input: `Routing`, for one, registers the endpoints `Init` left.
`EndpointPipe` takes of the mergers only what `MergePromise` promises, and of
`ConcurrentCalls` the answers a collector may take.

### What is abstracted

A JSON value is where it came from. A header, a query or a body is an object
with its origin. A URL pattern is the set of references in it. A context is the
set of reasons it may have ended for. A placeholder is a number that has its
place in the order of strings; functions give its key with the first letter in
upper case, and with the others in lower case too. A host is clean, raw or bad; a
path stands for a whole pattern. A body that is decoded is the set of the fields
it leaves; that JSON text is well formed or not is all that is known of it. The
version of TLS is a number, a certificate the authority that made it. External code -
net/http, crypto/tls, the engines of the routers, the DNS resolver, plugins,
agents, the source of math/rand - is modelled from how `src/` uses it; such
definitions are marked external in `PROJECT.json`.

A backend may return a response, a nil response, an error, or nothing until its
context ends. Selects with several ready branches take any of them.

## The runs

Passing runs:

| Run | Bounds | What it shows |
|---|---|---|
| `parallel_merge` | 3 backends, 1 key, 4 kinds of reply | `IInv`, the invariant of the proof; `ForkJoin`: nothing is left running at the return; completeness, failures and data are a function of what the backends did; `KeepsPromise`: it implements `MergePromise`; it `Returns` even if no backend answers before its context ends |
| `sequential_merge` | 4 backends, references to three earlier ones, one body propagated | `SequenceInv`: no call after a failure, the last backend wins; parameters come from the backend they name (but for the first one that delivered a map) and do not change once used; it implements `MergePromise` and returns |
| `concurrent_calls` | 3 calls | `CollectorInv`: the losers never block, what is returned makes sense; a complete answer is not missed; every goroutine ends |
| `service_discovery` | 2 clients, lists of 2, 1 and 0 hosts, counter modulo 3, 1 change | `CacheInv`: whole lists, the last good one survives failures; the round robin is fair over a list that stays; the cache converges. `InstancesAreFair`: 3 records of 7 weights and 2 priorities at the scale of 100, 5 records at one of 3 |
| `request_sharing` | pairs of 5 kinds of backend, 2 calls, shadow, response modifiers; lists of up to 2 of 6 names for an endpoint and 3 of 4 for a backend; 2 GraphQL variables of every kind; trees of 2 levels and names of up to 3 | `RacesExplained`: which races exist and why; `SharingInv`: whole bodies, isolated headers; `RequestsAreExact`: headers, query strings, variables, the strategy of the merge and nested names are those the configuration names |
| `endpoint_pipe` | all configurations with at most 2 calls, 6 decoders, 5 renders | `AnswerInv` and `CompletionIsHonest`: success needs an answer that is not empty, honest completion and cache headers; `BreaksExplained`: where a nil response panics, when a stream is cut; every request is answered. `FormatsExactly`: 2 levels of 2 fields, lists of up to 3 paths |
| `shadow_request` | 1 request, up to 3 backends of which 2 are shadows, both mergers, one call or several, timeout 2, `shadow_timeout` 3, -1 or none, clock to 3 | `ShadowInv`: every backend once; `ShadowHasItsTime`: a shadow is cut off only by its own timeout, the merge's or that of concurrent calls; `RequestSettles`: it ends, and delays nobody |
| `namespaced_register` | 1 writer, 2 readers, 2 namespaces, 2 names, 2 values | the invariant of the proof, and that it implements `NamespaceMap` |
| `startup` | 2 endpoints, 1 agent, every kind of host, 4 texts of durations, 6 spellings of encodings, 5 placeholders, 6 namespaces; texts of up to 4 characters; 3 files of 11 kinds of plugin, 5 lists of wrappers; 2 agents and factories, 3 attempts; 5 routers, 4 methods, 3 paths; 3 key pairs, 3 clients of which one may hang and one may ask for h2c, 5 versions of TLS | `ConfigInv`, `LoaderInv`, `AgentsInv`, `RoutingInv`, `ServerInv`: the parts; `StartsInOrder`: a request enters only a gateway that is ready in all of them; `CancelEndsRun`: a signal ends it; `FailureEndsAll`: an agent that fails ends the others |

The bounds: three backends (or calls) are the fewest with an order among the
ones that are left when one has answered (four in a sequence, where the first one may
deliver nothing and the second then has the map the others are merged into); one key suffices where keys do not
interact; two readers and one writer exhibit each pairwise interleaving; a clock
to 3 reaches every timeout of a shadow that starts at once, the 1 of the merge and of
concurrent calls (85 and 75 percent of 2), the 2 of the backend and the 3 of
`shadow_timeout`; shadow requests do not interact, so one
is enough. `CounterMod` stands for 2^64: the wrap is modelled, and 3 is no
multiple of the list of two, as 2^64 is none of most lengths. The turns are
claimed to be fair between two wraps. In `startup` one part of a deployment takes
all its values while the others have a simple one, since a part hands on only
whether it is done and, for the configuration, the endpoints: `RoutingInv` has
them in every combination that decides a route, a render or a key. Bounds
named `Max...` are constants.

`CHECK_DEADLOCK FALSE` is set where the modelled code returns or the bounded run
ends; each cfg says so.

### Findings

Three runs are expected to fail: each states what a comment or a test of the
repository says, and TLC shows a behaviour of the code that differs.

1. `sequential_param_origin` (`ParamOrigin`): `sequentialMerge` reads the
   parameters of a later backend from the map of an earlier response, but the
   combiner merges later responses into that same map (`proxy/merging.go:605`):
   `{{.Resp0_k}}`, used for the first time by the third backend, gets the value
   of the second one. `ParamOriginButFirst`, which passes, shows it is confined
   to the response whose map is the root of the merge: the first one that delivered
   a map, which need not be `Resp0`.
2. `graphql_get_query` (`GraphQLQuerySent`): the GraphQL middleware adds its
   query after the URL was built (`proxy/graphql.go:103`); the backend receives
   neither query nor body.
3. `params_reach_backend` (`KeysAreReplaced`): gorilla, negroni and httptreemux
   make the key of a parameter with `cases.Title`, which lower-cases what follows
   the first letter (`router/gorilla/router.go:45`), while the configuration keeps
   the letters (`config/config.go:664`): the URL of the backend of `/{userId}` is
   sent with `{{.UserId}}` in it. `RoutingInv` (its `ParamsArrive`) shows the other
   reasons a value may not arrive: `{user}` and `{User}` have one key, and the plain
   mux hands no parameters on.
More observations have no run of their own; a passing property says how far
each reaches:

* The comment of `shadowFactory.New` says that it sets the `shadow_timeout`
  (`proxy/shadow.go:24`). Two shadow backends are merged under 85 percent of the timeout
  of the *endpoint* (`proxy/merging.go:29`), and concurrent calls have 75 percent of the
  backend's (`proxy/concurrent.go:22`): a longer `shadow_timeout` has no effect on them.
  `ShadowHasItsTime`: nothing else cuts a shadow off, and with one shadow backend, called
  once, only its own timeout.
* `config/config.go:192` says that without a `MaxShutdownDuration` the shutdown waits
  until all the requests are served. With `use_h2c` the handler hijacks connections
  (`transport/http/server/server.go:169`), of which `Shutdown` knows nothing:
  `RunServer` returns nil with their requests open. `CleanEndLosesNothing`, a part of
  `ServerInv`: it is only those.
* A deep copy shares the map of query strings with its original, although the
  comment of `CloneRequest` says the two "do not share a pointer"
  (`proxy/request.go:70`). `RacesExplained`: it matters only with GraphQL over GET.
* The winner of concurrent calls has its context cancelled when the collector
  returns (`proxy/concurrent.go:92`), which closes the body of a no-op response
  that is still being copied. `BreaksExplained` lists all ways the gateway
  itself cuts a stream; a backend may break off at any time.
* All agents draw from one `rand.Rand` without a lock (`backoff/backoff.go:73`);
  two interleaved draws may leave its index out of range, and the draw panics.
  `JitterSafeAlone`: only with two agents that use jitter.
* The response modifiers of an endpoint read the struct of the request
  (`proxy/plugin.go:104`) that a concurrent call which lost may still write
  (`RacesExplained`).
* The filters of headers and query strings count the entries of their list: a name
  that is listed twice may let everything pass (`FilterIsExact`).
* The gateway always writes `X-Forwarded-For`, but what mux writes there is what the
  client says in its own header of that name, or in `X-Real-Ip`, if it sends one
  (`router/mux/endpoint.go:175`, `ClientIP`).
* `X-Forwarded-Via` is the gateway's word only if the client's `User-Agent` is
  passed on (`HeadersAreExact`).
* A GraphQL mutation whose client sends `null` panics over its nil map of variables
  (`FailuresExplained`); the placeholders of a mutation are not replaced
  (`VariablesAreComplete`); a variable configured as the empty text, or as `{}`,
  panics when the gateway is built (`Panics`).
* A nested name whose path breaks off is looked up further up: `Resp0_a.b` finds
  `b` if there is no `a` (`FindsTheNamed`).
* A strategy of the merge that nobody registered overrules the flag `sequential`:
  the backends run at the same time (`MergesAsConfigured`).
* An alias that is the source of another one is resolved or not as the order of a
  Go map has it (`AliasesResolved` excepts it).
* Of two allowed paths, one of which leads to the other, the later one counts: `a` after
  `a.b` allows all of `a`, before it only `b`. The order of a deny list makes no
  difference (`FormatsExactly`).
* The echo endpoint of httptreemux has no pattern, and panics (`PanicsForAReason`).

## Fairness

Only what the Go runtime and the code justify:

* weak fairness of each goroutine's steps (a runnable goroutine runs) and of
  timers;
* a backend is **not** assumed to answer; its call is assumed to return once its
  context has ended, which is what the HTTP client does
  (`ShadowRequest` assumes answers of the regular backends, to show that shadow
  ones do not delay them);
* a reader that waits for an RWMutex is let in before the next writer, hence
  strong fairness of `RLock`, while the writer needs only weak fairness;
* of the DNS server, that a lookup repeated for ever succeeds again and again
  (strong fairness of `LookupOk`), for `Converges` only;
* handlers of `Polite` requests return; others may hang, and `CancelEndsRun`
  says what they hold up;
* agents heed the context of their group.

## What is proved

The proofs hold for every value of the constants, under the assumptions named in
the modules, and are checked by TLAPS.

`ParallelMergeProofs`, from `NAssumption` (at least two backends, as `merging.go`
uses the merger only then), `SourceAssumption`, `AbsentAssumption`,
`NoResponseAssumption` and `RepliesAssumption`. The inductive invariant `IInv` is
a conjunction of named parts, none of which is inductive alone: `ProgressInv` ties
the program counter to the loop variable, `CountInv` counts the calls in each
state against `proxyCount` and `acc.pending`, `ChannelInv` says that a part is in a
channel exactly when its call says so, `ErrorsInv` and `MergedInv` say what the
accumulator holds of the delivered calls, `ReturnInv` what the result is. From it
follow `TypeOK`, `ForkJoin`, `SendNeverBlocks` (the channels are as large as the
number of calls, and `ChannelInv` bounds what is in them), `CompleteIffAllComplete`,
`FailuresReported`, `MergedDataIsUnion` and the action property `ReturnIsFinal`.

`NamespacedRegisterProofs`, from the assumption that at most one goroutine
registers. It is needed: `Namespaced.Register` looks up and publishes under two
locks, and two writers would lose an entry; the code registers at start, from
one goroutine. `IInv` says that a register is published only once it is filled,
under one namespace, and is in the hands of its creator only until then. From
it: `HandleIsLive` (a register in use is the published one), and the refinement
`Spec => Map!Spec`, where only the publication and the access change the abstract
map and all other steps stutter.

`ParallelMergeProofs` also shows the refinement, `Spec => KeepsPromise`: each call
of the promise is mapped to what its goroutine and the accumulator know of it, and
only the steps that end a call, or the merge, change that.

`SequentialMergeProofs`, for any number of backends and any references in their URL
patterns (`RefsAssumption` gives the types; a response with a nil map has no keys).
`SequenceInv` is inductive: its part `OneByOne` says that the backends before `i` went
well and the ones after it are untouched, others that the accumulator's map *is* the
map of the first response that has one. From it follow `NoCallAfterFailure`,
`LastBackendWins`, `ParamOriginButFirst`, the action property `ParamsStable` and the
refinement of `MergePromise`. The attempt to prove `ParamOriginButFirst` in an earlier
form, which excepted only backend 1, failed for a good reason: a first backend that
delivers a nil map leaves the root of the merge to the next one. Three backends were
too few for TLC to see it; the property now names the first that delivered a map and
the run has four.

`ConcurrentCallsProofs`, from `CallsAssumption` (more than one call: `concurrent.go` is not
in the stack otherwise). `CollectorInv` counts the answers in the two channels, those
taken and the calls still running against the number of calls; hence there is always
room for a loser (`SendNeverBlocks`), what is returned makes sense
(`AnswerIsMeaningful`), and no complete answer is missed while the caller is there.

`ServiceDiscoveryProofs`, from `NumbersAssumption` and `AnswerAssumption` (no list is
longer than the counter counts, 2^64 in the code). `CacheInv` holds the mutual
exclusion of the RWMutex - nobody copies the slice while its words are written, and
only then do they disagree - from which `WholeSnapshot` and `LastGoodKept` follow, and
ties the recent picks to consecutive tickets, which makes `RoundRobinFair` arithmetic
on remainders. It also has the theorems about `SrvWeights`, for every list of weights and
every scale: the list of instances is short (`ListAlwaysShort`), the largest weight is
listed (`LargestAlwaysListed`), shares are fair (`SharesAlwaysFair`) and have no common
divisor (`ListIrreducible`). A sum or a greatest common divisor is a fold over a list; the
fold is shown to be a function of the positions (`TotalIsSum`, `GcdFolds`), which is then
followed from the first to the last. `SumsCompare` bounds the sum of the shares,
`LocalGCDIs` and `GcdIs` say that what the algorithm returns divides every weight and that
every common divisor divides it. `BestAlwaysListed` is for every answer that lists no host
twice: an order without inversions exists since the records that come before one are
fewer than those before the next (`OrderExists`), the records of the best priority are a
prefix of it (`BestIs`), and the places of a host are the interval between two sums
(`ListPlaces`). `InstancesAreFairCorrect` is these five for the inputs of the run.

`RequestSharingProofs` has the theorems about the halves of handing a request to the
backends, and extends their modules.

* `ShadowRequest`, from `EndpointsAssumption` (the types of a configuration; timeouts may
  be zero or negative). `ShadowInv` says which pipe asks which backend, that a shadow
  was started for every request its main pipe works on, and that the contexts of a shadow
  are made one inside the other (`ContextsNest`). `ShadowHasItsTime` follows from it,
  since a merge and concurrent calls start no earlier than the shadow, and from the
  largest of the timeouts being that of the context: a maximum that is chosen, of a
  finite set of any integers.
* `RequestSharing`, from `ConfigsAssumption` and `BoundsAssumption` (an endpoint has a
  backend besides its shadow, and is merged unless it has just one): `SharingInv` and
  `RacesExplained`, for any number of backends, calls and stacks. `Staged` says where the
  goroutines of an endpoint may be at the same time; in particular a stack waits while its
  last call has its request, and the sequential merger starts a backend when the one
  before is done. `Points` says who made the objects each of them points to (`Owners`).
  From these, goroutines that run have objects of their own unless the endpoint is not
  cloned deeply (`Apart`), which leaves the races listed, and what is in the objects
  survives what others do (`Contents`): the whole body, and the headers of the client
  until GraphQL adds its own.
* The pure modules beside it: `HeadersExact` and
  `QueryExact` (`Forwarding`) for every pair of lists and every request, `GeneratesRight`
  (`GraphQLRequest`) for every set of placeholders, options and body, `MergesConfigured`
  and `FindsNamed` (`MergerConfig`) for every extra configuration, response and name.
  `FilterExact` is a bound on a cardinality: as many entries kept as names sent means all
  of them, unless one is listed twice. `RequestsAreExactCorrect` is these five for the
  inputs of the run.

`EndpointPipeProofs`, from `ConfigsAssumption` and `MaxCallsAssumption`: `AnswerInv`,
`CompletionIsHonest` and `BreaksExplained`, for every configuration of the type
`Config` and not only for those TLC enumerates. The parts `EitherResponseOrError`,
`OriginOfResponse`, `StaticIsThere` and `ToldInOrder` follow the answer from stage to
stage and make it inductive. `CompleteIsNotEmpty` is stated with the renders and
decoders it holds for, since for the others an empty body is what the code writes.

It also has the theorem about `EntityFormatter`, `EveryFormatExact`: any formatter that
`NewEntityFormatter` may make, over any names of fields, with lists of any length and any
finite mapping, does to any object, of any breadth and some depth, what its configuration
says. Each list is folded into a tree: the values of the allowed one are the paths that
count (`AllowTreeIs`), those of the denied one are listed and cover the list
(`DenyTreeIs`). The walk of the allowed tree keeps a node if and only if it leads to an
allowed path of the object (`PruneIs`, by descent from the deepest nodes), the other
deletes what is at or below a denied path (`RecDeleteIs`). The mapping is followed field by
field (`Part`), for every order in which Go may iterate: it mixes no two fields
(`MapInOrderFrom`) and to new names it renames them all (`MapInOrderRenames`).
`FormatsExactlyCorrect` is the theorem for the formatters and responses of the run. The
attempt to prove it in an earlier form failed for a good reason: which paths of an allow
list count was stated wrongly for lists such as `a.b`, `a`, `a.a`, where `a` takes `a.b`
out and `a.a` then takes `a`, so that only the last one is left. Lists of two paths were too
short for TLC to see it; `Effective` now says so, and the run has lists of three.
The inductions here and in the modules above are over sets of numbers (`SetInduction`):
the provers cannot instantiate an induction theorem, but can use that the order of the
numbers is well founded.

`StartupProofs`, for every deployment that is well formed (`SetupsAssumption`,
`PluginsAssumption`, `BoundsAssumption`, `ConfigAssumption`: the types of the files and
the configurations, that durations are numbers and the default one is not 0, and that the
index of the random source starts in its ring). They say as well that the paths of the
service's own endpoints are refused to the others, since `invalidPattern` matches them;
that two endpoints of one path have the same placeholders, which are written in it; and
that the health endpoint of gin, if it is moved, is not moved to a debug or echo path:
the code does not check that. The invariant of each part is shown to
be kept by the part's steps, and each step of the gateway to be one of the part or to
leave its variables alone:

* `ConfigInv`: `WalkInv` says, of every agent, endpoint and backend, whether the walk has
  been there, what it has if so, and that it is as it was decoded if not; and of the
  namespaces, whichever the range over the map has visited (`Renaming`). A step is about
  one place (`OneAgent`, `OneEndpoint`, `RenamesOne`). `BaseInv` says that the first error
  ends the walk, and that one about placeholders has an unknown placeholder: the count
  that leaves the last one out is below a bound on the cardinality of a finite set.
  `ErrorsAreLocated` is by induction on the length of the text, for every text.
* `ServerInv`: `StartedInOrder` says which key pairs are loaded at each point of
  `RunServer` (`GoodSoFar`: those that are gone from the list are good) and when the
  server is told to stop; the clean end, which leaves open requests only on connections
  that were hijacked, the first key error and the goroutine left
  behind follow from it.
* `RoutingInv`: `Routed` says whence each registered route is (the service, one of the
  endpoints considered so far, or the catalog of gin), what is still left to register,
  and that under gin and httptreemux no two routes meet; the first conflict has its
  `Reason`. When nothing is left every route able to answer a request is of its path and
  method, which gives the answers; parameters and raw responses follow from what the walk
  of the configuration left of each endpoint.
* `AgentsInv`: `OfferedSoFar` says how far the two loops of `Start` are, `RetriesLeft`
  ties attempts to limits, and `DrawsAlone` follows one draw of jitter around the ring
  as long as no two agents have jitter.
* `LoaderInv`: `LastSoFar` says what is registered by the plugins up to the current
  registration of the current plugin. `EveryFileAccounted` is stated by the set and
  the order of the errors, without recursion.
* `StartsInOrderCorrect`: `ServesWhenReady`, `RequestsEnterReady` and
  `AgentsWaitForConfig` from an invariant `OrderInv` of how far the program is, and
  `WrappedInOrder` from `Wrapping`: what a list of names wraps the handler in is its
  first wrapper and what its tail does, by induction on the length of the list.

The inductive invariants are checked by TLC as well, by the runs that list them
(`OrderInv`, `WalkInv`, `BaseInv`, `Staged`, `Points` and `Contents` excepted, which only
the proofs need). `TypeOK`, `SendNeverBlocks`,
`HandleIsLive`, `ReturnIsFinal`, `NoCallAfterFailure`, `LastBackendWins`,
`AnswerIsMeaningful`, `WholeSnapshot` and `LastGoodKept` have no entry of their own in a
run, since the invariants contain or imply them.

Only model-checked is liveness, which needs fairness and ENABLED, beyond the prover:
`Returns` of both mergers, `AnswersAndCleansUp`, `Converges`, `Answered`,
`RequestSettles`, `CancelEndsRun`, `FailureEndsAll`. Every invariant and every action
property of the passing runs has a theorem.

## Not modelled

The hash of the configuration and the sanitising of its extra maps; ciphers,
curves and the TLS of the HTTP client; JSON, XML and YAML themselves; the flatmap
operations (a library); the interpolation of URL patterns letter by letter; the
registers of custom combiners and the typed wrappers of proxy and sd; the bodies
of the debug and echo endpoints and the options of gin; what a request modifier
does; logging; the example plugins. They are conversions, tables of constants,
output, or code of others. `PROJECT.json` gives the reason for each component.

## The plan

Done, in this order: merging, concurrent calls, service discovery, request
sharing, the pipe, the formatter, registers, server, configuration, shadow,
agents, plugins, the start as a whole, routing, the parser, TLS, decoders,
forwarding, GraphQL, the configuration of the merge; proofs of the mergers and their
refinements, concurrent calls, service discovery, registers, request sharing, the
shadow, the pipe, of the configuration, routing, the server, the agents, the loader and
the order of the start, and of the pure modules: the weights, forwarding, GraphQL, the
configuration of the merge and the formatter.

Left to model, of little behaviour: the typed registers of proxy and sd over
`NamespaceMap`; the wrappers of request modifiers. Left to prove: nothing but liveness.
