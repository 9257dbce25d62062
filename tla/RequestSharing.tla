--------------------------- MODULE RequestSharing ---------------------------
(***************************************************************************)
(* Who shares what of a proxy.Request.  A request is a struct with three   *)
(* maps and a body, copied on its way to the backends: Clone copies the    *)
(* struct only, CloneRequest also Headers, Params and Body.  The stack of  *)
(* each backend (newStack of proxy/factory.go) reads and writes them in    *)
(* goroutines that run at the same time, and the response modifiers of the  *)
(* endpoint are handed the request once more when the proxies returned.    *)
(*                                                                         *)
(* The maps and bodies are objects of a heap; of their contents only the   *)
(* origin is kept: what came from the client, what the GraphQL middleware  *)
(* wrote.  A race is two goroutines whose next steps touch one object, and *)
(* one of them writes.                                                     *)
(***************************************************************************)
EXTENDS Integers, Sequences, FiniteSets

CONSTANTS
    Configs,   \* the endpoint configurations to look at
    MaxB,      \* bound: backends of an endpoint, the shadow one included
    MaxCalls   \* bound: concurrent calls of a backend

Stack == [method : {"GET", "POST"}, filterQuery : BOOLEAN, filterHeaders : BOOLEAN,
          calls : 1..MaxCalls, graphql : {"none", "query", "mutation"}, get : BOOLEAN,
          replaced : BOOLEAN]

\* The last backend is the shadow one if there is a shadow.
Config == [merge : {"single", "parallel", "sequential"}, force : BOOLEAN, body : BOOLEAN,
           modifier : BOOLEAN,   \* the endpoint has response modifiers
           shadow : BOOLEAN, backends : UNION {[1..n -> Stack] : n \in 1..MaxB}]

\* The backends whose responses are merged; one alone needs no merger.
Merged(c) == IF c.shadow THEN Len(c.backends) - 1 ELSE Len(c.backends)

ASSUME ConfigsAssumption ==
    /\ Configs \subseteq Config
    /\ \A c \in Configs : Merged(c) >= 1 /\ (c.merge = "single" <=> Merged(c) = 1)

ASSUME BoundsAssumption == MaxB \in Nat /\ MaxCalls \in Nat

VARIABLES
    cfg,     \* the configuration of the endpoint
    main,    \* the goroutine of the endpoint: the next backend it starts
    pc,      \* the stage each goroutine is about to run
    req,     \* its request: the objects it points to
    heap,    \* what is in each object
    url,     \* what its request.URL was built from
    sent     \* what its backend received

vars == <<cfg, main, pc, req, heap, url, sent>>

Goroutine == (1..MaxB) \X (0..MaxCalls)   \* <<b, 0>> the stack of b, <<b, c>> its c-th call
Origin == <<0, 0>>                        \* who made the objects of the incoming request
Kind == {"headers", "params", "query", "body"}
Pointer == Kind \cup {"struct"}
Owner == Goroutine \cup {Origin}
Object == Kind \X Owner
Mark == {"client", "graphql"}
Request == [Pointer -> Pointer \X Owner]

Incoming == [k \in Pointer |-> <<k, Origin>>]
NotSent == [headers |-> {}, body |-> {}, url |-> {}]

Regular == {b \in DOMAIN cfg.backends : ~(cfg.shadow /\ b = Len(cfg.backends))}
Shadow == Len(cfg.backends)

\* hasUnsafeBackends(endpointConfig) || forceDeepClone(endpointConfig)
Deep ==
    \/ cfg.force
    \/ Cardinality(Regular) > 1 /\ \E b \in Regular : cfg.backends[b].method # "GET"

Init ==
    /\ cfg \in Configs
    /\ main = IF cfg.shadow THEN 0 ELSE 1
    /\ pc = [g \in Goroutine |-> "idle"]
    /\ req = [g \in Goroutine |-> Incoming]
    /\ heap = [o \in Object |->
                 IF o[2] # Origin \/ (o[1] = "body" /\ ~cfg.body) THEN {} ELSE {"client"}]
    /\ url = [g \in Goroutine |-> {}]
    /\ sent = [g \in Goroutine |-> NotSent]

-----------------------------------------------------------------------------
(* Copies of a request r made for goroutine g                              *)

New(g, kinds) == [k \in kinds |-> <<k, g>>]

\* A bug to guard against: the clone takes the body away from the original.
CloneRequestDrains(g, r) ==
    /\ req' = [req EXCEPT ![g] = [k \in Pointer |-> IF k = "query" THEN r[k] ELSE <<k, g>>]]
    /\ heap' = [o \in Object |->
                  IF o[2] = g /\ o[1] # "query" THEN heap[r[o[1]]]
                  ELSE IF o = r["body"] THEN {} ELSE heap[o]]

\* A bug to guard against: the headers are not copied.
CloneRequestSharesHeaders(g, r) ==
    /\ req' = [req EXCEPT ![g] = [k \in Pointer |->
                 IF k \in {"query", "headers"} THEN r[k] ELSE <<k, g>>]]
    /\ heap' = [o \in Object |-> IF o[2] = g /\ o[1] # "query" THEN heap[r[o[1]]] ELSE heap[o]]

\* CloneRequest(r).  It reads the body to its end and replaces it.
CloneRequest(g, r) ==
    /\ req' = [req EXCEPT ![g] = [k \in Pointer |-> IF k = "query" THEN r[k] ELSE <<k, g>>]]
    /\ heap' = [o \in Object |-> IF o[2] = g /\ o[1] # "query" THEN heap[r[o[1]]] ELSE heap[o]]

\* The request itself.
Pass(g, r) == req' = [req EXCEPT ![g] = r] /\ UNCHANGED heap

\* A bug to guard against: the backends are passed one and the same request.
SharePasses(g, r) == Pass(g, r)

\* res := r.Clone()
Share(g, r) == Pass(g, [r EXCEPT !["struct"] = <<"struct", g>>])

\* A request with a map of its own: what a filter passes on.
Filtered(g, k) ==
    /\ req' = [req EXCEPT ![g][k] = <<k, g>>, ![g]["struct"] = <<"struct", g>>]
    /\ heap' = [heap EXCEPT ![<<k, g>>] = heap[req[g][k]]]

-----------------------------------------------------------------------------
(* The stages of the stack of b, in the order of newStack                  *)

First(b) == IF cfg.backends[b].filterQuery THEN "query" ELSE "build"
AfterBuild(b) == IF cfg.backends[b].calls > 1 THEN "clone" ELSE "balance"
AfterHeaders(b) == IF cfg.backends[b].graphql # "none" THEN "graphql" ELSE "send"
AfterBalance(b) == IF cfg.backends[b].filterHeaders THEN "headers" ELSE AfterHeaders(b)

Over == {"idle", "done", "failed"}
GoTo(g, stage) == pc' = [pc EXCEPT ![g] = stage]

\* NewFilterQueryStringsMiddleware: a new map unless every query string passes.
FilterQuery(g) ==
    /\ pc[g] = "query"
    /\ Filtered(g, "query") \/ UNCHANGED <<req, heap>>
    /\ GoTo(g, "build")
    /\ UNCHANGED <<cfg, main, url, sent>>

\* newRequestBuilderMiddleware: r.GeneratePath reads the params.
Build(g) ==
    /\ pc[g] = "build"
    /\ GoTo(g, AfterBuild(g[1]))
    /\ UNCHANGED <<cfg, main, req, heap, url, sent>>

\* The concurrent middleware: a clone for every call but the last.
Spawn(g) ==
    /\ pc[g] = "clone"
    /\ \E c \in 1..cfg.backends[g[1]].calls :
         /\ \A d \in 1..MaxCalls : pc[<<g[1], d>>] = "idle" <=> d >= c
         /\ IF c < cfg.backends[g[1]].calls
            THEN /\ CloneRequest(<<g[1], c>>, req[g])
                 /\ pc' = [pc EXCEPT ![<<g[1], c>>] = "balance"]
            ELSE /\ Pass(<<g[1], c>>, req[g])
                 /\ pc' = [pc EXCEPT ![<<g[1], c>>] = "balance", ![g] = "wait"]
    /\ UNCHANGED <<cfg, main, url, sent>>

\* It returns the first complete response, or once every call failed, or
\* when the context of the caller ends.
Wait(g) ==
    /\ pc[g] = "wait"
    /\ LET calls == {<<g[1], c>> : c \in 1..cfg.backends[g[1]].calls} IN
       \/ (\E h \in calls : pc[h] = "done") /\ GoTo(g, "done")
       \/ GoTo(g, "failed")
    /\ UNCHANGED <<cfg, main, req, heap, url, sent>>

\* newLoadBalancedMiddleware: the URL gets the query strings, or there is no host.
Balance(g) ==
    /\ pc[g] = "balance"
    /\ \/ url' = [url EXCEPT ![g] = heap[req[g]["query"]]] /\ GoTo(g, AfterBalance(g[1]))
       \/ GoTo(g, "failed") /\ UNCHANGED url
    /\ UNCHANGED <<cfg, main, req, heap, sent>>

\* NewFilterHeadersMiddleware: a new map unless every header passes.
FilterHeaders(g) ==
    /\ pc[g] = "headers"
    /\ Filtered(g, "headers") \/ UNCHANGED <<req, heap>>
    /\ GoTo(g, AfterHeaders(g[1]))
    /\ UNCHANGED <<cfg, main, url, sent>>

\* NewGraphQLMiddleware: the query goes to the query strings or the body, and
\* the headers that describe the body are set.  A mutation consumes the body.
GraphQL(g) ==
    /\ pc[g] = "graphql"
    /\ LET get  == cfg.backends[g[1]].get
           used == IF cfg.backends[g[1]].graphql = "mutation" THEN {req[g]["body"]} ELSE {}
           touched == {req[g]["headers"]} \cup (IF get THEN {req[g]["query"]} ELSE {})
       IN \/ /\ req' = [req EXCEPT ![g]["body"] = <<"body", g>>]
             /\ heap' = [o \in Object |->
                           CASE o = <<"body", g>> -> IF get THEN {} ELSE {"graphql"}
                             [] o \in touched -> heap[o] \cup {"graphql"}
                             [] o \in used \ {<<"body", g>>} -> {}
                             [] OTHER -> heap[o]]
             /\ GoTo(g, "send")
          \/ /\ heap' = [o \in Object |-> IF o \in used THEN {} ELSE heap[o]]
             /\ GoTo(g, "failed")
             /\ UNCHANGED req
    /\ UNCHANGED <<cfg, main, url, sent>>

\* NewHTTPProxyDetailed: the headers are copied, the body is read and closed.
Send(g) ==
    /\ pc[g] = "send"
    /\ sent' = [sent EXCEPT ![g] = [headers |-> heap[req[g]["headers"]],
                                    body |-> heap[req[g]["body"]], url |-> url[g]]]
    /\ heap' = [heap EXCEPT ![req[g]["body"]] = {}]
    /\ GoTo(g, "done") \/ GoTo(g, "failed")
    /\ UNCHANGED <<cfg, main, req, url>>

-----------------------------------------------------------------------------
(* The goroutine of the endpoint                                           *)

Start(b, copy) == copy /\ pc' = [pc EXCEPT ![<<b, 0>>] = First(b)]

\* NewShadowProxyWithTimeout: the clone goes to the shadow backend.
StartShadow ==
    /\ main = 0
    /\ main' = 1
    /\ Start(Shadow, CloneRequest(<<Shadow, 0>>, Incoming))
    /\ UNCHANGED <<cfg, url, sent>>

\* The sequential merger goes on when the stack of the backend before
\* returned a response.
Ready ==
    /\ main \in Regular
    /\ cfg.merge = "sequential" /\ main > 1 => pc[<<main - 1, 0>>] = "done"

\* The loops of the mergers, or the only backend.
Dispatch ==
    /\ Ready
    /\ main' = main + 1
    /\ Start(main, IF cfg.merge # "single" /\ Deep
                   THEN CloneRequest(<<main, 0>>, Incoming)
                   ELSE IF cfg.merge # "single" THEN Share(<<main, 0>>, Incoming)
                   ELSE Pass(<<main, 0>>, Incoming))
    /\ UNCHANGED <<cfg, url, sent>>

\* The proxies returned without an error, and newRequestWrapper reads the
\* request for the response modifiers of the endpoint.
Returned ==
    /\ cfg.modifier
    /\ main = Cardinality(Regular) + 1
    /\ \A b \in Regular : pc[<<b, 0>>] = "done"

ResponseModifiers ==
    /\ Returned
    /\ main' = main + 1
    /\ UNCHANGED <<cfg, pc, req, heap, url, sent>>

Terminated ==
    /\ main # 0 /\ ~Ready /\ ~Returned
    /\ \A g \in Goroutine : pc[g] \in Over
    /\ UNCHANGED vars

Stage(g) ==
    \/ FilterQuery(g) \/ Build(g) \/ Spawn(g) \/ Wait(g)
    \/ Balance(g) \/ FilterHeaders(g) \/ GraphQL(g) \/ Send(g)

Next == StartShadow \/ Dispatch \/ ResponseModifiers \/ (\E g \in Goroutine : Stage(g)) \/ Terminated

Spec == Init /\ [][Next]_vars

-----------------------------------------------------------------------------
(* What the next step of each goroutine touches                            *)

Reads(r, kinds) == {<<r[k], "read">> : k \in kinds}
Writes(r, kinds) == {<<r[k], "write">> : k \in kinds}

\* Reading a body changes it; reading http.NoBody does not.
Body(r) == IF cfg.body THEN Writes(r, {"body"}) ELSE {}

\* CloneRequest also puts a new body into the struct it copies.
Cloning(r) == Reads(r, {"headers", "params"}) \cup Writes(r, {"struct"}) \cup Body(r)

GraphQLTouches(g) ==
    LET s == cfg.backends[g[1]] IN
    (IF s.graphql = "query" THEN Reads(req[g], {"params"}) ELSE Body(req[g]))
    \cup Writes(req[g], {"struct", "headers"} \cup (IF s.get THEN {"query"} ELSE {}))

Touches(g) ==
    CASE pc[g] = "query" -> Reads(req[g], {"struct", "query"})
      [] pc[g] = "build" -> Reads(req[g], {"params"}) \cup Writes(req[g], {"struct"})
      [] pc[g] = "clone" -> Cloning(req[g])
      [] pc[g] = "balance" -> Reads(req[g], {"query"}) \cup Writes(req[g], {"struct"})
      [] pc[g] = "headers" -> Reads(req[g], {"struct", "headers"})
      [] pc[g] = "graphql" -> GraphQLTouches(g)
      [] pc[g] = "send" -> Reads(req[g], {"struct", "headers"}) \cup Body(req[g])
      [] OTHER -> {}

\* The sequential merger also writes the parameters it found.
MainTouches ==
    CASE Returned -> Reads(Incoming, {"struct"})
      [] main = 0 -> Cloning(Incoming)
      [] Ready -> (IF cfg.merge # "single" /\ Deep THEN Cloning(Incoming) ELSE Reads(Incoming, {"struct"}))
                  \cup (IF cfg.merge = "sequential" /\ main > 1 /\ cfg.backends[main].replaced
                        THEN Writes(Incoming, {"params"}) ELSE {})
      [] OTHER -> {}

Conflicts(s, t) == {x[1] : x \in {y \in s : \E z \in t : y[1] = z[1] /\ "write" \in {y[2], z[2]}}}

\* The objects two goroutines could be racing for.
Raced ==
    LET alive == {g \in Goroutine : pc[g] \notin Over}
        touch == [g \in alive |-> Touches(g)]
    IN (UNION {Conflicts(touch[g], MainTouches) : g \in alive})
       \cup (UNION {Conflicts(touch[p[1]], touch[p[2]]) : p \in {q \in alive \X alive : q[1] # q[2]}})

-----------------------------------------------------------------------------
(* Properties                                                              *)

Stacks == {cfg.backends[b] : b \in DOMAIN cfg.backends}
WithGraphQL == {s \in Stacks : s.graphql # "none"}

\* The stacks of different backends get requests made by CloneRequest.
Isolated == cfg.merge = "single" \/ Deep

TypeOK ==
    /\ cfg \in Configs
    /\ main \in 0..(Cardinality(Regular) + 2)
    /\ pc \in [Goroutine -> Over \cup {"query", "build", "clone", "wait", "balance", "headers",
                                     "graphql", "send"}]
    /\ req \in [Goroutine -> Request]
    /\ heap \in [Object -> SUBSET Mark]
    /\ url \in [Goroutine -> SUBSET Mark]
    /\ sent \in [Goroutine -> [headers : SUBSET Mark, body : SUBSET Mark, url : SUBSET Mark]]

(***************************************************************************)
(* Where a data race is possible at all.  On the struct only between the   *)
(* response modifiers of an endpoint with one backend and its last         *)
(* concurrent call, if another one was faster. On headers, params and the  *)
(* body only between stacks that share a request because the endpoint is   *)
(* not cloned deeply, and then only if GraphQL writes headers, a call that *)
(* lost reads params while the sequential merger writes them, or there is  *)
(* a body to read. On the query strings only if GraphQL uses GET, but then *)
(* also between requests CloneRequest made: it copies the pointer of the   *)
(* map, although its comment says that they share none.                    *)
(***************************************************************************)
RacesExplained ==
    \A o \in Raced :
        CASE o[1] = "struct"  -> cfg.merge = "single" /\ cfg.modifier /\ \E b \in Regular : cfg.backends[b].calls > 1
          [] o[1] = "headers" -> ~Isolated /\ WithGraphQL # {}
          [] o[1] = "params"  -> ~Isolated /\ cfg.merge = "sequential" /\ WithGraphQL # {}
          [] o[1] = "body"    -> ~Isolated /\ cfg.body
          [] o[1] = "query"   -> \E s \in WithGraphQL : s.get

(***************************************************************************)
(* Every backend, every concurrent call and the shadow gets the whole body *)
(* of the client, or the one GraphQL made, as long as the endpoint is      *)
(* cloned deeply: no reader of a copy takes it away from another.          *)
(***************************************************************************)
WholeBody ==
    \A g \in Goroutine : (Isolated /\ pc[g] = "done" /\ sent[g] # NotSent) =>
        sent[g].body =
            IF cfg.backends[g[1]].graphql # "none"
            THEN IF cfg.backends[g[1]].get THEN {} ELSE {"graphql"}
            ELSE IF cfg.body THEN {"client"} ELSE {}

(***************************************************************************)
(* The Content-Length and Content-Type GraphQL sets for one backend reach  *)
(* no other backend of a deeply cloned endpoint.                           *)
(***************************************************************************)
HeadersIsolated ==
    \A g \in Goroutine : (Isolated /\ sent[g] # NotSent) =>
        ("graphql" \in sent[g].headers <=> cfg.backends[g[1]].graphql # "none")

(***************************************************************************)
(* What the backends are sent, in one invariant: everything has its type,  *)
(* no backend loses a body or is sent the headers of another.              *)
(***************************************************************************)
SharingInv == TypeOK /\ WholeBody /\ HeadersIsolated

(***************************************************************************)
(* The comment of NewGraphQLMiddleware says the resulting request has the  *)
(* query, so a backend that was sent a GraphQL request over GET should     *)
(* find it in the URL.  The URL is built before the query is added.        *)
(***************************************************************************)
GraphQLQuerySent ==
    \A g \in Goroutine :
        (sent[g] # NotSent /\ cfg.backends[g[1]].graphql # "none" /\ cfg.backends[g[1]].get)
        => "graphql" \in sent[g].url

=============================================================================
