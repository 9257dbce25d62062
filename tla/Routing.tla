------------------------------ MODULE Routing ------------------------------
(***************************************************************************)
(* Router.Run up to the server: the handlers a router registers with its   *)
(* engine, in its order, and which of them a request gets to.  A path      *)
(* stands for a whole pattern with its placeholders, a request of a path   *)
(* for one with a value for each of them; what names become as keys of the *)
(* parameters, and of the URL of a backend, is given by two functions.     *)
(*                                                                         *)
(* The engines are external: gin and httptreemux panic when a route is     *)
(* registered twice, the first one wins in gorilla and the last one in the *)
(* others; a pattern of net/http that ends in a slash is a whole subtree.  *)
(* negroni has the engine of gorilla.  Two patterns that differ only in    *)
(* their placeholders are left out.  IsValidSequentialEndpoint, which every*)
(* router asks about an endpoint with several backends, always agrees.     *)
(***************************************************************************)
EXTENDS Integers, Sequences, FiniteSets, FiniteSetsExt

CONSTANTS
    Sequential,  \* the placeholders sequentialParamsPattern matches
    Titled,      \* a name, its first letter in upper case
    TitleWord,   \* a name, its first letter in upper case, the others in lower case
    ToLower      \* strings.ToLower, of the names of encodings

VARIABLES
    endpoints,   \* ServiceConfig.Endpoints, after Init
    colon,       \* RoutingPattern was ColonRouterPatternBuilder in Init
    site,        \* [router, debug, echo, health, auto, build]: the options of the router
    todo,        \* what Run has still to register
    seen,        \* the endpoints considered
    routes,      \* what is registered
    catalog,     \* gin: urlCatalog
    transport,   \* http.DefaultTransport is the configured one
    panicked

vars == <<site, todo, seen, routes, catalog, transport, panicked>>

Routers == {"gin", "mux", "chi", "gorilla", "httptreemux"}
Supported == {"GET", "POST", "PUT", "PATCH", "DELETE"}
Any == Supported \cup {"HEAD", "OPTIONS", "CONNECT", "TRACE"}

\* The patterns of the endpoints of the service, and what clients ask of two of
\* them.  The health endpoint of gin has a path of its own, but not one of these.
OwnPaths ==
    {"/__debug/*param", "/__debug/", "/__debug/{params}", "/__debug/x",
     "/__echo/*param", "/__echo/", "/__echo/{params}", "/__echo/x", "/__health"}
WellFormed(s) ==
    /\ s.router \in Routers
    /\ s.health \in (STRING \ (OwnPaths \cup {""})) \cup {"/__health"}

ToTitle(method) == IF method = "get" THEN "GET" ELSE method

\* NewEngine of gin registers the health endpoint before Run; chi has no echo.
Order ==
    CASE site.router = "gin" -> <<"health", "transport", "debug", "echo", "endpoints", "options">>
      [] site.router = "chi" -> <<"debug", "health", "transport", "endpoints">>
      [] OTHER -> <<"debug", "echo", "health", "transport", "endpoints">>

Begin ==
    /\ todo = Order
    /\ seen = 0
    /\ routes = << >> /\ catalog = {} /\ transport = FALSE
    /\ panicked = FALSE

Registering(what) == ~panicked /\ todo # << >> /\ Head(todo) = what
Done == ~panicked /\ todo = << >>

-----------------------------------------------------------------------------
(* Registration                                                            *)

Route(path, methods, kind, i) == [path |-> path, methods |-> methods, kind |-> kind, i |-> i]

Panics(r) ==
    \/ site.router \in {"gin", "httptreemux"}
         /\ \E k \in DOMAIN routes : routes[k].path = r.path /\ routes[k].methods \cap r.methods # {}
    \/ r.path = ""

Handle(r) ==
    IF Panics(r) THEN panicked' = TRUE /\ UNCHANGED routes
    ELSE routes' = Append(routes, r) /\ UNCHANGED panicked

\* The pattern of the configuration, or the default of NewFactory.
DebugPattern ==
    CASE site.router = "gin" -> "/__debug/*param"
      [] site.router \in {"mux", "chi"} -> "/__debug/"
      [] OTHER -> "/__debug/{params}"

\* httptreemux has no pattern for it, and there is no default.
EchoPattern ==
    CASE site.router = "gin" -> "/__echo/*param"
      [] site.router = "mux" -> "/__echo/"
      [] site.router = "gorilla" -> "/__echo/{params}"
      [] OTHER -> ""

RegisterDebug ==
    /\ Registering("debug")
    /\ IF ~site.debug THEN UNCHANGED <<routes, panicked>>
       ELSE Handle(Route(DebugPattern, IF site.router = "chi" THEN Supported ELSE Any, "debug", 0))
    /\ todo' = Tail(todo)
    /\ UNCHANGED <<site, seen, catalog, transport>>

RegisterEcho ==
    /\ Registering("echo")
    /\ IF ~site.echo THEN UNCHANGED <<routes, panicked>>
       ELSE Handle(Route(EchoPattern, Any, "echo", 0))
    /\ todo' = Tail(todo)
    /\ UNCHANGED <<site, seen, catalog, transport>>

\* InitHTTPDefaultTransport
InitTransport ==
    /\ Registering("transport")
    /\ transport' = TRUE
    /\ todo' = Tail(todo)
    /\ UNCHANGED <<site, seen, routes, catalog, panicked>>

\* Only gin lets the path be chosen, or the endpoint be left out.
HealthPath == IF site.router = "gin" THEN site.health ELSE "/__health"

RegisterHealth ==
    /\ Registering("health")
    /\ IF HealthPath = "off" THEN UNCHANGED <<routes, panicked>>
       ELSE Handle(Route(HealthPath, {"GET"}, "health", 0))
    /\ todo' = Tail(todo)
    /\ UNCHANGED <<site, seen, catalog, transport>>

Built(i) == site.build[i] = "ok"

\* A bug to guard against: an endpoint whose pipe fails is the last one.
RegisterEndpointStops ==
    /\ Registering("endpoints") /\ seen < Len(endpoints)
    /\ LET i == seen + 1
           e == endpoints[i]
           method == ToTitle(e.method)
       IN IF ~Built(i) THEN todo' = Tail(todo) /\ UNCHANGED <<routes, catalog, panicked>>
          ELSE IF method \notin Supported THEN UNCHANGED <<todo, routes, catalog, panicked>>
          ELSE /\ Handle(Route(e.path, {method}, "pipe", i))
               /\ catalog' = catalog \cup {<<e.path, method>>}
               /\ UNCHANGED todo
    /\ seen' = seen + 1
    /\ UNCHANGED <<site, transport>>

\* gin has a handler for a pipe that could not be built, the others leave the
\* endpoint out; all leave out a method they do not know.
RegisterEndpoint ==
    /\ Registering("endpoints") /\ seen < Len(endpoints)
    /\ LET i == seen + 1
           e == endpoints[i]
           method == ToTitle(e.method)
       IN IF method \notin Supported \/ (~Built(i) /\ site.router # "gin")
          THEN UNCHANGED <<routes, catalog, panicked>>
          ELSE /\ Handle(Route(e.path, {method}, IF Built(i) THEN "pipe" ELSE "failed", i))
               /\ catalog' = catalog \cup {<<e.path, method>>}
    /\ seen' = seen + 1
    /\ UNCHANGED <<site, todo, transport>>

EndpointsRegistered ==
    /\ Registering("endpoints") /\ seen = Len(endpoints)
    /\ todo' = Tail(todo)
    /\ UNCHANGED <<site, seen, routes, catalog, transport, panicked>>

\* registerOptionEndpoints: one path of the catalog after the other, in the
\* order of the map; no endpoint has the method OPTIONS.
RegisterOptions ==
    /\ Registering("options")
    /\ LET paths == {pm[1] : pm \in catalog}
           left == {p \in paths : ~\E k \in DOMAIN routes : routes[k].path = p /\ routes[k].kind = "options"}
       IN IF site.auto /\ left # {}
          THEN /\ \E p \in left : Handle(Route(p, {"OPTIONS"}, "options", 0))
               /\ UNCHANGED todo
          ELSE todo' = Tail(todo) /\ UNCHANGED <<routes, panicked>>
    /\ UNCHANGED <<site, seen, catalog, transport>>

Run ==
    \/ RegisterDebug \/ RegisterEcho \/ RegisterHealth \/ InitTransport
    \/ RegisterEndpoint \/ EndpointsRegistered \/ RegisterOptions

-----------------------------------------------------------------------------
(* Requests                                                                *)

\* GetEndpointPath wrote the placeholders the way the engine reads them.
Fits(e) == e.inputs = {} \/ (colon <=> site.router \in {"gin", "httptreemux"})

\* "/__debug/x" stands for what clients ask of the debug endpoint: chi and
\* httptreemux take their patterns to the letter.
Covers(r, path) ==
    \/ r.path = path /\ (r.i # 0 => Fits(endpoints[r.i]))
    \/ r.kind = "debug" /\ path = "/__debug/x" /\ site.router \in {"gin", "mux", "gorilla"}
    \/ r.kind = "echo" /\ path = "/__echo/x" /\ site.router \in {"gin", "mux", "gorilla"}
    \/ r.path = "/" /\ site.router = "mux"

\* net/http takes the longest pattern.
Candidates(path) ==
    LET all == {k \in DOMAIN routes : Covers(routes[k], path)}
        longer == {k \in all : routes[k].path # "/" \/ path = "/"}
    IN IF longer = {} THEN all ELSE longer

\* httptreemux answers HEAD with the handler of GET.
Serves(r, method) ==
    method \in r.methods \/ (site.router = "httptreemux" /\ method = "HEAD" /\ "GET" \in r.methods)

\* The handlers of mux look at the method again.
Refuses(r, method) ==
    r.kind = "pipe" /\ site.router # "gin" /\ ToTitle(endpoints[r.i].method) # method

Status(code) == [kind |-> code, i |-> 0]

\* What a request is answered with.
Answer(path, method) ==
    LET reached == Candidates(path)
        able == {k \in reached : Serves(routes[k], method)}
        r == routes[IF site.router = "gorilla" THEN Min(able) ELSE Max(able)]
    IN IF reached = {} THEN Status("404")
       ELSE IF able = {} THEN Status("405")
       ELSE IF Refuses(r, method) THEN Status("405")
       ELSE [kind |-> r.kind, i |-> r.i]

\* registerOptionEndpoints: what the header Allow lists.
Allow(path) == {m \in Supported : <<path, m>> \in catalog}

Renders ==
    {"string", "json", "no-op", "json-collection"}
      \cup IF site.router = "gin" THEN {"xml", "yaml", "negotiate"} ELSE {}

GetWithFallback(name, fallback) == IF name \in Renders THEN name ELSE fallback

\* A bug to guard against: the register is asked as the one of decoders is.
RenderOfFolded(e) ==
    LET fallback == IF Len(e.backends) = 1 THEN GetWithFallback(ToLower[e.backends[1].encoding], "json") ELSE "json"
    IN GetWithFallback(ToLower[e.output], fallback)

\* getRender: an output nobody renders is rendered as its only backend encodes.
RenderOf(e) ==
    LET fallback == IF Len(e.backends) = 1 THEN GetWithFallback(e.backends[1].encoding, "json") ELSE "json"
    IN GetWithFallback(e.output, fallback)

\* A bug to guard against: every router lower-cases the rest of a name.
ParamKeyLower(n) == TitleWord[n]

\* What a router makes of the name of a placeholder.
ParamKey(n) == IF site.router \in {"gin", "chi"} THEN Titled[n] ELSE TitleWord[n]

\* The names whose values the parameter key has, for a request of endpoint e:
\* with two of them either may be the last one written.
Values(e, key) ==
    IF site.router = "mux" THEN {} ELSE {n \in e.inputs : ParamKey(n) = key}

-----------------------------------------------------------------------------
(* Properties                                                              *)

TypeOK ==
    /\ site.router \in Routers
    /\ todo \in Seq({"health", "transport", "debug", "echo", "endpoints", "options"})
    /\ seen \in 0..Len(endpoints)
    /\ \A k \in DOMAIN routes :
        /\ routes[k].methods \subseteq Any /\ routes[k].i \in 0..seen
        /\ routes[k].kind \in {"debug", "echo", "health", "pipe", "failed", "options"}
    /\ transport \in BOOLEAN /\ panicked \in BOOLEAN

Known(i) == ToTitle(endpoints[i].method) \in Supported
SameRoute(i, j) ==
    endpoints[i].path = endpoints[j].path /\ ToTitle(endpoints[i].method) = ToTitle(endpoints[j].method)

(***************************************************************************)
(* Every endpoint whose pipe was built answers its requests, whatever      *)
(* became of the endpoints before and after it, unless another one has its *)
(* path and method or its placeholders are written for another engine.     *)
(***************************************************************************)
EachHasItsRequests ==
    Done => \A i \in DOMAIN endpoints :
        (Built(i) /\ Known(i) /\ Fits(endpoints[i]) /\ \A j \in DOMAIN endpoints \ {i} : ~SameRoute(i, j))
            => Answer(endpoints[i].path, ToTitle(endpoints[i].method)) = [kind |-> "pipe", i |-> i]

(***************************************************************************)
(* No endpoint answers a request of another path or method, but for the one*)
(* at the root, which takes what no other does under net/http.             *)
(***************************************************************************)
NoneHasAnothers ==
    Done => \A path \in {endpoints[i].path : i \in DOMAIN endpoints} \cup {"/other", "/__health"}, method \in Any :
        LET a == Answer(path, method) IN
        a.i # 0 =>
            /\ ToTitle(endpoints[a.i].method) = method
            /\ \/ endpoints[a.i].path = path
               \/ endpoints[a.i].path = "/" /\ site.router = "mux"

(***************************************************************************)
(* The endpoints of the service itself keep their paths, since the         *)
(* configuration refuses them to the others; only chi and httptreemux do   *)
(* not serve what is below the path of the debug endpoint.                 *)
(***************************************************************************)
ServiceKeepsItsPaths ==
    Done =>
        /\ HealthPath # "off" => Answer(HealthPath, "GET").kind = "health"
        /\ (site.debug /\ site.router \notin {"chi", "httptreemux"}) => Answer("/__debug/x", "POST").kind = "debug"
        /\ (site.echo /\ site.router \notin {"chi", "httptreemux"}) => Answer("/__echo/x", "GET").kind = "echo"

(***************************************************************************)
(* The methods OPTIONS lists for a path are those an endpoint answers, the *)
(* ones whose pipe could not be built included.                            *)
(***************************************************************************)
AllowIsWhatIsServed ==
    (Done /\ site.router = "gin" /\ site.auto) =>
        \A i \in DOMAIN endpoints : LET path == endpoints[i].path IN
            (Known(i) /\ Fits(endpoints[i])) =>
                /\ Answer(path, "OPTIONS").kind = "options"
                /\ Allow(path) = {m \in Supported : Answer(path, m).kind \in {"pipe", "failed"}}

(***************************************************************************)
(* A router panics before it serves only because a route is registered     *)
(* twice, or because the engine was given no pattern for the echo endpoint.*)
(***************************************************************************)
PanicsForAReason ==
    panicked =>
        \/ site.router = "httptreemux" /\ site.echo
        \/ \E i, j \in DOMAIN endpoints : i # j /\ SameRoute(i, j)
        \/ \E i \in DOMAIN endpoints : site.router = "gin" /\ endpoints[i].path = site.health

(***************************************************************************)
(* The URL of a backend gets the value of each of its placeholders, unless *)
(* two names of the endpoint have one key, the router lower-cases a name,  *)
(* or it hands no parameters on.                                           *)
(***************************************************************************)
ParamsArrive ==
    Done => \A i \in DOMAIN endpoints : LET e == endpoints[i] IN
        \A j \in DOMAIN e.backends : \A n \in e.backends[j].pattern \ Sequential :
            \/ Values(e, Titled[n]) = {n} /\ Titled[n] \in e.backends[j].keys
            \/ site.router = "mux"
            \/ site.router \in {"gorilla", "httptreemux"} /\ TitleWord[n] # Titled[n]
            \/ \E m \in e.inputs \ {n} : ParamKey(m) = ParamKey(n)

(***************************************************************************)
(* The bytes of a backend are copied to the client only from a backend that*)
(* hands them on undecoded, and is the only one: config.go, the decoders   *)
(* and the renders each look an encoding up in a way of their own.         *)
(***************************************************************************)
PassesOnWhatIsRaw ==
    Done => \A i \in DOMAIN endpoints : LET e == endpoints[i] IN
        RenderOf(e) = "no-op" => Len(e.backends) = 1 /\ e.backends[1].encoding = "no-op"

(***************************************************************************)
(* config.go says that URLKeys is the list of keys to be replaced in the   *)
(* URL pattern: each of them has a value in a request of the endpoint, when*)
(* the router hands parameters on.  It does not hold: gorilla, negroni and *)
(* httptreemux lower-case what follows the first letter of a name.         *)
(***************************************************************************)
KeysAreReplaced ==
    (Done /\ site.router # "mux") => \A i \in DOMAIN endpoints : LET e == endpoints[i] IN
        \A j \in DOMAIN e.backends :
            \A k \in e.backends[j].keys \ {Titled[n] : n \in Sequential} : Values(e, k) # {}

(***************************************************************************)
(* The routes in one invariant: everything has its type, requests get to   *)
(* their endpoints with their parameters and to no other, the service keeps*)
(* its paths, OPTIONS tells what there is, panics have a reason, and raw   *)
(* responses are rendered raw.                                             *)
(***************************************************************************)
RoutingInv ==
    /\ TypeOK /\ EachHasItsRequests /\ NoneHasAnothers /\ ServiceKeepsItsPaths
    /\ AllowIsWhatIsServed /\ PanicsForAReason /\ ParamsArrive /\ PassesOnWhatIsRaw

=============================================================================
