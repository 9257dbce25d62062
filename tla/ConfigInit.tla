----------------------------- MODULE ConfigInit -----------------------------
(***************************************************************************)
(* config/parser.go and config/config.go: Parse reads and decodes the file,*)
(* normalize makes a ServiceConfig of it, and ServiceConfig.Init walks it  *)
(* once, top down.  Each level takes what it lacks from the level above,   *)
(* which must be complete by then, and the first thing that is wrong ends  *)
(* the walk.  Normalize, which the main program calls next, renames the    *)
(* namespaces of the extra configuration.                                  *)
(*                                                                         *)
(* Placeholders of URLs are numbers, so that they have the order in which  *)
(* sort.Strings leaves them.  One duration stands for Timeout and for      *)
(* CacheTTL, which is inherited alike.  The extra configuration is the one *)
(* of the service; the other levels have theirs, treated alike.            *)
(***************************************************************************)
EXTENDS Integers, Sequences, FiniteSets, FiniteSetsExt, TLC

CONSTANTS
    Services,    \* the contents of configuration files
    Sequential,  \* the placeholders sequentialParamsPattern matches
    Titled,      \* a placeholder, its first letter in upper case
    Durations,   \* what time.ParseDuration makes of the strings it accepts
    Reserved,    \* the paths invalidPattern matches
    Decoders,    \* the names of the register of decoders
    ToLower,     \* strings.ToLower, of the names of encodings
    Alias,       \* ExtraConfigAlias
    Texts,       \* what may be in the file when an error is located
    Default      \* DefaultTimeout

VARIABLES
    file,    \* the file, decoded
    svc,     \* the ServiceConfig
    at,      \* where Parse is: a stage, an agent or an endpoint, and a backend
    pending, \* Normalize: the namespaces its range has still to visit
    err      \* the error Parse returned, or "none"

vars == <<file, svc, at, pending, err>>

\* What is read of a file, as far as it is looked into.
HostLists == {"none", "raw", "bad"}
FileBackend ==
    [hosts : HostLists, unsafe : BOOLEAN, method : STRING, encoding : STRING, scheme : STRING,
     pattern : SUBSET Nat]
FileEndpoint ==
    [path : STRING \ {""}, inputs : SUBSET Nat, timeout : STRING, output : STRING, method : STRING,
     calls : Int, backends : Seq(FileBackend)]
FileAgent == [timeout : STRING, workers : Int, interval : STRING, backends : Seq(FileBackend)]

\* A path has the placeholders that are written in it.
WellFormed(f) ==
    /\ f.hosts \in HostLists
    /\ f.agents \in Seq(FileAgent) /\ f.endpoints \in Seq(FileEndpoint)
    /\ \A i \in DOMAIN f.endpoints :
        LET e == f.endpoints[i] IN
        /\ IsFiniteSet(e.inputs)
        /\ \A j \in DOMAIN f.endpoints : f.endpoints[j].path = e.path => f.endpoints[j].inputs = e.inputs

Stages == {"read", "decode", "version", "globals", "agents", "endpoints", "aliases", "done"}
Place(stage, i, j) == [stage |-> stage, i |-> i, j |-> j]

\* "none" is a list without hosts.
SafeCleanHosts(hosts) == IF hosts = "raw" THEN "clean" ELSE hosts

\* The hosts of a backend, after initBackendDefaults or initAsyncAgents.
BackendHosts(b) ==
    IF b.hosts = "none" THEN svc.hosts
    ELSE IF b.unsafe THEN b.hosts ELSE SafeCleanHosts(b.hosts)

Rejected(b) == b.hosts = "bad" /\ ~b.unsafe

OrElse(value, empty, default) == IF value = empty THEN default ELSE value

\* The zero value of a ServiceConfig.
Empty ==
    [version |-> FALSE, address |-> FALSE, hosts |-> "none", timeout |-> 0, output |-> "",
     extra |-> << >>, agents |-> << >>, endpoints |-> << >>]

Begin ==
    /\ svc = Empty
    /\ at = Place("read", 1, 0)
    /\ pending = {}
    /\ err = "none"

Init == file \in Services /\ Begin

Fail(e) == err' = e /\ at' = Place("done", 0, 0) /\ UNCHANGED <<file, svc, pending>>
GoTo(place) == at' = place /\ UNCHANGED <<file, pending, err>>

-----------------------------------------------------------------------------
(* Parse                                                                   *)

ReadFile ==
    /\ at.stage = "read"
    /\ IF file.state = "unreadable" THEN Fail("PathError")
       ELSE GoTo(Place("decode", 1, 0)) /\ UNCHANGED svc

\* The row and the column after each of the bytes of a text.
Positions(source) ==
    LET upTo[i \in 0..Len(source)] ==
            IF i = 0 THEN <<0, 0>>
            ELSE IF source[i] = "\r" THEN upTo[i - 1]
            ELSE IF source[i] = "\n" THEN <<upTo[i - 1][1] + 1, 0>>
            ELSE <<upTo[i - 1][1], upTo[i - 1][2] + 1>>
    IN upTo

\* getErrorRowCol
RowCol(source, offset) ==
    LET n == IF Len(source) < offset THEN Len(source) - 1 ELSE offset
    IN IF n <= 0 THEN <<0, 0>> ELSE Positions(source)[n]

\* parseDuration: what it cannot read is as if it was not there.
ParseDuration(v) == IF v \in DOMAIN Durations THEN Durations[v] ELSE 0

\* parseableBackend.normalize
NormalizeBackend(b) ==
    [hosts |-> b.hosts, unsafe |-> b.unsafe, method |-> b.method, encoding |-> b.encoding,
     scheme |-> OrElse(b.scheme, "", "http"), pattern |-> b.pattern,
     timeout |-> 0, calls |-> 0, keys |-> {}, decoder |-> "none"]

\* parseableEndpointConfig.normalize
NormalizeEndpoint(e) ==
    [e EXCEPT !.timeout = ParseDuration(@),
              !.backends = [j \in DOMAIN @ |-> NormalizeBackend(@[j])]]

\* parseableAsyncAgent.normalize
NormalizeAgent(a) ==
    [a EXCEPT !.timeout = ParseDuration(@), !.interval = ParseDuration(@),
              !.backends = [j \in DOMAIN @ |-> NormalizeBackend(@[j])]]

\* parseableServiceConfig.normalize
NormalizeService(f) ==
    [version |-> f.version, address |-> f.address, hosts |-> f.hosts, output |-> f.output,
     extra |-> f.extra, timeout |-> ParseDuration(f.timeout),
     agents |-> [i \in DOMAIN f.agents |-> NormalizeAgent(f.agents[i])],
     endpoints |-> [i \in DOMAIN f.endpoints |-> NormalizeEndpoint(f.endpoints[i])]]

Decode ==
    /\ at.stage = "decode"
    /\ IF file.state = "malformed" THEN Fail("ParseError")
       ELSE svc' = NormalizeService(file) /\ GoTo(Place("version", 1, 0))

-----------------------------------------------------------------------------
(* Init                                                                    *)

CheckVersion ==
    /\ at.stage = "version"
    /\ IF ~svc.version THEN Fail("UnsupportedVersion")
       ELSE GoTo(Place("globals", 1, 0)) /\ UNCHANGED svc

InitGlobalParams ==
    /\ at.stage = "globals"
    /\ IF ~svc.address THEN Fail("InvalidAddress")
       ELSE IF svc.hosts = "bad" THEN Fail("InvalidHost")
       ELSE /\ svc' = [svc EXCEPT !.timeout = OrElse(@, 0, Default), !.hosts = SafeCleanHosts(@)]
            /\ GoTo(Place("agents", 1, 0))

\* The decoder of an unknown encoding is the one of JSON.
DecoderOf(encoding) == IF ToLower[encoding] \in Decoders THEN ToLower[encoding] ELSE "json"

-----------------------------------------------------------------------------
(* Async agents                                                            *)

\* initAsyncAgentDefaults.  The health interval is counted in seconds.
CompleteAgent(a) ==
    [a EXCEPT !.timeout = OrElse(@, 0, svc.timeout),
              !.workers = IF @ < 1 THEN 1 ELSE @,
              !.interval = IF @ < 1 THEN 1 ELSE @]

InitAsyncAgentDefaults ==
    /\ at.stage = "agents" /\ at.i <= Len(svc.agents) /\ at.j = 0
    /\ svc' = [svc EXCEPT !.agents[at.i] = CompleteAgent(svc.agents[at.i])]
    /\ GoTo([at EXCEPT !.j = 1])

AgentInherit(a, b) ==
    [b EXCEPT !.hosts = BackendHosts(b), !.method = OrElse(@, "", "GET"),
              !.timeout = a.timeout, !.decoder = DecoderOf(b.encoding)]

InitAsyncAgentBackend ==
    /\ at.stage = "agents" /\ at.i <= Len(svc.agents) /\ at.j > 0
    /\ LET a == svc.agents[at.i] IN
        IF at.j > Len(a.backends)
        THEN GoTo(Place("agents", at.i + 1, 0)) /\ UNCHANGED svc
        ELSE IF Rejected(a.backends[at.j]) THEN Fail("InvalidHost")
        ELSE /\ svc' = [svc EXCEPT !.agents[at.i].backends[at.j] = AgentInherit(a, a.backends[at.j])]
             /\ GoTo([at EXCEPT !.j = @ + 1])

AgentsDone ==
    /\ at.stage = "agents" /\ at.i > Len(svc.agents)
    /\ GoTo(Place("endpoints", 1, 0)) /\ UNCHANGED svc

-----------------------------------------------------------------------------
(* Endpoints                                                               *)

Validate(e) ==
    IF e.path \in Reserved THEN "EndpointPath" ELSE IF e.backends = << >> THEN "NoBackends" ELSE "none"

Complete(e) ==
    [e EXCEPT !.method = OrElse(@, "", "GET"),
              !.timeout = OrElse(@, 0, svc.timeout),
              !.calls = OrElse(@, 0, 1),
              !.output = OrElse(@, "", OrElse(svc.output, "", "json"))]

\* A bug to guard against: the encoding is looked at before it is inherited.
InitEndpointChecksFirst ==
    /\ at.stage = "endpoints" /\ at.i <= Len(svc.endpoints) /\ at.j = 0
    /\ LET e == svc.endpoints[at.i] IN
        IF Validate(e) # "none" THEN Fail(Validate(e))
        ELSE IF e.output = "no-op" /\ Len(e.backends) > 1 THEN Fail("InvalidNoOpEncoding")
        ELSE /\ svc' = [svc EXCEPT !.endpoints[at.i] = Complete(e)]
             /\ GoTo([at EXCEPT !.j = 1])

\* validate, initEndpointDefaults and the check of the no-op encoding.
InitEndpoint ==
    /\ at.stage = "endpoints" /\ at.i <= Len(svc.endpoints) /\ at.j = 0
    /\ LET e == svc.endpoints[at.i] IN
        IF Validate(e) # "none" THEN Fail(Validate(e))
        ELSE IF Complete(e).output = "no-op" /\ Len(e.backends) > 1 THEN Fail("InvalidNoOpEncoding")
        ELSE /\ svc' = [svc EXCEPT !.endpoints[at.i] = Complete(e)]
             /\ GoTo([at EXCEPT !.j = 1])

\* uniqueOutput counts a placeholder when it meets the next one: never the last.
OutputSetSize(names) ==
    IF names = {} THEN 0 ELSE Cardinality((names \ {Max(names)}) \ Sequential)

\* A bug to guard against: only the count of the placeholders is checked.
MappingErrorCounts(e, b) ==
    IF OutputSetSize(b.pattern) > Cardinality(e.inputs) THEN "WrongNumberOfParams" ELSE "none"

\* initBackendURLMappings, its errors
MappingError(e, b) ==
    IF OutputSetSize(b.pattern) > Cardinality(e.inputs) THEN "WrongNumberOfParams"
    ELSE IF (b.pattern \ Sequential) \subseteq e.inputs THEN "none" ELSE "UndefinedOutputParam"

\* initBackendURLMappings, the keys it leaves
URLKeys(b) == {Titled[n] : n \in b.pattern}

\* A bug to guard against: a backend has the timeout of the service.
InheritFromService(e, b) ==
    [b EXCEPT !.hosts = BackendHosts(b), !.method = OrElse(@, "", e.method),
              !.timeout = svc.timeout, !.calls = e.calls, !.keys = URLKeys(b),
              !.encoding = IF e.output = "no-op" THEN "no-op" ELSE @,
              !.decoder = DecoderOf(IF e.output = "no-op" THEN "no-op" ELSE b.encoding)]

\* initBackendDefaults
Inherit(e, b) ==
    [b EXCEPT !.hosts = BackendHosts(b), !.method = OrElse(@, "", e.method),
              !.timeout = e.timeout, !.calls = e.calls, !.keys = URLKeys(b),
              !.encoding = IF e.output = "no-op" THEN "no-op" ELSE @,
              !.decoder = DecoderOf(IF e.output = "no-op" THEN "no-op" ELSE b.encoding)]

InitBackend ==
    /\ at.stage = "endpoints" /\ at.i <= Len(svc.endpoints) /\ at.j > 0
    /\ LET e == svc.endpoints[at.i] IN
        IF at.j > Len(e.backends)
        THEN GoTo(Place("endpoints", at.i + 1, 0)) /\ UNCHANGED svc
        ELSE LET b == e.backends[at.j] IN
             IF Rejected(b) THEN Fail("InvalidHost")
             ELSE IF MappingError(e, b) # "none" THEN Fail(MappingError(e, b))
             ELSE /\ svc' = [svc EXCEPT !.endpoints[at.i].backends[at.j] = Inherit(e, b)]
                  /\ GoTo([at EXCEPT !.j = @ + 1])

EndpointsDone ==
    /\ at.stage = "endpoints" /\ at.i > Len(svc.endpoints)
    /\ at' = Place("aliases", 0, 0)
    /\ pending' = DOMAIN svc.extra
    /\ UNCHANGED <<file, svc, err>>

-----------------------------------------------------------------------------
(* ServiceConfig.Normalize                                                 *)

Without(f, key) == [k \in DOMAIN f \ {key} |-> f[k]]
With(f, key, value) == [k \in DOMAIN f \cup {key} |-> IF k = key THEN value ELSE f[k]]

\* A bug to guard against: an alias does not replace what is there.
ResolveAliasKeeps(m) ==
    /\ at.stage = "aliases" /\ m \in pending
    /\ IF m \notin DOMAIN Alias THEN pending' = pending \ {m} /\ UNCHANGED svc
       ELSE /\ svc' = [svc EXCEPT !.extra = Without(IF Alias[m] \in DOMAIN @ THEN @
                                                     ELSE With(@, Alias[m], @[m]), m)]
            /\ pending' = pending \ {m}
    /\ UNCHANGED <<file, at, err>>

\* One step of the range over the map, in any order: a key added on the way
\* may be visited or not.
ResolveAlias(m) ==
    /\ at.stage = "aliases" /\ m \in pending
    /\ IF m \notin DOMAIN Alias THEN pending' = pending \ {m} /\ UNCHANGED svc
       ELSE LET added == {Alias[m]} \ DOMAIN svc.extra IN
            /\ svc' = [svc EXCEPT !.extra = Without(With(@, Alias[m], @[m]), m)]
            /\ \E more \in SUBSET added : pending' = (pending \ {m}) \cup more
    /\ UNCHANGED <<file, at, err>>

Normalized ==
    /\ at.stage = "aliases" /\ pending = {}
    /\ GoTo(Place("done", 0, 0)) /\ UNCHANGED svc

Next ==
    \/ ReadFile \/ Decode
    \/ CheckVersion \/ InitGlobalParams
    \/ InitAsyncAgentDefaults \/ InitAsyncAgentBackend \/ AgentsDone
    \/ InitEndpoint \/ InitBackend \/ EndpointsDone
    \/ (\E m \in pending : ResolveAlias(m)) \/ Normalized

Spec == Init /\ [][Next]_vars

-----------------------------------------------------------------------------
(* Properties                                                              *)

Accepted == at.stage = "done" /\ err = "none"

EndpointOf == {svc.endpoints[i] : i \in DOMAIN svc.endpoints}
AgentOf == {svc.agents[i] : i \in DOMAIN svc.agents}
BackendOf(x) == {x.backends[j] : j \in DOMAIN x.backends}

Errors ==
    {"PathError", "ParseError", "UnsupportedVersion", "InvalidAddress", "InvalidHost", "EndpointPath",
     "NoBackends", "InvalidNoOpEncoding", "WrongNumberOfParams", "UndefinedOutputParam"}

TypeOK ==
    /\ at.stage \in Stages /\ at.i \in Nat /\ at.j \in Nat
    /\ err \in Errors \cup {"none"}
    /\ pending \subseteq DOMAIN svc.extra
    /\ svc.timeout \in Int
    /\ Accepted => \A e \in EndpointOf : e.calls \in Int \ {0}
    /\ Accepted => \A a \in AgentOf : a.workers \in Nat \ {0} /\ a.interval \in Nat \ {0}

(***************************************************************************)
(* Every call of an accepted configuration is bounded by what was written  *)
(* closest to it: a backend has the timeout of its endpoint or agent, which*)
(* is its own, the one of the service or the default; a duration that      *)
(* cannot be read counts as none, a negative one as written.               *)
(***************************************************************************)
TimeoutsAgree ==
    Accepted =>
        LET global == OrElse(ParseDuration(file.timeout), 0, Default)
            Inherits(was, is) ==
                /\ is.timeout = OrElse(ParseDuration(was.timeout), 0, global)
                /\ \A b \in BackendOf(is) : b.timeout = is.timeout
        IN /\ global # 0
           /\ \A i \in DOMAIN file.endpoints : Inherits(file.endpoints[i], svc.endpoints[i])
           /\ \A i \in DOMAIN file.agents : Inherits(file.agents[i], svc.agents[i])

(***************************************************************************)
(* The hosts of an accepted configuration were all cleaned, but for those  *)
(* of a backend that asked to keep its own, and have a scheme when they are*)
(* discovered.                                                             *)
(***************************************************************************)
HostsAreClean ==
    Accepted =>
        \A x \in EndpointOf \cup AgentOf : \A b \in BackendOf(x) :
            (b.hosts \in {"clean", "none"} \/ b.unsafe) /\ b.scheme # ""

(***************************************************************************)
(* A response that is passed on as it is has one backend it comes from,    *)
(* which does not decode it, wherever the encoding was inherited from.  A  *)
(* decoder that reads nothing is used elsewhere only if it was asked for.  *)
(***************************************************************************)
NoOpIsAlone ==
    Accepted =>
        \A i \in DOMAIN svc.endpoints : LET e == svc.endpoints[i] IN
            /\ e.output = "no-op" =>
                Len(e.backends) = 1 /\ \A b \in BackendOf(e) : b.encoding = "no-op"
            /\ \A j \in DOMAIN e.backends : e.backends[j].decoder = "no-op" =>
                e.output = "no-op" \/ ToLower[file.endpoints[i].backends[j].encoding] = "no-op"

(***************************************************************************)
(* Every key that the URL of a backend will be filled with is the one of a *)
(* name the URL of its endpoint has, or of an earlier response or a token. *)
(***************************************************************************)
KeysHaveAnOrigin ==
    Accepted =>
        \A e \in EndpointOf : \A b \in BackendOf(e) :
            b.keys \subseteq {Titled[n] : n \in e.inputs \cup Sequential}

(***************************************************************************)
(* Although the count of the placeholders leaves one out, a configuration  *)
(* is refused for its placeholders only if one of them is unknown.         *)
(***************************************************************************)
RefusedForAReason ==
    err \in {"WrongNumberOfParams", "UndefinedOutputParam"} =>
        \E e \in EndpointOf : \E b \in BackendOf(e) : ~(b.pattern \subseteq e.inputs \cup Sequential)

(***************************************************************************)
(* Nothing of the extra configuration is lost when namespaces are renamed, *)
(* in whatever order: each value is under its new name, unless another one *)
(* was renamed to it too, and no old name is left.  Names that are old and *)
(* new at once are excepted: the order of the map decides what they become.*)
(***************************************************************************)
AliasesResolved ==
    Accepted =>
        LET Target(m) == IF m \in DOMAIN Alias THEN Alias[m] ELSE m
            Chained(m) == m \in DOMAIN Alias /\ Alias[m] \in DOMAIN Alias
            Sources(t) == {m \in DOMAIN file.extra : Target(m) = t}
            Renamed(t) == Sources(t) \cap DOMAIN Alias
        IN (\A m \in DOMAIN file.extra : ~Chained(m)) =>
            /\ DOMAIN svc.extra = {Target(m) : m \in DOMAIN file.extra}
            /\ \A t \in DOMAIN svc.extra :
                svc.extra[t] \in {file.extra[m] : m \in IF Renamed(t) = {} THEN Sources(t) ELSE Renamed(t)}

(***************************************************************************)
(* The place of an error is found in any text, even in one that is shorter *)
(* than the text that was decoded; two places in one text are in order, and*)
(* are the same only if carriage returns are all that is between them.     *)
(***************************************************************************)
Before(p, q) == p[1] < q[1] \/ (p[1] = q[1] /\ p[2] < q[2])
ErrorsAreLocated ==
    err = "ParseError" =>
        \A text \in Texts :
            /\ \A n \in Len(text) + 1..Len(text) + 2 :
                RowCol(text, n) = RowCol(text, IF text = << >> THEN 0 ELSE Len(text) - 1)
            /\ \A n \in 0..Len(text) : \A m \in n + 1..Len(text) :
                LET p == RowCol(text, n)  q == RowCol(text, m) IN
                Before(p, q) \/ (p = q /\ \A i \in n + 1..m : text[i] = "\r")

(***************************************************************************)
(* What Parse and Normalize leave, in one invariant: everything has its    *)
(* type, calls are bounded, hosts are clean, a response that is passed on  *)
(* has one source, keys are known, namespaces are renamed; and nothing is  *)
(* refused for less, nor an error put where it is not.                     *)
(***************************************************************************)
ConfigInv ==
    /\ TypeOK /\ TimeoutsAgree /\ HostsAreClean /\ NoOpIsAlone /\ KeysHaveAnOrigin
    /\ RefusedForAReason /\ AliasesResolved /\ ErrorsAreLocated

=============================================================================
