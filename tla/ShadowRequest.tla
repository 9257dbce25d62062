--------------------------- MODULE ShadowRequest ---------------------------
(***************************************************************************)
(* proxy/shadow.go: the backends of an endpoint are split in two pipes.    *)
(* The shadow pipe gets a copy of every request in a goroutine of its own, *)
(* under a context that does not end with that of the request, and nobody  *)
(* looks at what it answers.                                               *)
(***************************************************************************)
EXTENDS Integers, Sequences, FiniteSets, FiniteSetsExt

CONSTANTS
    Endpoints,  \* what may be configured
    Requests,
    MaxClock    \* bound: how long a run is looked at

ASSUME MaxClockAssumption == MaxClock \in Nat

\* config.EndpointConfig: timeout and concurrent (more than one concurrent call), which
\* initBackendDefaults gives to every backend as well, and whether its merger is the sequential
\* one.  config.Backend: what its ExtraConfig says of shadow and of shadow_timeout; given tells
\* whether the latter is a string that parses as a duration.
ASSUME EndpointsAssumption ==
    \A e \in Endpoints :
        /\ e.timeout \in Int /\ e.concurrent \in BOOLEAN /\ e.sequential \in BOOLEAN
        /\ e.backends \in Seq([extra : {"none", "notBool", "false", "true"},
                               given : BOOLEAN, shadowTimeout : Int])

VARIABLES
    endpoint,  \* cfg
    clock,
    client,    \* [Requests -> away, asking, left]: the context of the request
    caller,    \* the goroutine of the request
    shadow,    \* the goroutine that was started for it
    started,   \* when the context of the shadow was made
    began,     \* when the shadow pipe was called
    call,      \* the calls of the shadow backends: [Requests -> [backend index -> status]]
    since,     \* when they were made
    got,       \* whose pipe was asked, once for each time: [Requests -> [backend index -> Nat]]
    result     \* what the client got

pipeVars == <<began, call, since>>
shadowVars == <<endpoint, clock, client, caller, shadow, started, pipeVars, got, result>>

backends == endpoint.backends

-----------------------------------------------------------------------------
(* shadowFactory.New                                                       *)

\* isShadowBackend: anything but a true under the right key is no shadow.
IsShadow(b) == b.extra = "true"

\* A duration that is absent or does not parse leaves that of the backend.
Duration(b) == IF b.given THEN b.shadowTimeout ELSE endpoint.timeout

ShadowBackends == {i \in DOMAIN backends : IsShadow(backends[i])}
RegularBackends == DOMAIN backends \ ShadowBackends

MaxTimeout == Max({0} \cup {Duration(backends[i]) : i \in ShadowBackends})

\* NewShadowFactory(f).New fails as f.New does for the regular backends.
Built == RegularBackends # {}

\* The shadow pipe is made like any other of a copy of the endpoint: if it has several
\* backends they are merged, one after the other or side by side.
ShadowsMerged == Cardinality(ShadowBackends) > 1
InTurn == ShadowsMerged /\ endpoint.sequential

\* The merge gives its backends 85 percent of the timeout of the endpoint, and concurrent
\* calls have 75 percent of that of the backend, whatever shadow_timeout says.
Part(percent) == (percent * endpoint.timeout) \div 100
MergeTimeout == Part(85)
CallTimeout == Part(75)

-----------------------------------------------------------------------------

ShadowInit ==
    /\ endpoint \in Endpoints
    /\ clock = 0
    /\ client = [r \in Requests |-> "away"]
    /\ caller = [r \in Requests |-> "idle"]
    /\ shadow = [r \in Requests |-> "none"]
    /\ started = [r \in Requests |-> 0]
    /\ began = [r \in Requests |-> 0]
    /\ call = [r \in Requests |-> [i \in ShadowBackends |-> "none"]]
    /\ since = [r \in Requests |-> [i \in ShadowBackends |-> 0]]
    /\ got = [r \in Requests |-> [i \in DOMAIN backends |-> 0]]
    /\ result = [r \in Requests |-> "none"]

Arrive(r) ==
    /\ Built /\ caller[r] = "idle"
    /\ client' = [client EXCEPT ![r] = "asking"]
    /\ caller' = [caller EXCEPT ![r] = IF ShadowBackends = {} THEN "p1" ELSE "shadow"]
    /\ UNCHANGED <<endpoint, clock, shadow, started, pipeVars, got, result>>

\* A bug to guard against: the shadow is waited for.
LaunchWaits(r) ==
    /\ caller[r] = "shadow"
    /\ shadow' = [shadow EXCEPT ![r] = IF @ = "none" THEN "asked" ELSE @]
    /\ started' = [started EXCEPT ![r] = IF shadow[r] = "none" THEN clock ELSE @]
    /\ caller' = [caller EXCEPT ![r] = IF shadow[r] = "done" THEN "p1" ELSE @]
    /\ UNCHANGED <<endpoint, clock, client, pipeVars, got, result>>

\* shadowCtx, CloneRequest, go func
Launch(r) ==
    /\ caller[r] = "shadow"
    /\ shadow' = [shadow EXCEPT ![r] = "asked"]
    /\ started' = [started EXCEPT ![r] = clock]
    /\ caller' = [caller EXCEPT ![r] = "p1"]
    /\ UNCHANGED <<endpoint, clock, client, pipeVars, got, result>>

Ask(r, who) ==
    got' = [got EXCEPT ![r] = [i \in DOMAIN backends |-> IF i \in who THEN @[i] + 1 ELSE @[i]]]

\* A bug to guard against: cfgCopy keeps all the backends.
CallRegularAll(r) ==
    /\ caller[r] = "p1"
    /\ Ask(r, DOMAIN backends)
    /\ caller' = [caller EXCEPT ![r] = "waiting"]
    /\ UNCHANGED <<endpoint, clock, client, shadow, started, pipeVars, result>>

\* return p1(ctx, request)
CallRegular(r) ==
    /\ caller[r] = "p1"
    /\ Ask(r, RegularBackends)
    /\ caller' = [caller EXCEPT ![r] = "waiting"]
    /\ UNCHANGED <<endpoint, clock, client, shadow, started, pipeVars, result>>

\* p1 is done because it has an answer or because the client is gone.
RegularAnswers(r) ==
    /\ caller[r] = "waiting"
    /\ caller' = [caller EXCEPT ![r] = "returned"]
    /\ \/ result' = [result EXCEPT ![r] = "regular"]
       \/ client[r] = "left" /\ result' = [result EXCEPT ![r] = "canceled"]
    /\ UNCHANGED <<endpoint, clock, client, shadow, started, pipeVars, got>>

\* p2(shadowCtx, shadowRequest): a merge makes its context here.
CallShadow(r) ==
    /\ shadow[r] = "asked"
    /\ Ask(r, ShadowBackends)
    /\ shadow' = [shadow EXCEPT ![r] = "running"]
    /\ began' = [began EXCEPT ![r] = clock]
    /\ UNCHANGED <<endpoint, clock, client, caller, started, call, since, result>>

\* A backend of the shadow pipe is called: the only one, one of a parallel merge, or the
\* next of a sequential one.  Concurrent calls make their context here.
CallBackend(r, i) ==
    /\ shadow[r] = "running" /\ call[r][i] = "none"
    /\ InTurn => \A j \in ShadowBackends : j < i => call[r][j] = "done"
    /\ call' = [call EXCEPT ![r][i] = "running"]
    /\ since' = [since EXCEPT ![r][i] = clock]
    /\ UNCHANGED <<endpoint, clock, client, caller, shadow, started, began, got, result>>

\* With a complete response, or with an error or an incomplete one.
BackendAnswers(r, i) ==
    /\ call[r][i] = "running"
    /\ \E answer \in {"done", "failed"} : call' = [call EXCEPT ![r][i] = answer]
    /\ UNCHANGED <<endpoint, clock, client, caller, shadow, started, began, since, got, result>>

\* A bug to guard against: the context of the shadow is that of the request.
TimedOutWithClient(r, i) == client[r] = "left" \/ clock >= started[r] + MaxTimeout

\* A bug to guard against: context.Background(), without the timeout.
TimedOutInMerge(r, i) ==
    \/ ShadowsMerged /\ clock >= began[r] + MergeTimeout
    \/ endpoint.concurrent /\ clock >= since[r][i] + CallTimeout

\* One of the contexts of the call is over: that of newContextWrapperWithTimeout, that of the
\* merge, or that of the concurrent calls.
TimedOut(r, i) ==
    \/ clock >= started[r] + MaxTimeout
    \/ ShadowsMerged /\ clock >= began[r] + MergeTimeout
    \/ endpoint.concurrent /\ clock >= since[r][i] + CallTimeout

\* The call is cut off with its context.
BackendCut(r, i) ==
    /\ call[r][i] = "running" /\ TimedOut(r, i)
    /\ call' = [call EXCEPT ![r][i] = "cut"]
    /\ UNCHANGED <<endpoint, clock, client, caller, shadow, started, began, since, got, result>>

\* p2 returns, and cancel() follows: every backend answered or was cut off, or the first one
\* that failed ended the sequential merge.
ShadowReturns(r) ==
    /\ shadow[r] = "running"
    /\ \A i \in ShadowBackends : call[r][i] # "running"
    /\ \/ \A i \in ShadowBackends : call[r][i] # "none"
       \/ InTurn /\ \E i \in ShadowBackends : call[r][i] \in {"failed", "cut"}
    /\ shadow' = [shadow EXCEPT ![r] = "done"]
    /\ UNCHANGED <<endpoint, clock, client, caller, started, pipeVars, got, result>>

\* The client hangs up, or was answered: either way its context ends.
Leave(r) ==
    /\ client[r] = "asking"
    /\ client' = [client EXCEPT ![r] = "left"]
    /\ UNCHANGED <<endpoint, clock, caller, shadow, started, pipeVars, got, result>>

Tick ==
    /\ clock < MaxClock
    /\ clock' = clock + 1
    /\ UNCHANGED <<endpoint, client, caller, shadow, started, pipeVars, got, result>>

Caller(r) == Launch(r) \/ CallRegular(r)

ShadowNext ==
    \/ Tick
    \/ \E r \in Requests :
        \/ Arrive(r) \/ Caller(r) \/ RegularAnswers(r) \/ Leave(r)
        \/ CallShadow(r) \/ ShadowReturns(r)
        \/ \E i \in ShadowBackends : CallBackend(r, i) \/ BackendAnswers(r, i) \/ BackendCut(r, i)

ShadowSpec == ShadowInit /\ [][ShadowNext]_shadowVars

\* Some call of the shadow pipe is made, or one that is over is cut off.
ShadowPipe(r) == \E i \in ShadowBackends : CallBackend(r, i) \/ BackendCut(r, i)

\* Time passes, goroutines run and heed their contexts, and the regular
\* backends answer.  Nothing is assumed of the shadow ones.
FairShadowSpec ==
    /\ ShadowSpec
    /\ WF_shadowVars(Tick)
    /\ \A r \in Requests :
        /\ WF_shadowVars(Caller(r)) /\ WF_shadowVars(RegularAnswers(r))
        /\ WF_shadowVars(CallShadow(r)) /\ WF_shadowVars(ShadowPipe(r))
        /\ WF_shadowVars(ShadowReturns(r))

-----------------------------------------------------------------------------
(* Properties                                                              *)

ShadowTypeOK ==
    /\ endpoint \in Endpoints
    /\ clock \in 0..MaxClock
    /\ client \in [Requests -> {"away", "asking", "left"}]
    /\ caller \in [Requests -> {"idle", "shadow", "p1", "waiting", "returned"}]
    /\ shadow \in [Requests -> {"none", "asked", "running", "done"}]
    /\ started \in [Requests -> Nat]
    /\ began \in [Requests -> Nat]
    /\ call \in [Requests -> [ShadowBackends -> {"none", "running", "done", "failed", "cut"}]]
    /\ since \in [Requests -> [ShadowBackends -> Nat]]
    /\ got \in [Requests -> [DOMAIN backends -> Nat]]
    /\ result \in [Requests -> {"none", "regular", "canceled"}]

(***************************************************************************)
(* The split asks every backend once and none twice: a request whose       *)
(* goroutines are both over has been handed to the pipes of all of them.   *)
(***************************************************************************)
EachBackendOnce ==
    \A r \in Requests :
        /\ \A i \in DOMAIN backends : got[r][i] <= 1
        /\ (caller[r] = "returned" /\ shadow[r] \in {"none", "done"}) =>
                \A i \in DOMAIN backends : got[r][i] = 1

\* A goroutine for the shadow is there once it was passed, if there is a shadow pipe.
ShadowStarted ==
    \A r \in Requests :
        /\ caller[r] = "shadow" => ShadowBackends # {}
        /\ caller[r] \in {"idle", "shadow"} => shadow[r] = "none"
        /\ caller[r] \in {"p1", "waiting", "returned"} => (shadow[r] = "none" <=> ShadowBackends = {})

\* Each of the two goroutines asks its backends, and only them, when it gets there.
AskedByTheirPipe ==
    \A r \in Requests :
        /\ \A i \in RegularBackends : got[r][i] = IF caller[r] \in {"waiting", "returned"} THEN 1 ELSE 0
        /\ \A i \in ShadowBackends : got[r][i] = IF shadow[r] \in {"running", "done"} THEN 1 ELSE 0

\* The contexts of the shadow are made one inside the other, and none before its pipe runs.
ContextsNest ==
    \A r \in Requests :
        /\ shadow[r] # "none" => started[r] <= clock
        /\ shadow[r] \in {"running", "done"} => started[r] <= began[r] /\ began[r] <= clock
        /\ \A i \in ShadowBackends : call[r][i] # "none" =>
              /\ shadow[r] \in {"running", "done"}
              /\ began[r] <= since[r][i] /\ since[r][i] <= clock

(***************************************************************************)
(* The split of the endpoint in one invariant: everything has its type, and*)
(* every backend is asked once; with what makes it inductive.              *)
(***************************************************************************)
ShadowInv == ShadowTypeOK /\ EachBackendOnce /\ ShadowStarted /\ AskedByTheirPipe /\ ContextsNest

(***************************************************************************)
(* A shadow backend is cut off only when it had its own time, or that of   *)
(* the merge it is part of, or that of its concurrent calls (merging.go,   *)
(* concurrent.go): never because the client was answered or has left, and  *)
(* never for the shorter shadow_timeout of another backend.                *)
(***************************************************************************)
ShadowHasItsTime ==
    \A r \in Requests : \A i \in ShadowBackends : call[r][i] = "cut" =>
        \/ clock >= started[r] + Duration(backends[i])
        \/ ShadowsMerged /\ clock >= started[r] + MergeTimeout
        \/ endpoint.concurrent /\ clock >= started[r] + CallTimeout

(***************************************************************************)
(* A request settles although its shadow backends never answer: the client *)
(* is answered, and the goroutine of the shadow ends, if its timeout falls *)
(* within the run.                                                         *)
(***************************************************************************)
RequestSettles ==
    \A r \in Requests :
        caller[r] # "idle" ~>
            /\ caller[r] = "returned"
            /\ shadow[r] \in {"none", "done"} \/ started[r] + MaxTimeout > MaxClock

=============================================================================
