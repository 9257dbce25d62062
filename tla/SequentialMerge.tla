-------------------------- MODULE SequentialMerge --------------------------
(***************************************************************************)
(* sequentialMerge, sequentialRequestPart and sequentialMergerConfig of    *)
(* proxy/merging.go: the backends of an endpoint are called one after the  *)
(* other, and values of earlier responses are passed to later backends as  *)
(* request parameters (Resp0_key, or Resp0 for a whole body).              *)
(*                                                                         *)
(* Backends are numbered from 1, so Resp0 of the code is backend 1 here.   *)
(* A value is the backend that produced it and whether it prints as the    *)
(* empty string.  The Data maps are kept in a small heap, because the      *)
(* response kept for later lookups and the accumulated response share one. *)
(***************************************************************************)
EXTENDS MergeData, Integers, FiniteSets

CONSTANTS
    N,           \* len(next)
    Replies,     \* the responses a backend may give
    UrlRefs,     \* references in the URL pattern of each backend
    Propagated,  \* sequential_propagated_params
    Body         \* the empty name: the reference is to the whole body

ASSUME NAssumption == N \in Nat \ {0, 1}
ASSUME SourceAssumption == Source = (1..N) \X BOOLEAN
ASSUME BodyAssumption == Body \notin Key

Backend == 1..N
Dest == Backend \X (Key \cup {Body})

ASSUME RefsAssumption ==
    /\ UrlRefs \in [Backend -> SUBSET (Nat \X Key)]
    /\ Propagated \in SUBSET (Nat \X (Key \cup {Body}))
    /\ Replies \subseteq [isComplete : BOOLEAN, hasData : BOOLEAN, keys : SUBSET Key,
                          blanks : SUBSET Key, io : BOOLEAN]
    /\ \A r \in Replies : r.hasData \/ r.keys = {}      \* a nil map has no keys

Blank(v) == v[2]

\* The response of backend b: the keys in r.blanks hold an empty value.
ReplyOf(b, r) ==
    [isComplete |-> r.isComplete,
     hasData    |-> r.hasData,
     data       |-> [k \in Key |-> IF k \in r.keys THEN <<b, k \in r.blanks>> ELSE Absent]]

\* sequentialMergerConfig: the propagated references go to every backend but
\* the first; the ones out of range are dropped there or skipped in the loop.
Replacements(b) ==
    {r \in UrlRefs[b] \cup (IF b > 1 THEN Propagated ELSE {}) : r[1] \in Backend}

VARIABLES
    pc,         \* where the goroutine is
    i,          \* the backend of the current iteration
    kept,       \* backends b with parts[b] != nil
    maps,       \* the Data map of each response; 0 is a map combineData made
    root,       \* the map the accumulated response uses
    body,       \* the Io reader of each response
    params,     \* request.Params
    registry,   \* sequentialMergeRegistry
    acc, ret,
    status,     \* what became of each backend
    resp,       \* the response of each backend, as it was received
    ctxErr      \* localCtx.Err()

reqVars == <<params, registry, body>>
dataVars == <<kept, maps, root, acc>>
vars == <<pc, i, kept, maps, root, body, params, registry, acc, ret, status, resp, ctxErr>>

NoResult == [data |-> NoResponse, errs |-> << >>]

Init ==
    /\ pc = "replace"
    /\ i = 1
    /\ kept = {}
    /\ maps = [m \in 0..N |-> EmptyMap]
    /\ root = 0
    /\ body = [b \in Backend |-> "none"]
    /\ params = [d \in Dest |-> Absent]
    /\ registry = [d \in Dest |-> Absent]
    /\ acc = NewAccumulator(N)
    /\ ret = NoResult
    /\ status = [b \in Backend |-> "idle"]
    /\ resp = [b \in Backend |-> NoResponse]
    /\ ctxErr = "none"

-----------------------------------------------------------------------------
(* The references of backend i are looked up in the kept parts.            *)

Usable(d) == d \in Replacements(i) /\ d[1] < i /\ d[1] \in kept

\* A bug to guard against: every lookup starts afresh.
RegisteredNever(d) == FALSE

\* sequentialMergeRegistry[r.destination] != ""
Registered(d) == registry[d] # Absent /\ ~Blank(registry[d])

\* Body references that read parts[r.backendIndex].Io in this iteration.
BodyReads ==
    {d \in Dest : Usable(d) /\ d[2] = Body /\ ~Registered(d) /\ body[d[1]] # "none"}

\* What this iteration finds for d, given the bodies that could be read;
\* Absent when it leaves the parameter alone.
Lookup(d, readable) ==
    IF ~Usable(d) THEN Absent
    ELSE IF Registered(d) THEN registry[d]
    ELSE IF d[2] = Body THEN IF d[1] \in readable THEN <<d[1], FALSE>> ELSE Absent
    ELSE maps[d[1]][d[2]]

\* A reader that failed once keeps failing.  (An empty body prints as "", is
\* not registered and reads as empty again: the parameter is the same.)
Replace ==
    /\ pc = "replace"
    /\ \E readable \in SUBSET {d[1] : d \in BodyReads} :
         /\ \A b \in readable : body[b] # "broken"
         /\ body' = [b \in Backend |->
                       IF b \notin {d[1] : d \in BodyReads} THEN body[b]
                       ELSE IF b \in readable THEN "read" ELSE "broken"]
         /\ params' = [d \in Dest |->
                         IF Lookup(d, readable) = Absent THEN params[d] ELSE Lookup(d, readable)]
         /\ registry' = [d \in Dest |->
                           IF Lookup(d, readable) = Absent THEN registry[d] ELSE Lookup(d, readable)]
    /\ pc' = "filter"
    /\ UNCHANGED <<i, dataVars, ret, status, resp, ctxErr>>

-----------------------------------------------------------------------------
(* The backend of this iteration is skipped or called.                     *)

\* The end of an iteration that goes on with the loop.
Advance ==
    /\ i' = i + 1
    /\ pc' = IF i = N THEN "result" ELSE "replace"

\* A bug to guard against: a skipped backend stays pending.
FilterOutStillPending ==
    /\ pc = "filter"
    /\ kept' = kept \cup {i}
    /\ status' = [status EXCEPT ![i] = "skipped"]
    /\ Advance
    /\ UNCHANGED <<acc, maps, root, reqVars, ret, resp, ctxErr>>

\* parts[i] = &Response{IsComplete: true, Data: {}}; acc.pending--
FilterOut ==
    /\ pc = "filter"
    /\ kept' = kept \cup {i}
    /\ acc' = [acc EXCEPT !.pending = @ - 1]
    /\ status' = [status EXCEPT ![i] = "skipped"]
    /\ Advance
    /\ UNCHANGED <<maps, root, reqVars, ret, resp, ctxErr>>

\* next(localCtx, reqCloner(request)) starts ...
Call ==
    /\ pc = "filter"
    /\ pc' = "calling"
    /\ status' = [status EXCEPT ![i] = "called"]
    /\ UNCHANGED <<i, dataVars, reqVars, ret, resp, ctxErr>>

\* ... and returns a response,
NextResponds ==
    /\ pc = "calling"
    /\ \E r \in Replies :
         /\ resp' = [resp EXCEPT ![i] = ReplyOf(i, r)]
         /\ maps' = [maps EXCEPT ![i] = ReplyOf(i, r).data]
         /\ body' = [body EXCEPT ![i] = IF r.io THEN "unread" ELSE "none"]
    /\ pc' = "answered"
    /\ UNCHANGED <<i, kept, root, acc, params, registry, ret, status, ctxErr>>

\* or an error, or nothing.
NextFails ==
    /\ pc = "calling"
    /\ pc' = "failing"
    /\ status' = [status EXCEPT ![i] = "failed"]
    /\ UNCHANGED <<i, dataVars, reqVars, ret, resp, ctxErr>>

\* case <-ctx.Done(): failed <- ctx.Err()
GiveUp ==
    /\ pc = "answered"
    /\ ctxErr # "none"
    /\ pc' = "failing"
    /\ status' = [status EXCEPT ![i] = "failed"]
    /\ UNCHANGED <<i, dataVars, reqVars, ret, resp, ctxErr>>

-----------------------------------------------------------------------------
(* The answer is merged.                                                   *)

\* A bug to guard against: the map of the newest part is the one merged into.
CombinedMapNewest(res) == i

\* The map combineData returns: the one of the accumulated response if it
\* has one, else the one of the new response, else a map of its own.
CombinedMap(res) ==
    IF acc.data = NoResponse THEN i
    ELSE IF acc.data.hasData THEN root
    ELSE IF res.hasData THEN i ELSE 0

\* A bug to guard against: an incomplete response does not end the loop.
MergeResponseGoesOn ==
    /\ pc = "answered"
    /\ acc' = AccMergeRes(acc, resp[i])
    /\ root' = CombinedMap(resp[i])
    /\ maps' = [maps EXCEPT ![root'] = acc'.data.data]
    /\ status' = [status EXCEPT ![i] = "delivered"]
    /\ kept' = kept \cup {i}
    /\ Advance
    /\ UNCHANGED <<reqVars, ret, resp, ctxErr>>

\* case response := <-out.  The combined response writes through to its map.
MergeResponse ==
    /\ pc = "answered"
    /\ acc' = AccMergeRes(acc, resp[i])
    /\ root' = CombinedMap(resp[i])
    /\ maps' = [maps EXCEPT ![root'] = acc'.data.data]
    /\ status' = [status EXCEPT ![i] = "delivered"]
    /\ IF resp[i].isComplete
       THEN kept' = kept \cup {i} /\ Advance
       ELSE kept' = kept /\ pc' = "result" /\ i' = i
    /\ UNCHANGED <<reqVars, ret, resp, ctxErr>>

\* cancel() and every return
Cancelled == IF ctxErr = "none" THEN "canceled" ELSE ctxErr

\* case err := <-errCh.  The error of the first backend is returned as it is.
MergeError ==
    /\ pc = "failing"
    /\ IF i = 1
       THEN /\ pc' = "returned"
            /\ ret' = [data |-> NoResponse, errs |-> <<i>>]
            /\ ctxErr' = Cancelled
            /\ UNCHANGED acc
       ELSE /\ pc' = "result"
            /\ acc' = AccMergeErr(acc, i)
            /\ UNCHANGED <<ret, ctxErr>>
    /\ UNCHANGED <<i, kept, maps, root, reqVars, status, resp>>

Finish ==
    /\ pc = "result"
    /\ pc' = "returned"
    /\ ret' = AccResult(acc)
    /\ ctxErr' = Cancelled
    /\ UNCHANGED <<i, dataVars, reqVars, status, resp>>

\* A bug to guard against: the context has no deadline.
CtxDoneNever == FALSE /\ UNCHANGED vars

\* The parent is done, or the service timeout expires.
CtxDone ==
    /\ ctxErr = "none" /\ pc # "returned"
    /\ ctxErr' \in {"canceled", "deadline"}
    /\ UNCHANGED <<pc, i, dataVars, reqVars, ret, status, resp>>

Terminated == pc = "returned" /\ UNCHANGED vars

Steps ==
    \/ Replace \/ FilterOut \/ Call \/ GiveUp
    \/ MergeResponse \/ MergeError \/ Finish
NextReturns == NextResponds \/ NextFails

Next == Steps \/ NextReturns \/ CtxDone \/ Terminated

Spec == Init /\ [][Next]_vars

(***************************************************************************)
(* The goroutine runs, the timeout expires, and a backend returns once its *)
(* context is done.                                                        *)
(***************************************************************************)
FairSpec == Spec /\ WF_vars(Steps) /\ WF_vars(CtxDone) /\ WF_vars(NextReturns /\ ctxErr # "none")

-----------------------------------------------------------------------------
(* Properties                                                              *)

Delivered == {b \in Backend : status[b] = "delivered"}

WentWell(b) == status[b] = "skipped" \/ (status[b] = "delivered" /\ resp[b].isComplete)

TypeOK ==
    /\ pc \in {"replace", "filter", "calling", "answered", "failing", "result", "returned"}
    /\ i \in 1..(N + 1)
    /\ kept \subseteq Backend
    /\ maps \in [0..N -> [Key -> Source \cup {Absent}]]
    /\ root \in 0..N
    /\ body \in [Backend -> {"none", "unread", "read", "broken"}]
    /\ params \in [Dest -> Source \cup {Absent}]
    /\ registry \in [Dest -> Source \cup {Absent}]
    /\ acc \in [pending : 0..N, data : Response \cup {NoResponse}, errs : Seq(Backend)]
    /\ ret \in [data : Response \cup {NoResponse}, errs : Seq(Backend)]
    /\ status \in [Backend -> {"idle", "skipped", "called", "delivered", "failed"}]
    /\ resp \in [Backend -> Response \cup {NoResponse}]
    /\ ctxErr \in {"none", "canceled", "deadline"}

(***************************************************************************)
(* A backend is called only when everything before it went well: each      *)
(* earlier backend was skipped or delivered a complete response, so no     *)
(* side effect happens after a failure.                                    *)
(***************************************************************************)
NoCallAfterFailure ==
    \A b \in Backend : status[b] # "idle" =>
        \A a \in 1..(b - 1) : WentWell(a)

(***************************************************************************)
(* When keys collide the last backend that delivered the key wins, and     *)
(* nothing else ends up in the merged response.                            *)
(***************************************************************************)
LastBackendWins ==
    (pc = "returned" /\ ret.data # NoResponse) =>
        \A k \in Key :
            LET having == {b \in Delivered : resp[b].data[k] # Absent} IN
            ret.data.data[k] =
                IF having = {} THEN Absent
                ELSE resp[CHOOSE b \in having : \A a \in having : a <= b].data[k]

(***************************************************************************)
(* A parameter that was passed to one backend with a value is passed to    *)
(* the later ones with the same value, even for a body that can be read    *)
(* only once and for a response overwritten in between.                    *)
(***************************************************************************)
ParamsStable ==
    [][\A d \in Dest : (params[d] # Absent /\ ~Blank(params[d])) => params'[d] = params[d]]_vars

(***************************************************************************)
(* A parameter Resp<b>_<k> holds what backend b delivered under k, for     *)
(* every b but the first one that delivered a Data map: that map is the    *)
(* one the later responses are merged into.                                *)
(***************************************************************************)
ParamOriginButFirst ==
    \A d \in Dest : params[d] # Absent =>
        \/ d[2] = Body /\ params[d][1] = d[1]
        \/ d[2] # Body /\ params[d] = resp[d[1]].data[d[2]]
        \/ \A b \in Delivered : resp[b].hasData => d[1] <= b

\* The backends are gone through in their order: the ones before i went well, the ones
\* after it are untouched, and the loop ends early at one that did not go well.
OneByOne ==
    /\ \A b \in Backend : b < i => WentWell(b)
    /\ \A b \in Backend : b > i => status[b] = "idle"
    /\ i = N + 1 => pc \in {"result", "returned"}
    /\ i \in Backend =>
          /\ pc \in {"replace", "filter"} => status[i] = "idle"
          /\ pc \in {"calling", "answered"} => status[i] = "called"
          /\ pc = "failing" => status[i] = "failed"
          /\ pc \in {"result", "returned"} =>
                status[i] = "failed" \/ (status[i] = "delivered" /\ ~resp[i].isComplete)
    /\ pc = "answered" => resp[i] # NoResponse
    /\ \A b \in Delivered : resp[b] # NoResponse

\* parts[b] is set exactly for the backends that went well.
PartsKept == kept = {b \in Backend : WentWell(b)}

\* acc.pending and acc.errs say how far the loop got and where it failed.
Accounted ==
    /\ \/ pc \in {"replace", "filter", "calling", "answered", "failing"} /\ acc.pending = N - i + 1
       \/ pc \in {"result", "returned"} /\ acc.pending = IF i = N + 1 THEN 0 ELSE N - i
       \/ pc = "returned" /\ i = 1
    /\ acc.errs = IF pc \in {"result", "returned"} /\ i \in 2..N /\ status[i] = "failed"
                  THEN <<i>> ELSE << >>

\* v is what the last of the backends S that delivered key k delivered.
IsLast(v, S, k) ==
    \/ v = Absent /\ \A b \in S : resp[b].data[k] = Absent
    \/ \E b \in S : /\ v = resp[b].data[k] /\ v # Absent
                    /\ \A c \in S : c > b => resp[c].data[k] = Absent

\* The accumulated response is the merge of what was delivered so far, and it is
\* complete as long as every part of it is and has a Data map or is alone.
Accumulated ==
    /\ acc.data = NoResponse <=> Delivered = {}
    /\ acc.data # NoResponse =>
          /\ \A k \in Key : IsLast(acc.data.data[k], Delivered, k)
          /\ acc.data.hasData <=> \A b \in Delivered : Delivered = {b} => resp[b].hasData
          /\ acc.data.isComplete <=>
                /\ \A b \in Delivered : resp[b].isComplete
                /\ \A b \in Delivered : resp[b].hasData \/ Delivered = {b}
                /\ acc.errs = << >>

\* The Data map of a kept part is the one its backend delivered, unless it is the map
\* the accumulated response uses; and that map, if it is a part's, belongs to the
\* first backend that delivered a Data map.
MapsTold ==
    /\ \A b \in Backend :
          status[b] \in {"idle", "skipped"} => maps[b] = EmptyMap /\ body[b] = "none"
    /\ \A b \in Delivered : b # root => maps[b] = resp[b].data
    /\ pc = "answered" => maps[i] = resp[i].data
    /\ root # 0 => root \in Delivered /\ \A b \in Delivered : resp[b].hasData => root <= b
    /\ acc.data # NoResponse => maps[root] = acc.data.data

\* The registry remembers every parameter that was set, and only parts that were there
\* are looked up.
ParamsTold ==
    /\ registry = params
    /\ \A d \in Dest : params[d] # Absent => status[d[1]] = "delivered" /\ d[1] <= i

\* What is returned is the result of the accumulator or, for the first backend, its error.
FirstFailed == i = 1 /\ status[1] = "failed"

ReturnTold ==
    /\ pc = "result" => ~FirstFailed
    /\ pc = "returned" => ret = IF FirstFailed THEN [data |-> NoResponse, errs |-> <<1>>]
                                ELSE AccResult(acc)

(***************************************************************************)
(* The calls and the merged response in one invariant: everything has its  *)
(* type, no backend is called after a failure, the last one wins; with     *)
(* what makes it inductive.                                                *)
(***************************************************************************)
SequenceInv ==
    /\ TypeOK /\ NoCallAfterFailure /\ LastBackendWins
    /\ OneByOne /\ PartsKept /\ Accounted /\ Accumulated
    /\ MapsTold /\ ParamsTold /\ ReturnTold

(***************************************************************************)
(* What the test of the sequential merge says of every parameter: it comes *)
(* from the backend its name refers to.  The code does not guarantee it.   *)
(***************************************************************************)
ParamOrigin == \A d \in Dest : params[d] # Absent => params[d][1] = d[1]

\* The request is always answered.
Returns == <>(pc = "returned")

AnswerOf(b) ==
    CASE status[b] = "failed" -> "error"
      [] status[b] = "delivered" ->
            IF ~resp[b].isComplete THEN "partial"
            ELSE IF resp[b].hasData THEN "full" ELSE "hollow"
      [] OTHER -> "none"

ResultKind ==
    CASE pc # "returned" -> "pending"
      [] ret.data = NoResponse /\ pc = "returned" ->
            IF ret.errs = << >> THEN "nothing" ELSE "error"
      [] OTHER -> IF ret.data.isComplete THEN "complete" ELSE "partial"

Promise == INSTANCE MergePromise WITH
    skipped <- {b \in Backend : status[b] = "skipped"},
    asked   <- {b \in Backend : status[b] \in {"called", "delivered", "failed"}},
    answer  <- [b \in Backend |-> AnswerOf(b)],
    result  <- ResultKind

\* sequentialMerge implements the promise of a merging middleware.
KeepsPromise == Promise!Spec

=============================================================================
