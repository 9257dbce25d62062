--------------------------- MODULE ParallelMerge ---------------------------
(***************************************************************************)
(* parallelMerge and requestPart of proxy/merging.go: one request served   *)
(* by an endpoint with N backends.  The calling goroutine starts one       *)
(* goroutine per backend its filters let through, collects exactly one     *)
(* answer of each from two buffered channels, and returns the merged       *)
(* response.  The context may end at any moment: the client goes away, or  *)
(* the service timeout expires.  A backend is the rest of the proxy stack  *)
(* (next): it may return a response, a nil response or an error, before or *)
(* after the context is done.                                              *)
(***************************************************************************)
EXTENDS MergeData, Integers, FiniteSets

CONSTANTS
    N,           \* len(next), the number of backends of the endpoint
    Replies      \* the responses a backend may give, by flags and keys

ASSUME NAssumption == N \in Nat \ {0, 1}
ASSUME SourceAssumption == Source = 1..N

Backend == 1..N

ASSUME RepliesAssumption ==
    Replies \subseteq {r \in [isComplete : BOOLEAN, hasData : BOOLEAN, keys : SUBSET Key] :
                          r.hasData \/ r.keys = {}}

\* The *Response backend b returns: its values carry b as their origin.
ReplyOf(b, r) ==
    [isComplete |-> r.isComplete,
     hasData    |-> r.hasData,
     data       |-> [k \in Key |-> IF k \in r.keys THEN b ELSE Absent]]

CtxErrors == {"canceled", "deadline"}
PartErrors == {"backend", "null"} \cup CtxErrors
Failure == Backend \X PartErrors

VARIABLES
    pc,          \* where the calling goroutine is
    i,           \* its loop variable
    proxyCount,  \* backends not filtered out
    acc,         \* the accumulator
    ret,         \* the values it returned
    call,        \* where the goroutine of each backend is
    resp,        \* the response it holds
    errOf,       \* the error it holds
    parts,       \* chan *Response, as the backends whose response it holds
    failed,      \* chan error, each error with the backend it comes from
    ctxErr       \* localCtx.Err()

mainVars == <<pc, i, proxyCount, acc, ret>>
workVars == <<call, resp, errOf>>
chanVars == <<parts, failed>>
vars == <<pc, i, proxyCount, acc, ret, call, resp, errOf, parts, failed, ctxErr>>

Spawned == {"calling", "answered", "failing", "delivered", "failed"}
Over == {"skipped", "delivered", "failed"}
CallStates == {"idle"} \cup Spawned \cup Over

NoResult == [data |-> NoResponse, errs |-> << >>]

Init ==
    /\ pc = "dispatch"
    /\ i = 1
    /\ proxyCount = N
    /\ acc = NewAccumulator(0)
    /\ ret = NoResult
    /\ call = [b \in Backend |-> "idle"]
    /\ resp = [b \in Backend |-> NoResponse]
    /\ errOf = [b \in Backend |-> "null"]
    /\ parts = << >>
    /\ failed = << >>
    /\ ctxErr = "none"

-----------------------------------------------------------------------------
(* The calling goroutine                                                   *)

\* A bug to guard against: a skipped backend still counts as an answer to wait for.
FilterOutStillCounted ==
    /\ pc = "dispatch" /\ i \in Backend
    /\ call' = [call EXCEPT ![i] = "skipped"]
    /\ i' = i + 1
    /\ UNCHANGED <<pc, proxyCount, acc, ret, resp, errOf, parts, failed, ctxErr>>

\* filters[i] != nil && !filters[i](request)
FilterOut ==
    /\ pc = "dispatch" /\ i \in Backend
    /\ call' = [call EXCEPT ![i] = "skipped"]
    /\ proxyCount' = proxyCount - 1
    /\ i' = i + 1
    /\ UNCHANGED <<pc, acc, ret, resp, errOf, parts, failed, ctxErr>>

\* go requestPart(localCtx, n, reqCloner(request), parts, failed)
Spawn ==
    /\ pc = "dispatch" /\ i \in Backend
    /\ call' = [call EXCEPT ![i] = "calling"]
    /\ i' = i + 1
    /\ UNCHANGED <<pc, proxyCount, acc, ret, resp, errOf, parts, failed, ctxErr>>

\* acc := newIncrementalMergeAccumulator(proxyCount, rc); i := 0
StartCollecting ==
    /\ pc = "dispatch" /\ i = N + 1
    /\ pc' = "collect"
    /\ i' = 0
    /\ acc' = NewAccumulator(proxyCount)
    /\ UNCHANGED <<proxyCount, ret, workVars, chanVars, ctxErr>>

\* case err := <-failed
RecvFailed ==
    /\ pc = "collect" /\ i < proxyCount
    /\ failed # << >>
    /\ acc' = AccMergeErr(acc, Head(failed))
    /\ failed' = Tail(failed)
    /\ i' = i + 1
    /\ UNCHANGED <<pc, proxyCount, ret, workVars, parts, ctxErr>>

\* case response := <-parts
RecvPart ==
    /\ pc = "collect" /\ i < proxyCount
    /\ parts # << >>
    /\ acc' = AccMergeRes(acc, resp[Head(parts)])
    /\ parts' = Tail(parts)
    /\ i' = i + 1
    /\ UNCHANGED <<pc, proxyCount, ret, workVars, failed, ctxErr>>

\* A bug to guard against: the collection stops when the context is done.
FinishOnCtxDone ==
    /\ pc = "collect" /\ (i = proxyCount \/ ctxErr # "none")
    /\ pc' = "returned"
    /\ ret' = AccResult(acc)
    /\ ctxErr' = IF ctxErr = "none" THEN "canceled" ELSE ctxErr
    /\ UNCHANGED <<i, proxyCount, acc, workVars, chanVars>>

\* result, err := acc.Result(); cancel(); return result, err
Finish ==
    /\ pc = "collect" /\ i = proxyCount
    /\ pc' = "returned"
    /\ ret' = AccResult(acc)
    /\ ctxErr' = IF ctxErr = "none" THEN "canceled" ELSE ctxErr
    /\ UNCHANGED <<i, proxyCount, acc, workVars, chanVars>>

-----------------------------------------------------------------------------
(* requestPart, one goroutine per backend                                  *)

\* make(chan *Response, proxyCount), make(chan error, proxyCount)
ChanCap == N

\* in, err := next(localCtx, request)
NextReturns(b) ==
    /\ call[b] = "calling"
    /\ \/ \E r \in Replies :
             /\ resp' = [resp EXCEPT ![b] = ReplyOf(b, r)]
             /\ call' = [call EXCEPT ![b] = "answered"]
             /\ UNCHANGED errOf
       \/ \E e \in {"backend", "null"} :
             /\ errOf' = [errOf EXCEPT ![b] = e]
             /\ call' = [call EXCEPT ![b] = "failing"]
             /\ UNCHANGED resp
    /\ UNCHANGED <<mainVars, chanVars, ctxErr>>

\* case out <- in
SendPart(b) ==
    /\ call[b] = "answered"
    /\ Len(parts) < ChanCap
    /\ parts' = Append(parts, b)
    /\ call' = [call EXCEPT ![b] = "delivered"]
    /\ UNCHANGED <<mainVars, resp, errOf, failed, ctxErr>>

\* case <-ctx.Done(): failed <- ctx.Err()
GiveUp(b) ==
    /\ call[b] = "answered"
    /\ ctxErr # "none"
    /\ errOf' = [errOf EXCEPT ![b] = ctxErr]
    /\ call' = [call EXCEPT ![b] = "failing"]
    /\ UNCHANGED <<mainVars, resp, chanVars, ctxErr>>

\* failed <- err, failed <- errNullResult, failed <- ctx.Err()
SendFailed(b) ==
    /\ call[b] = "failing"
    /\ Len(failed) < ChanCap
    /\ failed' = Append(failed, <<b, errOf[b]>>)
    /\ call' = [call EXCEPT ![b] = "failed"]
    /\ UNCHANGED <<mainVars, resp, errOf, parts, ctxErr>>

-----------------------------------------------------------------------------
(* localCtx: context.WithTimeout(ctx, timeout)                             *)

\* The parent is done: the client went away, or the endpoint timed out.
ParentDone(e) ==
    /\ ctxErr = "none" /\ pc # "returned"
    /\ ctxErr' = e
    /\ UNCHANGED <<mainVars, workVars, chanVars>>

\* A bug to guard against: the context has no deadline of its own.
TimeoutNever == FALSE /\ UNCHANGED vars

\* The service timeout expires.
Timeout ==
    /\ ctxErr = "none" /\ pc # "returned"
    /\ ctxErr' = "deadline"
    /\ UNCHANGED <<mainVars, workVars, chanVars>>

\* The request is served and every goroutine it started is gone.
Terminated ==
    /\ pc = "returned"
    /\ \A b \in Backend : call[b] \in Over
    /\ UNCHANGED vars

Main == FilterOut \/ Spawn \/ StartCollecting \/ RecvFailed \/ RecvPart \/ Finish
Worker(b) == NextReturns(b) \/ SendPart(b) \/ GiveUp(b) \/ SendFailed(b)

Next ==
    \/ Main
    \/ \E b \in Backend : Worker(b)
    \/ \E e \in CtxErrors : ParentDone(e)
    \/ Timeout
    \/ Terminated

Spec == Init /\ [][Next]_vars

(***************************************************************************)
(* Go schedules every runnable goroutine and fires every timer.  A backend *)
(* is only assumed to return once its context is done: the HTTP client     *)
(* aborts its request then, and nothing else bounds the call.              *)
(***************************************************************************)
Fairness ==
    /\ WF_vars(Main)
    /\ WF_vars(Timeout)
    /\ \A b \in Backend :
         /\ WF_vars(NextReturns(b) /\ ctxErr # "none")
         /\ WF_vars(SendPart(b) \/ GiveUp(b) \/ SendFailed(b))

FairSpec == Spec /\ Fairness

-----------------------------------------------------------------------------
(* Properties                                                              *)

Skipped == {b \in Backend : call[b] = "skipped"}
Delivered == {b \in Backend : call[b] = "delivered"}
Failed == {b \in Backend : call[b] = "failed"}
Has(b, k) == resp[b].data[k] # Absent

TypeOK ==
    /\ pc \in {"dispatch", "collect", "returned"}
    /\ i \in 0..(N + 1)
    /\ proxyCount \in 0..N
    /\ acc \in [pending : 0..N, data : Response \cup {NoResponse}, errs : Seq(Failure)]
    /\ ret \in [data : Response \cup {NoResponse}, errs : Seq(Failure)]
    /\ call \in [Backend -> CallStates]
    /\ resp \in [Backend -> Response \cup {NoResponse}]
    /\ errOf \in [Backend -> PartErrors]
    /\ parts \in Seq(Backend)
    /\ failed \in Seq(Failure)
    /\ ctxErr \in {"none"} \cup CtxErrors

(***************************************************************************)
(* Fork and join: when parallelMerge returns, every goroutine it started   *)
(* has sent its answer and every answer has been merged; nobody is left    *)
(* behind using the request or the channels.                               *)
(***************************************************************************)
ForkJoin ==
    pc = "returned" =>
        /\ \A b \in Backend : call[b] \in Over
        /\ parts = << >> /\ failed = << >>

(***************************************************************************)
(* A goroutine that is ready to send, on either channel, finds room in it: *)
(* requestPart never waits for the collector, however far it is behind.    *)
(***************************************************************************)
SendNeverBlocks ==
    \A b \in Backend : call[b] \in {"answered", "failing"} =>
        Len(parts) < ChanCap /\ Len(failed) < ChanCap

(***************************************************************************)
(* The merged response is flagged complete exactly when no backend that    *)
(* was asked failed and all their responses were complete.  One response   *)
(* without a Data map spoils the flag unless it is the only one.           *)
(***************************************************************************)
CompleteIffAllComplete ==
    (pc = "returned" /\ ret.data # NoResponse) =>
        (ret.data.isComplete <=>
            /\ Failed = {}
            /\ \A b \in Delivered : resp[b].isComplete
            /\ \A b \in Delivered : resp[b].hasData \/ Delivered = {b})

(***************************************************************************)
(* No failure is lost and none is invented: the merge error lists, once    *)
(* each, exactly the backends whose call failed, with their own error, in  *)
(* whatever order they were received, whether or not data is returned too. *)
(***************************************************************************)
FailuresReported ==
    pc = "returned" =>
        /\ \A n \in 1..Len(ret.errs) :
              /\ ret.errs[n][1] \in Failed
              /\ ret.errs[n][2] = errOf[ret.errs[n][1]]
        /\ \A b \in Failed : \E n \in 1..Len(ret.errs) : ret.errs[n][1] = b
        /\ \A m, n \in 1..Len(ret.errs) : ret.errs[m][1] = ret.errs[n][1] => m = n

(***************************************************************************)
(* The merged data is the union of the data delivered: a key is there      *)
(* exactly when a delivered response had it, its value is the one of such  *)
(* a response, and there is no response at all only if none was delivered. *)
(* Nothing of a response that lost the race with the context leaks in.     *)
(***************************************************************************)
MergedDataIsUnion ==
    pc = "returned" =>
        /\ ret.data = NoResponse <=> Delivered = {}
        /\ ret.data # NoResponse =>
             \A k \in Key :
                 IF \E b \in Delivered : Has(b, k)
                 THEN ret.data.data[k] \in {b \in Delivered : Has(b, k)}
                 ELSE ret.data.data[k] = Absent

(***************************************************************************)
(* An answered request stays answered: no goroutine touches the result, a  *)
(* channel or a response after parallelMerge returned.                     *)
(***************************************************************************)
ReturnIsFinal ==
    [][pc = "returned" => UNCHANGED <<mainVars, workVars, chanVars>>]_vars

(***************************************************************************)
(* The request is always answered: the service timeout ends the context,   *)
(* that ends the calls, and every call hands in an answer.                 *)
(***************************************************************************)
Returns == <>(pc = "returned")

(***************************************************************************)
(* What the endpoint was promised (module MergePromise).  A backend has    *)
(* answered once its goroutine sent the answer.                            *)
(***************************************************************************)
AnswerOf(b) ==
    CASE call[b] = "failed" -> "error"
      [] call[b] = "delivered" ->
            IF ~resp[b].isComplete THEN "partial"
            ELSE IF resp[b].hasData THEN "full" ELSE "hollow"
      [] OTHER -> "none"

ResultKind ==
    CASE pc # "returned" -> "pending"
      [] ret.data = NoResponse /\ pc = "returned" ->
            IF ret.errs = << >> THEN "nothing" ELSE "error"
      [] OTHER -> IF ret.data.isComplete THEN "complete" ELSE "partial"

Promise == INSTANCE MergePromise WITH
    skipped <- Skipped,
    asked   <- {b \in Backend : call[b] \in Spawned},
    answer  <- [b \in Backend |-> AnswerOf(b)],
    result  <- ResultKind

\* parallelMerge implements the promise of a merging middleware.
KeepsPromise == Promise!Spec

-----------------------------------------------------------------------------
(* The inductive invariant                                                 *)

\* Answers the calling goroutine has taken out of the channels.
Received == IF pc = "dispatch" THEN 0 ELSE i

Ended == Delivered \cup Failed
Selected == {b \in Backend : call[b] # "skipped"}

\* Backends whose answer went through a channel and into the accumulator.
Merged == {b \in Delivered : \A n \in 1..Len(parts) : parts[n] # b}
Reported == {b \in Failed : \A n \in 1..Len(failed) : failed[n][1] # b}

\* Errors of distinct backends, each with the error of its backend.
ListsErrors(list) ==
    /\ \A n \in 1..Len(list) : list[n][1] \in Failed /\ list[n][2] = errOf[list[n][1]]
    /\ \A m, n \in 1..Len(list) : list[m][1] = list[n][1] => m = n

(***************************************************************************)
(* Every backend that was let through is, at any moment, in one of three   *)
(* places: its goroutine, a channel, the accumulator.                      *)
(***************************************************************************)
ProgressInv ==
    /\ proxyCount = Cardinality(Selected)
    /\ IF pc = "dispatch"
       THEN /\ i >= 1 /\ \A b \in Backend : call[b] = "idle" <=> b >= i
            /\ acc.data = NoResponse /\ acc.errs = << >>
       ELSE /\ \A b \in Backend : call[b] # "idle"
            /\ i <= proxyCount
            /\ acc.pending = proxyCount - i

CountInv == Cardinality(Ended) = Received + Len(parts) + Len(failed)

\* Each channel holds the answers of distinct backends that are done.
ChannelInv ==
    /\ \A b \in Backend : call[b] \in {"answered", "delivered"} =>
          resp[b] \in Response /\ \A k \in Key : resp[b].data[k] \in {b, Absent}
    /\ \A n \in 1..Len(parts) : parts[n] \in Delivered
    /\ \A m, n \in 1..Len(parts) : parts[m] = parts[n] => m = n
    /\ ListsErrors(failed)

\* The accumulated errors are those of the reported backends.
ErrorsInv ==
    /\ ListsErrors(acc.errs)
    /\ \A n \in 1..Len(acc.errs) : acc.errs[n][1] \in Reported
    /\ \A b \in Reported : \E n \in 1..Len(acc.errs) : acc.errs[n][1] = b

\* The accumulated response is the merge of the merged ones.
MergedInv ==
    /\ acc.data = NoResponse <=> Merged = {}
    /\ acc.data # NoResponse =>
        /\ \A k \in Key :
             IF \E b \in Merged : Has(b, k)
             THEN acc.data.data[k] \in {b \in Merged : Has(b, k)}
             ELSE acc.data.data[k] = Absent
        /\ \A b \in Merged : ~acc.data.hasData => (Merged = {b} /\ ~resp[b].hasData)
        /\ \A b \in Merged : Merged = {b} => acc.data.hasData = resp[b].hasData
        /\ acc.errs = << >> =>
            (acc.data.isComplete <=>
                \A b \in Merged : resp[b].isComplete /\ (resp[b].hasData \/ Merged = {b}))

ReturnInv == pc = "returned" => (i = proxyCount /\ ret = AccResult(acc))

IInv == TypeOK /\ ProgressInv /\ CountInv /\ ChannelInv /\ ErrorsInv /\ MergedInv /\ ReturnInv

=============================================================================
