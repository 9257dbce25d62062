-------------------------- MODULE ConcurrentCalls --------------------------
(***************************************************************************)
(* The concurrent middleware of proxy/concurrent.go: the same request is   *)
(* sent Calls times to the next proxy, each time by a goroutine of its     *)
(* own, and the first complete response wins.  The collector also listens  *)
(* to the context of its caller (the parent), the goroutines to the local  *)
(* one, which has the service timeout and is cancelled on return.          *)
(***************************************************************************)
EXTENDS Naturals, Sequences, FiniteSets

CONSTANT Calls    \* remote.ConcurrentCalls

ASSUME CallsAssumption == Calls \in Nat \ {0, 1}

Call == 1..Calls
CtxErrors == {"canceled", "deadline"}

VARIABLES
    pc,         \* where the collector is
    i,          \* its loop variable
    response,   \* var response *Response: 0 or the call it came from
    err,        \* var err error
    ret,        \* the values it returned
    call,       \* where the goroutine of each call is
    complete,   \* the IsComplete flag of its response
    errOf,      \* the error it holds
    results,    \* chan *Response, as the calls that sent on it
    failed,     \* chan error
    parentErr,  \* ctx.Err()
    localErr    \* localCtx.Err()

mainVars == <<pc, i, response, err, ret>>
workVars == <<call, complete, errOf>>
ctxVars == <<parentErr, localErr>>
vars == <<mainVars, workVars, results, failed, ctxVars>>

NoResult == [response |-> 0, err |-> "none"]
Over == {"delivered", "failed"}

Init ==
    /\ pc = "start"
    /\ i = 1
    /\ response = 0
    /\ err = "none"
    /\ ret = NoResult
    /\ call = [c \in Call |-> "idle"]
    /\ complete = [c \in Call |-> FALSE]
    /\ errOf = [c \in Call |-> "none"]
    /\ results = << >>
    /\ failed = << >>
    /\ parentErr = "none"
    /\ localErr = "none"

-----------------------------------------------------------------------------
(* The collector                                                           *)

\* go processConcurrentCall(localCtx, next[0], ..., results, failed)
Spawn ==
    /\ pc = "start"
    /\ call' = [call EXCEPT ![i] = "calling"]
    /\ IF i = Calls THEN pc' = "collect" /\ i' = 0 ELSE pc' = pc /\ i' = i + 1
    /\ UNCHANGED <<response, err, ret, complete, errOf, results, failed, ctxVars>>

\* cancel(); return r, e
Return(r, e) ==
    /\ pc' = "returned"
    /\ ret' = [response |-> r, err |-> e]
    /\ localErr' = IF localErr = "none" THEN "canceled" ELSE localErr

\* A bug to guard against: any response ends the collection.
RecvAnyResult ==
    /\ pc = "collect" /\ i < Calls
    /\ results # << >>
    /\ results' = Tail(results)
    /\ response' = Head(results)
    /\ Return(Head(results), "none")
    /\ i' = i
    /\ UNCHANGED <<err, workVars, failed, parentErr>>

\* case response = <-results
RecvResult ==
    /\ pc = "collect" /\ i < Calls
    /\ results # << >>
    /\ results' = Tail(results)
    /\ response' = Head(results)
    /\ IF complete[Head(results)]
       THEN Return(Head(results), "none") /\ i' = i
       ELSE i' = i + 1 /\ UNCHANGED <<pc, ret, localErr>>
    /\ UNCHANGED <<err, workVars, failed, parentErr>>

\* case err = <-failed
RecvFailed ==
    /\ pc = "collect" /\ i < Calls
    /\ failed # << >>
    /\ failed' = Tail(failed)
    /\ err' = Head(failed)
    /\ i' = i + 1
    /\ UNCHANGED <<pc, response, ret, workVars, results, ctxVars>>

\* A bug to guard against: the local context ends the wait too.
ParentGoneOnTimeout ==
    /\ pc = "collect" /\ i < Calls
    /\ localErr # "none"
    /\ i' = i + 1
    /\ UNCHANGED <<pc, response, err, ret, workVars, results, failed, ctxVars>>

\* case <-ctx.Done(): one answer less to wait for, whatever is in the channels
ParentGone ==
    /\ pc = "collect" /\ i < Calls
    /\ parentErr # "none"
    /\ i' = i + 1
    /\ UNCHANGED <<pc, response, err, ret, workVars, results, failed, ctxVars>>

\* cancel(); return response, err
Finish ==
    /\ pc = "collect" /\ i = Calls
    /\ Return(response, err)
    /\ UNCHANGED <<i, response, err, workVars, results, failed, parentErr>>

-----------------------------------------------------------------------------
(* processConcurrentCall                                                   *)

\* A bug to guard against: unbuffered channels, received from while collecting.
RoomUnbuffered(chan) == pc = "collect" /\ chan = << >>

\* make(chan *Response, remote.ConcurrentCalls), make(chan error, ...)
Room(chan) == Len(chan) < Calls

\* result, err := next(localCtx, request)
NextReturns(c) ==
    /\ call[c] = "calling"
    /\ \/ \E flag \in BOOLEAN :
            /\ complete' = [complete EXCEPT ![c] = flag]
            /\ call' = [call EXCEPT ![c] = "answered"]
            /\ UNCHANGED errOf
       \/ \E e \in {"backend", "null"} :
            /\ errOf' = [errOf EXCEPT ![c] = e]
            /\ call' = [call EXCEPT ![c] = "failing"]
            /\ UNCHANGED complete
    /\ UNCHANGED <<mainVars, results, failed, ctxVars>>

\* case out <- result
SendResult(c) ==
    /\ call[c] = "answered"
    /\ Room(results)
    /\ results' = Append(results, c)
    /\ call' = [call EXCEPT ![c] = "delivered"]
    /\ UNCHANGED <<mainVars, complete, errOf, failed, ctxVars>>

\* case <-ctx.Done(): failed <- ctx.Err()
GiveUp(c) ==
    /\ call[c] = "answered"
    /\ localErr # "none"
    /\ errOf' = [errOf EXCEPT ![c] = localErr]
    /\ call' = [call EXCEPT ![c] = "failing"]
    /\ UNCHANGED <<mainVars, complete, results, failed, ctxVars>>

\* failed <- err
SendFailed(c) ==
    /\ call[c] = "failing"
    /\ Room(failed)
    /\ failed' = Append(failed, errOf[c])
    /\ call' = [call EXCEPT ![c] = "failed"]
    /\ UNCHANGED <<mainVars, complete, errOf, results, ctxVars>>

-----------------------------------------------------------------------------
(* The contexts                                                            *)

\* The parent ends, and the local context with it.
ParentDone(e) ==
    /\ parentErr = "none" /\ pc # "returned"
    /\ parentErr' = e
    /\ localErr' = IF localErr = "none" THEN e ELSE localErr
    /\ UNCHANGED <<mainVars, workVars, results, failed>>

\* A bug to guard against: no deadline on the local context.
TimeoutNever == FALSE /\ UNCHANGED vars

\* 75% of the timeout of the backend has passed.
Timeout ==
    /\ localErr = "none" /\ pc # "returned"
    /\ localErr' = "deadline"
    /\ UNCHANGED <<mainVars, workVars, results, failed, parentErr>>

Terminated ==
    /\ pc = "returned"
    /\ \A c \in Call : call[c] \in Over
    /\ UNCHANGED vars

Main == Spawn \/ RecvResult \/ RecvFailed \/ ParentGone \/ Finish
Send(c) == SendResult(c) \/ GiveUp(c) \/ SendFailed(c)

Next ==
    \/ Main
    \/ \E c \in Call : NextReturns(c) \/ Send(c)
    \/ \E e \in CtxErrors : ParentDone(e)
    \/ Timeout
    \/ Terminated

Spec == Init /\ [][Next]_vars

\* Goroutines run, the timer fires, a call returns once its context is done.
FairSpec ==
    /\ Spec
    /\ WF_vars(Main)
    /\ WF_vars(Timeout)
    /\ \A c \in Call : WF_vars(NextReturns(c) /\ localErr # "none") /\ WF_vars(Send(c))

-----------------------------------------------------------------------------
(* Properties                                                              *)

Delivered == {c \in Call : call[c] = "delivered"}
Failed == {c \in Call : call[c] = "failed"}
Ended == Delivered \cup Failed

TypeOK ==
    /\ pc \in {"start", "collect", "returned"}
    /\ i \in 0..Calls
    /\ response \in 0..Calls
    /\ err \in {"none", "backend", "null"} \cup CtxErrors
    /\ ret \in [response : 0..Calls, err : {"none", "backend", "null"} \cup CtxErrors]
    /\ call \in [Call -> {"idle", "calling", "answered", "failing"} \cup Over]
    /\ complete \in [Call -> BOOLEAN]
    /\ errOf \in [Call -> {"none", "backend", "null"} \cup CtxErrors]
    /\ results \in Seq(Call)
    /\ failed \in Seq({"backend", "null"} \cup CtxErrors)
    /\ parentErr \in {"none"} \cup CtxErrors
    /\ localErr \in {"none"} \cup CtxErrors

(***************************************************************************)
(* No goroutine ever waits for room in a channel, not even when the        *)
(* collector returned early and nobody receives any more.                  *)
(***************************************************************************)
SendNeverBlocks ==
    \A c \in Call :
        /\ call[c] = "answered" => Room(results)
        /\ call[c] = "failing" => Room(failed)

(***************************************************************************)
(* While the caller is there, the middleware gives up on a complete        *)
(* response only when there is none: it returns without one only after     *)
(* every call has handed in something else.                                *)
(***************************************************************************)
NoCompleteResponseMissed ==
    (pc = "returned" /\ parentErr = "none" /\ (ret.response = 0 \/ ~complete[ret.response])) =>
        \A c \in Call :
            /\ call[c] \in Over
            /\ c \in Delivered => ~complete[c]

(***************************************************************************)
(* What is returned: a complete response comes alone; an incomplete one    *)
(* was delivered by one of the calls; and as long as the caller is there,  *)
(* the middleware never returns nothing at all.                            *)
(***************************************************************************)
AnswerIsMeaningful ==
    pc = "returned" =>
        /\ ret.response # 0 => ret.response \in Delivered
        /\ (ret.response # 0 /\ complete[ret.response]) => ret.err = "none"
        /\ (ret.response = 0 /\ ret.err = "none") => parentErr # "none"

\* The calls are started in order, and all of them before the first answer is received.
StartedInOrder ==
    IF pc = "start"
    THEN /\ i > 0 /\ response = 0 /\ err = "none"
         /\ \A c \in Call : call[c] = "idle" <=> c >= i
    ELSE \A c \in Call : call[c] # "idle"

\* What a call handed in is in a channel or was received, one turn of the loop each.
AnswersCounted ==
    /\ Len(results) <= Cardinality(Delivered)
    /\ Len(failed) <= Cardinality(Failed)
    /\ (pc # "returned" /\ parentErr = "none") =>
        LET received == IF pc = "start" THEN 0 ELSE i
        IN Len(results) + Len(failed) + received = Cardinality(Ended)

\* Until it returns, the collector has seen no complete response, but something.
NothingCompleteSeen ==
    /\ \A n \in 1..Len(results) : results[n] \in Delivered
    /\ \A c \in Call : call[c] = "failing" => errOf[c] # "none"
    /\ pc # "returned" =>
        /\ response # 0 => response \in Delivered /\ ~complete[response]
        /\ \A c \in Delivered : complete[c] => \E n \in 1..Len(results) : results[n] = c
        /\ (pc = "collect" /\ i > 0 /\ parentErr = "none") => (response # 0 \/ err # "none")

(***************************************************************************)
(* The collector in one inductive invariant: everything has its type, no   *)
(* sender is ever stuck, and what is returned makes sense to the caller;   *)
(* with the count of the answers and what was received that explain it.    *)
(***************************************************************************)
CollectorInv ==
    /\ TypeOK /\ SendNeverBlocks /\ AnswerIsMeaningful
    /\ StartedInOrder /\ AnswersCounted /\ NothingCompleteSeen

(***************************************************************************)
(* The workload is cancelled: the middleware answers, and every goroutine  *)
(* it started ends, the losers of the race included.                       *)
(***************************************************************************)
AnswersAndCleansUp ==
    <>(pc = "returned" /\ \A c \in Call : call[c] \in Over)

=============================================================================
