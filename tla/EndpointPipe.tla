---------------------------- MODULE EndpointPipe ----------------------------
(***************************************************************************)
(* The way back: what one request to an endpoint is answered with.  The    *)
(* backend proxy turns what the backend does into a response or an error   *)
(* (proxy/http.go, proxy/http_response.go, client/status.go), its body     *)
(* being read by one of the decoders (encoding/encoding.go), concurrent    *)
(* calls pick one answer, several backends are merged, the flatmap, plugin *)
(* and static middlewares change the result, and the handler of the router *)
(* (gin or mux) turns it into headers, a status and a body.  Meanwhile the *)
(* client may go and the timeouts fire; the body of a no-op response is    *)
(* only copied while it is rendered, and closed when its context ends.     *)
(*                                                                         *)
(* The calls themselves are those of ConcurrentCalls, and what a merger    *)
(* returns is what ParallelMerge and SequentialMerge promise.              *)
(***************************************************************************)
EXTENDS Naturals, FiniteSets

CONSTANTS
    Configs,   \* the endpoint configurations to look at
    MaxCalls   \* bound: concurrent calls

\* What the register of decoders gives for an encoding, is_collection included;
\* "none" is NoOpDecoder under another spelling than the one http.go looks for.
Decoder == {"json", "collection", "safejson", "string", "none", "no-op"}

Config ==
    [router   : {"gin", "mux"},
     render   : {"json", "string", "json-collection", "xml", "no-op"},
     decoder  : Decoder,                           \* of the only backend
     renames  : BOOLEAN,                           \* its formatter groups or maps fields
     calls    : 0..MaxCalls,                       \* of the only backend; 0: several backends
     onError  : {"default", "code", "details"},    \* the HTTPStatusHandler
     flatmap  : BOOLEAN,
     modifier : BOOLEAN,                           \* a response modifier is loaded
     static   : {"none", "always", "success", "errored", "complete", "incomplete"},
     cached   : BOOLEAN]

ASSUME MaxCallsAssumption == MaxCalls \in Nat
ASSUME ConfigsAssumption == Configs \subseteq Config

VARIABLES
    cfg,      \* the configuration of the endpoint
    pc,       \* the stage the request is in
    done,     \* why contexts ended: the client went, the timeout of the request or
              \* of the calls fired, the handler or the collector cancelled
    result,   \* what each call returned
    left,     \* answers the collector still waits for
    taken,    \* the calls it took an answer from
    resp,     \* the response on its way up
    err,      \* the error on its way up
    http      \* the answer to the client

vars == <<cfg, pc, done, result, left, taken, resp, err, http>>

Call == 1..cfg.calls
Concurrent == cfg.calls > 1

\* "content" is text, "value" is something else under that name.
Field == {"backend", "error", "content", "value", "collection", "static"}
Response == [data : SUBSET Field, complete : BOOLEAN, io : SUBSET (1..MaxCalls), is : {TRUE}]
Nil == [data |-> {}, complete |-> FALSE, io |-> {}, is |-> FALSE]   \* no response
NoError == "nil"
Error == {NoError, "plain", "http", "internal"}             \* http: it has a status code

Partial(data) == [data |-> data, complete |-> FALSE, io |-> {}, is |-> TRUE]
Whole(data) == [data |-> data, complete |-> TRUE, io |-> {}, is |-> TRUE]
Stream(c) == [data |-> {}, complete |-> TRUE, io |-> {c}, is |-> TRUE]

Outcome(r, e) == [resp |-> r, err |-> e]
Running == Outcome(Nil, "running")

NoAnswer == [status |-> "none", completed |-> FALSE, cache |-> FALSE, body |-> {}, stream |-> "none"]

Init ==
    /\ cfg \in Configs
    /\ pc = IF cfg.calls = 0 THEN "merging" ELSE "calling"
    /\ done = {}
    /\ result = [c \in Call |-> Running]
    /\ left = cfg.calls
    /\ taken = {}
    /\ resp = Nil
    /\ err = NoError
    /\ http = NoAnswer

-----------------------------------------------------------------------------
(* Contexts.  The context of a call is the one of the request, unless the  *)
(* calls are concurrent: then each has its own, below the local one.       *)

Over == {"answered", "panicked"}

RequestEnded == done \cap {"client", "timeout", "handler"} # {}
LocalEnded == RequestEnded \/ done \cap {"servicetimeout", "collector"} # {}
Ended(c) == IF Concurrent THEN LocalEnded \/ result[c] # Running ELSE RequestEnded

End(why) ==
    /\ why \notin done
    /\ done' = done \cup {why}
    /\ UNCHANGED <<cfg, pc, result, left, taken, resp, err, http>>

ClientGone == End("client")

\* A bug to guard against: no timeout for the request.
RequestTimeoutNever == FALSE /\ UNCHANGED vars

\* context.WithTimeout(c, configuration.Timeout)
RequestTimeout == End("timeout")

\* context.WithTimeout(ctx, serviceTimeout)
LocalTimeout == Concurrent /\ End("servicetimeout")

-----------------------------------------------------------------------------
(* The backend proxy                                                       *)

\* What a body may be: JSON of some kind, another text, or cut short.
Body == {"{}", "object", "withContent", "array", "number", "text", "null", "garbage", "cut"}

Unread == {"decoding failed"}

\* A bug to guard against: the collection is put where a text would be.
DecodeAsContent(decoder, body) ==
    CASE decoder = "none" \/ (decoder = "json" /\ body \in {"{}", "null"}) \/ (decoder = "safejson" /\ body = "{}") -> {}
      [] decoder = "string" /\ body # "cut" -> {"content"}
      [] decoder \in {"json", "safejson"} /\ body = "object" -> {"backend"}
      [] decoder \in {"json", "safejson"} /\ body = "withContent" -> {"backend", "content"}
      [] decoder = "collection" /\ body \in {"array", "null"} -> {"content"}
      [] decoder = "safejson" /\ body = "array" -> {"collection"}
      [] decoder = "safejson" /\ body = "text" -> {"content"}
      [] decoder = "safejson" /\ body \in {"number", "null"} -> {"value"}
      [] OTHER -> Unread

\* JSONDecoder, JSONCollectionDecoder, SafeJSONDecoder, StringDecoder and
\* NoOpDecoder: the fields they find.  A null is an object without fields, or
\* a collection without elements.
Decode(decoder, body) ==
    CASE decoder = "none" \/ (decoder = "json" /\ body \in {"{}", "null"}) \/ (decoder = "safejson" /\ body = "{}") -> {}
      [] decoder = "string" /\ body # "cut" -> {"content"}
      [] decoder \in {"json", "safejson"} /\ body = "object" -> {"backend"}
      [] decoder \in {"json", "safejson"} /\ body = "withContent" -> {"backend", "content"}
      [] decoder = "collection" /\ body \in {"array", "null"} -> {"collection"}
      [] decoder = "safejson" /\ body = "array" -> {"collection"}
      [] decoder = "safejson" /\ body = "text" -> {"content"}
      [] decoder = "safejson" /\ body \in {"number", "null"} -> {"value"}
      [] OTHER -> Unread

\* What the formatter leaves of the data: EntityFormatter says which exactly.
\* A group is a field even around nothing.
Formatted(data) == IF cfg.renames THEN {{}, {"backend"}} ELSE SUBSET data

\* What the status handler and the parser make of an answer of the backend.
Parsed(c) ==
    IF cfg.decoder = "no-op" THEN {Outcome(Stream(c), NoError)}
    ELSE LET read == {Decode(cfg.decoder, b) : b \in Body} IN
         {Outcome(Whole(d), NoError) : d \in UNION {Formatted(data) : data \in read \ {Unread}}}
         \cup (IF Unread \in read THEN {Outcome(Nil, "plain")} ELSE {})

\* Any other status than 200 or 201.
Refused(c) ==
    CASE cfg.decoder = "no-op"    -> {Outcome(Stream(c), NoError)}
      [] cfg.onError = "default" -> {Outcome(Nil, "plain")}
      [] cfg.onError = "code"    -> {Outcome(Nil, "http")}
      [] cfg.onError = "details" -> {Outcome(Partial({"error"}), NoError)}

\* A bug to guard against: the error of a context that ended is lost.
HTTPProxyNoCtxError(c) ==
    Parsed(c) \cup Refused(c) \cup {Outcome(Nil, IF Ended(c) THEN NoError ELSE "plain")}

\* NewHTTPProxyDetailed: no request, no answer in time, or an answer.
HTTPProxy(c) ==
    {Outcome(Nil, "plain")} \cup IF Ended(c) THEN {} ELSE Parsed(c) \cup Refused(c)

\* The call returns.  processConcurrentCall turns no response into an error, and
\* ends the context of the call as soon as it handed the answer over.
BackendReturns(c) ==
    /\ result[c] = Running
    /\ \E o \in HTTPProxy(c) :
         result' = [result EXCEPT ![c] = IF Concurrent /\ o = Outcome(Nil, NoError)
                                         THEN Outcome(Nil, "plain") ELSE o]
    /\ UNCHANGED <<cfg, pc, done, left, taken, resp, err, http>>

OneCall ==
    /\ pc = "calling" /\ ~Concurrent
    /\ result[1] # Running
    /\ resp' = result[1].resp
    /\ err' = result[1].err
    /\ pc' = "modifiers"
    /\ UNCHANGED <<cfg, done, result, left, taken, http>>

\* One turn of the collector of the concurrent calls.
Collect(c) ==
    /\ pc = "calling" /\ Concurrent /\ left > 0
    /\ c \notin taken /\ result[c] # Running
    /\ LET first  == result[c].resp.complete
           failed == result[c].err # NoError
       IN /\ left' = IF first THEN 0 ELSE left - 1
          /\ resp' = IF failed THEN resp ELSE result[c].resp
          /\ err' = IF first THEN NoError ELSE IF failed THEN result[c].err ELSE err
    /\ taken' = taken \cup {c}
    /\ UNCHANGED <<cfg, pc, done, result, http>>

\* case <-ctx.Done():
CollectNothing ==
    /\ pc = "calling" /\ Concurrent /\ left > 0
    /\ RequestEnded
    /\ left' = left - 1
    /\ UNCHANGED <<cfg, pc, done, result, taken, resp, err, http>>

\* cancel(), and return
Collected ==
    /\ pc = "calling" /\ Concurrent /\ left = 0
    /\ done' = done \cup {"collector"}
    /\ pc' = "modifiers"
    /\ UNCHANGED <<cfg, result, left, taken, resp, err, http>>

\* Several backends: all of them failed, some did, or none; or every one was
\* left out by its filter, and there is neither a response nor an error.  The
\* error of the first of a sequence is returned as it is, with its status.
MergeReturns ==
    /\ pc = "merging"
    /\ \E o \in {Outcome(Nil, NoError), Outcome(Nil, "plain"), Outcome(Nil, "http")}
               \cup {Outcome(Partial(d), e) : d \in {{}, {"backend"}, {"error"}}, e \in {NoError, "plain"}}
               \cup {Outcome(Whole(d), NoError) : d \in {{}, {"backend", "content"}}} :
         resp' = o.resp /\ err' = o.err
    /\ pc' = "flatmap"
    /\ UNCHANGED <<cfg, done, result, left, taken, http>>

-----------------------------------------------------------------------------
(* The middlewares of the endpoint                                         *)

Panic == pc' = "panicked" /\ UNCHANGED <<resp, err>>

\* NewFlatmapMiddleware: formatter.Format(*resp) unless there is an error.
Flatmap ==
    /\ pc = "flatmap"
    /\ \/ cfg.flatmap /\ err = NoError /\ resp = Nil /\ Panic
       \/ /\ cfg.flatmap /\ err = NoError /\ resp # Nil
          /\ \E d \in {resp.data, {}} : resp' = [resp EXCEPT !.data = d]
          /\ pc' = "modifiers"
          /\ UNCHANGED err
       \/ /\ ~cfg.flatmap \/ err # NoError
          /\ pc' = "modifiers"
          /\ UNCHANGED <<resp, err>>
    /\ UNCHANGED <<cfg, done, result, left, taken, http>>

\* newPluginMiddleware: executeResponseModifiers reads r.Data unless there is
\* an error.  What the modifiers of a plugin do is theirs.
Modifiers ==
    /\ pc = "modifiers"
    /\ \/ cfg.modifier /\ err = NoError /\ resp = Nil /\ Panic
       \/ /\ cfg.modifier /\ err = NoError /\ resp # Nil
          /\ \/ resp' = Nil /\ err' = "plain"
             \/ UNCHANGED <<resp, err>>
          /\ pc' = "static"
       \/ /\ ~cfg.modifier \/ err # NoError
          /\ pc' = "static"
          /\ UNCHANGED <<resp, err>>
    /\ UNCHANGED <<cfg, done, result, left, taken, http>>

Matches ==
    CASE cfg.static = "none"       -> FALSE
      [] cfg.static = "always"     -> TRUE
      [] cfg.static = "success"    -> err = NoError
      [] cfg.static = "errored"    -> err # NoError
      [] cfg.static = "complete"   -> err = NoError /\ resp # Nil /\ resp.complete
      [] cfg.static = "incomplete" -> resp = Nil \/ ~resp.complete

\* A bug to guard against: the static data needs a response to be added to.
StaticNeedsResponse ==
    /\ pc = "static"
    /\ resp' = IF Matches /\ resp # Nil THEN [resp EXCEPT !.data = @ \cup {"static"}] ELSE resp
    /\ pc' = "handler"
    /\ UNCHANGED <<cfg, done, result, left, taken, err, http>>

\* NewStaticMiddleware: the error stays.
Static ==
    /\ pc = "static"
    /\ resp' = IF ~Matches THEN resp
               ELSE IF resp = Nil THEN Partial({"static"})
               ELSE [resp EXCEPT !.data = @ \cup {"static"}]
    /\ pc' = "handler"
    /\ UNCHANGED <<cfg, done, result, left, taken, err, http>>

-----------------------------------------------------------------------------
(* The handler of the endpoint and its render                              *)

\* case <-requestCtx.Done(): if err == nil { err = server.ErrInternalError }
CheckedError == IF RequestEnded /\ err = NoError THEN "internal" ELSE err

\* A bug to guard against: no error is taken for a complete response.
CompletedIfNoError == resp # Nil /\ resp.data # {} /\ err = NoError

Completed == resp # Nil /\ resp.data # {} /\ resp.complete

\* The error is answered instead of a response: gin has to have no response,
\* mux no data.
AnswersError ==
    /\ CheckedError # NoError
    /\ IF cfg.router = "gin" THEN resp = Nil ELSE resp = Nil \/ resp.data = {}

\* What the render shows of the data.
Shown ==
    IF resp = Nil THEN {}
    ELSE CASE cfg.render = "string" -> resp.data \cap {"content"}
           [] cfg.render = "xml" -> resp.data \cap {"content", "value"}
           [] cfg.render = "json-collection" -> resp.data \cap {"collection"}
           [] OTHER -> resp.data

\* CustomErrorEndpointHandler of gin, CustomEndpointHandlerWithHTTPError of mux
Handle ==
    /\ pc = "handler"
    /\ err' = CheckedError
    /\ LET headers == [NoAnswer EXCEPT !.completed = Completed, !.cache = Completed /\ cfg.cached]
       IN IF AnswersError
          THEN /\ http' = [headers EXCEPT !.status = IF CheckedError = "http" THEN "backend" ELSE "500"]
               /\ pc' = "answered"
               /\ done' = done \cup {"handler"}
          ELSE /\ http' = headers
               /\ pc' = "rendering"
               /\ UNCHANGED done
    /\ UNCHANGED <<cfg, result, left, taken, resp>>

\* cancel()
Answer(answer) ==
    /\ http' = answer
    /\ pc' = "answered"
    /\ done' = done \cup {"handler"}
    /\ UNCHANGED <<cfg, result, left, taken, resp, err>>

\* jsonRender, stringRender and the like
Render ==
    /\ pc = "rendering" /\ cfg.render # "no-op"
    /\ Answer([http EXCEPT !.status = "200", !.body = Shown])

\* The status in the metadata of a response without a body: only the details of an error bring
\* that of the backend, which a merge or a flatmap may lose; none is written as 200.
StatusInMetadata ==
    CASE resp = Nil           -> {"500"}
      [] cfg.calls = 0        -> {"200", "backend"}
      [] "error" \in resp.data -> {"backend"}
      [] OTHER                -> {"200"}

\* noopRender without a response body to copy
RenderNoBody ==
    /\ pc = "rendering" /\ cfg.render = "no-op"
    /\ resp.io = {}
    /\ \E status \in StatusInMetadata : Answer([http EXCEPT !.status = status])

\* A bug to guard against: the request is cancelled before it is rendered.
RenderStreamCancelled ==
    /\ pc = "rendering" /\ cfg.render = "no-op" /\ resp.io # {}
    /\ http' = [http EXCEPT !.status = "backend"]
    /\ pc' = "copying"
    /\ done' = done \cup {"handler"}
    /\ UNCHANGED <<cfg, result, left, taken, resp, err>>

\* noopRender: headers and status first, then the body is copied.
RenderStream ==
    /\ pc = "rendering" /\ cfg.render = "no-op" /\ resp.io # {}
    /\ http' = [http EXCEPT !.status = "backend"]
    /\ pc' = "copying"
    /\ UNCHANGED <<cfg, done, result, left, taken, resp, err>>

\* io.Copy ends at the end of the body, because the backend broke off, or because
\* the context of the call closed it (closeOnCancel): any may be seen first.
Copied ==
    /\ pc = "copying"
    /\ \E s \in {"whole", "broken"} \cup (IF \E c \in resp.io : Ended(c) THEN {"cut"} ELSE {}) :
         Answer([http EXCEPT !.stream = s])

Terminated ==
    /\ pc \in Over
    /\ \A c \in Call : result[c] # Running
    /\ UNCHANGED vars

Pipe ==
    \/ OneCall \/ CollectNothing \/ Collected \/ MergeReturns \/ Flatmap \/ Modifiers
    \/ Static \/ Handle \/ Render \/ RenderNoBody \/ RenderStream \/ Copied

Next ==
    \/ ClientGone \/ RequestTimeout \/ LocalTimeout \/ Pipe
    \/ \E c \in Call : BackendReturns(c) \/ Collect(c)
    \/ Terminated

Spec == Init /\ [][Next]_vars

(***************************************************************************)
(* The runtime runs goroutines and fires timers.  A backend need not       *)
(* answer: its call returns once its context ended.                        *)
(***************************************************************************)
FairSpec ==
    /\ Spec
    /\ WF_vars(RequestTimeout)
    /\ WF_vars(Pipe)
    /\ \A c \in 1..MaxCalls :
         /\ WF_vars(c \in Call /\ Collect(c))
         /\ WF_vars(c \in Call /\ Ended(c) /\ BackendReturns(c))

-----------------------------------------------------------------------------
(* Properties                                                              *)

TypeOK ==
    /\ cfg \in Configs
    /\ pc \in Over \cup {"calling", "merging", "flatmap", "modifiers", "static", "handler",
                         "rendering", "copying"}
    /\ done \subseteq {"client", "timeout", "servicetimeout", "handler", "collector"}
    /\ result \in [Call -> [resp : Response \cup {Nil}, err : Error \cup {"running"}]]
    /\ left \in 0..MaxCalls
    /\ taken \subseteq Call
    /\ resp \in Response \cup {Nil}
    /\ err \in Error
    /\ http \in [status : {"none", "200", "500", "backend"}, completed : BOOLEAN, cache : BOOLEAN,
                 body : SUBSET Field, stream : {"none", "whole", "broken", "cut"}]

\* A call returns either a response or an error, never neither, and a response
\* holds only what the decoder finds, unless the formatter renames it.
EitherResponseOrError ==
    \A c \in Call : result[c] # Running =>
        /\ result[c].err \in Error
        /\ result[c].err = NoError <=> result[c].resp # Nil
        /\ (result[c].resp.complete /\ ~cfg.renames) =>
             /\ cfg.decoder = "string" => result[c].resp.data \subseteq {"content"}
             /\ cfg.decoder = "collection" => result[c].resp.data \subseteq {"collection"}

\* The response on its way up is the one of a call c that was taken.
From(c) ==
    /\ Concurrent => c \in taken
    /\ result[c].err = NoError
    /\ resp.complete = result[c].resp.complete
    /\ resp.io = result[c].resp.io
    /\ resp.data \subseteq result[c].resp.data \cup (IF cfg.static = "none" THEN {} ELSE {"static"})

\* Where the response comes from, and what nobody having one means: while the
\* request lasts each answer the collector took left a response or an error.
OriginOfResponse ==
    /\ pc = "calling" => cfg.calls > 0
    /\ cfg.calls > 0 =>
         /\ pc \notin {"merging", "flatmap"}
         /\ resp # Nil => resp = Partial({"static"}) \/ \E c \in Call : From(c)
         /\ (pc = "calling" /\ ~RequestEnded) => taken # {} \/ left = cfg.calls
         /\ (pc = "calling" /\ taken # {}) => resp # Nil \/ err # NoError
         /\ (pc \in {"modifiers", "static", "handler"} /\ resp = Nil /\ err = NoError) =>
               Concurrent /\ RequestEnded

\* What the static middleware leaves behind.
StaticIsThere ==
    (cfg.static = "always" /\ pc \in {"handler", "rendering", "copying", "answered"}) =>
        "static" \in resp.data

\* What the client was told so far, stage by stage.
ToldInOrder ==
    /\ http.completed => Completed
    /\ http.cache => http.completed
    /\ pc \notin {"rendering", "copying", "answered"} => http = NoAnswer
    /\ pc = "rendering" => http.status = "none" /\ (resp = Nil => cfg.calls = 0)
    /\ pc = "copying" => http.status = "backend" /\ cfg.render = "no-op"
    /\ http.status = "200" =>
         /\ pc = "answered"
         /\ resp = Nil => cfg.calls = 0
         /\ cfg.render # "no-op" => http.body = Shown
    /\ (http.status # "200" /\ pc = "answered") => AnswersError \/ cfg.render = "no-op"
    /\ "handler" \in done => pc = "answered"

(***************************************************************************)
(* A client is told that its answer is complete, and a cache that it may   *)
(* keep it, only if the backend answered completely, however many calls    *)
(* failed or timed out meanwhile and whatever the middlewares added.       *)
(***************************************************************************)
CompletionIsHonest ==
    http.completed \/ http.cache =>
        /\ http.completed /\ resp.complete
        /\ cfg.calls > 0 => \E c \in Call : result[c].err = NoError /\ result[c].resp.complete

(***************************************************************************)
(* A request is answered with success only if there is something to        *)
(* answer: a response of a call that was taken, or static data.  Only if   *)
(* several backends were all left out by filters it is an empty success.   *)
(***************************************************************************)
SuccessNeedsResponse ==
    http.status = "200" =>
        \/ cfg.calls = 0
        \/ "static" \in resp.data
        \/ \E c \in Call : result[c].resp # Nil /\ (Concurrent => c \in taken)

(***************************************************************************)
(* The static strategy "always" means it: whatever failed before, timeouts *)
(* and modifiers included, the client gets the static data and a 200.      *)
(***************************************************************************)
StaticAlwaysAnswers ==
    (cfg.static = "always" /\ cfg.render = "json" /\ pc = "answered") =>
        http.status = "200" /\ "static" \in http.body

\* The render shows what the decoder makes.
Looks(render, decoder) ==
    <<render, decoder>> \in {<<"string", "string">>, <<"xml", "string">>,
                            <<"json-collection", "collection">>}

(***************************************************************************)
(* An answer that is called complete is not empty: in JSON whatever it     *)
(* holds is shown, and where the other renders look for what the decoder   *)
(* of the only backend makes - text as text, the list of a collection - no *)
(* formatter may have moved it, and no static data may be all there is.    *)
(***************************************************************************)
CompleteIsNotEmpty ==
    (http.completed /\ http.status = "200") =>
        /\ cfg.render = "json" => http.body # {}
        /\ (Looks(cfg.render, cfg.decoder) /\ cfg.calls > 0 /\ ~cfg.renames /\ cfg.static = "none") =>
              http.body # {}

(***************************************************************************)
(* What an answer with success rests on, whatever failed on the way: the   *)
(* last three say so, the ones before are what makes them inductive.       *)
(***************************************************************************)
AnswerInv ==
    /\ TypeOK
    /\ EitherResponseOrError
    /\ OriginOfResponse
    /\ StaticIsThere
    /\ ToldInOrder
    /\ SuccessNeedsResponse
    /\ StaticAlwaysAnswers
    /\ CompleteIsNotEmpty

(***************************************************************************)
(* A middleware dereferences a missing response only if every backend was  *)
(* left out, or the request ended while concurrent calls were collected.   *)
(***************************************************************************)
PanicExplained ==
    pc = "panicked" => cfg.calls = 0 \/ (Concurrent /\ RequestEnded)

(***************************************************************************)
(* The body of a no-op response is closed while it is copied only because  *)
(* the client went or the endpoint timed out, or because the response is   *)
(* that of a concurrent call, whose context has ended by then; otherwise   *)
(* it ends where the backend ended it, early or not.                       *)
(***************************************************************************)
CutExplained ==
    http.stream = "cut" => Concurrent \/ done \cap {"client", "timeout"} # {}

(***************************************************************************)
(* A handler that panics and a body that is cut have a reason: the two     *)
(* properties above in one.                                                *)
(***************************************************************************)
BreaksExplained == PanicExplained /\ CutExplained

(***************************************************************************)
(* Whatever the backends do, the client is answered and every call ends.   *)
(***************************************************************************)
Answered == <>(pc \in Over) /\ <>(\A c \in Call : result[c] # Running)

=============================================================================
