------------------------- MODULE EndpointPipeProofs -------------------------
(***************************************************************************)
(* Proofs about EndpointPipe, for every set of configurations and any      *)
(* number of concurrent calls: what an answer with success rests on,       *)
(* that completion is honest, and that panics and cut bodies have their    *)
(* reasons.  AnswerInv is inductive; each of its parts is shown to be kept *)
(* by every step in a lemma of its own.                                    *)
(*                                                                         *)
(* And about EntityFormatter: any formatter does to any object what it is  *)
(* configured for.  The lists are folded into trees, the trees are walked  *)
(* with the object, and the mapping is followed field by field.            *)
(***************************************************************************)
EXTENDS MCEndpointPipe, FiniteSetTheorems, WellFoundedInduction, TLAPS

(***************************************************************************)
(* What the decoders find is a set of fields, or the body was not read.    *)
(***************************************************************************)
LEMMA DecodeFacts ==
    ASSUME NEW decoder \in Decoder, NEW b \in Body, Decode(decoder, b) # Unread
    PROVE  /\ Decode(decoder, b) \subseteq Field
           /\ decoder = "string" => Decode(decoder, b) = {"content"}
           /\ decoder = "collection" => Decode(decoder, b) = {"collection"}
  <1>1. CASE decoder = "string"
    BY <1>1 DEF Decode, Field
  <1>2. CASE decoder = "collection"
    BY <1>2 DEF Decode, Field
  <1>3. CASE decoder = "json"
    BY <1>3 DEF Decode, Field
  <1>4. CASE decoder = "safejson"
    <2>1. CASE b \in {"array", "number", "null", "text"}
      BY <1>4, <2>1 DEF Decode, Field
    <2>2. CASE b \notin {"array", "number", "null", "text"}
      BY <1>4, <2>2 DEF Decode, Field
    <2>3. QED
      BY <2>1, <2>2
  <1>5. CASE decoder \in {"none", "no-op"}
    BY <1>5 DEF Decode, Field
  <1>6. QED
    BY <1>1, <1>2, <1>3, <1>4, <1>5 DEF Decoder

(***************************************************************************)
(* What the HTTP proxy may return: a response or an error, never neither,  *)
(* and what the decoder finds, unless the formatter renames it.            *)
(***************************************************************************)
LEMMA ProxyFacts ==
    ASSUME TypeOK, NEW c \in Call, NEW o \in HTTPProxy(c)
    PROVE  /\ o \in [resp : Response \cup {Nil}, err : Error]
           /\ o.err = NoError <=> o.resp # Nil
           /\ (o.resp.complete /\ ~cfg.renames) =>
                /\ cfg.decoder = "string" => o.resp.data \subseteq {"content"}
                /\ cfg.decoder = "collection" => o.resp.data \subseteq {"collection"}
  <1>1. cfg \in Config /\ c \in 1..MaxCalls
    BY ConfigsAssumption, MaxCallsAssumption DEF TypeOK, Config, Call
  <1>2. CASE o = Outcome(Nil, "plain") \/ o = Outcome(Nil, "http")
    <2>1. o.resp = Nil /\ o.err # NoError /\ o \in [resp : Response \cup {Nil}, err : Error]
      BY <1>2 DEF Outcome, Error, NoError
    <2>2. ~Nil.complete
      BY DEF Nil
    <2>3. QED
      BY <2>1, <2>2
  <1>3. CASE o = Outcome(Stream(c), NoError) /\ cfg.decoder = "no-op"
    BY <1>1, <1>3 DEF Outcome, Stream, Response, Nil, Error, NoError
  <1>4. CASE o = Outcome(Partial({"error"}), NoError)
    BY <1>1, <1>4 DEF Outcome, Partial, Response, Nil, Error, NoError, Field
  <1>5. ASSUME NEW b \in Body, Decode(cfg.decoder, b) # Unread,
               NEW d \in Formatted(Decode(cfg.decoder, b)),
               o = Outcome(Whole(d), NoError)
        PROVE  /\ o \in [resp : Response \cup {Nil}, err : Error]
               /\ o.err = NoError <=> o.resp # Nil
               /\ (o.resp.complete /\ ~cfg.renames) =>
                    /\ cfg.decoder = "string" => o.resp.data \subseteq {"content"}
                    /\ cfg.decoder = "collection" => o.resp.data \subseteq {"collection"}
    <2>1. d \subseteq Field
      BY <1>1, <1>5, DecodeFacts DEF Config, Formatted, Field
    <2>2. Whole(d) \in Response /\ Whole(d) # Nil
      BY <2>1 DEF Whole, Response, Nil
    <2>3. o.resp = Whole(d) /\ o.err = NoError /\ o \in [resp : Response \cup {Nil}, err : Error]
      BY <1>5, <2>2 DEF Outcome, Error, NoError
    <2>4. ~cfg.renames => d \subseteq Decode(cfg.decoder, b)
      BY <1>5 DEF Formatted
    <2>5. o.resp.data = d
      BY <2>3 DEF Whole
    <2>6. QED
      BY <1>1, <1>5, <2>2, <2>3, <2>4, <2>5, DecodeFacts DEF Config
  <1>6. o \in Parsed(c) =>
          \/ o = Outcome(Stream(c), NoError) /\ cfg.decoder = "no-op"
          \/ o = Outcome(Nil, "plain")
          \/ \E b \in Body : /\ Decode(cfg.decoder, b) # Unread
                             /\ \E d \in Formatted(Decode(cfg.decoder, b)) : o = Outcome(Whole(d), NoError)
    BY Zenon DEF Parsed
  <1>7. o \in Refused(c) =>
          \/ o = Outcome(Stream(c), NoError) /\ cfg.decoder = "no-op"
          \/ o = Outcome(Nil, "plain") \/ o = Outcome(Nil, "http")
          \/ o = Outcome(Partial({"error"}), NoError)
    BY <1>1 DEF Refused, Config
  <1>8. QED
    BY <1>2, <1>3, <1>4, <1>5, <1>6, <1>7 DEF HTTPProxy

\* The responses the pipe itself makes, and what the types of the variables are.
LEMMA ResponseFacts ==
    /\ ~Nil.complete /\ Nil.data = {} /\ Nil.io = {}
    /\ \A d \in SUBSET Field : Partial(d) \in Response /\ Whole(d) \in Response
    /\ \A r \in Response : r # Nil
    /\ \A r \in Response, d \in SUBSET Field :
         /\ [r EXCEPT !.data = d] \in Response
         /\ [r EXCEPT !.data = d].complete = r.complete
         /\ [r EXCEPT !.data = d].io = r.io
         /\ [r EXCEPT !.data = d].data = d
    /\ \A r \in Response : r.data \subseteq Field /\ r.complete \in BOOLEAN
  <1>1. ~Nil.complete /\ Nil.data = {} /\ Nil.io = {}
    BY DEF Nil
  <1>2. ASSUME NEW d \in SUBSET Field PROVE Partial(d) \in Response /\ Whole(d) \in Response
    <2>1. Partial(d) \in Response
      BY DEF Partial, Response
    <2>2. Whole(d) \in Response
      BY DEF Whole, Response
    <2>3. QED
      BY <2>1, <2>2
  <1>3. \A r \in Response : r # Nil
    <2>1. \A r \in Response : r.is = TRUE
      BY DEF Response
    <2>2. Nil.is = FALSE
      BY DEF Nil
    <2>3. QED
      BY <2>1, <2>2
  <1>4. ASSUME NEW r \in Response, NEW d \in SUBSET Field
        PROVE  /\ [r EXCEPT !.data = d] \in Response
               /\ [r EXCEPT !.data = d].complete = r.complete
               /\ [r EXCEPT !.data = d].io = r.io
               /\ [r EXCEPT !.data = d].data = d
    BY DEF Response
  <1>5. \A r \in Response : r.data \subseteq Field /\ r.complete \in BOOLEAN
    BY DEF Response
  <1>6. QED
    BY <1>1, <1>2, <1>3, <1>4, <1>5

-----------------------------------------------------------------------------
(* Every variable keeps its type                                           *)

LEMMA InitTypeOK == Init => TypeOK
  <1> SUFFICES ASSUME Init PROVE TypeOK
    OBVIOUS
  <1>1. cfg \in Config /\ cfg.calls \in 0..MaxCalls
    BY ConfigsAssumption DEF Init, Config
  <1>2. result \in [Call -> [resp : Response \cup {Nil}, err : Error \cup {"running"}]]
    BY DEF Init, Running, Outcome
  <1>3. http \in [status : {"none", "200", "500", "backend"}, completed : BOOLEAN, cache : BOOLEAN,
                  body : SUBSET Field, stream : {"none", "whole", "broken", "cut"}]
    BY DEF Init, NoAnswer
  <1>4. QED
    BY <1>1, <1>2, <1>3 DEF Init, TypeOK, Over, Error, NoError

LEMMA ShownFacts ==
    ASSUME TypeOK PROVE Shown \subseteq Field
  <1>1. resp.data \subseteq Field
    BY ResponseFacts DEF TypeOK
  <1>2. QED
    BY <1>1 DEF Shown

LEMMA StepTypeOK ==
    TypeOK /\ EitherResponseOrError /\ OriginOfResponse /\ [Next]_vars => TypeOK'
  <1> SUFFICES ASSUME TypeOK, EitherResponseOrError, OriginOfResponse, [Next]_vars PROVE TypeOK'
    OBVIOUS
  <1> DEFINE Answers == [status : {"none", "200", "500", "backend"}, completed : BOOLEAN, cache : BOOLEAN,
                         body : SUBSET Field, stream : {"none", "whole", "broken", "cut"}]
  <1>0. /\ cfg \in Config /\ cfg.calls \in 0..MaxCalls
        /\ http \in Answers
    BY ConfigsAssumption DEF TypeOK, Config
  <1>1. ASSUME NEW why \in {"client", "timeout", "servicetimeout"}, End(why) PROVE TypeOK'
    BY <1>1 DEF End, TypeOK, Call
  <1>r. ASSUME NEW c \in Call, result[c] # Running
        PROVE  result[c].resp \in Response \cup {Nil} /\ result[c].err \in Error
    <2>1. result[c] \in [resp : Response \cup {Nil}, err : Error \cup {"running"}]
      BY DEF TypeOK
    <2>2. QED
      BY <1>r, <2>1 DEF EitherResponseOrError
  <1>2. ASSUME NEW c \in Call, BackendReturns(c) PROVE TypeOK'
    <2>1. PICK o \in HTTPProxy(c) :
            result' = [result EXCEPT ![c] = IF Concurrent /\ o = Outcome(Nil, NoError)
                                            THEN Outcome(Nil, "plain") ELSE o]
      BY <1>2 DEF BackendReturns
    <2>2. o \in [resp : Response \cup {Nil}, err : Error]
      BY ProxyFacts
    <2>3. Outcome(Nil, "plain") \in [resp : Response \cup {Nil}, err : Error]
      BY DEF Outcome, Error
    <2>4. result' \in [Call -> [resp : Response \cup {Nil}, err : Error \cup {"running"}]]
      BY <2>1, <2>2, <2>3 DEF TypeOK
    <2>5. QED
      BY <2>4, <1>2, Zenon DEF BackendReturns, TypeOK, Call
  <1>3. CASE OneCall
    <2>1. 1 \in Call
      BY <1>0, <1>3, MaxCallsAssumption DEF OneCall, Concurrent, Call, OriginOfResponse
    <2>2. result[1].resp \in Response \cup {Nil} /\ result[1].err \in Error
      BY <1>3, <1>r, <2>1 DEF OneCall
    <2>3. QED
      BY <1>3, <2>2 DEF OneCall, TypeOK, Call
  <1>4. ASSUME NEW c \in Call, Collect(c) PROVE TypeOK'
    <2>1. result[c].resp \in Response \cup {Nil} /\ result[c].err \in Error
      BY <1>4, <1>r DEF Collect
    <2>2. left' \in 0..MaxCalls
      BY <1>4, MaxCallsAssumption DEF Collect, TypeOK
    <2>3. resp' \in Response \cup {Nil} /\ err' \in Error
      BY <1>4, <2>1 DEF Collect, TypeOK, Error, NoError
    <2>4. QED
      BY <1>4, <2>2, <2>3 DEF Collect, TypeOK, Call
  <1>5. CASE CollectNothing
    BY <1>5, <1>0, MaxCallsAssumption DEF CollectNothing, TypeOK, Call
  <1>6. CASE Collected
    BY <1>6 DEF Collected, TypeOK, Call
  <1>7. CASE MergeReturns
    <2>1. PICK o \in {Outcome(Nil, NoError), Outcome(Nil, "plain"), Outcome(Nil, "http")}
               \cup {Outcome(Partial(d), e) : d \in {{}, {"backend"}, {"error"}}, e \in {NoError, "plain"}}
               \cup {Outcome(Whole(d), NoError) : d \in {{}, {"backend", "content"}}} :
               resp' = o.resp /\ err' = o.err
      BY <1>7 DEF MergeReturns
    <2>2. o.resp \in Response \cup {Nil} /\ o.err \in Error
      BY ResponseFacts DEF Outcome, Field, Error, NoError
    <2>3. QED
      BY <1>7, <2>1, <2>2 DEF MergeReturns, TypeOK, Call
  <1>8. CASE Flatmap
    <2>1. resp # Nil => \A d \in {resp.data, {}} : [resp EXCEPT !.data = d] \in Response
      BY ResponseFacts DEF TypeOK
    <2>2. QED
      BY <1>8, <2>1 DEF Flatmap, Panic, TypeOK, Call, Over
  <1>9. CASE Modifiers
    BY <1>9 DEF Modifiers, Panic, TypeOK, Call, Over, Error
  <1>10. CASE Static
    <2>1. Partial({"static"}) \in Response
      BY ResponseFacts DEF Field
    <2>2. resp # Nil => [resp EXCEPT !.data = @ \cup {"static"}] \in Response
      BY ResponseFacts DEF TypeOK, Field
    <2>3. resp' \in Response \cup {Nil}
      BY <1>10, <2>1, <2>2 DEF Static, TypeOK
    <2>4. QED
      BY <1>10, <2>3 DEF Static, TypeOK, Call
  <1>11. CASE Handle
    <2>1. CheckedError \in Error
      BY DEF CheckedError, TypeOK, Error
    <2>2. Completed \in BOOLEAN /\ (Completed /\ cfg.cached) \in BOOLEAN
      BY Zenon DEF Completed
    <2>3. http' \in Answers
      BY <1>11, <2>2 DEF Handle, NoAnswer
    <2>4. QED
      BY <1>11, <2>1, <2>3 DEF Handle, TypeOK, Call, Over
  <1>12. CASE Render
    BY <1>12, <1>0, ShownFacts DEF Render, Answer, TypeOK, Call, Over
  <1>13. CASE RenderNoBody
    <2>1. PICK status \in StatusInMetadata :
            http' = [http EXCEPT !.status = status] /\ pc' = "answered"
      BY <1>13 DEF RenderNoBody, Answer
    <2>2. status \in {"500", "200", "backend"}
      BY <2>1 DEF StatusInMetadata
    <2>3. QED
      BY <1>13, <1>0, <2>1, <2>2 DEF RenderNoBody, Answer, TypeOK, Call, Over
  <1>14. CASE RenderStream
    BY <1>14, <1>0 DEF RenderStream, TypeOK, Call, Over
  <1>15. CASE Copied
    BY <1>15, <1>0 DEF Copied, Answer, TypeOK, Call, Over
  <1>16. CASE UNCHANGED vars
    BY <1>16 DEF vars, TypeOK, Call
  <1>17. QED
    BY <1>1, <1>2, <1>3, <1>4, <1>5, <1>6, <1>7, <1>8, <1>9, <1>10, <1>11, <1>12, <1>13, <1>14, <1>15, <1>16
       DEF Next, Pipe, ClientGone, RequestTimeout, LocalTimeout, Terminated

-----------------------------------------------------------------------------
(* The calls and what becomes of their answers                             *)

\* No step but the return of a call changes what the calls returned.
LEMMA StepEitherResponseOrError ==
    TypeOK /\ EitherResponseOrError /\ [Next]_vars => EitherResponseOrError'
  <1> SUFFICES ASSUME TypeOK, EitherResponseOrError, [Next]_vars
               PROVE  EitherResponseOrError'
    OBVIOUS
  <1>1. ASSUME NEW c \in Call, BackendReturns(c) PROVE EitherResponseOrError'
    <2>1. PICK o \in HTTPProxy(c) :
            result' = [result EXCEPT ![c] = IF Concurrent /\ o = Outcome(Nil, NoError)
                                            THEN Outcome(Nil, "plain") ELSE o]
      BY <1>1 DEF BackendReturns
    <2>2. o # Outcome(Nil, NoError)
      BY ProxyFacts DEF Outcome
    <2>3. result' = [result EXCEPT ![c] = o]
      BY <2>1, <2>2
    <2>4. cfg' = cfg /\ Call' = Call
      BY <1>1 DEF BackendReturns, Call
    <2>5. result'[c] = o /\ \A d \in Call \ {c} : result'[d] = result[d]
      BY <2>3 DEF TypeOK
    <2>6. /\ o.err \in Error
          /\ o.err = NoError <=> o.resp # Nil
          /\ (o.resp.complete /\ ~cfg.renames) =>
               /\ cfg.decoder = "string" => o.resp.data \subseteq {"content"}
               /\ cfg.decoder = "collection" => o.resp.data \subseteq {"collection"}
      BY ProxyFacts
    <2>7. QED
      BY <2>4, <2>5, <2>6 DEF EitherResponseOrError
  <1>2. CASE UNCHANGED <<cfg, result>>
    BY <1>2 DEF EitherResponseOrError, Call
  <1>3. [Next]_vars => UNCHANGED <<cfg, result>> \/ \E c \in Call : BackendReturns(c)
    BY DEF Next, vars, Pipe, ClientGone, RequestTimeout, LocalTimeout, End, OneCall, CollectNothing,
           Collected, MergeReturns, Flatmap, Modifiers, Static, Handle, Render, RenderNoBody,
           RenderStream, Copied, Answer, Collect, Terminated
  <1>4. QED
    BY <1>1, <1>2, <1>3

\* A call that has not returned has neither a response nor an error: what a
\* response on its way up comes from stays as it was.
LEMMA FromStays ==
    ASSUME TypeOK, [Next]_vars, NEW c \in Call, From(c),
           resp'.complete = resp.complete, resp'.io = resp.io,
           resp'.data \subseteq resp.data
               \/ (cfg.static # "none" /\ resp'.data \subseteq resp.data \cup {"static"})
    PROVE  c \in Call' /\ From(c)'
  <1>1. cfg' = cfg /\ Call' = Call /\ Concurrent' = Concurrent
    BY DEF Next, vars, Pipe, ClientGone, RequestTimeout, LocalTimeout, End, OneCall, CollectNothing,
           Collected, MergeReturns, Flatmap, Modifiers, Static, Handle, Render, RenderNoBody,
           RenderStream, Copied, Answer, Collect, BackendReturns, Terminated, Call, Concurrent
  <1>2. taken \subseteq taken'
    BY DEF Next, vars, Pipe, ClientGone, RequestTimeout, LocalTimeout, End, OneCall, CollectNothing,
           Collected, MergeReturns, Flatmap, Modifiers, Static, Handle, Render, RenderNoBody,
           RenderStream, Copied, Answer, Collect, BackendReturns, Terminated
  <1>3. result'[c] = result[c]
    <2>1. result[c] # Running
      BY DEF From, Running, Outcome, NoError
    <2>2. ASSUME NEW d \in Call, BackendReturns(d) PROVE result'[c] = result[c]
      BY <2>1, <2>2 DEF BackendReturns, TypeOK
    <2>3. result' = result \/ \E d \in Call : BackendReturns(d)
      BY DEF Next, vars, Pipe, ClientGone, RequestTimeout, LocalTimeout, End, OneCall, CollectNothing,
           Collected, MergeReturns, Flatmap, Modifiers, Static, Handle, Render, RenderNoBody,
           RenderStream, Copied, Answer, Collect, Terminated
    <2>4. QED
      BY <2>2, <2>3
  <1>4. QED
    BY <1>1, <1>2, <1>3 DEF From

LEMMA StepOriginOfResponse ==
    /\ TypeOK /\ EitherResponseOrError /\ OriginOfResponse /\ [Next]_vars
    => OriginOfResponse'
  <1> SUFFICES ASSUME TypeOK, EitherResponseOrError, OriginOfResponse, [Next]_vars
               PROVE  OriginOfResponse'
    OBVIOUS
  <1> DEFINE Origin == resp = Partial({"static"}) \/ \E c \in Call : From(c)
  <1>0. cfg \in Config /\ cfg.calls \in Nat /\ left \in Nat
    BY ConfigsAssumption, MaxCallsAssumption DEF TypeOK, Config
  <1>r. ASSUME NEW c \in Call, result[c] # Running
        PROVE  /\ result[c].resp \in Response \cup {Nil}
               /\ result[c].err \in Error
               /\ result[c].err = NoError <=> result[c].resp # Nil
    <2>1. result[c] \in [resp : Response \cup {Nil}, err : Error \cup {"running"}]
      BY DEF TypeOK
    <2>2. QED
      BY <1>r, <2>1 DEF EitherResponseOrError
  <1>u. ASSUME UNCHANGED resp, resp # Nil, Origin PROVE Origin'
    <2>1. CASE resp = Partial({"static"})
      BY <1>u, <2>1 DEF Partial
    <2>2. ASSUME NEW c \in Call, From(c) PROVE Origin'
      BY <1>u, <2>2, FromStays
    <2>3. QED
      BY <1>u, <2>1, <2>2
  <1>e. RequestEnded => (done \subseteq done' => RequestEnded')
    BY DEF RequestEnded
  <1> HIDE DEF Origin
  <1>o. (cfg.calls > 0 /\ resp # Nil) => Origin
    BY DEF OriginOfResponse, Origin
  <1>1. ASSUME NEW why \in {"client", "timeout", "servicetimeout"}, End(why) PROVE OriginOfResponse'
    <2>1. RequestEnded => RequestEnded'
      BY <1>1, <1>e DEF End
    <2>2. (cfg.calls > 0 /\ resp # Nil) => Origin'
      BY <1>1, <1>u, <1>o DEF End
    <2>3. QED
      BY <1>1, <2>1, <2>2 DEF End, OriginOfResponse, Origin, Concurrent, Call
  <1>2. ASSUME NEW c \in Call, BackendReturns(c) PROVE OriginOfResponse'
    <2>1. (cfg.calls > 0 /\ resp # Nil) => Origin'
      BY <1>2, <1>u, <1>o DEF BackendReturns
    <2>2. QED
      BY <1>2, <2>1 DEF BackendReturns, OriginOfResponse, Origin, Concurrent, Call, RequestEnded
  <1>3. CASE OneCall
    <2>1. 1 \in Call /\ cfg.calls > 0
      BY <1>3, <1>0 DEF OneCall, Call, OriginOfResponse
    <2>2. /\ resp' = result[1].resp /\ err' = result[1].err
          /\ err' = NoError <=> resp' # Nil
      BY <1>3, <1>r, <2>1 DEF OneCall
    <2>3. resp' # Nil => From(1)'
      BY <1>3, <2>2 DEF OneCall, From, Concurrent
    <2>4. resp' # Nil => Origin'
      BY <1>3, <2>1, <2>3 DEF OneCall, Origin, Call
    <2>5. QED
      BY <1>3, <2>1, <2>2, <2>4 DEF OneCall, OriginOfResponse, Origin
  <1>4. ASSUME NEW c \in Call, Collect(c) PROVE OriginOfResponse'
    <2>1. /\ result[c].resp \in Response \cup {Nil}
          /\ result[c].err \in Error
          /\ result[c].err = NoError <=> result[c].resp # Nil
      BY <1>4, <1>r DEF Collect
    <2>2. cfg.calls > 0 /\ pc' = "calling" /\ taken' # {} /\ cfg' = cfg
      BY <1>4 DEF Collect, OriginOfResponse
    <2>3. CASE result[c].err # NoError
      <3>1. resp' = resp /\ err' # NoError
        BY <1>4, <2>1, <2>3, ResponseFacts DEF Collect
      <3>2. resp # Nil => Origin'
        BY <3>1, <1>u, <1>o, <2>2
      <3>3. QED
        BY <2>2, <3>1, <3>2 DEF OriginOfResponse, Origin
    <2>4. CASE result[c].err = NoError
      <3>1. resp' = result[c].resp /\ resp' # Nil /\ result' = result
        BY <1>4, <2>1, <2>4 DEF Collect
      <3>2. From(c)'
        BY <1>4, <2>4, <3>1 DEF From, Collect
      <3>3. Call' = Call
        BY <2>2 DEF Call
      <3>4. QED
        BY <2>2, <3>1, <3>2, <3>3 DEF OriginOfResponse
    <2>5. QED
      BY <2>3, <2>4
  <1>5. CASE CollectNothing
    <2>1. (cfg.calls > 0 /\ resp # Nil) => Origin'
      BY <1>5, <1>u, <1>o DEF CollectNothing
    <2>2. RequestEnded'
      BY <1>5 DEF CollectNothing, RequestEnded
    <2>3. QED
      BY <1>5, <2>1, <2>2 DEF CollectNothing, OriginOfResponse, Origin
  <1>6. CASE Collected
    <2>1. (cfg.calls > 0 /\ resp # Nil) => Origin'
      BY <1>6, <1>u, <1>o DEF Collected
    <2>2. (resp = Nil /\ err = NoError) => RequestEnded
      BY <1>6, <1>0 DEF Collected, OriginOfResponse, Concurrent
    <2>3. RequestEnded => RequestEnded'
      BY <1>6, <1>e DEF Collected
    <2>4. QED
      BY <1>6, <2>1, <2>2, <2>3 DEF Collected, OriginOfResponse, Origin, Concurrent
  <1>7. CASE MergeReturns
    BY <1>7 DEF MergeReturns, OriginOfResponse
  <1>8. CASE Flatmap
    BY <1>8 DEF Flatmap, Panic, OriginOfResponse
  <1>9. CASE Modifiers
    <2>1. (cfg.calls > 0 /\ resp' # Nil) => Origin'
      BY <1>9, <1>u, <1>o DEF Modifiers, Panic
    <2>2. QED
      BY <1>9, <2>1 DEF Modifiers, Panic, OriginOfResponse, Origin, Concurrent, RequestEnded, NoError
  <1>10. CASE Static
    <2>1. CASE resp' = resp
      <3>1. (cfg.calls > 0 /\ resp' # Nil) => Origin'
        BY <2>1, <1>u, <1>o
      <3>2. QED
        BY <1>10, <2>1, <3>1 DEF Static, OriginOfResponse, Origin, Concurrent, RequestEnded
    <2>2. CASE resp = Nil /\ resp' = Partial({"static"})
      <3>1. Origin' /\ resp' # Nil
        BY <2>2 DEF Origin, Partial, Nil
      <3>2. QED
        BY <1>10, <2>2, <3>1 DEF Static, OriginOfResponse, Origin
    <2>3. CASE Matches /\ resp # Nil /\ resp' = [resp EXCEPT !.data = @ \cup {"static"}]
      <3>1. cfg.static # "none"
        BY <2>3, <1>0 DEF Matches, Config
      <3>2. resp \in Response /\ resp.data \cup {"static"} \in SUBSET Field
        BY <2>3, ResponseFacts DEF TypeOK, Field
      <3>3. /\ resp' \in Response /\ resp'.complete = resp.complete /\ resp'.io = resp.io
            /\ resp'.data = resp.data \cup {"static"}
        BY <2>3, <3>2, ResponseFacts
      <3>4. resp' # Nil
        BY <3>3, ResponseFacts
      <3>5. resp = Partial({"static"}) => resp' = Partial({"static"})
        BY <2>3 DEF Partial
      <3>6. ASSUME NEW c \in Call, From(c) PROVE Origin'
        BY <3>6, <3>1, <3>3, FromStays DEF Origin
      <3>7. cfg.calls > 0 => Origin'
        BY <2>3, <1>o, <3>5, <3>6 DEF Origin, Partial
      <3>8. QED
        BY <1>10, <3>4, <3>7 DEF Static, OriginOfResponse, Origin
    <2>4. QED
      BY <1>10, <2>1, <2>2, <2>3 DEF Static
  <1>11. CASE Handle
    <2>1. (cfg.calls > 0 /\ resp # Nil) => Origin'
      BY <1>11, <1>u, <1>o DEF Handle
    <2>2. QED
      BY <1>11, <2>1 DEF Handle, OriginOfResponse, Origin
  <1>12. CASE Render \/ RenderNoBody \/ RenderStream \/ Copied
    <2>1. UNCHANGED <<cfg, resp>> /\ pc' \in {"copying", "answered"}
      BY <1>12 DEF Render, RenderNoBody, RenderStream, Copied, Answer
    <2>2. (cfg.calls > 0 /\ resp # Nil) => Origin'
      BY <2>1, <1>u, <1>o
    <2>3. QED
      BY <2>1, <2>2 DEF OriginOfResponse, Origin
  <1>13. CASE UNCHANGED vars
    BY <1>13 DEF vars, OriginOfResponse, Call, Concurrent, RequestEnded, From
  <1>14. QED
    BY <1>1, <1>2, <1>3, <1>4, <1>5, <1>6, <1>7, <1>8, <1>9, <1>10, <1>11, <1>12, <1>13
       DEF Next, Pipe, ClientGone, RequestTimeout, LocalTimeout, Terminated

-----------------------------------------------------------------------------
(* What the middlewares leave and what the client is told                  *)

LEMMA StepStaticIsThere ==
    TypeOK /\ StaticIsThere /\ [Next]_vars => StaticIsThere'
  <1> SUFFICES ASSUME TypeOK, StaticIsThere, [Next]_vars PROVE StaticIsThere'
    OBVIOUS
  <1>1. CASE Static
    <2>1. cfg.static = "always" => Matches
      BY DEF Matches
    <2>2. cfg.static = "always" => "static" \in resp'.data
      <3>1. CASE resp = Nil
        BY <1>1, <2>1, <3>1 DEF Static, Partial
      <3>2. CASE resp # Nil
        <4>1. resp \in Response /\ resp.data \cup {"static"} \in SUBSET Field
          BY <3>2, ResponseFacts DEF TypeOK, Field
        <4>2. [resp EXCEPT !.data = @ \cup {"static"}].data = resp.data \cup {"static"}
          BY <4>1, ResponseFacts
        <4>3. QED
          BY <1>1, <2>1, <3>2, <4>2 DEF Static
      <3>3. QED
        BY <3>1, <3>2
    <2>3. QED
      BY <1>1, <2>2 DEF Static, StaticIsThere
  <1>2. CASE UNCHANGED <<cfg, resp>> /\ (pc' \in {"handler", "rendering", "copying", "answered"}
                                          => pc \in {"handler", "rendering", "copying", "answered"})
    BY <1>2 DEF StaticIsThere
  <1>3. CASE UNCHANGED cfg /\ pc' \notin {"handler", "rendering", "copying", "answered"}
    BY <1>3 DEF StaticIsThere
  <1>4. QED
    BY <1>1, <1>2, <1>3
       DEF Next, vars, Pipe, ClientGone, RequestTimeout, LocalTimeout, End, OneCall, CollectNothing,
           Collected, MergeReturns, Flatmap, Modifiers, Panic, Handle, Render, RenderNoBody,
           RenderStream, Copied, Answer, Collect, BackendReturns, Terminated

LEMMA StepToldInOrder ==
    /\ TypeOK /\ OriginOfResponse /\ ToldInOrder /\ [Next]_vars => ToldInOrder'
  <1> SUFFICES ASSUME TypeOK, OriginOfResponse, ToldInOrder, [Next]_vars PROVE ToldInOrder'
    OBVIOUS
  <1>0. cfg \in Config /\ cfg.calls \in Nat
    BY ConfigsAssumption DEF TypeOK, Config
  <1>n. NoAnswer.completed = FALSE /\ NoAnswer.cache = FALSE /\ NoAnswer.status = "none"
    BY DEF NoAnswer
  <1>h. http \in [status : {"none", "200", "500", "backend"}, completed : BOOLEAN, cache : BOOLEAN,
                  body : SUBSET Field, stream : {"none", "whole", "broken", "cut"}]
    BY DEF TypeOK
  <1>1. ASSUME NEW why \in {"client", "timeout", "servicetimeout"}, End(why) PROVE ToldInOrder'
    <2>1. AnswersError => AnswersError'
      BY <1>1, <1>0 DEF AnswersError, CheckedError, RequestEnded, End, NoError
    <2>2. QED
      BY <1>1, <2>1 DEF End, ToldInOrder, Completed, Shown
  <1>2. CASE UNCHANGED <<cfg, pc, done, resp, err, http>>
    BY <1>2 DEF ToldInOrder, Completed, Shown, AnswersError, CheckedError, RequestEnded
  <1>3. CASE /\ UNCHANGED <<cfg, http>> /\ http = NoAnswer
             /\ pc' \notin {"rendering", "copying", "answered"}
             /\ done' = done \/ done' = done \cup {"collector"}
             /\ pc # "answered"
    BY <1>3, <1>n DEF ToldInOrder
  <1>4. CASE Handle
    <2> DEFINE headers == [NoAnswer EXCEPT !.completed = Completed, !.cache = Completed /\ cfg.cached]
    <2>1. http = NoAnswer /\ "handler" \notin done
      BY <1>4 DEF Handle, ToldInOrder
    <2>2. Completed \in BOOLEAN /\ (Completed /\ cfg.cached) \in BOOLEAN
      BY Zenon DEF Completed
    <2>3. headers \in [status : {"none"}, completed : {Completed}, cache : {Completed /\ cfg.cached},
                       body : {{}}, stream : {"none"}]
      BY <2>2 DEF NoAnswer
    <2>4. headers.completed = Completed /\ headers.cache = (Completed /\ cfg.cached) /\ headers.status = "none"
      BY <2>3
    <2>5. Completed' = Completed
      BY <1>4 DEF Handle, Completed
    <2> HIDE DEF headers
    <2>6. CASE AnswersError
      <3>1. http' = [headers EXCEPT !.status = IF CheckedError = "http" THEN "backend" ELSE "500"]
        BY <1>4, <2>6 DEF Handle, headers
      <3>2. http'.completed = Completed /\ http'.cache = (Completed /\ cfg.cached) /\ http'.status # "200"
        BY <3>1, <2>3, <2>4
      <3>3. err' = CheckedError /\ err' # NoError
        BY <1>4, <2>6 DEF Handle, AnswersError
      <3>4. AnswersError'
        BY <1>4, <2>6, <3>3 DEF Handle, AnswersError, CheckedError
      <3>5. QED
        BY <1>4, <2>5, <2>6, <3>2, <3>4 DEF Handle, ToldInOrder
    <2>7. CASE ~AnswersError
      <3>1. http' = headers
        BY <1>4, <2>7 DEF Handle, headers
      <3>2. (resp = Nil /\ cfg.calls # 0) => AnswersError
        <4>1. cfg.calls # 0 => cfg.calls > 0
          BY <1>0
        <4>2. (resp = Nil /\ cfg.calls # 0) => RequestEnded \/ err # NoError
          BY <1>4, <4>1 DEF Handle, OriginOfResponse
        <4>3. QED
          BY <4>2 DEF AnswersError, CheckedError, NoError
      <3>3. QED
        BY <1>4, <2>1, <2>4, <2>5, <2>7, <3>1, <3>2 DEF Handle, ToldInOrder
    <2>8. QED
      BY <2>6, <2>7
  <1>5. CASE Render
    <2>1. http' = [http EXCEPT !.status = "200", !.body = Shown] /\ pc' = "answered" /\ UNCHANGED <<cfg, resp>>
      BY <1>5 DEF Render, Answer
    <2>2. http'.completed = http.completed /\ http'.cache = http.cache /\ http'.status = "200" /\ http'.body = Shown
      BY <2>1, <1>h
    <2>3. Shown' = Shown /\ Completed' = Completed
      BY <2>1 DEF Shown, Completed
    <2>4. QED
      BY <1>5, <2>1, <2>2, <2>3 DEF Render, ToldInOrder
  <1>6. CASE RenderNoBody
    <2>1. PICK status \in StatusInMetadata :
            http' = [http EXCEPT !.status = status] /\ pc' = "answered" /\ UNCHANGED <<cfg, resp>>
      BY <1>6 DEF RenderNoBody, Answer
    <2>2. http'.completed = http.completed /\ http'.cache = http.cache /\ http'.status = status
      BY <2>1, <1>h
    <2>3. Completed' = Completed
      BY <2>1 DEF Completed
    <2>4. QED
      BY <1>6, <2>1, <2>2, <2>3 DEF RenderNoBody, ToldInOrder
  <1>7. CASE RenderStream
    <2>1. http'.completed = http.completed /\ http'.cache = http.cache /\ http'.status = "backend"
      BY <1>7, <1>h DEF RenderStream
    <2>2. Completed' = Completed
      BY <1>7 DEF RenderStream, Completed
    <2>3. QED
      BY <1>7, <2>1, <2>2 DEF RenderStream, ToldInOrder
  <1>8. CASE Copied
    <2>1. PICK s : http' = [http EXCEPT !.stream = s]
      BY <1>8 DEF Copied, Answer
    <2>2. http'.completed = http.completed /\ http'.cache = http.cache /\ http'.status = http.status
      BY <2>1, <1>h
    <2>3. Completed' = Completed
      BY <1>8 DEF Copied, Answer, Completed
    <2>4. QED
      BY <1>8, <2>2, <2>3 DEF Copied, Answer, ToldInOrder
  <1>9. ASSUME OneCall \/ Collected \/ MergeReturns \/ Flatmap \/ Modifiers \/ Static \/ CollectNothing
                \/ (\E c \in Call : Collect(c))
        PROVE  ToldInOrder'
    <2>1. /\ UNCHANGED <<cfg, http>>
          /\ pc' \notin {"rendering", "copying", "answered"}
          /\ done' = done \/ done' = done \cup {"collector"}
          /\ pc \notin {"rendering", "copying", "answered"}
      BY <1>9 DEF OneCall, Collected, MergeReturns, Flatmap, Modifiers, Static, Panic, CollectNothing, Collect
    <2>2. QED
      BY <2>1, <1>3 DEF ToldInOrder
  <1>10. ASSUME (\E c \in Call : BackendReturns(c)) \/ UNCHANGED vars PROVE ToldInOrder'
    BY <1>10, <1>2 DEF BackendReturns, vars
  <1>11. QED
    BY <1>1, <1>4, <1>5, <1>6, <1>7, <1>8, <1>9, <1>10
       DEF Next, Pipe, ClientGone, RequestTimeout, LocalTimeout, Terminated

-----------------------------------------------------------------------------
(* What follows for the answer                                             *)

\* A response that is not only static data is the one of a call that returned it.
LEMMA OriginFacts ==
    ASSUME EitherResponseOrError, OriginOfResponse, cfg.calls > 0, resp # Nil,
           resp # Partial({"static"})
    PROVE  \E c \in Call : From(c) /\ result[c] # Running /\ result[c].resp # Nil
  <1>1. PICK c \in Call : From(c)
    BY DEF OriginOfResponse
  <1>2. result[c] # Running
    BY <1>1 DEF From, Running, Outcome, NoError
  <1>3. QED
    BY <1>1, <1>2 DEF EitherResponseOrError, From

LEMMA SuccessFollows ==
    TypeOK /\ EitherResponseOrError /\ OriginOfResponse /\ ToldInOrder => SuccessNeedsResponse
  <1> SUFFICES ASSUME TypeOK, EitherResponseOrError, OriginOfResponse, ToldInOrder,
                      http.status = "200", cfg.calls # 0, "static" \notin resp.data
               PROVE  \E c \in Call : result[c].resp # Nil /\ (Concurrent => c \in taken)
    BY DEF SuccessNeedsResponse
  <1>1. cfg.calls > 0
    BY ConfigsAssumption DEF TypeOK, Config
  <1>2. resp # Nil /\ resp # Partial({"static"})
    BY DEF ToldInOrder, Partial
  <1>3. QED
    BY <1>1, <1>2, OriginFacts DEF From

LEMMA StaticFollows ==
    TypeOK /\ StaticIsThere /\ ToldInOrder => StaticAlwaysAnswers
  <1> SUFFICES ASSUME TypeOK, StaticIsThere, ToldInOrder,
                      cfg.static = "always", cfg.render = "json", pc = "answered"
               PROVE  http.status = "200" /\ "static" \in http.body
    BY DEF StaticAlwaysAnswers
  <1>1. "static" \in resp.data
    BY DEF StaticIsThere
  <1>2. resp # Nil /\ ~AnswersError
    BY <1>1, ResponseFacts DEF AnswersError
  <1>3. http.status = "200"
    BY <1>2 DEF ToldInOrder
  <1>4. http.body = Shown
    BY <1>3 DEF ToldInOrder
  <1>5. Shown = resp.data
    BY <1>2 DEF Shown
  <1>6. QED
    BY <1>1, <1>3, <1>4, <1>5

LEMMA CompleteFollows ==
    TypeOK /\ EitherResponseOrError /\ OriginOfResponse /\ ToldInOrder => CompleteIsNotEmpty
  <1> SUFFICES ASSUME TypeOK, EitherResponseOrError, OriginOfResponse, ToldInOrder,
                      http.completed, http.status = "200"
               PROVE  /\ cfg.render = "json" => http.body # {}
                      /\ (Looks(cfg.render, cfg.decoder) /\ cfg.calls > 0 /\ ~cfg.renames /\ cfg.static = "none") =>
                            http.body # {}
    BY DEF CompleteIsNotEmpty
  <1>1. resp # Nil /\ resp.data # {} /\ resp.complete
    BY DEF ToldInOrder, Completed
  <1>2. cfg.render # "no-op" => http.body = Shown
    BY DEF ToldInOrder
  <1>3. cfg.render = "json" => http.body # {}
    BY <1>1, <1>2 DEF Shown
  <1>4. ASSUME Looks(cfg.render, cfg.decoder), cfg.calls > 0, ~cfg.renames, cfg.static = "none"
        PROVE  http.body # {}
    <2>1. resp # Partial({"static"})
      BY <1>1 DEF Partial
    <2>2. PICK c \in Call : From(c) /\ result[c] # Running /\ result[c].resp # Nil
      BY <1>1, <1>4, <2>1, OriginFacts
    <2>3. result[c].resp.complete /\ resp.data \subseteq result[c].resp.data
      BY <1>1, <1>4, <2>2 DEF From
    <2>4. CASE cfg.decoder = "string" /\ cfg.render \in {"string", "xml"}
      <3>1. resp.data = {"content"}
        BY <1>1, <1>4, <2>2, <2>3, <2>4 DEF EitherResponseOrError
      <3>2. QED
        BY <1>1, <1>2, <2>4, <3>1 DEF Shown
    <2>5. CASE cfg.decoder = "collection" /\ cfg.render = "json-collection"
      <3>1. resp.data = {"collection"}
        BY <1>1, <1>4, <2>2, <2>3, <2>5 DEF EitherResponseOrError
      <3>2. QED
        BY <1>1, <1>2, <2>5, <3>1 DEF Shown
    <2>6. QED
      BY <1>4, <2>4, <2>5 DEF Looks
  <1>5. QED
    BY <1>3, <1>4

(***************************************************************************)
(* An answer with success rests on a response of a call that was taken, on *)
(* static data, or on all backends being left out; the static strategy     *)
(* "always" answers whatever failed, and a complete answer is not empty.   *)
(***************************************************************************)
THEOREM Inductive == Spec => []AnswerInv
  <1> DEFINE IInv == /\ TypeOK /\ EitherResponseOrError /\ OriginOfResponse
                     /\ StaticIsThere /\ ToldInOrder
  <1>1. Init => IInv
    <2> SUFFICES ASSUME Init PROVE IInv
      OBVIOUS
    <2>1. TypeOK /\ cfg.calls \in Nat
      BY InitTypeOK, ConfigsAssumption, MaxCallsAssumption DEF TypeOK, Config
    <2>2. EitherResponseOrError
      BY DEF Init, EitherResponseOrError
    <2>3. OriginOfResponse
      BY <2>1 DEF Init, OriginOfResponse
    <2>4. StaticIsThere
      BY DEF Init, StaticIsThere
    <2>5. ToldInOrder
      BY DEF Init, ToldInOrder, NoAnswer
    <2>6. QED
      BY <2>1, <2>2, <2>3, <2>4, <2>5
  <1>2. IInv /\ [Next]_vars => IInv'
    BY StepTypeOK, StepEitherResponseOrError, StepOriginOfResponse, StepStaticIsThere, StepToldInOrder
  <1>3. IInv => AnswerInv
    BY SuccessFollows, StaticFollows, CompleteFollows DEF AnswerInv
  <1>4. QED
    BY <1>1, <1>2, <1>3, PTL DEF Spec

(***************************************************************************)
(* What the client is told to be complete, and a cache to keep, is the     *)
(* complete answer of a call, or of the merger.                            *)
(***************************************************************************)
THEOREM CompletionIsHonestCorrect == Spec => []CompletionIsHonest
  <1>1. AnswerInv => CompletionIsHonest
    <2> SUFFICES ASSUME AnswerInv, http.completed \/ http.cache PROVE CompletionIsHonest
      BY DEF CompletionIsHonest
    <2>1. http.completed /\ resp # Nil /\ resp.complete
      BY DEF AnswerInv, ToldInOrder, Completed
    <2>2. ASSUME cfg.calls > 0 PROVE \E c \in Call : result[c].err = NoError /\ result[c].resp.complete
      <3>1. resp # Partial({"static"})
        BY <2>1 DEF Partial
      <3>2. QED
        BY <2>1, <2>2, <3>1, OriginFacts DEF AnswerInv, From
    <2>3. QED
      BY <2>1, <2>2 DEF CompletionIsHonest
  <1>2. QED
    BY <1>1, Inductive, PTL

(***************************************************************************)
(* A middleware meets no response and no error only if every backend was   *)
(* left out, or the request ended while calls were collected; a body is    *)
(* cut only if the request ended or its call was a concurrent one.         *)
(***************************************************************************)
THEOREM BreaksExplainedCorrect == Spec => []BreaksExplained
  <1>1. Init => BreaksExplained
    BY DEF Init, BreaksExplained, PanicExplained, CutExplained, Over, NoAnswer
  <1>2. AnswerInv /\ BreaksExplained /\ [Next]_vars => BreaksExplained'
    <2> SUFFICES ASSUME AnswerInv, BreaksExplained, [Next]_vars PROVE BreaksExplained'
      OBVIOUS
    <2>0. /\ cfg \in Config /\ cfg.calls \in Nat
          /\ http \in [status : {"none", "200", "500", "backend"}, completed : BOOLEAN, cache : BOOLEAN,
                       body : SUBSET Field, stream : {"none", "whole", "broken", "cut"}]
      BY ConfigsAssumption, MaxCallsAssumption DEF AnswerInv, TypeOK, Config
    <2>1. cfg' = cfg /\ done \subseteq done'
      BY DEF Next, vars, Pipe, ClientGone, RequestTimeout, LocalTimeout, End, OneCall, CollectNothing,
             Collected, MergeReturns, Flatmap, Modifiers, Static, Handle, Render, RenderNoBody,
             RenderStream, Copied, Answer, Collect, BackendReturns, Terminated
    <2>2. PanicExplained'
      <3>1. CASE pc' = pc
        BY <2>1, <3>1 DEF BreaksExplained, PanicExplained, Concurrent, RequestEnded
      <3>2. CASE Flatmap
        BY <2>0, <2>1, <3>2 DEF Flatmap, PanicExplained, AnswerInv, OriginOfResponse
      <3>3. ASSUME Modifiers, pc' = "panicked" PROVE PanicExplained'
        <4>1. pc = "modifiers" /\ resp = Nil /\ err = NoError
          BY <3>3 DEF Modifiers, Panic
        <4>2. cfg.calls > 0 => Concurrent /\ RequestEnded
          BY <4>1 DEF AnswerInv, OriginOfResponse
        <4>3. QED
          BY <2>0, <2>1, <4>2 DEF PanicExplained, Concurrent, RequestEnded
      <3>4. pc' = "panicked" => pc' = pc \/ Flatmap \/ Modifiers
        BY DEF Next, vars, Pipe, ClientGone, RequestTimeout, LocalTimeout, End, OneCall, CollectNothing,
               Collected, MergeReturns, Static, Handle, Render, RenderNoBody,
               RenderStream, Copied, Answer, Collect, BackendReturns, Terminated
      <3>5. QED
        BY <3>1, <3>2, <3>3, <3>4 DEF PanicExplained
    <2>3. CutExplained'
      <3>1. CASE http'.stream = http.stream
        BY <2>1, <3>1 DEF BreaksExplained, CutExplained, Concurrent
      <3>2. CASE Copied
        <4>1. PICK s \in {"whole", "broken"} \cup (IF \E c \in resp.io : Ended(c) THEN {"cut"} ELSE {}) :
                http' = [http EXCEPT !.stream = s]
          BY <3>2 DEF Copied, Answer
        <4>2. http'.stream = s
          BY <2>0, <4>1
        <4>3. s = "cut" => \E c \in resp.io : Ended(c)
          BY <4>1
        <4>4. "handler" \notin done
          BY <3>2 DEF Copied, AnswerInv, ToldInOrder
        <4>5. (s = "cut" /\ ~Concurrent) => done \cap {"client", "timeout"} # {}
          BY <4>3, <4>4 DEF Ended, RequestEnded
        <4>6. QED
          BY <2>1, <4>2, <4>5 DEF CutExplained, Concurrent
      <3>3. CASE Handle
        <4>1. http'.stream = "none"
          BY <3>3 DEF Handle, NoAnswer
        <4>2. QED
          BY <4>1 DEF CutExplained
      <3>4. CASE Render \/ RenderNoBody \/ RenderStream
        BY <2>0, <3>1, <3>4 DEF Render, RenderNoBody, RenderStream, Answer
      <3>5. QED
        BY <3>1, <3>2, <3>3, <3>4
           DEF Next, vars, Pipe, ClientGone, RequestTimeout, LocalTimeout, End, OneCall, CollectNothing,
               Collected, MergeReturns, Flatmap, Modifiers, Panic, Static, Collect, BackendReturns, Terminated
    <2>4. QED
      BY <2>2, <2>3 DEF BreaksExplained
  <1>3. QED
    BY <1>1, <1>2, Inductive, PTL DEF Spec

-----------------------------------------------------------------------------
(* EntityFormatter: paths *)

\* The paths to a node, of names in K.
Paths(K) == Seq(K) \ {<< >>}

\* Paths are equal name by name.
LEMMA SamePath ==
    ASSUME NEW K, NEW p \in Seq(K), NEW q \in Seq(K), Len(p) = Len(q), \A i \in 1..Len(p) : p[i] = q[i]
    PROVE  p = q
  OBVIOUS

\* IsPrefix, name by name.
LEMMA PrefixIs ==
    ASSUME NEW K, NEW p \in Seq(K), NEW q \in Seq(K)
    PROVE  IsPrefix(p, q) <=> Len(p) <= Len(q) /\ \A i \in 1..Len(p) : p[i] = q[i]
  <1>1. CASE Len(p) <= Len(q)
    <2>1. SubSeq(p, 1, Len(p)) = [i \in 1..Len(p) |-> p[i]]
      OBVIOUS
    <2>2. SubSeq(q, 1, Len(p)) = [i \in 1..Len(p) |-> q[i]]
      BY <1>1
    <2>3. IsPrefix(p, q) <=> SubSeq(p, 1, Len(p)) = SubSeq(q, 1, Len(p))
      BY <1>1 DEF IsPrefix
    <2>4. QED
      BY <1>1, <2>1, <2>2, <2>3
  <1>2. CASE ~(Len(p) <= Len(q))
    BY <1>2 DEF IsPrefix
  <1>3. QED
    BY <1>1, <1>2

\* A path leads to itself,
LEMMA PrefixReflexive ==
    ASSUME NEW K, NEW p \in Seq(K)
    PROVE  IsPrefix(p, p)
  BY PrefixIs

\* what leads to a path leads where it leads,
LEMMA PrefixTransitive ==
    ASSUME NEW K, NEW p \in Seq(K), NEW q \in Seq(K), NEW r \in Seq(K), IsPrefix(p, q), IsPrefix(q, r)
    PROVE  IsPrefix(p, r)
  <1>1. Len(p) <= Len(q) /\ \A i \in 1..Len(p) : p[i] = q[i]
    BY PrefixIs
  <1>2. Len(q) <= Len(r) /\ \A i \in 1..Len(q) : q[i] = r[i]
    BY PrefixIs
  <1>3. Len(p) <= Len(r) /\ \A i \in 1..Len(p) : p[i] = r[i]
    BY <1>1, <1>2
  <1>4. QED
    BY <1>3, PrefixIs

\* no longer path leads to a shorter one,
LEMMA PrefixAntisymmetric ==
    ASSUME NEW K, NEW p \in Seq(K), NEW q \in Seq(K), IsPrefix(p, q), Len(q) <= Len(p)
    PROVE  p = q
  <1>1. Len(p) <= Len(q) /\ \A i \in 1..Len(p) : p[i] = q[i]
    BY PrefixIs
  <1>2. Len(p) = Len(q)
    BY <1>1
  <1>3. QED
    BY <1>1, <1>2

\* and of two paths to the same place one leads to the other.
LEMMA PrefixTotal ==
    ASSUME NEW K, NEW p \in Seq(K), NEW q \in Seq(K), NEW r \in Seq(K), IsPrefix(p, r), IsPrefix(q, r)
    PROVE  IsPrefix(p, q) \/ IsPrefix(q, p)
  <1>1. Len(p) <= Len(r) /\ \A i \in 1..Len(p) : p[i] = r[i]
    BY PrefixIs
  <1>2. Len(q) <= Len(r) /\ \A i \in 1..Len(q) : q[i] = r[i]
    BY PrefixIs
  <1>3. CASE Len(p) <= Len(q)
    <2>1. \A i \in 1..Len(p) : p[i] = q[i]
      BY <1>1, <1>2, <1>3
    <2>2. QED
      BY <1>3, <2>1, PrefixIs
  <1>4. CASE Len(q) <= Len(p)
    <2>1. \A i \in 1..Len(q) : q[i] = p[i]
      BY <1>1, <1>2, <1>4
    <2>2. QED
      BY <1>4, <2>1, PrefixIs
  <1>5. QED
    BY <1>3, <1>4

\* PathsTo(p) is what leads to p.
LEMMA PathsToIs ==
    ASSUME NEW K, NEW p \in Seq(K), NEW q \in Seq(K)
    PROVE  q \in PathsTo(p) <=> q # << >> /\ IsPrefix(q, p)
  <1>1. ASSUME IsPrefix(q, p) PROVE q \in Prefixes(p)
    <2>1. Len(q) \in 0..Len(p)
      BY <1>1, PrefixIs
    <2>2. SubSeq(p, 1, Len(q)) = q
      <3>1. \A i \in 1..Len(q) : q[i] = p[i]
        BY <1>1, PrefixIs
      <3>2. SubSeq(p, 1, Len(q)) = [i \in 1..Len(q) |-> p[i]]
        BY <2>1
      <3>3. QED
        BY <3>1, <3>2
    <2>3. QED
      BY <2>1, <2>2 DEF Prefixes
  <1>2. ASSUME q \in Prefixes(p) PROVE IsPrefix(q, p)
    <2>1. PICK l \in 0..Len(p) : q = SubSeq(p, 1, l)
      BY <1>2 DEF Prefixes
    <2>2. SubSeq(p, 1, l) = [i \in 1..l |-> p[i]]
      OBVIOUS
    <2>3. Len(q) = l /\ \A i \in 1..l : q[i] = p[i]
      BY <2>1, <2>2
    <2>4. QED
      BY <2>3, PrefixIs
  <1>3. QED
    BY <1>1, <1>2 DEF PathsTo

\* What leads to a path is a path.
LEMMA PathsToTyped ==
    ASSUME NEW K, NEW p \in Seq(K), NEW q \in PathsTo(p)
    PROVE  q \in Paths(K)
  <1>1. PICK l \in 0..Len(p) : q = SubSeq(p, 1, l)
    BY DEF PathsTo, Prefixes
  <1>2. q \in Seq(K)
    BY <1>1
  <1>3. QED
    BY <1>2 DEF PathsTo, Paths

\* The path to the parent of a node.
LEMMA FrontIs ==
    ASSUME NEW K, NEW p \in Seq(K), Len(p) > 1
    PROVE  /\ Front(p) \in Paths(K) /\ Len(Front(p)) = Len(p) - 1 /\ IsPrefix(Front(p), p)
           /\ \A i \in 1..Len(p) - 1 : Front(p)[i] = p[i]
  <1>1. PICK n \in Nat : n = Len(p) - 1
    OBVIOUS
  <1>2. Front(p) = SubSeq(p, 1, n)
    BY <1>1 DEF Front
  <1>3. Front(p) = [i \in 1..n |-> p[i]]
    BY <1>1, <1>2
  <1>4. Front(p) \in Seq(K) /\ Len(Front(p)) = n
    BY <1>1, <1>2
  <1>5. \A i \in 1..n : Front(p)[i] = p[i]
    BY <1>3
  <1>6. n <= Len(p)
    BY <1>1
  <1>7. IsPrefix(Front(p), p)
    BY <1>4, <1>5, <1>6, PrefixIs
  <1>8. Front(p) # << >>
    BY <1>1, <1>4
  <1>9. QED
    BY <1>1, <1>4, <1>5, <1>7, <1>8 DEF Paths

\* What leads to a node and is not its path leads to the parent.
LEMMA PrefixOfFront ==
    ASSUME NEW K, NEW p \in Seq(K), Len(p) > 1, NEW q \in Seq(K), IsPrefix(q, p), q # p
    PROVE  IsPrefix(q, Front(p))
  <1>1. PICK f \in Seq(K) : f = Front(p)
    BY FrontIs DEF Paths
  <1>2. Len(f) = Len(p) - 1 /\ \A i \in 1..Len(p) - 1 : f[i] = p[i]
    BY <1>1, FrontIs
  <1>3. Len(q) <= Len(p) /\ \A i \in 1..Len(q) : q[i] = p[i]
    BY PrefixIs
  <1>4. ~(Len(p) <= Len(q))
    BY PrefixAntisymmetric
  <1>5. Len(q) <= Len(f)
    BY <1>2, <1>3, <1>4
  <1>6. \A i \in 1..Len(q) : q[i] = f[i]
    BY <1>2, <1>3, <1>5
  <1>7. QED
    BY <1>1, <1>5, <1>6, PrefixIs

\* A path that leads on has a next step.
LEMMA NextOnPath ==
    ASSUME NEW K, NEW p \in Paths(K), NEW w \in Seq(K), IsPrefix(p, w), p # w
    PROVE  \E q \in Paths(K) : Len(q) = Len(p) + 1 /\ Front(q) = p /\ IsPrefix(q, w)
  <1>1. Len(p) <= Len(w) /\ \A i \in 1..Len(p) : p[i] = w[i]
    BY PrefixIs DEF Paths
  <1>2. ~(Len(w) <= Len(p))
    BY PrefixAntisymmetric DEF Paths
  <1>3. PICK n \in Nat : n = Len(p)
    BY DEF Paths
  <1>4. PICK q : q = SubSeq(w, 1, n + 1)
    OBVIOUS
  <1>5. n + 1 <= Len(w)
    BY <1>1, <1>2, <1>3
  <1>6. q \in Seq(K) /\ Len(q) = n + 1
    BY <1>4, <1>5
  <1>7. \A i \in 1..n + 1 : q[i] = w[i]
    BY <1>4, <1>5
  <1>8. IsPrefix(q, w)
    BY <1>5, <1>6, <1>7, PrefixIs
  <1>9. n > 0
    BY <1>3 DEF Paths
  <1>10. Len(q) > 1 /\ Len(q) - 1 = n
    BY <1>3, <1>6, <1>9
  <1>11. PICK f : f = Front(q)
    OBVIOUS
  <1>12. f \in Seq(K) /\ Len(f) = n /\ \A i \in 1..n : f[i] = q[i]
    BY <1>6, <1>10, <1>11, FrontIs DEF Paths
  <1>13. p \in Seq(K) /\ Len(p) = n
    BY <1>3 DEF Paths
  <1>14. ASSUME NEW i \in 1..n PROVE f[i] = p[i]
    <2>1. i \in 1..n + 1
      BY <1>3
    <2>2. QED
      BY <1>1, <1>7, <1>12, <1>13, <2>1
  <1>15. f = p
    <2>1. Len(f) = Len(p) /\ \A i \in 1..Len(f) : f[i] = p[i]
      BY <1>12, <1>13, <1>14
    <2>2. QED
      BY <1>12, <1>13, <2>1, SamePath
  <1>16. q \in Paths(K)
    BY <1>3, <1>6 DEF Paths
  <1>17. Len(q) = Len(p) + 1 /\ Front(q) = p
    BY <1>3, <1>6, <1>11, <1>15
  <1>18. QED
    BY <1>8, <1>16, <1>17

\* A path with one name more in front.
LEMMA ConsIs ==
    ASSUME NEW K, NEW k \in K, NEW p \in Seq(K)
    PROVE  /\ <<k>> \o p \in Paths(K) /\ Len(<<k>> \o p) = Len(p) + 1
           /\ (<<k>> \o p)[1] = k /\ Tail(<<k>> \o p) = p
           /\ \A i \in 1..Len(p) : (<<k>> \o p)[i + 1] = p[i]
  <1>1. PICK r : r = <<k>> \o p
    OBVIOUS
  <1>2. r \in Seq(K) /\ Len(r) = Len(p) + 1 /\ r[1] = k
    BY <1>1
  <1>3. \A i \in 1..Len(p) : r[i + 1] = p[i]
    BY <1>1
  <1>4. Tail(r) \in Seq(K) /\ Len(Tail(r)) = Len(p)
    BY <1>2
  <1>5. \A i \in 1..Len(p) : Tail(r)[i] = p[i]
    BY <1>2, <1>3
  <1>6. Tail(r) = p
    BY <1>4, <1>5
  <1>7. r # << >>
    BY <1>2
  <1>8. QED
    BY <1>1, <1>2, <1>3, <1>6, <1>7 DEF Paths

\* A path is its first name and how it goes on.
LEMMA SplitIs ==
    ASSUME NEW K, NEW p \in Paths(K)
    PROVE  p[1] \in K /\ Tail(p) \in Seq(K) /\ p = <<p[1]>> \o Tail(p) /\ Len(Tail(p)) = Len(p) - 1
  <1>1. p \in Seq(K) /\ Len(p) > 0
    BY DEF Paths
  <1>2. p[1] \in K /\ Tail(p) \in Seq(K) /\ Len(Tail(p)) = Len(p) - 1
    BY <1>1
  <1>3. PICK t \in Seq(K) : t = Tail(p)
    BY <1>2
  <1>4. PICK k \in K : k = p[1]
    BY <1>2
  <1>5. PICK r : r = <<k>> \o t
    OBVIOUS
  <1>6. r \in Seq(K) /\ Len(r) = Len(p)
    BY <1>1, <1>2, <1>3, <1>4, <1>5
  <1>7. ASSUME NEW i \in 1..Len(p) PROVE r[i] = p[i]
    <2>1. CASE i = 1
      BY <1>4, <1>5, <2>1
    <2>2. CASE i # 1
      <3>1. i - 1 \in 1..Len(t) /\ (i - 1) + 1 = i
        BY <1>1, <1>2, <1>3, <2>2
      <3>2. r[i] = t[i - 1]
        BY <1>5, <3>1, ConsIs
      <3>3. t[i - 1] = p[i]
        BY <1>1, <1>3, <3>1
      <3>4. QED
        BY <3>2, <3>3
    <2>3. QED
      BY <2>1, <2>2
  <1>8. r = p
    BY <1>1, <1>6, <1>7
  <1>9. QED
    BY <1>2, <1>3, <1>4, <1>5, <1>8

\* Both are determined by the path.
LEMMA ConsInjective ==
    ASSUME NEW K, NEW k \in K, NEW l \in K, NEW p \in Seq(K), NEW q \in Seq(K), <<k>> \o p = <<l>> \o q
    PROVE  k = l /\ p = q
  <1>1. (<<k>> \o p)[1] = k /\ Tail(<<k>> \o p) = p
    BY ConsIs
  <1>2. (<<l>> \o q)[1] = l /\ Tail(<<l>> \o q) = q
    BY ConsIs
  <1>3. QED
    BY <1>1, <1>2

\* A path leads to another if both begin alike and the rest of it does.
LEMMA ConsPrefix ==
    ASSUME NEW K, NEW k \in K, NEW l \in K, NEW p \in Seq(K), NEW q \in Seq(K)
    PROVE  IsPrefix(<<k>> \o p, <<l>> \o q) <=> k = l /\ IsPrefix(p, q)
  <1>1. PICK r : r = <<k>> \o p
    OBVIOUS
  <1>2. PICK s : s = <<l>> \o q
    OBVIOUS
  <1>3. PICK m \in Nat, n \in Nat : m = Len(p) /\ n = Len(q)
    OBVIOUS
  <1>4. r \in Seq(K) /\ Len(r) = m + 1 /\ r[1] = k /\ \A i \in 1..m : r[i + 1] = p[i]
    BY <1>1, <1>3, ConsIs DEF Paths
  <1>5. s \in Seq(K) /\ Len(s) = n + 1 /\ s[1] = l /\ \A i \in 1..n : s[i + 1] = q[i]
    BY <1>2, <1>3, ConsIs DEF Paths
  <1>6. ASSUME IsPrefix(r, s) PROVE k = l /\ IsPrefix(p, q)
    <2>1. m + 1 <= n + 1 /\ \A i \in 1..m + 1 : r[i] = s[i]
      <3>1. Len(r) <= Len(s) /\ \A i \in 1..Len(r) : r[i] = s[i]
        <4>1. r \in Seq(K) /\ s \in Seq(K)
          BY <1>4, <1>5
        <4>2. QED
          BY <1>6, <4>1, PrefixIs
      <3>2. QED
        BY <1>4, <1>5, <3>1
    <2>2. k = l
      BY <1>4, <1>5, <2>1
    <2>3. ASSUME NEW i \in 1..m PROVE p[i] = q[i]
      <3>1. i + 1 \in 1..m + 1 /\ i \in 1..n
        BY <2>1
      <3>2. QED
        BY <1>4, <1>5, <2>1, <3>1
    <2>4. m <= n
      BY <2>1
    <2>5. QED
      BY <1>3, <2>2, <2>3, <2>4, PrefixIs
  <1>7. ASSUME k = l, IsPrefix(p, q) PROVE IsPrefix(r, s)
    <2>1. m <= n /\ \A i \in 1..m : p[i] = q[i]
      BY <1>3, <1>7, PrefixIs
    <2>2. ASSUME NEW i \in 1..m + 1 PROVE r[i] = s[i]
      <3>1. CASE i = 1
        BY <1>4, <1>5, <1>7, <3>1
      <3>2. CASE i # 1
        <4>1. PICK j \in 1..m : i = j + 1
          <5>1. i - 1 \in 1..m /\ i = (i - 1) + 1
            BY <3>2
          <5>2. QED
            BY <5>1
        <4>2. j \in 1..n
          BY <2>1
        <4>3. r[i] = p[j] /\ s[i] = q[j]
          BY <1>4, <1>5, <4>1, <4>2
        <4>4. QED
          BY <2>1, <4>3
      <3>3. QED
        BY <3>1, <3>2
    <2>3. m + 1 <= n + 1
      BY <2>1
    <2>4. QED
      BY <1>4, <1>5, <2>2, <2>3, PrefixIs
  <1>8. QED
    BY <1>1, <1>2, <1>6, <1>7

-----------------------------------------------------------------------------
(* EntityFormatter: folds over lists *)

\* The naturals have no infinite descent.
LEMMA Less == IsWellFoundedOn({ss \in Nat \X Nat : ss[1] < ss[2]}, Nat)
  BY NatLessThanWellFounded DEF OpToRel

\* Induction over the naturals, for a set and not an operator.
LEMMA SetInduction ==
    ASSUME NEW T, 0 \in T, \A n \in Nat : n \in T => n + 1 \in T
    PROVE  Nat \subseteq T
  <1>1. SUFFICES ASSUME Nat \ T # {} PROVE FALSE
    OBVIOUS
  <1>2. PICK rel : rel = {ss \in Nat \X Nat : ss[1] < ss[2]}
    OBVIOUS
  <1>3. Nat \ T \subseteq Nat
    OBVIOUS
  <1>4. PICK x \in Nat \ T : \A y \in Nat \ T : ~(<<y, x>> \in rel)
    BY <1>1, <1>2, <1>3, Less, WFMin
  <1>5. \A y \in Nat \ T : ~(y < x)
    BY <1>2, <1>4
  <1>6. x # 0 /\ x - 1 \in Nat /\ x - 1 \in T
    BY <1>5
  <1>7. QED
    BY <1>6

\* f applies the steps one after the other, starting from base.
Applies(f, base, step, n) ==
    /\ DOMAIN f = 0..n /\ f[0] = base
    /\ \A i \in 1..n : f[i] = step[<<i, f[i - 1]>>]

\* Steps that keep to a set can be applied one after the other.
LEMMA AppliesExists ==
    ASSUME NEW A, NEW base \in A, NEW n \in Nat, NEW step \in [(1..n) \X A -> A]
    PROVE  \E f \in [0..n -> A] : Applies(f, base, step, n)
  <1>1. PICK T : T = {m \in Nat : m <= n => \E f \in [0..m -> A] : Applies(f, base, step, m)}
    OBVIOUS
  <1>2. 0 \in T
    <2>1. PICK f : f = [i \in 0..0 |-> base]
      OBVIOUS
    <2>2. f \in [0..0 -> A] /\ Applies(f, base, step, 0)
      BY <2>1 DEF Applies
    <2>3. QED
      BY <1>1, <2>2
  <1>3. ASSUME NEW m \in Nat, m \in T PROVE m + 1 \in T
    <2>1. SUFFICES ASSUME m + 1 <= n PROVE \E f \in [0..m + 1 -> A] : Applies(f, base, step, m + 1)
      BY <1>1
    <2>2. PICK g \in [0..m -> A] : Applies(g, base, step, m)
      BY <1>1, <1>3, <2>1
    <2>3. PICK f : f = [i \in 0..m + 1 |-> IF i = m + 1 THEN step[<<m + 1, g[m]>>] ELSE g[i]]
      OBVIOUS
    <2>4. g[m] \in A /\ m + 1 \in 1..n
      BY <2>1
    <2>5. <<m + 1, g[m]>> \in (1..n) \X A
      BY <2>4
    <2>6. step[<<m + 1, g[m]>>] \in A
      BY <2>5
    <2>7. f \in [0..m + 1 -> A]
      BY <2>3, <2>6
    <2>8. \A i \in 0..m : f[i] = g[i]
      BY <2>3
    <2>9. f[m + 1] = step[<<m + 1, f[m]>>]
      <3>1. m \in 0..m /\ m + 1 \in 0..m + 1
        OBVIOUS
      <3>2. f[m] = g[m]
        BY <2>8, <3>1
      <3>3. QED
        BY <2>3, <3>1, <3>2
    <2>10. ASSUME NEW i \in 1..m + 1 PROVE f[i] = step[<<i, f[i - 1]>>]
      <3>1. CASE i = m + 1
        BY <2>9, <3>1
      <3>2. CASE i # m + 1
        <4>1. i \in 1..m /\ i \in 0..m /\ i - 1 \in 0..m
          BY <3>2
        <4>2. g[i] = step[<<i, g[i - 1]>>]
          BY <2>2, <4>1 DEF Applies
        <4>3. QED
          BY <2>8, <4>1, <4>2
      <3>3. QED
        BY <3>1, <3>2
    <2>11. f[0] = base
      BY <2>2, <2>8 DEF Applies
    <2>12. Applies(f, base, step, m + 1)
      BY <2>7, <2>10, <2>11 DEF Applies
    <2>13. QED
      BY <2>7, <2>12
  <1>4. Nat \subseteq T
    BY <1>2, <1>3, SetInduction
  <1>5. QED
    BY <1>1, <1>4

-----------------------------------------------------------------------------
(* EntityFormatter: the lists as trees *)

\* Sets of paths.
Shape(K) == [nodes : SUBSET Paths(K), values : SUBSET Paths(K)]

\* A tree, of paths that can be compared.
Closed(t, K) ==
    /\ t.values \subseteq t.nodes
    /\ \A p \in t.nodes, q \in Paths(K) : IsPrefix(q, p) => q \in t.nodes
    /\ \A p \in t.values, q \in t.nodes : IsPrefix(p, q) => p = q

\* A tree is closed: what leads to a node is a node, and nothing is below a value.
LEMMA IsTreeIs ==
    ASSUME NEW K, NEW t \in Shape(K)
    PROVE  IsTree(t) <=> Closed(t, K)
  <1>1. t.nodes \subseteq Paths(K) /\ t.values \subseteq Paths(K)
    BY DEF Shape
  <1>2. ASSUME NEW p \in t.nodes
        PROVE  PathsTo(p) \subseteq t.nodes <=> \A q \in Paths(K) : IsPrefix(q, p) => q \in t.nodes
    <2>1. p \in Seq(K)
      BY <1>1 DEF Paths
    <2>2. \A q \in Paths(K) : q \in PathsTo(p) <=> IsPrefix(q, p)
      BY <2>1, PathsToIs DEF Paths
    <2>3. PathsTo(p) \subseteq Paths(K)
      BY <2>1, PathsToTyped
    <2>4. QED
      BY <2>2, <2>3
  <1>3. QED
    BY <1>2 DEF IsTree, Closed

\* The empty object is a tree.
LEMMA EmptyTree ==
    ASSUME NEW K
    PROVE  Empty \in Shape(K) /\ Closed(Empty, K)
  BY DEF Empty, Shape, Closed

\* The paths that lead to one another, all of them at once.
LEMMA PathOrder ==
    ASSUME NEW K
    PROVE  /\ \A p \in Paths(K) : IsPrefix(p, p)
           /\ \A p, q, r \in Paths(K) : IsPrefix(p, q) /\ IsPrefix(q, r) => IsPrefix(p, r)
           /\ \A p, q \in Paths(K) : IsPrefix(p, q) /\ IsPrefix(q, p) => p = q
           /\ \A p, q, r \in Paths(K) : IsPrefix(p, r) /\ IsPrefix(q, r) => IsPrefix(p, q) \/ IsPrefix(q, p)
  <1>1. \A p \in Paths(K) : p \in Seq(K)
    BY DEF Paths
  <1>2. ASSUME NEW p \in Paths(K), NEW q \in Paths(K), IsPrefix(p, q), IsPrefix(q, p) PROVE p = q
    <2>1. p \in Seq(K) /\ q \in Seq(K)
      BY <1>1
    <2>2. Len(q) <= Len(p)
      BY <1>2, <2>1, PrefixIs
    <2>3. QED
      BY <1>2, <2>1, <2>2, PrefixAntisymmetric
  <1>3. QED
    BY <1>1, <1>2, PrefixReflexive, PrefixTransitive, PrefixTotal

\* Marking a path in a tree leaves a tree.
LEMMA MarkTree ==
    ASSUME NEW K, NEW t \in Shape(K), Closed(t, K), NEW path \in Paths(K)
    PROVE  Mark(t, path) \in Shape(K) /\ Closed(Mark(t, path), K)
  <1>1. t.nodes \subseteq Paths(K) /\ t.values \subseteq Paths(K)
    BY DEF Shape
  <1>2. path \in Seq(K)
    BY DEF Paths
  <1>3. PathsTo(path) \subseteq Paths(K)
    BY <1>2, PathsToTyped
  <1>4. \A q \in Paths(K) : q \in PathsTo(path) <=> IsPrefix(q, path)
    BY <1>2, PathsToIs DEF Paths
  <1>5. PICK N, V : /\ N = {p \in t.nodes : ~IsPrefix(path, p)} \cup PathsTo(path)
                    /\ V = {p \in t.values : ~IsPrefix(path, p) /\ ~IsPrefix(p, path)} \cup {path}
    OBVIOUS
  <1>6. Mark(t, path) = [nodes |-> N, values |-> V]
    BY <1>5 DEF Mark
  <1>7. N \subseteq Paths(K) /\ V \subseteq Paths(K)
    BY <1>1, <1>3, <1>5
  <1>8. path \in N
    BY <1>4, <1>5, PathOrder
  <1>9. V \subseteq N
    BY <1>5, <1>8 DEF Closed
  <1>10. ASSUME NEW p \in N, NEW q \in Paths(K), IsPrefix(q, p) PROVE q \in N
    <2>1. CASE p \in PathsTo(path)
      <3>1. IsPrefix(q, path)
        BY <1>4, <1>7, <1>10, <2>1, PathOrder
      <3>2. QED
        BY <1>4, <1>5, <3>1
    <2>2. CASE p \in t.nodes /\ ~IsPrefix(path, p)
      <3>1. q \in t.nodes
        BY <1>10, <2>2 DEF Closed
      <3>2. ~IsPrefix(path, q)
        BY <1>1, <1>10, <2>2, PathOrder
      <3>3. QED
        BY <1>5, <3>1, <3>2
    <2>3. QED
      BY <1>5, <2>1, <2>2
  <1>11. ASSUME NEW p \in V, NEW q \in N, IsPrefix(p, q) PROVE p = q
    <2>1. CASE p = path
      <3>1. q \in PathsTo(path)
        BY <1>5, <1>11, <2>1
      <3>2. IsPrefix(q, path)
        BY <1>3, <1>4, <3>1
      <3>3. QED
        BY <1>7, <1>11, <2>1, <3>2, PathOrder
    <2>2. CASE p \in t.values /\ ~IsPrefix(p, path)
      <3>1. q \notin PathsTo(path)
        BY <1>1, <1>3, <1>4, <1>11, <2>2, PathOrder
      <3>2. QED
        BY <1>5, <1>11, <2>2, <3>1 DEF Closed
    <2>3. QED
      BY <1>5, <2>1, <2>2
  <1>12. QED
    BY <1>6, <1>7, <1>9, <1>10, <1>11 DEF Shape, Closed

\* w is a path of the first i of a list, and none of the first i replaces it.
Lasts(list, i, w) ==
    \E j \in 1..i : /\ w = list[j]
                    /\ \A k \in 1..i : k > j => ~IsPrefix(list[j], list[k]) /\ ~IsPrefix(list[k], list[j])

\* What the tree of the first i allowed paths is,
AllowsFirst(t, list, i, K) ==
    Closed(t, K) /\ \A w \in Paths(K) : w \in t.values <=> Lasts(list, i, w)

\* One more path of an allow list: its tree has the paths that count so far as values.
LEMMA AllowsNext ==
    ASSUME NEW K, NEW list \in Seq(Paths(K)), NEW i \in 1..Len(list),
           NEW t \in Shape(K), AllowsFirst(t, list, i - 1, K)
    PROVE  AllowsFirst(Mark(t, list[i]), list, i, K)
  <1>1. PICK path \in Paths(K) : path = list[i]
    OBVIOUS
  <1>2. Closed(Mark(t, path), K)
    BY MarkTree DEF AllowsFirst
  <1>3. ASSUME NEW w \in Paths(K) PROVE w \in Mark(t, path).values <=> Lasts(list, i, w)
    <2>1. w \in Mark(t, path).values <=> w = path \/ (w \in t.values /\ ~IsPrefix(path, w) /\ ~IsPrefix(w, path))
      BY DEF Mark
    <2>2. w \in t.values <=> Lasts(list, i - 1, w)
      BY DEF AllowsFirst
    <2>3. ASSUME w = path PROVE Lasts(list, i, w)
      BY <1>1, <2>3 DEF Lasts
    <2>4. ASSUME Lasts(list, i - 1, w), ~IsPrefix(path, w), ~IsPrefix(w, path) PROVE Lasts(list, i, w)
      <3>1. PICK j \in 1..i - 1 : /\ w = list[j]
                                  /\ \A k \in 1..i - 1 : k > j => ~IsPrefix(list[j], list[k]) /\ ~IsPrefix(list[k], list[j])
        BY <2>4 DEF Lasts
      <3>2. \A k \in 1..i : k \in 1..i - 1 \/ k = i
        OBVIOUS
      <3>3. \A k \in 1..i : k > j => ~IsPrefix(list[j], list[k]) /\ ~IsPrefix(list[k], list[j])
        BY <1>1, <2>4, <3>1, <3>2
      <3>4. j \in 1..i
        OBVIOUS
      <3>5. QED
        BY <3>1, <3>3, <3>4 DEF Lasts
    <2>5. ASSUME Lasts(list, i, w), w # path
          PROVE  Lasts(list, i - 1, w) /\ ~IsPrefix(path, w) /\ ~IsPrefix(w, path)
      <3>1. PICK j \in 1..i : /\ w = list[j]
                              /\ \A k \in 1..i : k > j => ~IsPrefix(list[j], list[k]) /\ ~IsPrefix(list[k], list[j])
        BY <2>5 DEF Lasts
      <3>2. j # i
        BY <1>1, <2>5, <3>1
      <3>3. j \in 1..i - 1 /\ i > j /\ i \in 1..i
        BY <3>2
      <3>4. ~IsPrefix(path, w) /\ ~IsPrefix(w, path)
        BY <1>1, <3>1, <3>3
      <3>5. \A k \in 1..i - 1 : k \in 1..i
        OBVIOUS
      <3>6. \A k \in 1..i - 1 : k > j => ~IsPrefix(list[j], list[k]) /\ ~IsPrefix(list[k], list[j])
        BY <3>1, <3>5
      <3>7. QED
        BY <3>1, <3>3, <3>4, <3>6 DEF Lasts
    <2>6. QED
      BY <2>1, <2>2, <2>3, <2>4, <2>5
  <1>4. QED
    BY <1>1, <1>2, <1>3 DEF AllowsFirst

\* The allowed tree is built step by step.
LEMMA AllowTreeRuns ==
    ASSUME NEW K, NEW list \in Seq(Paths(K))
    PROVE  \E f : f = [i \in 0..Len(list) |-> IF i = 0 THEN Empty ELSE Mark(f[i - 1], list[i])]
  <1>1. PICK n \in Nat : n = Len(list)
    OBVIOUS
  <1>2. PICK step : step = [x \in (1..n) \X Shape(K) |-> Mark(x[2], list[x[1]])]
    OBVIOUS
  <1>3. ASSUME NEW i \in 1..n, NEW t \in Shape(K)
        PROVE  step[<<i, t>>] = Mark(t, list[i]) /\ step[<<i, t>>] \in Shape(K)
    <2>1. list[i] \in Paths(K)
      BY <1>1
    <2>2. PathsTo(list[i]) \subseteq Paths(K)
      BY <2>1, PathsToTyped DEF Paths
    <2>3. Mark(t, list[i]) \in Shape(K)
      BY <2>1, <2>2 DEF Mark, Shape
    <2>4. step[<<i, t>>] = Mark(t, list[i])
      BY <1>2
    <2>5. QED
      BY <2>3, <2>4
  <1>4. step \in [(1..n) \X Shape(K) -> Shape(K)]
    BY <1>2, <1>3
  <1>5. Empty \in Shape(K)
    BY EmptyTree
  <1>6. PICK f \in [0..n -> Shape(K)] : Applies(f, Empty, step, n)
    BY <1>4, <1>5, AppliesExists
  <1>7. ASSUME NEW i \in 0..n PROVE f[i] = IF i = 0 THEN Empty ELSE Mark(f[i - 1], list[i])
    <2>1. CASE i = 0
      BY <1>6, <2>1 DEF Applies
    <2>2. CASE i # 0
      <3>1. i \in 1..n /\ i - 1 \in 0..n
        BY <2>2
      <3>2. f[i] = step[<<i, f[i - 1]>>] /\ f[i - 1] \in Shape(K)
        BY <1>6, <3>1 DEF Applies
      <3>3. QED
        BY <1>3, <2>2, <3>1, <3>2
    <2>3. QED
      BY <2>1, <2>2
  <1>8. PICK h : h = [i \in 0..n |-> IF i = 0 THEN Empty ELSE Mark(f[i - 1], list[i])]
    OBVIOUS
  <1>9. f = h
    BY <1>7, <1>8
  <1>10. QED
    BY <1>1, <1>8, <1>9

\* The allowed tree has the effective paths of the list as its values.
LEMMA AllowTreeIs ==
    ASSUME NEW K, NEW list \in Seq(Paths(K))
    PROVE  /\ AllowTree(list) \in Shape(K) /\ Closed(AllowTree(list), K)
           /\ AllowTree(list).values = Effective(list)
  <1>1. PICK n \in Nat : n = Len(list) /\ DOMAIN list = 1..n
    OBVIOUS
  <1>2. PICK f : /\ f = [i \in 0..Len(list) |-> IF i = 0 THEN Empty ELSE Mark(f[i - 1], list[i])]
                 /\ AllowTree(list) = f[Len(list)]
    BY AllowTreeRuns, Zenon DEF AllowTree
  <1>3. f[0] = Empty /\ \A i \in 1..n : f[i] = Mark(f[i - 1], list[i])
    BY <1>1, <1>2
  <1>4. PICK T : T = {i \in Nat : i <= n => f[i] \in Shape(K) /\ AllowsFirst(f[i], list, i, K)}
    OBVIOUS
  <1>5. 0 \in T
    <2>1. AllowsFirst(Empty, list, 0, K)
      BY EmptyTree DEF AllowsFirst, Lasts, Empty
    <2>2. QED
      BY <1>3, <1>4, <2>1, EmptyTree
  <1>6. ASSUME NEW i \in Nat, i \in T PROVE i + 1 \in T
    <2>1. SUFFICES ASSUME i + 1 <= n PROVE f[i + 1] \in Shape(K) /\ AllowsFirst(f[i + 1], list, i + 1, K)
      BY <1>4
    <2>2. f[i] \in Shape(K) /\ AllowsFirst(f[i], list, i, K)
      BY <1>4, <1>6, <2>1
    <2>3. PICK j \in 1..n : j = i + 1 /\ j - 1 = i
      BY <2>1
    <2>4. f[j] = Mark(f[i], list[j]) /\ list[j] \in Paths(K)
      BY <1>1, <1>3, <2>3
    <2>5. f[j] \in Shape(K)
      BY <2>2, <2>4, MarkTree DEF AllowsFirst
    <2>6. AllowsFirst(f[j], list, j, K)
      BY <1>1, <2>2, <2>3, <2>4, AllowsNext
    <2>7. QED
      BY <2>3, <2>5, <2>6
  <1>7. Nat \subseteq T
    BY <1>5, <1>6, SetInduction
  <1>8. f[n] \in Shape(K) /\ AllowsFirst(f[n], list, n, K)
    BY <1>4, <1>7
  <1>9. ASSUME NEW w PROVE w \in Effective(list) <=> w \in Paths(K) /\ Lasts(list, n, w)
    <2>1. w \in Effective(list) <=> Lasts(list, n, w)
      BY <1>1 DEF Effective, Lasts
    <2>2. Lasts(list, n, w) => w \in Paths(K)
      BY <1>1 DEF Lasts
    <2>3. QED
      BY <2>1, <2>2
  <1>10. f[n].values \subseteq Paths(K)
    BY <1>8 DEF Shape
  <1>11. \A w : w \in f[n].values <=> w \in Effective(list)
    BY <1>8, <1>9, <1>10 DEF AllowsFirst
  <1>12. QED
    BY <1>1, <1>2, <1>8, <1>11 DEF AllowsFirst

\* What the tree of the first i denied paths is.
DeniesFirst(t, list, i, K) ==
    /\ Closed(t, K)
    /\ \A v \in t.values : \E j \in 1..i : v = list[j]
    /\ \A j \in 1..i : \E v \in t.values : IsPrefix(v, list[j])

\* One more path of a deny list: each so far is below a value, and each value is one of them.
LEMMA DeniesNext ==
    ASSUME NEW K, NEW list \in Seq(Paths(K)), NEW i \in 1..Len(list),
           NEW t \in Shape(K), DeniesFirst(t, list, i - 1, K)
    PROVE  DeniesFirst(BuildDenyTree(t, list[i]), list, i, K)
  <1>1. PICK path \in Paths(K) : path = list[i]
    OBVIOUS
  <1>2. t.values \subseteq Paths(K)
    BY DEF Shape
  <1>3. \A j \in 1..i - 1 : j \in 1..i /\ list[j] \in Paths(K)
    OBVIOUS
  <1>4. \A j \in 1..i : j \in 1..i - 1 \/ j = i
    OBVIOUS
  <1>5. i \in 1..i
    OBVIOUS
  <1>6. CASE \E p \in t.values : IsPrefix(p, path)
    <2>1. BuildDenyTree(t, path) = t
      BY <1>6 DEF BuildDenyTree
    <2>2. \A v \in t.values : \E j \in 1..i : v = list[j]
      BY <1>3 DEF DeniesFirst
    <2>3. \A j \in 1..i : \E v \in t.values : IsPrefix(v, list[j])
      BY <1>1, <1>4, <1>6 DEF DeniesFirst
    <2>4. QED
      BY <1>1, <2>1, <2>2, <2>3 DEF DeniesFirst
  <1>7. CASE ~\E p \in t.values : IsPrefix(p, path)
    <2>1. BuildDenyTree(t, path) = Mark(t, path)
      BY <1>7 DEF BuildDenyTree
    <2>2. Closed(Mark(t, path), K)
      BY MarkTree DEF DeniesFirst
    <2>3. PICK V : V = Mark(t, path).values
      OBVIOUS
    <2>4. \A v : v \in V <=> v = path \/ (v \in t.values /\ ~IsPrefix(path, v) /\ ~IsPrefix(v, path))
      BY <2>3 DEF Mark
    <2>5. \A v \in V : \E j \in 1..i : v = list[j]
      BY <1>1, <1>3, <1>5, <2>4 DEF DeniesFirst
    <2>6. ASSUME NEW j \in 1..i PROVE \E v \in V : IsPrefix(v, list[j])
      <3>1. CASE j = i
        BY <1>1, <2>4, <3>1, PathOrder
      <3>2. CASE j \in 1..i - 1
        <4>1. PICK v \in t.values : IsPrefix(v, list[j])
          BY <3>2 DEF DeniesFirst
        <4>2. CASE IsPrefix(path, v)
          BY <1>2, <1>3, <2>4, <3>2, <4>1, <4>2, PathOrder
        <4>3. CASE ~IsPrefix(path, v)
          BY <1>7, <2>4, <4>1, <4>3
        <4>4. QED
          BY <4>2, <4>3
      <3>3. QED
        BY <1>4, <3>1, <3>2
    <2>7. QED
      BY <1>1, <2>1, <2>2, <2>3, <2>5, <2>6 DEF DeniesFirst
  <1>8. QED
    BY <1>6, <1>7

\* A denied path adds paths only.
LEMMA BuildDenyTreeShape ==
    ASSUME NEW K, NEW t \in Shape(K), NEW path \in Paths(K)
    PROVE  BuildDenyTree(t, path) \in Shape(K)
  <1>1. PathsTo(path) \subseteq Paths(K)
    BY PathsToTyped DEF Paths
  <1>2. Mark(t, path) \in Shape(K)
    BY <1>1 DEF Mark, Shape
  <1>3. QED
    BY <1>2 DEF BuildDenyTree

\* The denied tree is built step by step.
LEMMA DenyTreeRuns ==
    ASSUME NEW K, NEW list \in Seq(Paths(K))
    PROVE  \E f : f = [i \in 0..Len(list) |-> IF i = 0 THEN Empty ELSE BuildDenyTree(f[i - 1], list[i])]
  <1>1. PICK n \in Nat : n = Len(list)
    OBVIOUS
  <1>2. PICK step : step = [x \in (1..n) \X Shape(K) |-> BuildDenyTree(x[2], list[x[1]])]
    OBVIOUS
  <1>3. ASSUME NEW i \in 1..n, NEW t \in Shape(K)
        PROVE  step[<<i, t>>] = BuildDenyTree(t, list[i]) /\ step[<<i, t>>] \in Shape(K)
    <2>1. list[i] \in Paths(K)
      BY <1>1
    <2>2. BuildDenyTree(t, list[i]) \in Shape(K)
      BY <2>1, BuildDenyTreeShape
    <2>3. step[<<i, t>>] = BuildDenyTree(t, list[i])
      BY <1>2
    <2>4. QED
      BY <2>2, <2>3
  <1>4. step \in [(1..n) \X Shape(K) -> Shape(K)]
    BY <1>2, <1>3
  <1>5. Empty \in Shape(K)
    BY EmptyTree
  <1>6. PICK f \in [0..n -> Shape(K)] : Applies(f, Empty, step, n)
    BY <1>4, <1>5, AppliesExists
  <1>7. ASSUME NEW i \in 0..n PROVE f[i] = IF i = 0 THEN Empty ELSE BuildDenyTree(f[i - 1], list[i])
    <2>1. CASE i = 0
      BY <1>6, <2>1 DEF Applies
    <2>2. CASE i # 0
      <3>1. i \in 1..n /\ i - 1 \in 0..n
        BY <2>2
      <3>2. f[i] = step[<<i, f[i - 1]>>] /\ f[i - 1] \in Shape(K)
        BY <1>6, <3>1 DEF Applies
      <3>3. QED
        BY <1>3, <2>2, <3>1, <3>2
    <2>3. QED
      BY <2>1, <2>2
  <1>8. PICK h : h = [i \in 0..n |-> IF i = 0 THEN Empty ELSE BuildDenyTree(f[i - 1], list[i])]
    OBVIOUS
  <1>9. f = h
    BY <1>7, <1>8
  <1>10. QED
    BY <1>1, <1>8, <1>9

\* The values of the denied tree are paths of the list, and cover them all.
LEMMA DenyTreeIs ==
    ASSUME NEW K, NEW list \in Seq(Paths(K))
    PROVE  DenyTree(list) \in Shape(K) /\ DeniesFirst(DenyTree(list), list, Len(list), K)
  <1>1. PICK n \in Nat : n = Len(list) /\ DOMAIN list = 1..n
    OBVIOUS
  <1>2. PICK f : /\ f = [i \in 0..Len(list) |-> IF i = 0 THEN Empty ELSE BuildDenyTree(f[i - 1], list[i])]
                 /\ DenyTree(list) = f[Len(list)]
    BY DenyTreeRuns, Zenon DEF DenyTree
  <1>3. f[0] = Empty /\ \A i \in 1..n : f[i] = BuildDenyTree(f[i - 1], list[i])
    BY <1>1, <1>2
  <1>4. PICK T : T = {i \in Nat : i <= n => f[i] \in Shape(K) /\ DeniesFirst(f[i], list, i, K)}
    OBVIOUS
  <1>5. 0 \in T
    <2>1. DeniesFirst(Empty, list, 0, K)
      BY EmptyTree DEF DeniesFirst, Empty
    <2>2. QED
      BY <1>3, <1>4, <2>1, EmptyTree
  <1>6. ASSUME NEW i \in Nat, i \in T PROVE i + 1 \in T
    <2>1. SUFFICES ASSUME i + 1 <= n PROVE f[i + 1] \in Shape(K) /\ DeniesFirst(f[i + 1], list, i + 1, K)
      BY <1>4
    <2>2. f[i] \in Shape(K) /\ DeniesFirst(f[i], list, i, K)
      BY <1>4, <1>6, <2>1
    <2>3. PICK j \in 1..n : j = i + 1 /\ j - 1 = i
      BY <2>1
    <2>4. f[j] = BuildDenyTree(f[i], list[j]) /\ list[j] \in Paths(K)
      BY <1>1, <1>3, <2>3
    <2>5. f[j] \in Shape(K)
      BY <2>2, <2>4, BuildDenyTreeShape
    <2>6. DeniesFirst(f[j], list, j, K)
      BY <1>1, <2>2, <2>3, <2>4, DeniesNext
    <2>7. QED
      BY <2>3, <2>5, <2>6
  <1>7. Nat \subseteq T
    BY <1>5, <1>6, SetInduction
  <1>8. f[n] \in Shape(K) /\ DeniesFirst(f[n], list, n, K)
    BY <1>4, <1>7
  <1>9. QED
    BY <1>1, <1>2, <1>8

-----------------------------------------------------------------------------
(* EntityFormatter: the filters *)

\* No node is deeper than some bound.
Shallow(t) == \E n \in Nat : \A p \in t.nodes : Len(p) <= n

\* Deleting paths of a tree leaves a tree without what is at and below them.
LEMMA DeleteIs ==
    ASSUME NEW K, NEW t \in Shape(K), Closed(t, K), NEW paths \in SUBSET Paths(K)
    PROVE  /\ Delete(t, paths) \in Shape(K) /\ Closed(Delete(t, paths), K)
           /\ Delete(t, paths).nodes = {p \in t.nodes : ~\E q \in paths : IsPrefix(q, p)}
           /\ Delete(t, paths).values \subseteq t.values
  <1>1. PICK gone : gone = {p \in t.nodes : \E q \in paths : IsPrefix(q, p)}
    OBVIOUS
  <1>2. Delete(t, paths) = [nodes |-> t.nodes \ gone, values |-> t.values \ gone]
    BY <1>1 DEF Delete
  <1>3. t.nodes \subseteq Paths(K) /\ t.values \subseteq t.nodes
    BY DEF Shape, Closed
  <1>4. ASSUME NEW p \in t.nodes \ gone, NEW q \in Paths(K), IsPrefix(q, p) PROVE q \in t.nodes \ gone
    <2>1. q \in t.nodes
      BY <1>4 DEF Closed
    <2>2. q \notin gone
      <3>1. SUFFICES ASSUME q \in gone PROVE FALSE
        OBVIOUS
      <3>2. PICK r \in paths : IsPrefix(r, q)
        BY <1>1, <3>1
      <3>3. IsPrefix(r, p)
        BY <1>3, <1>4, <3>2, PathOrder
      <3>4. QED
        BY <1>1, <1>4, <3>3
    <2>3. QED
      BY <2>1, <2>2
  <1>5. \A p \in t.values \ gone, q \in t.nodes \ gone : IsPrefix(p, q) => p = q
    BY DEF Closed
  <1>6. QED
    BY <1>1, <1>2, <1>3, <1>4, <1>5 DEF Shape, Closed

\* A child is one step below its parent.
LEMMA ChildIs ==
    ASSUME NEW K, NEW p \in Paths(K), NEW q \in Paths(K), Front(q) = p
    PROVE  Len(q) = Len(p) + 1 /\ IsPrefix(p, q)
  <1>1. q \in Seq(K) /\ p \in Seq(K) /\ Len(p) > 0 /\ Len(q) > 0
    BY DEF Paths
  <1>2. Len(q) > 1
    <2>1. PICK n \in Nat : n = Len(q)
      BY <1>1
    <2>2. ASSUME n = 1 PROVE FALSE
      <3>1. Front(q) = SubSeq(q, 1, 0)
        BY <2>1, <2>2 DEF Front
      <3>2. Len(SubSeq(q, 1, 0)) = 0
        BY <1>1
      <3>3. QED
        BY <1>1, <3>1, <3>2
    <2>3. QED
      BY <1>1, <2>1, <2>2
  <1>3. Len(Front(q)) = Len(q) - 1 /\ IsPrefix(Front(q), q)
    BY <1>1, <1>2, FrontIs
  <1>4. QED
    BY <1>1, <1>3

\* An allowed path that the object has begins with p.
Leads(p, wl, in) == \E w \in wl.values : w \in in.nodes /\ IsPrefix(p, w)

\* The condition the walk decides, from that of the children.
LEMMA LeadsOn ==
    ASSUME NEW K, NEW wl \in Shape(K), Closed(wl, K), NEW in \in Shape(K), Closed(in, K), NEW p \in in.nodes
    PROVE  Leads(p, wl, in) <=>
             \/ p \in wl.values
             \/ /\ p \in wl.nodes /\ p \notin in.values
                /\ \E q \in in.nodes : Front(q) = p /\ Leads(q, wl, in)
  <1>1. /\ wl.nodes \subseteq Paths(K) /\ wl.values \subseteq Paths(K)
        /\ in.nodes \subseteq Paths(K) /\ in.values \subseteq Paths(K)
    BY DEF Shape
  <1>2. ASSUME p \in wl.values PROVE Leads(p, wl, in)
    BY <1>1, <1>2, PathOrder DEF Leads
  <1>3. ASSUME NEW q \in in.nodes, Front(q) = p, Leads(q, wl, in) PROVE Leads(p, wl, in)
    <2>1. PICK w \in wl.values : w \in in.nodes /\ IsPrefix(q, w)
      BY <1>3 DEF Leads
    <2>2. IsPrefix(p, q)
      BY <1>1, <1>3, ChildIs
    <2>3. IsPrefix(p, w)
      BY <1>1, <2>1, <2>2, PathOrder
    <2>4. QED
      BY <2>1, <2>3 DEF Leads
  <1>4. ASSUME Leads(p, wl, in), p \notin wl.values
        PROVE  /\ p \in wl.nodes /\ p \notin in.values
               /\ \E q \in in.nodes : Front(q) = p /\ Leads(q, wl, in)
    <2>1. PICK w \in wl.values : w \in in.nodes /\ IsPrefix(p, w)
      BY <1>4 DEF Leads
    <2>2. p # w /\ p \in Paths(K) /\ w \in Seq(K)
      BY <1>1, <1>4, <2>1 DEF Paths
    <2>3. p \in wl.nodes
      BY <1>1, <2>1, <2>2 DEF Closed
    <2>4. p \notin in.values
      BY <2>1, <2>2 DEF Closed
    <2>5. PICK q \in Paths(K) : Front(q) = p /\ IsPrefix(q, w)
      BY <2>1, <2>2, NextOnPath
    <2>6. q \in in.nodes
      BY <2>1, <2>5 DEF Closed
    <2>7. QED
      BY <2>1, <2>3, <2>4, <2>5, <2>6 DEF Leads
  <1>5. QED
    BY <1>2, <1>3, <1>4

\* The walk of the allowed tree decides for every node.
LEMMA PruneRuns ==
    ASSUME NEW K, NEW wl \in Shape(K), Closed(wl, K), NEW in \in Shape(K), Closed(in, K)
    PROVE  \E f : f = [p \in in.nodes |->
                        /\ p \notin wl.values
                        /\ ~ /\ p \in wl.nodes /\ p \notin in.values
                             /\ \E q \in in.nodes : Front(q) = p /\ ~f[q]]
  <1>1. PICK f : f = [p \in in.nodes |-> ~Leads(p, wl, in)]
    OBVIOUS
  <1>2. \A q \in in.nodes : f[q] = ~Leads(q, wl, in)
    BY <1>1
  <1>3. ASSUME NEW p \in in.nodes
        PROVE  f[p] = (/\ p \notin wl.values
                       /\ ~ /\ p \in wl.nodes /\ p \notin in.values
                            /\ \E q \in in.nodes : Front(q) = p /\ ~f[q])
    <2>1. (\E q \in in.nodes : Front(q) = p /\ ~f[q]) <=> \E q \in in.nodes : Front(q) = p /\ Leads(q, wl, in)
      BY <1>2
    <2>2. Leads(p, wl, in) <=>
             \/ p \in wl.values
             \/ /\ p \in wl.nodes /\ p \notin in.values
                /\ \E q \in in.nodes : Front(q) = p /\ Leads(q, wl, in)
      BY LeadsOn
    <2>3. ~Leads(p, wl, in) <=>
             (/\ p \notin wl.values
              /\ ~ /\ p \in wl.nodes /\ p \notin in.values
                   /\ \E q \in in.nodes : Front(q) = p /\ ~f[q])
      BY <2>1, <2>2
    <2>4. f[p] = ~Leads(p, wl, in)
      BY <1>2
    <2>5. QED
      BY <2>3, <2>4
  <1>4. PICK h : h = [p \in in.nodes |->
                        /\ p \notin wl.values
                        /\ ~ /\ p \in wl.nodes /\ p \notin in.values
                             /\ \E q \in in.nodes : Front(q) = p /\ ~f[q]]
    OBVIOUS
  <1>5. f = h
    BY <1>1, <1>3, <1>4
  <1>6. QED
    BY <1>4, <1>5

\* What the walk of the allowed tree leaves.  By descent over the depth of the object.
LEMMA PruneIs ==
    ASSUME NEW K, NEW wl \in Shape(K), Closed(wl, K), NEW in \in Shape(K), Closed(in, K), Shallow(in)
    PROVE  /\ AllowlistPrune(wl, in) \in Shape(K) /\ Closed(AllowlistPrune(wl, in), K)
           /\ AllowlistPrune(wl, in).nodes =
                {p \in in.nodes : \E w \in wl.values : IsPrefix(w, p) \/ (IsPrefix(p, w) /\ w \in in.nodes)}
  <1>1. PICK f : /\ f = [p \in in.nodes |->
                          /\ p \notin wl.values
                          /\ ~ /\ p \in wl.nodes /\ p \notin in.values
                               /\ \E q \in in.nodes : Front(q) = p /\ ~f[q]]
                 /\ AllowlistPrune(wl, in) =
                      Delete(in, {p \in in.nodes : f[p] /\ ~\E w \in wl.values : IsPrefix(w, p)})
    <2>1. \E f : f = [p \in in.nodes |->
                        /\ p \notin wl.values
                        /\ ~ /\ p \in wl.nodes /\ p \notin in.values
                             /\ \E q \in in.nodes : Front(q) = p /\ ~f[q]]
      BY PruneRuns
    <2>2. QED
      BY <2>1, Zenon DEF AllowlistPrune
  <1>2. \A p \in in.nodes : f[p] = (/\ p \notin wl.values
                                    /\ ~ /\ p \in wl.nodes /\ p \notin in.values
                                         /\ \E q \in in.nodes : Front(q) = p /\ ~f[q])
    BY <1>1
  <1>3. /\ wl.nodes \subseteq Paths(K) /\ wl.values \subseteq Paths(K)
        /\ in.nodes \subseteq Paths(K) /\ in.values \subseteq Paths(K)
    BY DEF Shape
  <1>4. PICK n \in Nat : \A p \in in.nodes : Len(p) <= n
    BY DEF Shallow
  <1>5. \A p \in in.nodes : Len(p) \in Nat /\ Len(p) > 0
    BY <1>3 DEF Paths
  <1>6. PICK T : T = {m \in Nat : \A p \in in.nodes : Len(p) + m > n => (f[p] <=> ~Leads(p, wl, in))}
    OBVIOUS
  <1>7. 0 \in T
    BY <1>4, <1>5, <1>6
  <1>8. ASSUME NEW m \in Nat, m \in T PROVE m + 1 \in T
    <2>1. SUFFICES ASSUME NEW p \in in.nodes, Len(p) + (m + 1) > n PROVE f[p] <=> ~Leads(p, wl, in)
      BY <1>6
    <2>2. ASSUME NEW q \in in.nodes, Front(q) = p PROVE f[q] <=> ~Leads(q, wl, in)
      <3>1. Len(q) = Len(p) + 1
        BY <1>3, <2>2, ChildIs
      <3>2. Len(q) + m > n
        BY <1>5, <2>1, <3>1
      <3>3. QED
        BY <1>6, <1>8, <3>2
    <2>3. QED
      BY <1>2, <2>2, LeadsOn
  <1>9. Nat \subseteq T
    BY <1>7, <1>8, SetInduction
  <1>10. \A p \in in.nodes : f[p] <=> ~Leads(p, wl, in)
    <2>1. n \in T
      BY <1>9
    <2>2. \A p \in in.nodes : Len(p) + n > n
      BY <1>5
    <2>3. QED
      BY <1>6, <2>1, <2>2
  <1>11. PICK paths : paths = {p \in in.nodes : f[p] /\ ~\E w \in wl.values : IsPrefix(w, p)}
    OBVIOUS
  <1>12. paths \in SUBSET Paths(K)
    BY <1>3, <1>11
  <1>13. PICK rest : rest = {p \in in.nodes : ~\E q \in paths : IsPrefix(q, p)}
    OBVIOUS
  <1>14. ASSUME NEW p \in rest
         PROVE  \E w \in wl.values : IsPrefix(w, p) \/ (IsPrefix(p, w) /\ w \in in.nodes)
    <2>1. p \in in.nodes /\ p \notin paths
      BY <1>3, <1>13, PathOrder
    <2>2. QED
      BY <1>10, <1>11, <2>1 DEF Leads
  <1>15. ASSUME NEW p \in in.nodes, NEW w \in wl.values, IsPrefix(w, p) \/ (IsPrefix(p, w) /\ w \in in.nodes)
         PROVE  p \in rest
    <2>1. SUFFICES ASSUME NEW q \in paths, IsPrefix(q, p) PROVE FALSE
      BY <1>13
    <2>2. q \in in.nodes /\ ~IsPrefix(w, q) /\ ~Leads(q, wl, in)
      BY <1>10, <1>11
    <2>3. p \in Paths(K) /\ q \in Paths(K) /\ w \in Paths(K)
      BY <1>3, <2>2
    <2>4. CASE IsPrefix(w, p)
      <3>1. IsPrefix(q, w)
        BY <2>1, <2>2, <2>3, <2>4, PathOrder
      <3>2. w \in in.nodes
        BY <2>3, <2>4 DEF Closed
      <3>3. QED
        BY <2>2, <3>1, <3>2 DEF Leads
    <2>5. CASE IsPrefix(p, w) /\ w \in in.nodes
      <3>1. IsPrefix(q, w)
        BY <2>1, <2>3, <2>5, PathOrder
      <3>2. QED
        BY <2>2, <2>5, <3>1 DEF Leads
    <2>6. QED
      BY <1>15, <2>4, <2>5
  <1>16. rest = {p \in in.nodes : \E w \in wl.values : IsPrefix(w, p) \/ (IsPrefix(p, w) /\ w \in in.nodes)}
    BY <1>13, <1>14, <1>15
  <1>17. /\ Delete(in, paths) \in Shape(K) /\ Closed(Delete(in, paths), K)
         /\ Delete(in, paths).nodes = rest
    BY <1>12, <1>13, DeleteIs
  <1>18. QED
    BY <1>1, <1>11, <1>16, <1>17

\* The walk of the denied tree decides for every node.
LEMMA DeleteRuns ==
    ASSUME NEW K, NEW ref \in Shape(K), Closed(ref, K), NEW m \in Shape(K), Closed(m, K)
    PROVE  \E f : f = [p \in m.nodes |->
                        /\ p \in ref.nodes
                        /\ Len(p) > 1 => f[Front(p)] /\ Front(p) \notin ref.values]
  <1>1. PICK f : f = [p \in m.nodes |-> IF p \in ref.nodes THEN TRUE ELSE FALSE]
    OBVIOUS
  <1>2. \A q \in m.nodes : f[q] = IF q \in ref.nodes THEN TRUE ELSE FALSE
    BY <1>1
  <1>3. m.nodes \subseteq Paths(K) /\ ref.nodes \subseteq Paths(K) /\ ref.values \subseteq Paths(K)
    BY DEF Shape
  <1>4. ASSUME NEW p \in m.nodes, p \in ref.nodes, Len(p) > 1 PROVE f[Front(p)] /\ Front(p) \notin ref.values
    <2>1. Front(p) \in Paths(K) /\ IsPrefix(Front(p), p) /\ Len(Front(p)) = Len(p) - 1
      BY <1>3, <1>4, FrontIs DEF Paths
    <2>2. Front(p) \in m.nodes /\ Front(p) \in ref.nodes
      BY <1>4, <2>1 DEF Closed
    <2>3. Front(p) # p
      BY <1>3, <2>1 DEF Paths
    <2>4. Front(p) \notin ref.values
      BY <1>4, <2>1, <2>3 DEF Closed
    <2>5. QED
      BY <1>2, <2>2, <2>4
  <1>5. PICK h : h = [p \in m.nodes |->
                        /\ p \in ref.nodes
                        /\ Len(p) > 1 => f[Front(p)] /\ Front(p) \notin ref.values]
    OBVIOUS
  <1>6. ASSUME NEW p \in m.nodes PROVE f[p] = h[p]
    <2>1. f[p] \in BOOLEAN
      BY <1>2
    <2>2. h[p] \in BOOLEAN
      <3>1. CASE h[p]
        <4>1. h[p] = TRUE
          BY <1>5, <3>1
        <4>2. QED
          BY <4>1
      <3>2. CASE ~h[p]
        <4>1. h[p] = FALSE
          BY <1>5, <3>2
        <4>2. QED
          BY <4>1
      <3>3. QED
        BY <3>1, <3>2, Zenon
    <2>3. h[p] <=> p \in ref.nodes /\ (Len(p) > 1 => f[Front(p)] /\ Front(p) \notin ref.values)
      BY <1>5
    <2>4. h[p] <=> f[p]
      BY <1>2, <1>4, <2>3
    <2>5. QED
      BY <2>1, <2>2, <2>4
  <1>7. f = h
    BY <1>1, <1>5, <1>6
  <1>8. QED
    BY <1>5, <1>7

\* What the walk of the denied tree leaves.
LEMMA RecDeleteIs ==
    ASSUME NEW K, NEW ref \in Shape(K), Closed(ref, K), NEW m \in Shape(K), Closed(m, K)
    PROVE  /\ RecDelete(ref, m) \in Shape(K) /\ Closed(RecDelete(ref, m), K)
           /\ RecDelete(ref, m).nodes = {p \in m.nodes : ~\E v \in ref.values : IsPrefix(v, p)}
  <1>1. PICK f : /\ f = [p \in m.nodes |->
                          /\ p \in ref.nodes
                          /\ Len(p) > 1 => f[Front(p)] /\ Front(p) \notin ref.values]
                 /\ RecDelete(ref, m) = Delete(m, {p \in ref.values \cap m.nodes : f[p]})
    <2>1. \E f : f = [p \in m.nodes |->
                        /\ p \in ref.nodes
                        /\ Len(p) > 1 => f[Front(p)] /\ Front(p) \notin ref.values]
      BY DeleteRuns
    <2>2. QED
      BY <2>1, Zenon DEF RecDelete
  <1>2. \A p \in m.nodes : f[p] = (/\ p \in ref.nodes
                                   /\ Len(p) > 1 => f[Front(p)] /\ Front(p) \notin ref.values)
    BY <1>1
  <1>3. /\ m.nodes \subseteq Paths(K) /\ ref.nodes \subseteq Paths(K)
        /\ ref.values \subseteq Paths(K) /\ ref.values \subseteq ref.nodes
    BY DEF Shape, Closed
  <1>4. \A p \in Paths(K) : Len(p) \in Nat /\ Len(p) > 0
    BY DEF Paths
  <1>5. PICK T : T = {n \in Nat : \A p \in m.nodes \cap ref.nodes : Len(p) <= n => f[p]}
    OBVIOUS
  <1>6. 0 \in T
    BY <1>3, <1>4, <1>5
  <1>7. ASSUME NEW n \in Nat, n \in T PROVE n + 1 \in T
    <2>1. SUFFICES ASSUME NEW p \in m.nodes \cap ref.nodes, Len(p) <= n + 1 PROVE f[p]
      BY <1>5
    <2>2. ASSUME Len(p) > 1 PROVE f[Front(p)] /\ Front(p) \notin ref.values
      <3>1. Front(p) \in Paths(K) /\ IsPrefix(Front(p), p) /\ Len(Front(p)) = Len(p) - 1
        BY <1>3, <2>2, FrontIs DEF Paths
      <3>2. Front(p) \in m.nodes \cap ref.nodes
        BY <3>1 DEF Closed
      <3>3. Len(Front(p)) <= n
        BY <1>3, <1>4, <2>1, <3>1
      <3>4. f[Front(p)]
        BY <1>5, <1>7, <3>2, <3>3
      <3>5. Front(p) # p
        BY <1>3, <1>4, <3>1
      <3>6. Front(p) \notin ref.values
        BY <3>1, <3>5 DEF Closed
      <3>7. QED
        BY <3>4, <3>6
    <2>3. QED
      BY <1>2, <2>2
  <1>8. Nat \subseteq T
    BY <1>6, <1>7, SetInduction
  <1>9. \A p \in m.nodes \cap ref.nodes : f[p]
    <2>1. SUFFICES ASSUME NEW p \in m.nodes \cap ref.nodes PROVE f[p]
      OBVIOUS
    <2>2. PICK n \in Nat : n = Len(p)
      BY <1>3, <1>4
    <2>3. QED
      BY <1>5, <1>8, <2>2
  <1>10. PICK paths : paths = {p \in ref.values \cap m.nodes : f[p]}
    OBVIOUS
  <1>11. paths = ref.values \cap m.nodes /\ paths \in SUBSET Paths(K)
    BY <1>3, <1>9, <1>10
  <1>12. ASSUME NEW p \in m.nodes
         PROVE  (\E q \in paths : IsPrefix(q, p)) <=> \E v \in ref.values : IsPrefix(v, p)
    <2>1. \A v \in ref.values : IsPrefix(v, p) => v \in m.nodes
      BY <1>3 DEF Closed
    <2>2. QED
      BY <1>11, <2>1
  <1>13. /\ Delete(m, paths) \in Shape(K) /\ Closed(Delete(m, paths), K)
         /\ Delete(m, paths).nodes = {p \in m.nodes : ~\E q \in paths : IsPrefix(q, p)}
    BY <1>11, DeleteIs
  <1>14. QED
    BY <1>1, <1>10, <1>12, <1>13

-----------------------------------------------------------------------------
(* EntityFormatter: an object and its fields *)

\* What field k of t is: the paths that continue <<k>>, that one included.
Part(t, k, K) ==
    [nodes |-> {s \in Seq(K) : <<k>> \o s \in t.nodes},
     values |-> {s \in Seq(K) : <<k>> \o s \in t.values}]

\* The field of a closed tree.
PartClosed(u, K) ==
    /\ u.values \subseteq u.nodes
    /\ \A p \in u.nodes, q \in Seq(K) : IsPrefix(q, p) => q \in u.nodes
    /\ \A p \in u.values, q \in u.nodes : IsPrefix(p, q) => p = q

\* The paths of a field.
LEMMA PartIs ==
    ASSUME NEW K, NEW t, NEW k
    PROVE  /\ Part(t, k, K).nodes \subseteq Seq(K) /\ Part(t, k, K).values \subseteq Seq(K)
           /\ \A s \in Seq(K) : s \in Part(t, k, K).nodes <=> <<k>> \o s \in t.nodes
           /\ \A s \in Seq(K) : s \in Part(t, k, K).values <=> <<k>> \o s \in t.values
  BY DEF Part

\* A path, in the field it begins with.
LEMMA InPart ==
    ASSUME NEW K, NEW t, NEW p \in Paths(K)
    PROVE  /\ p \in t.nodes <=> Tail(p) \in Part(t, p[1], K).nodes
           /\ p \in t.values <=> Tail(p) \in Part(t, p[1], K).values
  <1>1. PICK k \in K, s \in Seq(K) : k = p[1] /\ s = Tail(p) /\ p = <<k>> \o s
    BY SplitIs
  <1>2. /\ <<k>> \o s \in t.nodes <=> s \in Part(t, k, K).nodes
        /\ <<k>> \o s \in t.values <=> s \in Part(t, k, K).values
    BY PartIs
  <1>3. QED
    BY <1>1, <1>2

\* A tree is closed if each of its fields is.
LEMMA ClosedByParts ==
    ASSUME NEW K, NEW t \in Shape(K)
    PROVE  Closed(t, K) <=> \A k \in K : PartClosed(Part(t, k, K), K)
  <1>1. t.nodes \subseteq Paths(K) /\ t.values \subseteq Paths(K)
    BY DEF Shape
  <1>2. ASSUME Closed(t, K), NEW k \in K PROVE PartClosed(Part(t, k, K), K)
    <2>1. PICK u : u = Part(t, k, K)
      OBVIOUS
    <2>2. /\ u.nodes \subseteq Seq(K) /\ u.values \subseteq Seq(K)
          /\ \A s \in Seq(K) : s \in u.nodes <=> <<k>> \o s \in t.nodes
          /\ \A s \in Seq(K) : s \in u.values <=> <<k>> \o s \in t.values
      BY <2>1, PartIs
    <2>3. u.values \subseteq u.nodes
      BY <1>2, <2>2 DEF Closed
    <2>4. ASSUME NEW p \in u.nodes, NEW q \in Seq(K), IsPrefix(q, p) PROVE q \in u.nodes
      <3>1. <<k>> \o p \in t.nodes /\ <<k>> \o q \in Paths(K)
        BY <2>2, ConsIs
      <3>2. IsPrefix(<<k>> \o q, <<k>> \o p)
        BY <2>2, <2>4, ConsPrefix
      <3>3. QED
        BY <1>2, <2>2, <3>1, <3>2 DEF Closed
    <2>5. ASSUME NEW p \in u.values, NEW q \in u.nodes, IsPrefix(p, q) PROVE p = q
      <3>1. p \in Seq(K) /\ q \in Seq(K)
        BY <2>2
      <3>2. IsPrefix(<<k>> \o p, <<k>> \o q)
        BY <2>5, <3>1, ConsPrefix
      <3>3. <<k>> \o p = <<k>> \o q
        BY <1>2, <2>2, <3>1, <3>2 DEF Closed
      <3>4. QED
        BY <3>1, <3>3, ConsInjective
    <2>6. QED
      BY <2>1, <2>3, <2>4, <2>5 DEF PartClosed
  <1>3. ASSUME \A k \in K : PartClosed(Part(t, k, K), K) PROVE Closed(t, K)
    <2>1. ASSUME NEW p \in Paths(K), NEW q \in Paths(K), IsPrefix(p, q)
          PROVE  p[1] \in K /\ p[1] = q[1] /\ Tail(p) \in Seq(K) /\ Tail(q) \in Seq(K) /\ IsPrefix(Tail(p), Tail(q))
      <3>1. p[1] \in K /\ Tail(p) \in Seq(K) /\ p = <<p[1]>> \o Tail(p)
        BY SplitIs
      <3>2. q[1] \in K /\ Tail(q) \in Seq(K) /\ q = <<q[1]>> \o Tail(q)
        BY SplitIs
      <3>3. PICK k \in K, l \in K, r \in Seq(K), s \in Seq(K) : k = p[1] /\ l = q[1] /\ r = Tail(p) /\ s = Tail(q)
        BY <3>1, <3>2
      <3>4. IsPrefix(<<k>> \o r, <<l>> \o s)
        BY <2>1, <3>1, <3>2, <3>3
      <3>5. k = l /\ IsPrefix(r, s)
        BY <3>4, ConsPrefix
      <3>6. QED
        BY <3>3, <3>5
    <2>2. ASSUME NEW p \in t.values PROVE p \in t.nodes
      <3>1. p \in Paths(K) /\ p[1] \in K
        BY <1>1, SplitIs
      <3>2. QED
        BY <1>3, <3>1, InPart DEF PartClosed
    <2>3. ASSUME NEW p \in t.nodes, NEW q \in Paths(K), IsPrefix(q, p) PROVE q \in t.nodes
      <3>1. p \in Paths(K)
        BY <1>1
      <3>2. q[1] \in K /\ q[1] = p[1] /\ Tail(q) \in Seq(K) /\ IsPrefix(Tail(q), Tail(p))
        BY <2>1, <2>3, <3>1
      <3>3. Tail(p) \in Part(t, q[1], K).nodes
        BY <3>1, <3>2, InPart
      <3>4. Tail(q) \in Part(t, q[1], K).nodes
        BY <1>3, <3>2, <3>3 DEF PartClosed
      <3>5. QED
        BY <3>4, InPart
    <2>4. ASSUME NEW p \in t.values, NEW q \in t.nodes, IsPrefix(p, q) PROVE p = q
      <3>1. p \in Paths(K) /\ q \in Paths(K)
        BY <1>1
      <3>2. p[1] \in K /\ p[1] = q[1] /\ IsPrefix(Tail(p), Tail(q))
        BY <2>1, <2>4, <3>1
      <3>3. Tail(p) \in Part(t, p[1], K).values /\ Tail(q) \in Part(t, p[1], K).nodes
        BY <3>1, <3>2, InPart
      <3>4. Tail(p) = Tail(q)
        BY <1>3, <3>2, <3>3 DEF PartClosed
      <3>5. p = <<p[1]>> \o Tail(p) /\ q = <<q[1]>> \o Tail(q)
        BY <3>1, SplitIs
      <3>6. QED
        BY <3>2, <3>4, <3>5
    <2>5. QED
      BY <2>2, <2>3, <2>4 DEF Closed
  <1>4. QED
    BY <1>2, <1>3

\* A key is one of a field that is not empty.
LEMMA KeysByParts ==
    ASSUME NEW K, NEW t \in Shape(K)
    PROVE  /\ Keys(t) \subseteq K
           /\ \A k \in K : k \in Keys(t) <=> Part(t, k, K).nodes # {}
  <1>1. t.nodes \subseteq Paths(K)
    BY DEF Shape
  <1>2. Keys(t) \subseteq K
    BY <1>1, SplitIs DEF Keys
  <1>3. ASSUME NEW p \in t.nodes PROVE Part(t, p[1], K).nodes # {}
    BY <1>1, InPart
  <1>4. ASSUME NEW k \in K, Part(t, k, K).nodes # {} PROVE k \in Keys(t)
    <2>1. PICK s \in Seq(K) : <<k>> \o s \in t.nodes
      BY <1>4, PartIs
    <2>2. (<<k>> \o s)[1] = k
      BY ConsIs
    <2>3. QED
      BY <2>1, <2>2 DEF Keys
  <1>5. QED
    BY <1>2, <1>3, <1>4 DEF Keys

\* Trees are equal field by field.
LEMMA NodesByParts ==
    ASSUME NEW K, NEW t \in Shape(K), NEW u \in Shape(K),
           \A k \in K : Part(t, k, K) = Part(u, k, K)
    PROVE  t = u
  <1>1. /\ t.nodes \subseteq Paths(K) /\ u.nodes \subseteq Paths(K)
        /\ t.values \subseteq Paths(K) /\ u.values \subseteq Paths(K)
        /\ t = [nodes |-> t.nodes, values |-> t.values] /\ u = [nodes |-> u.nodes, values |-> u.values]
    BY DEF Shape
  <1>2. ASSUME NEW p \in Paths(K)
        PROVE  (p \in t.nodes <=> p \in u.nodes) /\ (p \in t.values <=> p \in u.values)
    <2>1. p[1] \in K
      BY SplitIs
    <2>2. QED
      BY <2>1, InPart
  <1>3. t.nodes = u.nodes /\ t.values = u.values
    BY <1>1, <1>2
  <1>4. QED
    BY <1>1, <1>3

\* The depth of a tree, by its fields.
LEMMA ShallowByParts ==
    ASSUME NEW K, NEW t \in Shape(K), NEW n \in Nat
    PROVE  (\A p \in t.nodes : Len(p) <= n) <=> \A k \in K : \A s \in Part(t, k, K).nodes : Len(s) + 1 <= n
  <1>1. t.nodes \subseteq Paths(K)
    BY DEF Shape
  <1>2. ASSUME \A p \in t.nodes : Len(p) <= n, NEW k \in K, NEW s \in Part(t, k, K).nodes PROVE Len(s) + 1 <= n
    <2>1. s \in Seq(K) /\ <<k>> \o s \in t.nodes
      BY PartIs
    <2>2. Len(<<k>> \o s) = Len(s) + 1
      BY <2>1, ConsIs
    <2>3. QED
      BY <1>2, <2>1, <2>2
  <1>3. ASSUME \A k \in K : \A s \in Part(t, k, K).nodes : Len(s) + 1 <= n, NEW p \in t.nodes PROVE Len(p) <= n
    <2>1. p \in Paths(K) /\ p[1] \in K /\ Len(Tail(p)) = Len(p) - 1
      BY <1>1, SplitIs
    <2>2. Tail(p) \in Part(t, p[1], K).nodes
      BY <2>1, InPart
    <2>3. Len(Tail(p)) + 1 <= n
      BY <1>3, <2>1, <2>2
    <2>4. Len(p) \in Nat
      BY <2>1 DEF Paths
    <2>5. QED
      BY <2>1, <2>3, <2>4
  <1>4. QED
    BY <1>2, <1>3

\* The fields after a deletion,
LEMMA WithoutPart ==
    ASSUME NEW K, NEW t \in Shape(K), NEW ks, NEW k \in K
    PROVE  /\ Without(t, ks) \in Shape(K)
           /\ Part(Without(t, ks), k, K) = IF k \in ks THEN Empty ELSE Part(t, k, K)
  <1>1. t.nodes \subseteq Paths(K) /\ t.values \subseteq Paths(K)
    BY DEF Shape
  <1>2. PICK u : u = Without(t, ks)
    OBVIOUS
  <1>3. /\ u.nodes = {p \in t.nodes : p[1] \notin ks}
        /\ u.values = {p \in t.values : p[1] \notin ks}
        /\ u = [nodes |-> u.nodes, values |-> u.values]
    BY <1>2 DEF Without
  <1>4. u \in Shape(K)
    BY <1>1, <1>3 DEF Shape
  <1>5. ASSUME NEW s \in Seq(K)
        PROVE  /\ <<k>> \o s \in u.nodes <=> (k \notin ks /\ <<k>> \o s \in t.nodes)
               /\ <<k>> \o s \in u.values <=> (k \notin ks /\ <<k>> \o s \in t.values)
    <2>1. (<<k>> \o s)[1] = k
      BY ConsIs
    <2>2. QED
      BY <1>3, <2>1
  <1>6. CASE k \in ks
    <2>1. \A s \in Seq(K) : <<k>> \o s \notin u.nodes /\ <<k>> \o s \notin u.values
      BY <1>5, <1>6
    <2>2. Part(u, k, K) = Empty
      BY <2>1 DEF Part, Empty
    <2>3. QED
      BY <1>2, <1>4, <1>6, <2>2
  <1>7. CASE k \notin ks
    <2>1. Part(u, k, K) = Part(t, k, K)
      BY <1>5, <1>7 DEF Part
    <2>2. QED
      BY <1>2, <1>4, <1>7, <2>1
  <1>8. QED
    BY <1>6, <1>7

\* of two trees together,
LEMMA JoinedPart ==
    ASSUME NEW K, NEW t \in Shape(K), NEW u \in Shape(K), NEW k \in K
    PROVE  /\ Joined(t, u) \in Shape(K)
           /\ Part(Joined(t, u), k, K) = Joined(Part(t, k, K), Part(u, k, K))
  <1>1. Joined(t, u) \in Shape(K)
    BY DEF Shape, Joined
  <1>2. \A s \in Seq(K) : /\ <<k>> \o s \in Joined(t, u).nodes <=> s \in Part(t, k, K).nodes \cup Part(u, k, K).nodes
                          /\ <<k>> \o s \in Joined(t, u).values <=> s \in Part(t, k, K).values \cup Part(u, k, K).values
    BY PartIs DEF Joined
  <1>3. PICK N, V : /\ N = Part(t, k, K).nodes \cup Part(u, k, K).nodes
                    /\ V = Part(t, k, K).values \cup Part(u, k, K).values
    OBVIOUS
  <1>4. N \subseteq Seq(K) /\ V \subseteq Seq(K)
    BY <1>3, PartIs
  <1>5. PICK v : v = Joined(t, u)
    OBVIOUS
  <1>6. /\ \A s \in Seq(K) : <<k>> \o s \in v.nodes <=> s \in N
        /\ \A s \in Seq(K) : <<k>> \o s \in v.values <=> s \in V
    BY <1>2, <1>3, <1>5
  <1>7. Part(v, k, K) = [nodes |-> N, values |-> V]
    <2>1. {s \in Seq(K) : <<k>> \o s \in v.nodes} = N
      BY <1>4, <1>6
    <2>2. {s \in Seq(K) : <<k>> \o s \in v.values} = V
      BY <1>4, <1>6
    <2>3. QED
      BY <2>1, <2>2 DEF Part
  <1>8. QED
    BY <1>1, <1>3, <1>5, <1>7 DEF Joined

\* The paths of a set that begin with f, beginning with k; how they go on; and back.
Moving(paths, f, k) == {<<k>> \o Tail(p) : p \in {q \in paths : q[1] = f}}
Following(paths, f, K) == {r \in Seq(K) : <<f>> \o r \in paths}
Put(k, N) == {<<k>> \o s : s \in N}

\* Renaming moves the paths of a field.
LEMMA MovingIs ==
    ASSUME NEW K, NEW paths, paths \subseteq Paths(K), NEW f \in K, NEW k \in K
    PROVE  Moving(paths, f, k) = Put(k, Following(paths, f, K))
  <1>1. ASSUME NEW x \in Moving(paths, f, k) PROVE x \in Put(k, Following(paths, f, K))
    <2>1. PICK q \in paths : q[1] = f /\ x = <<k>> \o Tail(q)
      BY <1>1 DEF Moving
    <2>2. q \in Paths(K)
      OBVIOUS
    <2>3. Tail(q) \in Seq(K) /\ q = <<q[1]>> \o Tail(q)
      BY <2>2, SplitIs
    <2>4. Tail(q) \in Following(paths, f, K)
      BY <2>1, <2>3 DEF Following
    <2>5. QED
      BY <2>1, <2>4 DEF Put
  <1>2. ASSUME NEW x \in Put(k, Following(paths, f, K)) PROVE x \in Moving(paths, f, k)
    <2>1. PICK s \in Seq(K) : <<f>> \o s \in paths /\ x = <<k>> \o s
      BY <1>2 DEF Put, Following
    <2>2. (<<f>> \o s)[1] = f /\ Tail(<<f>> \o s) = s
      BY ConsIs
    <2>3. PICK q : q = <<f>> \o s
      OBVIOUS
    <2>4. q \in paths /\ q[1] = f /\ x = <<k>> \o Tail(q)
      BY <2>1, <2>2, <2>3
    <2>5. QED
      BY <2>4 DEF Moving
  <1>3. QED
    BY <1>1, <1>2

\* A renamed field, by what it is.
LEMMA RenamedIs ==
    ASSUME NEW K, NEW t \in Shape(K), NEW f \in K, NEW k \in K
    PROVE  Renamed(t, f, k) = [nodes |-> Put(k, Part(t, f, K).nodes), values |-> Put(k, Part(t, f, K).values)]
  <1>1. t.nodes \subseteq Paths(K) /\ t.values \subseteq Paths(K)
    BY DEF Shape
  <1>2. Renamed(t, f, k) = [nodes |-> Moving(t.nodes, f, k), values |-> Moving(t.values, f, k)]
    BY DEF Renamed, Moving
  <1>3. Part(t, f, K).nodes = Following(t.nodes, f, K) /\ Part(t, f, K).values = Following(t.values, f, K)
    BY DEF Part, Following
  <1>4. QED
    BY <1>1, <1>2, <1>3, MovingIs

\* The paths of a field, put under a name.
LEMMA PutIs ==
    ASSUME NEW K, NEW k \in K, NEW N, N \subseteq Seq(K)
    PROVE  /\ Put(k, N) \subseteq Paths(K)
           /\ \A l \in K, r \in Seq(K) : <<l>> \o r \in Put(k, N) <=> l = k /\ r \in N
  <1>1. Put(k, N) \subseteq Paths(K)
    BY ConsIs DEF Put
  <1>2. ASSUME NEW l \in K, NEW r \in Seq(K), <<l>> \o r \in Put(k, N) PROVE l = k /\ r \in N
    <2>1. PICK s \in N : <<l>> \o r = <<k>> \o s
      BY <1>2 DEF Put
    <2>2. s \in Seq(K)
      OBVIOUS
    <2>3. l = k /\ r = s
      BY <2>1, <2>2, ConsInjective
    <2>4. QED
      BY <2>3
  <1>3. \A r \in N : <<k>> \o r \in Put(k, N)
    BY DEF Put
  <1>4. QED
    BY <1>1, <1>2, <1>3

\* A tree whose only field is k.
LEMMA OnlyPart ==
    ASSUME NEW K, NEW k \in K, NEW N, NEW V, N \subseteq Seq(K), V \subseteq Seq(K), NEW l \in K, NEW t,
           t = [nodes |-> Put(k, N), values |-> Put(k, V)]
    PROVE  /\ t \in Shape(K)
           /\ Part(t, l, K) = IF l = k THEN [nodes |-> N, values |-> V] ELSE Empty
  <1>1. t \in Shape(K)
    BY PutIs DEF Shape
  <1>2. CASE l = k
    <2>1. /\ \A r \in Seq(K) : <<k>> \o r \in t.nodes <=> r \in N
          /\ \A r \in Seq(K) : <<k>> \o r \in t.values <=> r \in V
      BY PutIs
    <2>2. Part(t, k, K) = [nodes |-> N, values |-> V]
      <3>1. {s \in Seq(K) : <<k>> \o s \in t.nodes} = N
        BY <2>1
      <3>2. {s \in Seq(K) : <<k>> \o s \in t.values} = V
        BY <2>1
      <3>3. QED
        BY <3>1, <3>2 DEF Part
    <2>3. QED
      BY <1>1, <1>2, <2>2
  <1>3. CASE l # k
    <2>1. \A r \in Seq(K) : <<l>> \o r \notin t.nodes /\ <<l>> \o r \notin t.values
      BY <1>3, PutIs
    <2>2. Part(t, l, K) = Empty
      BY <2>1 DEF Part, Empty
    <2>3. QED
      BY <1>1, <1>3, <2>2
  <1>4. QED
    BY <1>2, <1>3

\* The fields of a renamed field,
LEMMA RenamedPart ==
    ASSUME NEW K, NEW t \in Shape(K), NEW f \in K, NEW k \in K, NEW l \in K
    PROVE  /\ Renamed(t, f, k) \in Shape(K)
           /\ Part(Renamed(t, f, k), l, K) = IF l = k THEN Part(t, f, K) ELSE Empty
  <1>1. PICK N \in SUBSET Seq(K), V \in SUBSET Seq(K) : N = Part(t, f, K).nodes /\ V = Part(t, f, K).values
    BY PartIs
  <1>2. Part(t, f, K) = [nodes |-> N, values |-> V]
    BY <1>1 DEF Part
  <1>3. Renamed(t, f, k) = [nodes |-> Put(k, N), values |-> Put(k, V)]
    BY <1>1, RenamedIs
  <1>4. QED
    BY <1>2, <1>3, OnlyPart

\* of an object with one field,
LEMMA SinglePart ==
    ASSUME NEW K, NEW t \in Shape(K), NEW k \in K, NEW l \in K
    PROVE  /\ Single(k, t) \in Shape(K)
           /\ Part(Single(k, t), l, K) =
                IF l = k THEN [nodes |-> {<< >>} \cup t.nodes, values |-> t.values] ELSE Empty
  <1>1. t.nodes \subseteq Seq(K) /\ t.values \subseteq Seq(K) /\ << >> \in Seq(K)
    BY DEF Shape, Paths
  <1>2. PICK N : N = {<< >>} \cup t.nodes
    OBVIOUS
  <1>3. PICK V : V = t.values
    OBVIOUS
  <1>4. N \subseteq Seq(K) /\ V \subseteq Seq(K)
    BY <1>1, <1>2, <1>3
  <1>5. <<k>> \o << >> = <<k>>
    OBVIOUS
  <1>6. {<<k>>} \cup {<<k>> \o p : p \in t.nodes} = Put(k, N)
    BY <1>2, <1>5 DEF Put
  <1>7. Single(k, t) = [nodes |-> Put(k, N), values |-> Put(k, V)]
    BY <1>3, <1>6 DEF Single, Put
  <1>8. PICK u : u = Single(k, t)
    OBVIOUS
  <1>9. u \in Shape(K) /\ Part(u, l, K) = IF l = k THEN [nodes |-> N, values |-> V] ELSE Empty
    BY <1>4, <1>7, <1>8, OnlyPart
  <1>10. QED
    BY <1>2, <1>3, <1>8, <1>9

\* and after one entry of the mapping.
LEMMA MapOnePart ==
    ASSUME NEW K, NEW d \in Shape(K), NEW former \in K, NEW new \in K, NEW k \in K, former \in Keys(d)
    PROVE  /\ MapOne(d, former, new) \in Shape(K)
           /\ Part(MapOne(d, former, new), k, K) =
                IF k = former THEN Empty ELSE IF k = new THEN Part(d, former, K) ELSE Part(d, k, K)
  <1>1. PICK t : t = Without(d, {new})
    OBVIOUS
  <1>2. t \in Shape(K) /\ Part(t, k, K) = IF k = new THEN Empty ELSE Part(d, k, K)
    BY <1>1, WithoutPart
  <1>3. PICK u : u = Renamed(d, former, new)
    OBVIOUS
  <1>4. u \in Shape(K) /\ Part(u, k, K) = IF k = new THEN Part(d, former, K) ELSE Empty
    BY <1>3, RenamedPart
  <1>5. PICK v : v = Joined(t, u)
    OBVIOUS
  <1>6. v \in Shape(K) /\ Part(v, k, K) = Joined(Part(t, k, K), Part(u, k, K))
    BY <1>2, <1>4, <1>5, JoinedPart
  <1>7. /\ Joined(Empty, Part(d, former, K)) = Part(d, former, K)
        /\ Joined(Part(d, k, K), Empty) = Part(d, k, K)
    BY DEF Joined, Empty, Part
  <1>8. Part(v, k, K) = IF k = new THEN Part(d, former, K) ELSE Part(d, k, K)
    BY <1>2, <1>4, <1>6, <1>7
  <1>9. Without(v, {former}) \in Shape(K)
    BY <1>6, WithoutPart
  <1>10. Part(Without(v, {former}), k, K) = IF k \in {former} THEN Empty ELSE Part(v, k, K)
    BY <1>6, WithoutPart
  <1>11. MapOne(d, former, new) = Without(v, {former})
    BY <1>1, <1>3, <1>5 DEF MapOne
  <1>12. QED
    BY <1>8, <1>9, <1>10, <1>11

\* The paths of a set below one of its first names.
LEMMA BelowIs ==
    ASSUME NEW K, NEW k \in K, NEW paths, paths \subseteq Paths(K)
    PROVE  Below(paths, k) \subseteq Paths(K) /\ \A s \in Paths(K) : s \in Below(paths, k) <=> <<k>> \o s \in paths
  <1>1. ASSUME NEW q \in paths, Len(q) > 1, q[1] = k PROVE Tail(q) \in Paths(K) /\ <<k>> \o Tail(q) \in paths
    <2>1. Tail(q) \in Seq(K) /\ q = <<q[1]>> \o Tail(q) /\ Len(Tail(q)) = Len(q) - 1
      BY SplitIs
    <2>2. Len(q) \in Nat
      BY DEF Paths
    <2>3. Len(Tail(q)) > 0
      BY <1>1, <2>1, <2>2
    <2>4. Tail(q) # << >>
      BY <2>3
    <2>5. QED
      BY <1>1, <2>1, <2>4 DEF Paths
  <1>2. ASSUME NEW s \in Paths(K), <<k>> \o s \in paths PROVE s \in Below(paths, k)
    <2>1. s \in Seq(K) /\ Len(s) \in Nat /\ Len(s) > 0
      BY DEF Paths
    <2>2. Len(<<k>> \o s) = Len(s) + 1 /\ (<<k>> \o s)[1] = k /\ Tail(<<k>> \o s) = s
      BY <2>1, ConsIs
    <2>3. Len(<<k>> \o s) > 1
      BY <2>1, <2>2
    <2>4. QED
      BY <1>2, <2>2, <2>3 DEF Below
  <1>3. QED
    BY <1>1, <1>2 DEF Below

\* A nested object is an object.
LEMMA SubIs ==
    ASSUME NEW K, NEW t \in Shape(K), Closed(t, K), Shallow(t), NEW k \in K
    PROVE  Sub(t, k) \in Shape(K) /\ Closed(Sub(t, k), K) /\ Shallow(Sub(t, k))
  <1>1. t.nodes \subseteq Paths(K) /\ t.values \subseteq Paths(K)
    BY DEF Shape
  <1>2. PICK u : u = Sub(t, k)
    OBVIOUS
  <1>3. /\ u = [nodes |-> u.nodes, values |-> u.values]
        /\ u.nodes \subseteq Paths(K) /\ u.values \subseteq Paths(K)
        /\ \A s \in Paths(K) : s \in u.nodes <=> <<k>> \o s \in t.nodes
        /\ \A s \in Paths(K) : s \in u.values <=> <<k>> \o s \in t.values
    BY <1>1, <1>2, BelowIs DEF Sub
  <1>4. u \in Shape(K)
    BY <1>3 DEF Shape
  <1>5. PartClosed(Part(t, k, K), K)
    BY ClosedByParts
  <1>6. \A s \in Paths(K) : s \in Seq(K)
    BY DEF Paths
  <1>7. \A s \in Paths(K) : (s \in u.nodes <=> s \in Part(t, k, K).nodes) /\ (s \in u.values <=> s \in Part(t, k, K).values)
    BY <1>3, <1>6, PartIs
  <1>8. Closed(u, K)
    BY <1>3, <1>5, <1>6, <1>7 DEF Closed, PartClosed
  <1>9. PICK n \in Nat : \A p \in t.nodes : Len(p) <= n
    BY DEF Shallow
  <1>10. \A s \in u.nodes : Len(s) <= n
    <2>1. ASSUME NEW s \in u.nodes PROVE Len(s) <= n
      <3>1. s \in Seq(K) /\ s \in Part(t, k, K).nodes
        BY <1>3, <1>6, <1>7
      <3>2. Len(s) + 1 <= n
        BY <1>9, <3>1, ShallowByParts
      <3>3. QED
        BY <3>1, <3>2
    <2>2. QED
      BY <2>1
  <1>11. QED
    BY <1>2, <1>4, <1>8, <1>9, <1>10 DEF Shallow

\* An object of any breadth and some depth, over any names of fields.
Objects(K) == {t \in Shape(K) : IsTree(t) /\ Shallow(t)}

\* Objects, with closed for tree.
LEMMA ObjectIs ==
    ASSUME NEW K, NEW t
    PROVE  t \in Objects(K) <=> t \in Shape(K) /\ Closed(t, K) /\ Shallow(t)
  BY IsTreeIs DEF Objects

\* The empty object is one.
LEMMA EmptyObject ==
    ASSUME NEW K
    PROVE  Empty \in Objects(K)
  <1>1. Shallow(Empty)
    BY DEF Shallow, Empty
  <1>2. QED
    BY <1>1, EmptyTree, ObjectIs

\* The target is extracted step by step.
LEMMA ExtractRuns ==
    ASSUME NEW K, NEW t \in Objects(K), NEW target \in Seq(K)
    PROVE  \E f : f = [i \in 0..Len(target) |->
                        IF i = 0 THEN t
                        ELSE IF IsObject(f[i - 1], target[i]) THEN Sub(f[i - 1], target[i])
                        ELSE Empty]
  <1>1. PICK n \in Nat : n = Len(target)
    OBVIOUS
  <1>2. PICK step : step = [x \in (1..n) \X Objects(K) |->
                              IF IsObject(x[2], target[x[1]]) THEN Sub(x[2], target[x[1]]) ELSE Empty]
    OBVIOUS
  <1>3. ASSUME NEW i \in 1..n, NEW d \in Objects(K)
        PROVE  /\ step[<<i, d>>] = IF IsObject(d, target[i]) THEN Sub(d, target[i]) ELSE Empty
               /\ step[<<i, d>>] \in Objects(K)
    <2>1. target[i] \in K
      BY <1>1
    <2>2. d \in Shape(K) /\ Closed(d, K) /\ Shallow(d)
      BY ObjectIs
    <2>3. Sub(d, target[i]) \in Shape(K) /\ Closed(Sub(d, target[i]), K) /\ Shallow(Sub(d, target[i]))
      BY <2>1, <2>2, SubIs
    <2>4. Sub(d, target[i]) \in Objects(K)
      BY <2>3, ObjectIs
    <2>5. step[<<i, d>>] = IF IsObject(d, target[i]) THEN Sub(d, target[i]) ELSE Empty
      BY <1>2
    <2>6. QED
      BY <2>4, <2>5, EmptyObject
  <1>4. step \in [(1..n) \X Objects(K) -> Objects(K)]
    BY <1>2, <1>3
  <1>5. PICK f \in [0..n -> Objects(K)] : Applies(f, t, step, n)
    BY <1>4, AppliesExists
  <1>6. ASSUME NEW i \in 0..n
        PROVE  f[i] = IF i = 0 THEN t
                      ELSE IF IsObject(f[i - 1], target[i]) THEN Sub(f[i - 1], target[i])
                      ELSE Empty
    <2>1. CASE i = 0
      BY <1>5, <2>1 DEF Applies
    <2>2. CASE i # 0
      <3>1. i \in 1..n /\ i - 1 \in 0..n
        BY <2>2
      <3>2. f[i] = step[<<i, f[i - 1]>>] /\ f[i - 1] \in Objects(K)
        BY <1>5, <3>1 DEF Applies
      <3>3. QED
        BY <1>3, <2>2, <3>1, <3>2
    <2>3. QED
      BY <2>1, <2>2
  <1>7. PICK h : h = [i \in 0..n |->
                        IF i = 0 THEN t
                        ELSE IF IsObject(f[i - 1], target[i]) THEN Sub(f[i - 1], target[i])
                        ELSE Empty]
    OBVIOUS
  <1>8. f = h
    BY <1>6, <1>7
  <1>9. QED
    BY <1>1, <1>7, <1>8

\* The extracted target of an object is an object.
LEMMA ExtractIs ==
    ASSUME NEW K, NEW t \in Objects(K), NEW target \in Seq(K)
    PROVE  Extract(t, target) \in Objects(K)
  <1>1. PICK n \in Nat : n = Len(target) /\ DOMAIN target = 1..n
    OBVIOUS
  <1>2. PICK f : /\ f = [i \in 0..Len(target) |->
                           IF i = 0 THEN t
                           ELSE IF IsObject(f[i - 1], target[i]) THEN Sub(f[i - 1], target[i])
                           ELSE Empty]
                 /\ Extract(t, target) = f[Len(target)]
    <2>1. \E f : f = [i \in 0..Len(target) |->
                        IF i = 0 THEN t
                        ELSE IF IsObject(f[i - 1], target[i]) THEN Sub(f[i - 1], target[i])
                        ELSE Empty]
      BY ExtractRuns
    <2>2. QED
      BY <2>1, Zenon DEF Extract
  <1>3. /\ f[0] = t
        /\ \A i \in 1..n : f[i] = IF IsObject(f[i - 1], target[i]) THEN Sub(f[i - 1], target[i]) ELSE Empty
    BY <1>1, <1>2
  <1>4. PICK T : T = {i \in Nat : i <= n => f[i] \in Objects(K)}
    OBVIOUS
  <1>5. 0 \in T
    BY <1>3, <1>4
  <1>6. ASSUME NEW i \in Nat, i \in T PROVE i + 1 \in T
    <2>1. SUFFICES ASSUME i + 1 <= n PROVE f[i + 1] \in Objects(K)
      BY <1>4
    <2>2. PICK d \in Objects(K) : d = f[i]
      BY <1>4, <1>6, <2>1
    <2>3. PICK k \in K : k = target[i + 1]
      BY <1>1, <2>1
    <2>4. f[i + 1] = IF IsObject(d, k) THEN Sub(d, k) ELSE Empty
      <3>1. i + 1 \in 1..n /\ (i + 1) - 1 = i
        BY <2>1
      <3>2. QED
        BY <1>3, <2>2, <2>3, <3>1
    <2>5. d \in Shape(K) /\ Closed(d, K) /\ Shallow(d)
      BY ObjectIs
    <2>6. Sub(d, k) \in Shape(K) /\ Closed(Sub(d, k), K) /\ Shallow(Sub(d, k))
      BY <2>5, SubIs
    <2>7. Sub(d, k) \in Objects(K)
      BY <2>6, ObjectIs
    <2>8. QED
      BY <2>4, <2>7, EmptyObject
  <1>7. Nat \subseteq T
    BY <1>5, <1>6, SetInduction
  <1>8. QED
    BY <1>1, <1>2, <1>4, <1>7

\* The formatters NewEntityFormatter may make, over any names of fields.
Formatters(K) ==
    {fmt \in [target : Seq(K), allow : Seq(Paths(K)), deny : Seq(Paths(K)),
              mapping : UNION {[D -> K] : D \in SUBSET K}, group : BOOLEAN] :
       IsFiniteSet(DOMAIN fmt.mapping)}

\* The filters: what they leave of an object is one, and what the lists say.
LEMMA FilteredIs ==
    ASSUME NEW K, NEW fmt \in Formatters(K), NEW in \in Objects(K)
    PROVE  Filtered(fmt, in) \in Objects(K) /\ AllowedExactly(fmt, in) /\ DeniedExactly(fmt, in)
  <1>1. in \in Shape(K) /\ Closed(in, K) /\ Shallow(in)
    BY ObjectIs
  <1>2. fmt.allow \in Seq(Paths(K)) /\ fmt.deny \in Seq(Paths(K))
    BY DEF Formatters
  <1>3. PICK n \in Nat : \A p \in in.nodes : Len(p) <= n
    BY <1>1 DEF Shallow
  <1>4. CASE in = Empty
    <2>1. Filtered(fmt, in) = Empty
      BY <1>4 DEF Filtered
    <2>2. QED
      BY <1>4, <2>1, EmptyObject DEF AllowedExactly, DeniedExactly, Empty
  <1>5. CASE in # Empty /\ fmt.allow # << >>
    <2>1. PICK wl : wl = AllowTree(fmt.allow)
      OBVIOUS
    <2>2. wl \in Shape(K) /\ Closed(wl, K) /\ wl.values = Effective(fmt.allow)
      BY <1>2, <2>1, AllowTreeIs
    <2>3. PICK u : u = AllowlistPrune(wl, in)
      OBVIOUS
    <2>4. /\ u \in Shape(K) /\ Closed(u, K)
          /\ u.nodes = {p \in in.nodes : \E w \in wl.values : IsPrefix(w, p) \/ (IsPrefix(p, w) /\ w \in in.nodes)}
      BY <1>1, <2>2, <2>3, PruneIs
    <2>5. Filtered(fmt, in) = u
      BY <1>5, <2>1, <2>3 DEF Filtered
    <2>6. Shallow(u)
      BY <1>3, <2>4 DEF Shallow
    <2>7. u \in Objects(K)
      BY <2>4, <2>6, ObjectIs
    <2>8. AllowedExactly(fmt, in)
      BY <2>2, <2>4, <2>5 DEF AllowedExactly
    <2>9. DeniedExactly(fmt, in)
      BY <1>5 DEF DeniedExactly
    <2>10. QED
      BY <2>5, <2>7, <2>8, <2>9
  <1>6. CASE in # Empty /\ fmt.allow = << >>
    <2>1. PICK list \in Seq(Paths(K)) : list = fmt.deny
      BY <1>2
    <2>2. PICK ref : ref = DenyTree(list)
      OBVIOUS
    <2>3. ref \in Shape(K) /\ DeniesFirst(ref, list, Len(list), K)
      BY <2>2, DenyTreeIs
    <2>4. PICK u : u = RecDelete(ref, in)
      OBVIOUS
    <2>5. /\ u \in Shape(K) /\ Closed(u, K)
          /\ u.nodes = {p \in in.nodes : ~\E v \in ref.values : IsPrefix(v, p)}
      BY <1>1, <2>3, <2>4, RecDeleteIs DEF DeniesFirst
    <2>6. Filtered(fmt, in) = u
      BY <1>6, <2>1, <2>2, <2>4 DEF Filtered
    <2>7. Shallow(u)
      BY <1>3, <2>5 DEF Shallow
    <2>8. u \in Objects(K)
      BY <2>5, <2>7, ObjectIs
    <2>9. in.nodes \subseteq Paths(K) /\ ref.values \subseteq Paths(K)
      BY <1>1, <2>3 DEF Shape
    <2>10. DOMAIN list = 1..Len(list) /\ \A j \in 1..Len(list) : list[j] \in Paths(K)
      OBVIOUS
    <2>11. ASSUME NEW p \in in.nodes
           PROVE  (\E v \in ref.values : IsPrefix(v, p)) <=> \E w \in ToSet(list) : IsPrefix(w, p)
      <3>1. ASSUME NEW v \in ref.values, IsPrefix(v, p) PROVE \E w \in ToSet(list) : IsPrefix(w, p)
        BY <2>3, <2>10, <3>1 DEF DeniesFirst, ToSet
      <3>2. ASSUME NEW j \in 1..Len(list), IsPrefix(list[j], p) PROVE \E v \in ref.values : IsPrefix(v, p)
        <4>1. PICK v \in ref.values : IsPrefix(v, list[j])
          BY <2>3 DEF DeniesFirst
        <4>2. IsPrefix(v, p)
          BY <2>9, <2>10, <3>2, <4>1, PathOrder
        <4>3. QED
          BY <4>2
      <3>3. QED
        BY <2>10, <3>1, <3>2 DEF ToSet
    <2>12. DeniedExactly(fmt, in)
      BY <2>1, <2>5, <2>6, <2>11 DEF DeniedExactly
    <2>13. AllowedExactly(fmt, in)
      BY <1>6 DEF AllowedExactly
    <2>14. QED
      BY <2>6, <2>8, <2>12, <2>13
  <1>7. QED
    BY <1>4, <1>5, <1>6

-----------------------------------------------------------------------------
(* EntityFormatter: the mapping *)

\* An entry of the mapping adds paths only.
LEMMA MapOneShape ==
    ASSUME NEW K, NEW d \in Shape(K), NEW former \in K, NEW new \in K
    PROVE  MapOne(d, former, new) \in Shape(K)
  <1>1. CASE former \in Keys(d)
    BY <1>1, MapOnePart
  <1>2. CASE former \notin Keys(d)
    BY <1>2 DEF MapOne
  <1>3. QED
    BY <1>1, <1>2

\* An order in which Go iterates over a map.
LEMMA OrderIs ==
    ASSUME NEW D, IsFiniteSet(D), NEW order \in SetToSeqs(D)
    PROVE  \E n \in Nat : /\ Len(order) = n /\ order \in [1..n -> D]
                          /\ \A i, j \in 1..n : i # j => order[i] # order[j]
                          /\ \A x \in D : \E i \in 1..n : order[i] = x
  <1>1. PICK n \in Nat : n = Cardinality(D)
    BY FS_CardinalityType
  <1>2. order \in [1..n -> D] /\ \A i, j \in 1..n : i # j => order[i] # order[j]
    BY <1>1 DEF SetToSeqs
  <1>3. order \in Seq(D) /\ Len(order) = n
    BY <1>2
  <1>4. order \in Injection(1..n, D)
    BY <1>2 DEF Injection, IsInjective
  <1>5. Cardinality(1..n) = n
    <2>1. Cardinality(1..n) = IF 1 > n THEN 0 ELSE n - 1 + 1
      BY FS_Interval
    <2>2. QED
      BY <2>1
  <1>6. order \in Surjection(1..n, D)
    BY <1>1, <1>4, <1>5, FS_Injection
  <1>7. \A x \in D : \E i \in 1..n : order[i] = x
    BY <1>6 DEF Surjection
  <1>8. QED
    BY <1>2, <1>3, <1>7

\* The mapping is applied entry by entry,
EntryByEntry(mapping, order, in, n) ==
    \E f : f = [i \in 0..n |-> IF i = 0 THEN in ELSE MapOne(f[i - 1], order[i], mapping[order[i]])]

\* for every order.
LEMMA MapRuns ==
    ASSUME NEW K, NEW mapping, DOMAIN mapping \subseteq K, \A k \in DOMAIN mapping : mapping[k] \in K,
           NEW n \in Nat, NEW order \in [1..n -> DOMAIN mapping], NEW in \in Shape(K)
    PROVE  EntryByEntry(mapping, order, in, n)
  <1>1. PICK step : step = [x \in (1..n) \X Shape(K) |-> MapOne(x[2], order[x[1]], mapping[order[x[1]]])]
    OBVIOUS
  <1>2. ASSUME NEW i \in 1..n, NEW d \in Shape(K)
        PROVE  /\ step[<<i, d>>] = MapOne(d, order[i], mapping[order[i]])
               /\ step[<<i, d>>] \in Shape(K)
    <2>1. order[i] \in K /\ mapping[order[i]] \in K
      OBVIOUS
    <2>2. MapOne(d, order[i], mapping[order[i]]) \in Shape(K)
      BY <2>1, MapOneShape
    <2>3. step[<<i, d>>] = MapOne(d, order[i], mapping[order[i]])
      BY <1>1
    <2>4. QED
      BY <2>2, <2>3
  <1>3. step \in [(1..n) \X Shape(K) -> Shape(K)]
    BY <1>1, <1>2
  <1>4. PICK f \in [0..n -> Shape(K)] : Applies(f, in, step, n)
    BY <1>3, AppliesExists
  <1>5. ASSUME NEW i \in 0..n
        PROVE  f[i] = IF i = 0 THEN in ELSE MapOne(f[i - 1], order[i], mapping[order[i]])
    <2>1. CASE i = 0
      BY <1>4, <2>1 DEF Applies
    <2>2. CASE i # 0
      <3>1. i \in 1..n /\ i - 1 \in 0..n
        BY <2>2
      <3>2. f[i] = step[<<i, f[i - 1]>>] /\ f[i - 1] \in Shape(K)
        BY <1>4, <3>1 DEF Applies
      <3>3. QED
        BY <1>2, <2>2, <3>1, <3>2
    <2>3. QED
      BY <2>1, <2>2
  <1>6. PICK h : h = [i \in 0..n |-> IF i = 0 THEN in ELSE MapOne(f[i - 1], order[i], mapping[order[i]])]
    OBVIOUS
  <1>7. f = h
    BY <1>5, <1>6
  <1>8. QED
    BY <1>6, <1>7, Zenon DEF EntryByEntry

\* Every field of d is one of in, as a whole.
FromFields(d, in, K) ==
    /\ d \in Shape(K)
    /\ \A k \in K : Part(d, k, K) = Empty \/ \E f \in Keys(in) : Part(d, k, K) = Part(in, f, K)

\* An entry mixes no fields.
LEMMA MapOneFrom ==
    ASSUME NEW K, NEW in, NEW d, FromFields(d, in, K), NEW former \in K, NEW new \in K
    PROVE  FromFields(MapOne(d, former, new), in, K)
  <1>1. CASE former \notin Keys(d)
    BY <1>1 DEF MapOne
  <1>2. CASE former \in Keys(d)
    <2>1. PICK e : e = MapOne(d, former, new)
      OBVIOUS
    <2>2. d \in Shape(K)
      BY DEF FromFields
    <2>3. e \in Shape(K)
      BY <2>1, <2>2, MapOneShape
    <2>4. ASSUME NEW k \in K
          PROVE  Part(e, k, K) = Empty \/ \E f \in Keys(in) : Part(e, k, K) = Part(in, f, K)
      <3>1. Part(e, k, K) = IF k = former THEN Empty ELSE IF k = new THEN Part(d, former, K) ELSE Part(d, k, K)
        BY <1>2, <2>1, <2>2, MapOnePart
      <3>2. /\ Part(d, k, K) = Empty \/ \E f \in Keys(in) : Part(d, k, K) = Part(in, f, K)
            /\ Part(d, former, K) = Empty \/ \E f \in Keys(in) : Part(d, former, K) = Part(in, f, K)
        BY DEF FromFields
      <3>3. QED
        BY <3>1, <3>2
    <2>5. QED
      BY <2>1, <2>3, <2>4 DEF FromFields
  <1>3. QED
    BY <1>1, <1>2

\* What has only fields of an object is an object.
LEMMA FromObject ==
    ASSUME NEW K, NEW in \in Objects(K), NEW d, FromFields(d, in, K)
    PROVE  d \in Objects(K)
  <1>1. in \in Shape(K) /\ Closed(in, K) /\ Shallow(in)
    BY ObjectIs
  <1>2. d \in Shape(K)
    BY DEF FromFields
  <1>3. Keys(in) \subseteq K /\ \A k \in K : PartClosed(Part(in, k, K), K)
    BY <1>1, KeysByParts, ClosedByParts
  <1>4. PartClosed(Empty, K)
    BY DEF PartClosed, Empty
  <1>5. \A k \in K : PartClosed(Part(d, k, K), K)
    BY <1>3, <1>4 DEF FromFields
  <1>6. PICK n \in Nat : \A p \in in.nodes : Len(p) <= n
    BY <1>1 DEF Shallow
  <1>7. \A k \in K : \A s \in Part(in, k, K).nodes : Len(s) + 1 <= n
    BY <1>1, <1>6, ShallowByParts
  <1>8. ASSUME NEW k \in K, NEW s \in Part(d, k, K).nodes PROVE Len(s) + 1 <= n
    <2>1. Part(d, k, K) # Empty
      BY <1>8 DEF Empty
    <2>2. PICK f \in Keys(in) : Part(d, k, K) = Part(in, f, K)
      BY <2>1 DEF FromFields
    <2>3. f \in K /\ s \in Part(in, f, K).nodes
      BY <1>3, <1>8, <2>2
    <2>4. QED
      BY <1>7, <2>3
  <1>9. \A p \in d.nodes : Len(p) <= n
    BY <1>2, <1>8, ShallowByParts
  <1>10. QED
    BY <1>2, <1>5, <1>6, <1>9, ClosedByParts, ObjectIs DEF Shallow

\* A field of the result is one of the object, under its own name.
LEMMA FromRenamed ==
    ASSUME NEW K, NEW in \in Shape(K), NEW d, FromFields(d, in, K), NEW k \in Keys(d)
    PROVE  \E f \in Keys(in) : Renamed(d, k, k) = Renamed(in, f, k)
  <1>1. d \in Shape(K)
    BY DEF FromFields
  <1>2. k \in K /\ Part(d, k, K).nodes # {}
    BY <1>1, KeysByParts
  <1>3. Part(d, k, K) # Empty
    BY <1>2 DEF Empty
  <1>4. PICK f \in Keys(in) : Part(d, k, K) = Part(in, f, K)
    BY <1>2, <1>3 DEF FromFields
  <1>5. f \in K
    BY KeysByParts
  <1>6. QED
    BY <1>1, <1>2, <1>4, <1>5, RenamedIs

\* MapInOrder, entry by entry.
LEMMA MapInOrderRuns ==
    ASSUME NEW K, NEW mapping, DOMAIN mapping \subseteq K, \A k \in DOMAIN mapping : mapping[k] \in K,
           NEW n \in Nat, NEW order \in [1..n -> DOMAIN mapping], Len(order) = n, NEW in \in Shape(K)
    PROVE  \E f : /\ f[0] = in /\ MapInOrder(mapping, order, in) = f[n]
                  /\ \A i \in 1..n : f[i] = MapOne(f[i - 1], order[i], mapping[order[i]])
  <1>1. EntryByEntry(mapping, order, in, n)
    BY MapRuns
  <1>2. \E f : f = [i \in 0..Len(order) |-> IF i = 0 THEN in ELSE MapOne(f[i - 1], order[i], mapping[order[i]])]
    BY <1>1, Zenon DEF EntryByEntry
  <1>3. PICK f : /\ f = [i \in 0..Len(order) |->
                           IF i = 0 THEN in ELSE MapOne(f[i - 1], order[i], mapping[order[i]])]
                 /\ MapInOrder(mapping, order, in) = f[Len(order)]
    BY <1>2, Zenon DEF MapInOrder
  <1>4. /\ f[0] = in
        /\ \A i \in 1..n : f[i] = MapOne(f[i - 1], order[i], mapping[order[i]])
    BY <1>3
  <1>5. QED
    BY <1>3, <1>4

\* An object has its own fields.
LEMMA FromItself ==
    ASSUME NEW K, NEW in \in Objects(K)
    PROVE  FromFields(in, in, K)
  <1>1. in \in Shape(K) /\ Closed(in, K)
    BY ObjectIs
  <1>2. ASSUME NEW k \in K
        PROVE  Part(in, k, K) = Empty \/ \E g \in Keys(in) : Part(in, k, K) = Part(in, g, K)
    <2>1. CASE k \in Keys(in)
      BY <2>1
    <2>2. CASE k \notin Keys(in)
      <3>1. Part(in, k, K).nodes = {}
        BY <1>1, <2>2, KeysByParts
      <3>2. Part(in, k, K).values = {}
        BY <1>1, <3>1, ClosedByParts DEF PartClosed
      <3>3. Part(in, k, K) = [nodes |-> Part(in, k, K).nodes, values |-> Part(in, k, K).values]
        BY DEF Part
      <3>4. QED
        BY <3>1, <3>2, <3>3 DEF Empty
    <2>3. QED
      BY <2>1, <2>2
  <1>3. QED
    BY <1>1, <1>2 DEF FromFields

\* The mapping mixes no fields, in any order.
LEMMA MapInOrderFrom ==
    ASSUME NEW K, NEW mapping, DOMAIN mapping \subseteq K, \A k \in DOMAIN mapping : mapping[k] \in K,
           NEW n \in Nat, NEW order \in [1..n -> DOMAIN mapping], Len(order) = n, NEW in \in Objects(K)
    PROVE  FromFields(MapInOrder(mapping, order, in), in, K)
  <1>1. PICK f : /\ f[0] = in /\ MapInOrder(mapping, order, in) = f[n]
                 /\ \A i \in 1..n : f[i] = MapOne(f[i - 1], order[i], mapping[order[i]])
    BY ObjectIs, MapInOrderRuns
  <1>2. PICK T : T = {i \in Nat : i <= n => FromFields(f[i], in, K)}
    OBVIOUS
  <1>3. 0 \in T
    <2>1. FromFields(in, in, K)
      BY FromItself
    <2>2. QED
      BY <1>1, <1>2, <2>1
  <1>4. ASSUME NEW i \in Nat, i \in T PROVE i + 1 \in T
    <2>1. SUFFICES ASSUME i + 1 <= n PROVE FromFields(f[i + 1], in, K)
      BY <1>2
    <2>2. PICK j \in 1..n : j = i + 1 /\ j - 1 = i
      BY <2>1
    <2>3. order[j] \in K /\ mapping[order[j]] \in K
      OBVIOUS
    <2>4. FromFields(f[i], in, K)
      BY <1>2, <1>4, <2>1
    <2>5. f[j] = MapOne(f[i], order[j], mapping[order[j]])
      BY <1>1, <2>2
    <2>6. QED
      BY <2>2, <2>3, <2>4, <2>5, MapOneFrom
  <1>5. Nat \subseteq T
    BY <1>3, <1>4, SetInduction
  <1>6. QED
    BY <1>1, <1>2, <1>5

\* The name of field f after the first i of the order.
NewName(mapping, order, i, f) == IF \E j \in 1..i : order[j] = f THEN mapping[f] ELSE f

\* d is in with its fields under their new names.
Renaming(d, in, mapping, order, i, K) ==
    /\ d \in Shape(K)
    /\ \A f \in Keys(in) : Part(d, NewName(mapping, order, i, f), K) = Part(in, f, K)
    /\ \A k \in Keys(d) : \E f \in Keys(in) : k = NewName(mapping, order, i, f)

\* One more entry of a mapping to new names renames one more field, and loses none.
LEMMA RenamingNext ==
    ASSUME NEW K, NEW mapping, DOMAIN mapping \subseteq K, \A k \in DOMAIN mapping : mapping[k] \in K,
           NEW n \in Nat, NEW order \in [1..n -> DOMAIN mapping],
           \A i, j \in 1..n : i # j => order[i] # order[j],
           NEW in \in Shape(K),
           \A f, g \in DOMAIN mapping : mapping[f] = mapping[g] => f = g,
           \A f \in DOMAIN mapping : mapping[f] \notin Keys(in) \cup DOMAIN mapping,
           NEW m \in 1..n, NEW d, Renaming(d, in, mapping, order, m - 1, K)
    PROVE  Renaming(MapOne(d, order[m], mapping[order[m]]), in, mapping, order, m, K)
  <1>1. PICK former \in DOMAIN mapping : former = order[m]
    OBVIOUS
  <1>2. PICK new \in K : new = mapping[former]
    OBVIOUS
  <1>3. former \in K /\ new # former /\ new \notin Keys(in)
    BY <1>2
  <1>4. d \in Shape(K) /\ Keys(in) \subseteq K /\ Keys(d) \subseteq K
    BY KeysByParts DEF Renaming
  <1>5. \A j \in 1..m - 1 : j \in 1..n /\ order[j] # former
    BY <1>1
  <1>6. \A f : f # former => NewName(mapping, order, m, f) = NewName(mapping, order, m - 1, f)
    <2>1. ASSUME NEW f, f # former
          PROVE  (\E j \in 1..m : order[j] = f) <=> \E j \in 1..m - 1 : order[j] = f
      <3>1. \A j \in 1..m : j = m \/ j \in 1..m - 1
        OBVIOUS
      <3>2. \A j \in 1..m - 1 : j \in 1..m
        OBVIOUS
      <3>3. QED
        BY <1>1, <2>1, <3>1, <3>2
    <2>2. QED
      BY <2>1 DEF NewName
  <1>7. NewName(mapping, order, m - 1, former) = former /\ NewName(mapping, order, m, former) = new
    <2>1. m \in 1..m
      OBVIOUS
    <2>2. QED
      BY <1>1, <1>2, <1>5, <2>1 DEF NewName
  <1>8. ASSUME NEW f \in Keys(in), f # former
        PROVE  /\ NewName(mapping, order, m - 1, f) \in K
               /\ NewName(mapping, order, m - 1, f) # former /\ NewName(mapping, order, m - 1, f) # new
    <2>1. CASE \E j \in 1..m - 1 : order[j] = f
      <3>1. f \in DOMAIN mapping /\ NewName(mapping, order, m - 1, f) = mapping[f]
        BY <1>5, <2>1 DEF NewName
      <3>2. mapping[f] # former
        BY <3>1
      <3>3. mapping[f] # new
        BY <1>2, <1>8, <3>1
      <3>4. QED
        BY <3>1, <3>2, <3>3
    <2>2. CASE ~\E j \in 1..m - 1 : order[j] = f
      <3>1. NewName(mapping, order, m - 1, f) = f
        BY <2>2 DEF NewName
      <3>2. QED
        BY <1>3, <1>4, <1>8, <3>1
    <2>3. QED
      BY <2>1, <2>2
  <1>9. PICK e : e = MapOne(d, former, new)
    OBVIOUS
  <1>10. e \in Shape(K)
    BY <1>3, <1>4, <1>9, MapOneShape
  <1>11. CASE former \notin Keys(d)
    <2>1. e = d
      BY <1>9, <1>11 DEF MapOne
    <2>2. former \notin Keys(in)
      <3>1. SUFFICES ASSUME former \in Keys(in) PROVE FALSE
        OBVIOUS
      <3>2. Part(d, former, K) = Part(in, former, K)
        BY <1>7, <3>1 DEF Renaming
      <3>3. Part(in, former, K).nodes # {}
        BY <1>3, <3>1, KeysByParts
      <3>4. QED
        BY <1>3, <1>4, <1>11, <3>2, <3>3, KeysByParts
    <2>3. \A f \in Keys(in) : NewName(mapping, order, m, f) = NewName(mapping, order, m - 1, f)
      BY <1>6, <2>2
    <2>4. Renaming(e, in, mapping, order, m, K)
      BY <2>1, <2>3 DEF Renaming
    <2>5. QED
      BY <1>1, <1>2, <1>9, <2>4
  <1>12. CASE former \in Keys(d)
    <2>1. former \in Keys(in)
      <3>1. PICK f \in Keys(in) : former = NewName(mapping, order, m - 1, f)
        BY <1>12 DEF Renaming
      <3>2. QED
        BY <1>8, <3>1
    <2>2. \A k \in K : Part(e, k, K) = IF k = former THEN Empty ELSE IF k = new THEN Part(d, former, K) ELSE Part(d, k, K)
      BY <1>3, <1>4, <1>9, <1>12, MapOnePart
    <2>3. ASSUME NEW f \in Keys(in) PROVE Part(e, NewName(mapping, order, m, f), K) = Part(in, f, K)
      <3>1. CASE f = former
        <4>1. Part(d, former, K) = Part(in, former, K)
          BY <1>7, <2>1 DEF Renaming
        <4>2. Part(e, new, K) = Part(d, former, K)
          BY <1>3, <2>2
        <4>3. QED
          BY <1>7, <3>1, <4>1, <4>2
      <3>2. CASE f # former
        <4>1. PICK k \in K : k = NewName(mapping, order, m - 1, f) /\ k # former /\ k # new
          BY <1>8, <3>2
        <4>2. Part(d, k, K) = Part(in, f, K)
          BY <4>1 DEF Renaming
        <4>3. Part(e, k, K) = Part(d, k, K)
          BY <2>2, <4>1
        <4>4. NewName(mapping, order, m, f) = k
          BY <1>6, <3>2, <4>1
        <4>5. QED
          BY <4>2, <4>3, <4>4
      <3>3. QED
        BY <3>1, <3>2
    <2>4. ASSUME NEW k \in Keys(e) PROVE \E f \in Keys(in) : k = NewName(mapping, order, m, f)
      <3>1. k \in K /\ Part(e, k, K).nodes # {}
        BY <1>10, KeysByParts
      <3>2. CASE k = new
        BY <1>7, <2>1, <3>2
      <3>3. CASE k # new
        <4>1. k # former
          BY <2>2, <3>1 DEF Empty
        <4>2. Part(d, k, K).nodes # {}
          BY <2>2, <3>1, <3>3, <4>1
        <4>3. k \in Keys(d)
          BY <1>4, <3>1, <4>2, KeysByParts
        <4>4. PICK f \in Keys(in) : k = NewName(mapping, order, m - 1, f)
          BY <4>3 DEF Renaming
        <4>5. f # former
          BY <1>7, <4>1, <4>4
        <4>6. QED
          BY <1>6, <4>4, <4>5
      <3>4. QED
        BY <3>2, <3>3
    <2>5. Renaming(e, in, mapping, order, m, K)
      BY <1>10, <2>3, <2>4 DEF Renaming
    <2>6. QED
      BY <1>1, <1>2, <1>9, <2>5
  <1>13. QED
    BY <1>11, <1>12

\* A mapping to new names renames every field, in any order.
LEMMA MapInOrderRenames ==
    ASSUME NEW K, NEW mapping, DOMAIN mapping \subseteq K, \A k \in DOMAIN mapping : mapping[k] \in K,
           NEW n \in Nat, NEW order \in [1..n -> DOMAIN mapping], Len(order) = n,
           \A i, j \in 1..n : i # j => order[i] # order[j],
           NEW in \in Shape(K),
           \A f, g \in DOMAIN mapping : mapping[f] = mapping[g] => f = g,
           \A f \in DOMAIN mapping : mapping[f] \notin Keys(in) \cup DOMAIN mapping
    PROVE  Renaming(MapInOrder(mapping, order, in), in, mapping, order, n, K)
  <1>1. PICK f : /\ f[0] = in /\ MapInOrder(mapping, order, in) = f[n]
                 /\ \A i \in 1..n : f[i] = MapOne(f[i - 1], order[i], mapping[order[i]])
    BY MapInOrderRuns
  <1>2. PICK T : T = {i \in Nat : i <= n => Renaming(f[i], in, mapping, order, i, K)}
    OBVIOUS
  <1>3. 0 \in T
    <2>1. \A k : NewName(mapping, order, 0, k) = k
      BY DEF NewName
    <2>2. QED
      BY <1>1, <1>2, <2>1 DEF Renaming
  <1>4. ASSUME NEW i \in Nat, i \in T PROVE i + 1 \in T
    <2>1. SUFFICES ASSUME i + 1 <= n PROVE Renaming(f[i + 1], in, mapping, order, i + 1, K)
      BY <1>2
    <2>2. PICK j \in 1..n : j = i + 1 /\ j - 1 = i
      BY <2>1
    <2>3. PICK d : d = f[j - 1]
      OBVIOUS
    <2>4. Renaming(d, in, mapping, order, j - 1, K)
      BY <1>2, <1>4, <2>1, <2>2, <2>3
    <2>5. f[j] = MapOne(d, order[j], mapping[order[j]])
      BY <1>1, <2>3
    <2>6. Renaming(f[j], in, mapping, order, j, K)
      BY <2>4, <2>5, RenamingNext
    <2>7. QED
      BY <2>2, <2>6
  <1>5. Nat \subseteq T
    BY <1>3, <1>4, SetInduction
  <1>6. QED
    BY <1>1, <1>2, <1>5

\* What the formatter maps an object to.
LEMMA MappedIs ==
    ASSUME NEW K, NEW fmt \in Formatters(K), NEW in \in Objects(K), NEW d \in Mapped(fmt, in)
    PROVE  /\ FromFields(d, in, K)
           /\ PlainMapping(fmt, in) =>
                \E n, order : /\ Renaming(d, in, fmt.mapping, order, n, K)
                              /\ \A f \in Keys(in) : f \in DOMAIN fmt.mapping <=> \E j \in 1..n : order[j] = f
  <1>1. CASE in = Empty
    <2>1. d = Empty /\ Keys(in) = {}
      BY <1>1 DEF Mapped, Keys, Empty
    <2>2. Renaming(d, in, fmt.mapping, << >>, 0, K)
      BY <1>1, <2>1, EmptyTree DEF Renaming
    <2>3. QED
      BY <1>1, <2>1, <2>2, FromItself
  <1>2. CASE in # Empty
    <2>1. PICK mapping : mapping = fmt.mapping
      OBVIOUS
    <2>2. /\ DOMAIN mapping \subseteq K /\ \A k \in DOMAIN mapping : mapping[k] \in K
          /\ IsFiniteSet(DOMAIN mapping)
      BY <2>1 DEF Formatters
    <2>3. PICK order \in SetToSeqs(DOMAIN mapping) : d = MapInOrder(mapping, order, in)
      BY <1>2, <2>1 DEF Mapped
    <2>4. PICK n \in Nat : /\ Len(order) = n /\ order \in [1..n -> DOMAIN mapping]
                           /\ \A i, j \in 1..n : i # j => order[i] # order[j]
                           /\ \A x \in DOMAIN mapping : \E i \in 1..n : order[i] = x
      BY <2>2, OrderIs
    <2>5. FromFields(d, in, K)
      BY <2>2, <2>3, <2>4, MapInOrderFrom
    <2>6. ASSUME PlainMapping(fmt, in) PROVE Renaming(d, in, mapping, order, n, K)
      <3>1. in \in Shape(K)
        BY ObjectIs
      <3>2. /\ \A f, g \in DOMAIN mapping : mapping[f] = mapping[g] => f = g
            /\ \A f \in DOMAIN mapping : mapping[f] \notin Keys(in) \cup DOMAIN mapping
        BY <2>1, <2>6 DEF PlainMapping
      <3>3. QED
        BY <2>2, <2>3, <2>4, <3>1, <3>2, MapInOrderRenames
    <2>7. \A f : f \in DOMAIN mapping <=> \E j \in 1..n : order[j] = f
      BY <2>4
    <2>8. QED
      BY <2>1, <2>5, <2>6, <2>7
  <1>3. QED
    BY <1>1, <1>2

\* The mapping renames exactly, in every order of its entries.
LEMMA RenamesAll ==
    ASSUME NEW K, NEW fmt \in Formatters(K), NEW in \in Objects(K)
    PROVE  MappingRenames(fmt, in)
  <1>1. SUFFICES ASSUME PlainMapping(fmt, in), NEW d \in Mapped(fmt, in)
                 PROVE  d.nodes = {<<IF p[1] \in DOMAIN fmt.mapping THEN fmt.mapping[p[1]] ELSE p[1]>> \o Tail(p) : p \in in.nodes}
    BY DEF MappingRenames
  <1>2. PICK n, order : /\ Renaming(d, in, fmt.mapping, order, n, K)
                        /\ \A f \in Keys(in) : f \in DOMAIN fmt.mapping <=> \E j \in 1..n : order[j] = f
    BY <1>1, MappedIs
  <1>3. in \in Shape(K) /\ d \in Shape(K)
    BY <1>2, ObjectIs DEF Renaming
  <1>4. /\ in.nodes \subseteq Paths(K) /\ d.nodes \subseteq Paths(K)
        /\ Keys(in) \subseteq K /\ Keys(d) \subseteq K
    BY <1>3, KeysByParts DEF Shape
  <1>5. PICK New : New = [f \in Keys(in) |-> IF f \in DOMAIN fmt.mapping THEN fmt.mapping[f] ELSE f]
    OBVIOUS
  <1>6. \A f \in Keys(in) : New[f] = NewName(fmt.mapping, order, n, f)
    BY <1>2, <1>5 DEF NewName
  <1>7. \A f \in Keys(in) : Part(d, New[f], K) = Part(in, f, K) /\ New[f] \in K
    <2>1. \A f \in Keys(in) : New[f] \in K
      BY <1>4, <1>5 DEF Formatters
    <2>2. QED
      BY <1>2, <1>6, <2>1 DEF Renaming
  <1>8. ASSUME NEW p \in in.nodes PROVE p[1] \in Keys(in) /\ <<New[p[1]]>> \o Tail(p) \in d.nodes
    <2>1. p[1] \in Keys(in)
      BY DEF Keys
    <2>2. Tail(p) \in Seq(K) /\ Tail(p) \in Part(in, p[1], K).nodes
      BY <1>4, SplitIs, InPart
    <2>3. Tail(p) \in Part(d, New[p[1]], K).nodes
      BY <1>7, <2>1, <2>2
    <2>4. QED
      BY <2>1, <2>2, <2>3, PartIs
  <1>9. ASSUME NEW q \in d.nodes PROVE \E p \in in.nodes : q = <<New[p[1]]>> \o Tail(p)
    <2>1. q[1] \in K /\ q[1] \in Keys(d) /\ Tail(q) \in Seq(K) /\ q = <<q[1]>> \o Tail(q)
      BY <1>4, SplitIs DEF Keys
    <2>2. PICK f \in Keys(in) : q[1] = New[f]
      BY <1>2, <1>6, <2>1 DEF Renaming
    <2>3. Tail(q) \in Part(d, q[1], K).nodes
      BY <1>4, InPart
    <2>4. Tail(q) \in Part(in, f, K).nodes
      BY <1>7, <2>2, <2>3
    <2>5. PICK p : p = <<f>> \o Tail(q)
      OBVIOUS
    <2>6. p \in in.nodes
      BY <2>1, <2>4, <2>5, PartIs
    <2>7. p[1] = f /\ Tail(p) = Tail(q)
      BY <1>4, <2>1, <2>5, ConsIs
    <2>8. QED
      BY <2>1, <2>2, <2>6, <2>7
  <1>10. \A p \in in.nodes : New[p[1]] = IF p[1] \in DOMAIN fmt.mapping THEN fmt.mapping[p[1]] ELSE p[1]
    BY <1>5, <1>8
  <1>11. ASSUME NEW q \in d.nodes
         PROVE  q \in {<<IF p[1] \in DOMAIN fmt.mapping THEN fmt.mapping[p[1]] ELSE p[1]>> \o Tail(p) : p \in in.nodes}
    BY <1>9, <1>10
  <1>12. ASSUME NEW p \in in.nodes
         PROVE  <<IF p[1] \in DOMAIN fmt.mapping THEN fmt.mapping[p[1]] ELSE p[1]>> \o Tail(p) \in d.nodes
    BY <1>8, <1>10
  <1>13. QED
    BY <1>11, <1>12

\* Grouping: the object is a field of its own.
LEMMA GroupIs ==
    ASSUME NEW K, NEW k \in K, NEW d \in Objects(K)
    PROVE  Single(k, d) \in Objects(K) /\ Sub(Single(k, d), k) = d
  <1>1. d \in Shape(K) /\ Closed(d, K) /\ Shallow(d)
    BY ObjectIs
  <1>2. PICK t : t = Single(k, d)
    OBVIOUS
  <1>3. PICK u : u = [nodes |-> {<< >>} \cup d.nodes, values |-> d.values]
    OBVIOUS
  <1>4. t \in Shape(K) /\ \A l \in K : Part(t, l, K) = IF l = k THEN u ELSE Empty
    BY <1>1, <1>2, <1>3, SinglePart
  <1>5. /\ d.nodes \subseteq Paths(K) /\ d.values \subseteq Paths(K)
        /\ d = [nodes |-> d.nodes, values |-> d.values]
    BY <1>1 DEF Shape
  <1>6. PartClosed(u, K)
    <2>1. u.values \subseteq u.nodes
      BY <1>1, <1>3 DEF Closed
    <2>2. ASSUME NEW p \in u.nodes, NEW q \in Seq(K), IsPrefix(q, p) PROVE q \in u.nodes
      <3>1. CASE q = << >>
        BY <1>3, <3>1
      <3>2. CASE q # << >>
        <4>1. q \in Paths(K)
          BY <3>2 DEF Paths
        <4>2. p # << >>
          <5>1. SUFFICES ASSUME p = << >> PROVE FALSE
            OBVIOUS
          <5>2. p \in Seq(K) /\ Len(p) = 0
            BY <5>1
          <5>3. Len(q) <= 0
            BY <2>2, <5>2, PrefixIs
          <5>4. QED
            BY <3>2, <5>3
        <4>3. p \in d.nodes
          BY <1>3, <4>2
        <4>4. QED
          BY <1>1, <1>3, <2>2, <4>1, <4>3 DEF Closed
      <3>3. QED
        BY <3>1, <3>2
    <2>3. ASSUME NEW p \in u.values, NEW q \in u.nodes, IsPrefix(p, q) PROVE p = q
      <3>1. p \in d.values /\ p \in Seq(K) /\ p # << >>
        BY <1>3, <1>5 DEF Paths
      <3>2. q # << >>
        <4>1. SUFFICES ASSUME q = << >> PROVE FALSE
          OBVIOUS
        <4>2. q \in Seq(K) /\ Len(q) = 0
          BY <4>1
        <4>3. Len(p) <= 0
          BY <2>3, <3>1, <4>2, PrefixIs
        <4>4. QED
          BY <3>1, <4>3
      <3>3. q \in d.nodes
        BY <1>3, <3>2
      <3>4. QED
        BY <1>1, <2>3, <3>1, <3>3 DEF Closed
    <2>4. QED
      BY <2>1, <2>2, <2>3 DEF PartClosed
  <1>7. PartClosed(Empty, K)
    BY DEF PartClosed, Empty
  <1>8. Closed(t, K)
    BY <1>4, <1>6, <1>7, ClosedByParts
  <1>9. PICK n \in Nat : \A p \in d.nodes : Len(p) <= n
    BY <1>1 DEF Shallow
  <1>10. ASSUME NEW l \in K, NEW s \in Part(t, l, K).nodes PROVE Len(s) + 1 <= n + 1
    <2>1. s \in u.nodes
      BY <1>4, <1>10 DEF Empty
    <2>2. s = << >> \/ s \in d.nodes
      BY <1>3, <2>1
    <2>3. CASE s = << >>
      <3>1. Len(s) = 0
        BY <2>3
      <3>2. QED
        BY <3>1
    <2>4. CASE s \in d.nodes
      <3>1. Len(s) <= n /\ Len(s) \in Nat
        BY <1>5, <1>9, <2>4 DEF Paths
      <3>2. QED
        BY <3>1
    <2>5. QED
      BY <2>2, <2>3, <2>4
  <1>11. PICK m \in Nat : m = n + 1
    OBVIOUS
  <1>12. \A p \in t.nodes : Len(p) <= m
    BY <1>4, <1>10, <1>11, ShallowByParts
  <1>13. t \in Objects(K)
    BY <1>4, <1>8, <1>11, <1>12, ObjectIs DEF Shallow
  <1>14. ASSUME NEW p \in Paths(K)
         PROVE  /\ p \in Sub(t, k).nodes <=> p \in d.nodes
                /\ p \in Sub(t, k).values <=> p \in d.values
    <2>1. /\ p \in Sub(t, k).nodes <=> <<k>> \o p \in t.nodes
          /\ p \in Sub(t, k).values <=> <<k>> \o p \in t.values
      <3>1. t.nodes \subseteq Paths(K) /\ t.values \subseteq Paths(K)
        BY <1>4 DEF Shape
      <3>2. QED
        BY <3>1, BelowIs DEF Sub
    <2>2. /\ p \in Part(t, k, K).nodes <=> <<k>> \o p \in t.nodes
          /\ p \in Part(t, k, K).values <=> <<k>> \o p \in t.values
      <3>1. p \in Seq(K)
        BY DEF Paths
      <3>2. QED
        BY <3>1, PartIs
    <2>3. p # << >>
      BY DEF Paths
    <2>4. QED
      BY <1>3, <1>4, <2>1, <2>2, <2>3
  <1>15. PICK e : e = Sub(t, k)
    OBVIOUS
  <1>16. e \in Shape(K)
    BY <1>4, <1>8, <1>13, <1>15, SubIs, ObjectIs
  <1>17. /\ e.nodes \subseteq Paths(K) /\ e.values \subseteq Paths(K)
         /\ e = [nodes |-> e.nodes, values |-> e.values]
    BY <1>16 DEF Shape
  <1>18. e.nodes = d.nodes /\ e.values = d.values
    BY <1>5, <1>14, <1>15, <1>17
  <1>19. QED
    BY <1>2, <1>5, <1>13, <1>15, <1>17, <1>18

(***************************************************************************)
(* Every formatter, over any names of fields, does to every object, of any *)
(* breadth and depth, what its configuration says.                         *)
(***************************************************************************)
THEOREM EveryFormatExact ==
    ASSUME NEW K, GroupKey \in K, NEW formatters, formatters \subseteq Formatters(K),
           NEW datas, datas \subseteq Objects(K)
    PROVE  AllFormatsExact(formatters, datas)
  <1>1. SUFFICES ASSUME NEW fmt \in Formatters(K), NEW data \in Objects(K)
                 PROVE  LET in == Received(fmt, data)  rest == Filtered(fmt, in) IN
                        /\ AllowedExactly(fmt, in) /\ DeniedExactly(fmt, in) /\ MappingRenames(fmt, rest)
                        /\ \A out \in Format(fmt, data) : IsTree(out) /\ NothingInvented(fmt, rest, out)
    BY DEF AllFormatsExact
  <1>2. PICK in : in = Received(fmt, data)
    OBVIOUS
  <1>3. in \in Objects(K)
    BY <1>2, ExtractIs DEF Received, Formatters
  <1>4. PICK rest : rest = Filtered(fmt, in)
    OBVIOUS
  <1>5. rest \in Objects(K) /\ AllowedExactly(fmt, in) /\ DeniedExactly(fmt, in)
    BY <1>3, <1>4, FilteredIs
  <1>6. MappingRenames(fmt, rest)
    BY <1>5, RenamesAll
  <1>7. ASSUME NEW out \in Format(fmt, data) PROVE IsTree(out) /\ NothingInvented(fmt, rest, out)
    <2>1. PICK d \in Mapped(fmt, rest) : out = Grouped(fmt, d)
      BY <1>2, <1>4 DEF Format
    <2>2. FromFields(d, rest, K)
      BY <1>5, MappedIs
    <2>3. d \in Objects(K)
      BY <1>5, <2>2, FromObject
    <2>4. out \in Objects(K)
      BY <2>1, <2>3, GroupIs DEF Grouped
    <2>5. IsTree(out)
      BY <2>4 DEF Objects
    <2>6. (IF fmt.group THEN Sub(out, GroupKey) ELSE out) = d
      BY <2>1, <2>3, GroupIs DEF Grouped
    <2>7. rest \in Shape(K)
      BY <1>5, ObjectIs
    <2>8. \A k \in Keys(d) : \E f \in Keys(rest) : Renamed(d, k, k) = Renamed(rest, f, k)
      BY <2>2, <2>7, FromRenamed
    <2>9. NothingInvented(fmt, rest, out)
      BY <2>6, <2>8 DEF NothingInvented
    <2>10. QED
      BY <2>5, <2>9
  <1>8. QED
    BY <1>2, <1>4, <1>5, <1>6, <1>7

-----------------------------------------------------------------------------
(* EntityFormatter: the formatters and objects of the run *)

\* A missing field is empty.
LEMMA EmptyPart ==
    ASSUME NEW K, NEW t \in Objects(K), NEW k \in K, k \notin Keys(t)
    PROVE  Part(t, k, K) = Empty
  <1>1. t \in Shape(K) /\ Closed(t, K)
    BY ObjectIs
  <1>2. Part(t, k, K).nodes = {}
    BY <1>1, KeysByParts
  <1>3. Part(t, k, K).values = {}
    BY <1>1, <1>2, ClosedByParts DEF PartClosed
  <1>4. Part(t, k, K) = [nodes |-> Part(t, k, K).nodes, values |-> Part(t, k, K).values]
    BY DEF Part
  <1>5. QED
    BY <1>2, <1>3, <1>4 DEF Empty

\* Objects with different fields make an object.
LEMMA JoinedIs ==
    ASSUME NEW K, NEW t \in Objects(K), NEW u \in Objects(K), Keys(t) \cap Keys(u) = {}
    PROVE  Joined(t, u) \in Objects(K)
  <1>1. t \in Shape(K) /\ Closed(t, K) /\ u \in Shape(K) /\ Closed(u, K)
    BY ObjectIs
  <1>2. PICK m \in Nat, n \in Nat : (\A p \in t.nodes : Len(p) <= m) /\ \A p \in u.nodes : Len(p) <= n
    BY DEF Objects, Shallow
  <1>3. PICK v : v = Joined(t, u)
    OBVIOUS
  <1>4. v \in Shape(K) /\ \A k \in K : Part(v, k, K) = Joined(Part(t, k, K), Part(u, k, K))
    <2>1. v \in Shape(K)
      BY <1>1, <1>3 DEF Joined, Shape
    <2>2. QED
      BY <1>1, <1>3, <2>1, JoinedPart
  <1>5. ASSUME NEW k \in K PROVE Part(v, k, K) \in {Part(t, k, K), Part(u, k, K)}
    <2>1. /\ Joined(Empty, Part(u, k, K)) = Part(u, k, K)
          /\ Joined(Part(t, k, K), Empty) = Part(t, k, K)
      BY DEF Joined, Empty, Part
    <2>2. Part(t, k, K) = Empty \/ Part(u, k, K) = Empty
      BY EmptyPart
    <2>3. QED
      BY <1>4, <2>1, <2>2
  <1>6. \A k \in K : PartClosed(Part(t, k, K), K) /\ PartClosed(Part(u, k, K), K)
    BY <1>1, ClosedByParts
  <1>7. \A k \in K : PartClosed(Part(v, k, K), K)
    BY <1>5, <1>6
  <1>8. Closed(v, K)
    BY <1>4, <1>7, ClosedByParts
  <1>9. \A p \in v.nodes : p \in t.nodes \/ p \in u.nodes
    BY <1>3 DEF Joined
  <1>10. \A p \in v.nodes : Len(p) \in Nat
    BY <1>4 DEF Shape, Paths
  <1>11. PICK most \in Nat : most = m + n
    OBVIOUS
  <1>12. \A p \in v.nodes : Len(p) <= most
    BY <1>2, <1>9, <1>10, <1>11
  <1>13. QED
    BY <1>3, <1>4, <1>8, <1>12, ObjectIs DEF Shallow

\* An object of values.
LEMMA FlatIs ==
    ASSUME NEW K, NEW s, s \subseteq {<<k>> : k \in K}
    PROVE  [nodes |-> s, values |-> s] \in Objects(K)
  <1>1. PICK t : t = [nodes |-> s, values |-> s]
    OBVIOUS
  <1>2. ASSUME NEW p \in s PROVE p \in Paths(K) /\ Len(p) = 1
    <2>1. PICK k \in K : p = <<k>>
      OBVIOUS
    <2>2. <<k>> \in Seq(K) /\ Len(<<k>>) = 1 /\ <<k>> # << >>
      OBVIOUS
    <2>3. QED
      BY <2>1, <2>2 DEF Paths
  <1>3. t \in Shape(K)
    BY <1>1, <1>2 DEF Shape
  <1>4. ASSUME NEW p \in Paths(K), NEW q \in s, IsPrefix(p, q) PROVE p = q
    <2>1. p \in Seq(K) /\ q \in Seq(K) /\ Len(p) > 0 /\ Len(q) = 1
      BY <1>2 DEF Paths
    <2>2. Len(q) <= Len(p)
      BY <2>1
    <2>3. QED
      BY <1>4, <2>1, <2>2, PrefixAntisymmetric
  <1>5. Closed(t, K)
    <2>1. t.nodes = s /\ t.values = s
      BY <1>1
    <2>2. QED
      BY <1>2, <1>4, <2>1 DEF Closed
  <1>6. \A p \in t.nodes : Len(p) <= 1
    <2>1. t.nodes = s
      BY <1>1
    <2>2. ASSUME NEW p \in s PROVE Len(p) <= 1
      <3>1. Len(p) = 1
        BY <1>2
      <3>2. QED
        BY <3>1
    <2>3. QED
      BY <2>1, <2>2
  <1>7. Shallow(t)
    BY <1>6 DEF Shallow
  <1>8. QED
    BY <1>1, <1>3, <1>5, <1>7, ObjectIs

\* The names of the run.
Names == Name \cup {"c"} \cup {GroupKey}

\* A field of the run is an object of any names,
LEMMA FieldOfIs ==
    ASSUME NEW k \in Name, NEW t \in FieldOf(k)
    PROVE  t \in Objects(Names) /\ Keys(t) \subseteq {k}
  <1>1. PICK K : K = Names
    OBVIOUS
  <1>2. k \in K
    BY <1>1 DEF Names
  <1>3. CASE t = Empty
    BY <1>3, EmptyObject DEF Keys, Empty
  <1>4. CASE t = [nodes |-> {<<k>>}, values |-> {<<k>>}]
    <2>1. {<<k>>} \subseteq {<<l>> : l \in K}
      BY <1>2
    <2>2. t \in Objects(K)
      BY <1>4, <2>1, FlatIs
    <2>3. Keys(t) = {k}
      BY <1>4 DEF Keys
    <2>4. QED
      BY <1>1, <2>2, <2>3
  <1>5. CASE \E n \in Nested : t = Single(k, n)
    <2>1. PICK n \in Nested : t = Single(k, n)
      BY <1>5
    <2>2. n \in Objects(K)
      <3>1. CASE n = Empty
        BY <3>1, EmptyObject
      <3>2. CASE \E s \in SUBSET {<<l>> : l \in Name} : n = [nodes |-> s, values |-> s]
        <4>1. PICK s \in SUBSET {<<l>> : l \in Name} : n = [nodes |-> s, values |-> s]
          BY <3>2
        <4>2. s \subseteq {<<l>> : l \in K}
          BY <1>1 DEF Names
        <4>3. QED
          BY <4>1, <4>2, FlatIs
      <3>3. QED
        BY <2>1, <3>1, <3>2 DEF Nested
    <2>3. t \in Objects(K)
      BY <1>2, <2>1, <2>2, GroupIs
    <2>4. n \in Shape(K) /\ t \in Shape(K)
      BY <2>2, <2>3, ObjectIs
    <2>5. ASSUME NEW l \in Keys(t) PROVE l = k
      <3>1. l \in K /\ Part(t, l, K).nodes # {}
        BY <2>4, KeysByParts
      <3>2. Part(t, l, K) # Empty
        BY <3>1 DEF Empty
      <3>3. QED
        BY <1>2, <2>1, <2>4, <3>1, <3>2, SinglePart
    <2>6. QED
      BY <1>1, <2>3, <2>5
  <1>6. QED
    BY <1>3, <1>4, <1>5 DEF FieldOf

\* and so is every response,
LEMMA DatasOfRun == MCDatas \subseteq Objects(Names)
  <1>1. SUFFICES ASSUME NEW a \in FieldOf("a"), NEW b \in FieldOf("b") PROVE Joined(a, b) \in Objects(Names)
    BY DEF MCDatas
  <1>2. a \in Objects(Names) /\ Keys(a) \subseteq {"a"}
    BY FieldOfIs DEF Name
  <1>3. b \in Objects(Names) /\ Keys(b) \subseteq {"b"}
    BY FieldOfIs DEF Name
  <1>4. Keys(a) \cap Keys(b) = {}
    BY <1>2, <1>3
  <1>5. QED
    BY <1>2, <1>3, <1>4, JoinedIs

\* and every formatter is one that NewEntityFormatter may make.
LEMMA FormattersOfRun == MCFormatters \subseteq Formatters(Names)
  <1>1. Path \subseteq Paths(Names)
    <2>1. ASSUME NEW k \in Name, NEW l \in Name PROVE <<k>> \in Paths(Names) /\ <<k, l>> \in Paths(Names)
      <3>1. k \in Names /\ l \in Names
        BY DEF Names
      <3>2. <<k>> \in Seq(Names) /\ <<k>> # << >>
        BY <3>1
      <3>3. <<k, l>> \in Seq(Names) /\ <<k, l>> # << >>
        BY <3>1
      <3>4. QED
        BY <3>2, <3>3 DEF Paths
    <2>2. ASSUME NEW x \in Path PROVE x \in Paths(Names)
      <3>1. CASE \E k \in Name : x = <<k>>
        <4>1. PICK k \in Name : x = <<k>>
          BY <3>1
        <4>2. QED
          BY <2>1, <4>1
      <3>2. CASE \E k \in Name, l \in Name : x = <<k, l>>
        <4>1. PICK k \in Name, l \in Name : x = <<k, l>>
          BY <3>2
        <4>2. QED
          BY <2>1, <4>1
      <3>3. QED
        BY <3>1, <3>2 DEF Path
    <2>3. QED
      BY <2>2
  <1>2. Lists \subseteq Seq(Paths(Names)) /\ Triples \subseteq Seq(Paths(Names))
    <2>1. PICK P : P = Paths(Names)
      OBVIOUS
    <2>2. ASSUME NEW p \in Path, NEW q \in Path, NEW r \in Path
          PROVE  << >> \in Seq(P) /\ <<p>> \in Seq(P) /\ <<p, q>> \in Seq(P) /\ <<p, q, r>> \in Seq(P)
      <3>1. p \in P /\ q \in P /\ r \in P
        BY <1>1, <2>1
      <3>2. << >> \in Seq(P) /\ <<p>> \in Seq(P)
        BY <3>1
      <3>3. <<p, q>> \in Seq(P)
        BY <3>1
      <3>4. <<p, q, r>> \in Seq(P)
        BY <3>1
      <3>5. QED
        BY <3>2, <3>3, <3>4
    <2>3. << >> \in Seq(P)
      OBVIOUS
    <2>4. ASSUME NEW l \in Lists PROVE l \in Seq(P)
      <3>1. CASE l = << >>
        BY <2>3, <3>1
      <3>2. CASE \E p \in Path : l = <<p>>
        <4>1. PICK p \in Path : l = <<p>>
          BY <3>2
        <4>2. QED
          BY <2>2, <4>1
      <3>3. CASE \E p \in Path, q \in Path : l = <<p, q>>
        <4>1. PICK p \in Path, q \in Path : l = <<p, q>>
          BY <3>3
        <4>2. QED
          BY <2>2, <4>1
      <3>4. QED
        BY <3>1, <3>2, <3>3 DEF Lists
    <2>5. ASSUME NEW l \in Triples PROVE l \in Seq(P)
      <3>1. PICK p \in Path, q \in Path, r \in Path : l = <<p, q, r>>
        BY DEF Triples
      <3>2. QED
        BY <2>2, <3>1
    <2>6. QED
      BY <2>1, <2>4, <2>5
  <1>3. << >> \in Seq(Names) /\ <<"a">> \in Seq(Names) /\ <<"a", "b">> \in Seq(Names)
    BY DEF Names, Name
  <1>4. << >> \in Seq(Paths(Names)) /\ <<<<"a">>>> \in Seq(Paths(Names))
    <2>1. <<"a">> \in Paths(Names)
      BY <1>3 DEF Paths
    <2>2. QED
      BY <2>1
  <1>5. ASSUME NEW D \in SUBSET Name, NEW m \in [D -> Names]
        PROVE  m \in UNION {[E -> Names] : E \in SUBSET Names} /\ IsFiniteSet(DOMAIN m)
    <2>1. IsFiniteSet(Name)
      <3>1. Name = {} \cup {"a"} \cup {"b"}
        BY DEF Name
      <3>2. IsFiniteSet({}) /\ IsFiniteSet({} \cup {"a"})
        BY FS_EmptySet, FS_AddElement
      <3>3. QED
        BY <3>1, <3>2, FS_AddElement
    <2>2. IsFiniteSet(D)
      BY <2>1, FS_Subset
    <2>3. D \in SUBSET Names
      BY DEF Names
    <2>4. QED
      BY <2>2, <2>3
  <1>6. NoMapping \in [{} -> Names]
    BY DEF NoMapping
  <1>7. \A m \in Mappings : \E D \in SUBSET Name : m \in [D -> Names]
    BY DEF Mappings, Names, Name
  <1>8. ASSUME NEW m, m = NoMapping \/ m \in Mappings
        PROVE  m \in UNION {[E -> Names] : E \in SUBSET Names} /\ IsFiniteSet(DOMAIN m)
    <2>1. {} \in SUBSET Name
      OBVIOUS
    <2>2. PICK D \in SUBSET Name : m \in [D -> Names]
      BY <1>6, <1>7, <1>8, <2>1
    <2>3. QED
      BY <1>5, <2>2
  <1>9. ASSUME NEW target \in Seq(Names), NEW allow \in Seq(Paths(Names)), NEW deny \in Seq(Paths(Names)),
               NEW m, m = NoMapping \/ m \in Mappings, NEW group \in BOOLEAN
        PROVE  Formatter(target, allow, deny, m, group) \in Formatters(Names)
    BY <1>8, <1>9 DEF Formatter, Formatters
  <1>10. ASSUME NEW t \in Targets, NEW l \in Lists \cup Triples
         PROVE  Filtering(t, l, << >>) \in Formatters(Names) /\ Filtering(t, << >>, l) \in Formatters(Names)
    <2>1. t \in Seq(Names) /\ l \in Seq(Paths(Names))
      BY <1>2, <1>3 DEF Targets
    <2>2. QED
      BY <1>4, <1>9, <2>1 DEF Filtering
  <1>11. ASSUME NEW fmt \in MCFormatters PROVE fmt \in Formatters(Names)
    <2>1. << >> \in Targets
      BY DEF Targets
    <2>2. CASE \E l \in {<< >>, <<<<"a">>>>}, m \in Mappings, g \in BOOLEAN : fmt = Formatter(<< >>, l, << >>, m, g)
      <3>1. PICK l \in {<< >>, <<<<"a">>>>}, m \in Mappings, g \in BOOLEAN : fmt = Formatter(<< >>, l, << >>, m, g)
        BY <2>2
      <3>2. l \in Seq(Paths(Names))
        BY <1>4
      <3>3. QED
        BY <1>3, <1>4, <1>9, <3>1, <3>2
    <2>3. CASE fmt \in {Filtering(t, l, << >>) : t \in Targets, l \in Lists}
      <3>1. PICK t \in Targets, l \in Lists : fmt = Filtering(t, l, << >>)
        BY <2>3
      <3>2. QED
        BY <1>10, <2>1, <3>1
    <2>4. CASE fmt \in {Filtering(t, << >>, l) : t \in Targets, l \in Lists}
      <3>1. PICK t \in Targets, l \in Lists : fmt = Filtering(t, << >>, l)
        BY <2>4
      <3>2. QED
        BY <1>10, <2>1, <3>1
    <2>5. CASE fmt \in {Filtering(<< >>, l, << >>) : l \in Triples}
      <3>1. PICK l \in Triples : fmt = Filtering(<< >>, l, << >>)
        BY <2>5
      <3>2. QED
        BY <1>10, <2>1, <3>1
    <2>6. CASE fmt \in {Filtering(<< >>, << >>, l) : l \in Triples}
      <3>1. PICK l \in Triples : fmt = Filtering(<< >>, << >>, l)
        BY <2>6
      <3>2. QED
        BY <1>10, <2>1, <3>1
    <2>7. CASE fmt \in {Formatter(<< >>, l, << >>, m, g) : l \in {<< >>, <<<<"a">>>>}, m \in Mappings, g \in BOOLEAN}
      <3>1. PICK l \in {<< >>, <<<<"a">>>>}, m \in Mappings, g \in BOOLEAN : fmt = Formatter(<< >>, l, << >>, m, g)
        BY <2>7
      <3>2. QED
        BY <2>2, <3>1
    <2>8. QED
      BY <2>3, <2>4, <2>5, <2>6, <2>7 DEF MCFormatters
  <1>12. QED
    BY <1>11

(***************************************************************************)
(* Whatever formatter a backend has, its response is reduced to what the   *)
(* lists leave of it, under the names the mapping gives.                   *)
(***************************************************************************)
THEOREM FormatsExactlyCorrect == Spec => []FormatsExactly
  <1>1. AllFormatsExact(MCFormatters, MCDatas)
    <2>1. GroupKey \in Names
      BY DEF Names
    <2>2. QED
      BY <2>1, EveryFormatExact, DatasOfRun, FormattersOfRun
  <1>2. FormatsExactly
    BY <1>1 DEF FormatsExactly
  <1>3. QED
    BY <1>2, PTL

=============================================================================
