----------------------- MODULE SequentialMergeProofs -----------------------
(***************************************************************************)
(* Theorems about SequentialMerge, for every number of backends, every set *)
(* of keys, references and replies.  SequenceInv is inductive, so it is    *)
(* proved part by part; what the parameters hold and the refinement of     *)
(* MergePromise follow from it.                                            *)
(***************************************************************************)
EXTENDS SequentialMerge, TLAPS

-----------------------------------------------------------------------------
(* Lemmas about responses and the accumulator                              *)

\* A reply is a response: its values come from the backend, and none without a map.
LEMMA ReplyFacts ==
    ASSUME NEW b \in Backend, NEW r \in Replies
    PROVE  ReplyOf(b, r) \in Response /\ r.io \in BOOLEAN
  <1>1. /\ r.isComplete \in BOOLEAN /\ r.hasData \in BOOLEAN /\ r.keys \subseteq Key
        /\ r.io \in BOOLEAN
    BY RefsAssumption
  <1>2. r.hasData \/ r.keys = {}
    BY RefsAssumption
  <1>3. ReplyOf(b, r).data \in [Key -> Source \cup {Absent}]
    <2>1. <<b, TRUE>> \in Source /\ <<b, FALSE>> \in Source
      BY SourceAssumption DEF Backend
    <2>2. ASSUME NEW k \in Key
          PROVE  <<b, k \in r.blanks>> \in Source
      <3>1. CASE k \in r.blanks
        <4>1. (k \in r.blanks) = TRUE
          BY <3>1
        <4> QED
          BY <2>1, <4>1, Zenon
      <3>2. CASE k \notin r.blanks
        <4>1. (k \in r.blanks) = FALSE
          BY <3>2
        <4> QED
          BY <2>1, <4>1, Zenon
      <3> QED
        BY <3>1, <3>2
    <2>3. \A k \in Key : (IF k \in r.keys THEN <<b, k \in r.blanks>> ELSE Absent)
                            \in Source \cup {Absent}
      BY <2>2, Zenon
    <2> QED
      BY <2>3 DEF ReplyOf
  <1>4. ReplyOf(b, r).hasData \/ ReplyOf(b, r).data = EmptyMap
    BY <1>2 DEF ReplyOf, EmptyMap
  <1> QED
    BY <1>1, <1>3, <1>4 DEF ReplyOf, Response

\* The parts of a response.
LEMMA ResponseParts ==
    ASSUME NEW x \in Response
    PROVE  /\ x.isComplete \in BOOLEAN /\ x.hasData \in BOOLEAN
           /\ x.data \in [Key -> Source \cup {Absent}]
           /\ x.hasData \/ x.data = EmptyMap
           /\ x # NoResponse
  BY NoResponseAssumption DEF Response

\* A combined response has the value of the later part for every key it has.
LEMMA CombineFacts ==
    ASSUME NEW x \in Response, NEW y \in Response
    PROVE  /\ CombineData(x, y) \in Response
           /\ CombineData(x, y).hasData = TRUE
           /\ CombineData(x, y).isComplete =
                 (x.hasData /\ y.hasData /\ x.isComplete /\ y.isComplete)
           /\ \A k \in Key : CombineData(x, y).data[k] =
                 IF y.data[k] = Absent THEN x.data[k] ELSE y.data[k]
  <1>1. CombineData(x, y).data \in [Key -> Source \cup {Absent}]
    BY ResponseParts DEF CombineData, Overlay
  <1>2. ASSUME NEW k \in Key
        PROVE  CombineData(x, y).data[k] = IF y.data[k] = Absent THEN x.data[k] ELSE y.data[k]
    <2>1. CASE x.hasData /\ y.hasData
      BY <2>1 DEF CombineData, Overlay
    <2>2. CASE ~y.hasData
      BY <2>2, ResponseParts DEF CombineData, EmptyMap
    <2>3. CASE ~x.hasData /\ y.hasData
      BY <2>3, ResponseParts DEF CombineData, EmptyMap
    <2> QED
      BY <2>1, <2>2, <2>3, ResponseParts
  <1> QED
    BY <1>1, <1>2, ResponseParts DEF CombineData, Response

\* Marking a response incomplete changes nothing else.
LEMMA MarkFacts ==
    ASSUME NEW x \in Response \cup {NoResponse}
    PROVE  /\ MarkIncomplete(x) \in Response \cup {NoResponse}
           /\ MarkIncomplete(x) = NoResponse <=> x = NoResponse
           /\ x # NoResponse => /\ MarkIncomplete(x).data = x.data
                                /\ MarkIncomplete(x).hasData = x.hasData
                                /\ MarkIncomplete(x).isComplete = FALSE
  <1>1. CASE x = NoResponse
    BY <1>1 DEF MarkIncomplete
  <1>2. CASE x \in Response
    <2>1. MarkIncomplete(x) = [x EXCEPT !.isComplete = FALSE]
      BY <1>2, NoResponseAssumption DEF MarkIncomplete
    <2>2. MarkIncomplete(x) \in Response
      BY <1>2, <2>1 DEF Response
    <2> QED
      BY <1>2, <2>1, <2>2, NoResponseAssumption DEF Response
  <1> QED
    BY <1>1, <1>2

\* While the loop runs, i is the number of a backend.
LEMMA InLoop ==
    ASSUME TypeOK, OneByOne, pc \notin {"result", "returned"}
    PROVE  i \in Backend /\ i \in 1..N /\ N \in Nat /\ N > 1
  BY NAssumption DEF TypeOK, OneByOne, Backend

-----------------------------------------------------------------------------
(* The initial states                                                      *)

\* sequentialMerge starts with nothing asked, nothing merged and no parameter set.
LEMMA InitSequenceInv == Init => SequenceInv
  <1> SUFFICES ASSUME Init PROVE SequenceInv
    OBVIOUS
  <1> USE NAssumption DEF Init, Backend, Delivered
  <1>1. TypeOK
    <2>1. EmptyMap \in [Key -> Source \cup {Absent}]
      BY DEF EmptyMap
    <2> QED
      BY <2>1 DEF TypeOK, NewAccumulator, NoResult
  <1>2. OneByOne /\ PartsKept
    BY DEF OneByOne, PartsKept, WentWell
  <1>3. Accounted
    BY DEF Accounted, NewAccumulator
  <1>4. Accumulated
    BY DEF Accumulated, NewAccumulator
  <1>5. MapsTold
    BY DEF MapsTold, NewAccumulator
  <1>6. ParamsTold /\ ReturnTold
    BY DEF ParamsTold, ReturnTold
  <1>7. NoCallAfterFailure /\ LastBackendWins
    BY DEF NoCallAfterFailure, LastBackendWins
  <1> QED
    BY <1>1, <1>2, <1>3, <1>4, <1>5, <1>6, <1>7 DEF SequenceInv

-----------------------------------------------------------------------------
(* The steps                                                               *)

\* A step keeps the types of everything.
LEMMA StepTypeOK ==
    ASSUME SequenceInv, [Next]_vars
    PROVE  TypeOK'
  <1> USE DEF reqVars, dataVars
  <1>0. TypeOK /\ OneByOne /\ Accounted /\ Accumulated
    BY DEF SequenceInv
  <1>1. CASE Replace
    <2>1. PICK readable \in SUBSET {d[1] : d \in BodyReads} :
            /\ body' = [b \in Backend |->
                       IF b \notin {d[1] : d \in BodyReads} THEN body[b]
                       ELSE IF b \in readable THEN "read" ELSE "broken"]
            /\ params' = [d \in Dest |->
                         IF Lookup(d, readable) = Absent THEN params[d] ELSE Lookup(d, readable)]
            /\ registry' = [d \in Dest |->
                         IF Lookup(d, readable) = Absent THEN registry[d] ELSE Lookup(d, readable)]
      BY <1>1 DEF Replace
    <2>2. ASSUME NEW d \in Dest
          PROVE  Lookup(d, readable) \in Source \cup {Absent}
      <3>2. d[1] \in Backend /\ d[2] \in Key \cup {Body}
        BY DEF Dest
      <3>3. registry[d] \in Source \cup {Absent}
        BY <1>0 DEF TypeOK
      <3>4. <<d[1], FALSE>> \in Source
        BY <3>2, SourceAssumption DEF Backend
      <3>5. d[2] # Body => maps[d[1]][d[2]] \in Source \cup {Absent}
        BY <1>0, <3>2 DEF TypeOK, Backend
      <3> QED
        BY <3>3, <3>4, <3>5 DEF Lookup
    <2>3. params' \in [Dest -> Source \cup {Absent}] /\ registry' \in [Dest -> Source \cup {Absent}]
      BY <1>0, <2>1, <2>2 DEF TypeOK
    <2>4. body' \in [Backend -> {"none", "unread", "read", "broken"}]
      BY <1>0, <2>1 DEF TypeOK
    <2> QED
      BY <1>0, <1>1, <2>3, <2>4 DEF Replace, TypeOK
  <1>2. CASE FilterOut
    <2>1. i \in 1..N /\ acc.pending - 1 \in 0..N /\ N \in Nat
      BY <1>0, <1>2, InLoop DEF FilterOut, Accounted
    <2>2. acc' \in [pending : 0..N, data : Response \cup {NoResponse}, errs : Seq(Backend)]
      BY <1>0, <1>2, <2>1 DEF FilterOut, TypeOK
    <2>3. i' \in 1..(N + 1) /\ pc' \in {"result", "replace"}
      BY <1>2, <2>1 DEF FilterOut, Advance
    <2> QED
      BY <1>0, <1>2, <2>1, <2>2, <2>3 DEF FilterOut, TypeOK, Backend
  <1>3. CASE Call \/ NextFails \/ GiveUp
    BY <1>0, <1>3 DEF Call, NextFails, GiveUp, TypeOK
  <1>4. CASE NextResponds
    <2>1. PICK r \in Replies :
            /\ resp' = [resp EXCEPT ![i] = ReplyOf(i, r)]
            /\ maps' = [maps EXCEPT ![i] = ReplyOf(i, r).data]
            /\ body' = [body EXCEPT ![i] = IF r.io THEN "unread" ELSE "none"]
      BY <1>4 DEF NextResponds
    <2>2. i \in Backend
      BY <1>0, <1>4, InLoop DEF NextResponds
    <2>3. ReplyOf(i, r) \in Response /\ ReplyOf(i, r).data \in [Key -> Source \cup {Absent}]
      BY <2>2, ReplyFacts, ResponseParts
    <2> QED
      BY <1>0, <1>4, <2>1, <2>2, <2>3 DEF NextResponds, TypeOK
  <1>5. CASE MergeResponse
    <2>1. i \in 1..N /\ i \in Backend /\ acc.pending - 1 \in 0..N /\ N \in Nat
      BY <1>0, <1>5, InLoop DEF MergeResponse, Accounted
    <2>2. resp[i] \in Response
      BY <1>0, <1>5, <2>1 DEF MergeResponse, OneByOne, TypeOK
    <2>3. (IF acc.data = NoResponse THEN resp[i] ELSE CombineData(acc.data, resp[i])) \in Response
      BY <1>0, <2>2, CombineFacts DEF TypeOK
    <2>4. /\ acc' \in [pending : 0..N, data : Response, errs : Seq(Backend)]
      BY <1>0, <1>5, <2>1, <2>3 DEF MergeResponse, AccMergeRes, TypeOK
    <2>5. root' \in 0..N
      BY <1>0, <1>5, <2>1 DEF MergeResponse, CombinedMap, TypeOK
    <2>6. acc'.data.data \in [Key -> Source \cup {Absent}]
      BY <2>4, ResponseParts
    <2>7. maps' \in [0..N -> [Key -> Source \cup {Absent}]]
      BY <1>0, <1>5, <2>5, <2>6 DEF MergeResponse, TypeOK
    <2>8. i' \in 1..(N + 1) /\ pc' \in {"result", "replace"} /\ kept' \subseteq Backend
      <3>1. CASE resp[i].isComplete
        <4>1. i' = i + 1 /\ pc' \in {"result", "replace"} /\ kept' = kept \cup {i}
          BY <1>5, <3>1 DEF MergeResponse, Advance
        <4>2. i + 1 \in 1..(N + 1)
          BY <2>1
        <4> QED
          BY <1>0, <2>1, <4>1, <4>2 DEF TypeOK
      <3>2. CASE ~resp[i].isComplete
        BY <1>0, <1>5, <2>1, <3>2 DEF MergeResponse, TypeOK
      <3> QED
        BY <3>1, <3>2
    <2>9. acc' \in [pending : 0..N, data : Response \cup {NoResponse}, errs : Seq(Backend)]
      BY <2>4
    <2> QED
      BY <1>0, <1>5, <2>5, <2>7, <2>8, <2>9 DEF MergeResponse, TypeOK
  <1>6. CASE MergeError
    <2>1. i \in 1..N /\ i \in Backend /\ acc.pending - 1 \in 0..N
      BY <1>0, <1>6, InLoop DEF MergeError, Accounted
    <2>2. ASSUME i # 1
          PROVE  acc' \in [pending : 0..N, data : Response \cup {NoResponse}, errs : Seq(Backend)]
      <3>1. Append(acc.errs, i) \in Seq(Backend)
        BY <1>0, <2>1 DEF TypeOK
      <3>2. MarkIncomplete(acc.data) \in Response \cup {NoResponse}
        BY <1>0, MarkFacts DEF TypeOK
      <3> QED
        <4> PICK s \in Seq(Backend) : s = Append(acc.errs, i)
          BY <3>1
        <4>1. acc' = [pending |-> acc.pending - 1, data |-> MarkIncomplete(acc.data), errs |-> s]
          BY <1>6, <2>2 DEF MergeError, AccMergeErr
        <4> QED
          BY <2>1, <3>2, <4>1
    <2>3. ASSUME i = 1
          PROVE  ret' \in [data : Response \cup {NoResponse}, errs : Seq(Backend)]
      <3>1. <<i>> \in Seq(Backend)
        BY <2>1
      <3> QED
        <4> PICK s \in Seq(Backend) : s = <<i>>
          BY <3>1
        <4>1. ret' = [data |-> NoResponse, errs |-> s]
          BY <1>6, <2>3 DEF MergeError
        <4> QED
          BY <4>1
    <2> QED
      BY <1>0, <1>6, <2>2, <2>3 DEF MergeError, TypeOK, Cancelled
  <1>7. CASE Finish
    <2>1. AccResult(acc) \in [data : Response \cup {NoResponse}, errs : Seq(Backend)]
      BY <1>0, MarkFacts DEF AccResult, TypeOK
    <2> QED
      BY <1>0, <1>7, <2>1 DEF Finish, TypeOK, Cancelled
  <1>8. CASE CtxDone \/ Terminated \/ UNCHANGED vars
    BY <1>0, <1>8 DEF CtxDone, Terminated, vars, TypeOK
  <1> QED
    BY <1>1, <1>2, <1>3, <1>4, <1>5, <1>6, <1>7, <1>8 DEF Next, Steps, NextReturns

\* Where the loop is, and what status and response the backend of the iteration has after
\* a step: no other backend is touched.
LEMMA StatusSteps ==
    ASSUME SequenceInv, [Next]_vars
    PROVE  \/ /\ UNCHANGED <<i, status, resp, kept>>
              /\ \/ pc' = pc \/ (pc = "replace" /\ pc' = "filter")
                 \/ (pc = "failing" /\ pc' \in {"result", "returned"})
                 \/ (pc = "result" /\ pc' = "returned")
           \/ /\ pc = "filter" /\ status' = [status EXCEPT ![i] = "skipped"]
              /\ Advance /\ kept' = kept \cup {i} /\ resp' = resp
           \/ /\ pc = "filter" /\ pc' = "calling" /\ status' = [status EXCEPT ![i] = "called"]
              /\ UNCHANGED <<i, kept, resp>>
           \/ /\ pc = "calling" /\ pc' = "answered" /\ UNCHANGED <<i, kept, status>>
              /\ \E r \in Replies : resp' = [resp EXCEPT ![i] = ReplyOf(i, r)]
           \/ /\ pc \in {"calling", "answered"} /\ pc' = "failing"
              /\ status' = [status EXCEPT ![i] = "failed"] /\ UNCHANGED <<i, kept, resp>>
           \/ /\ pc = "answered" /\ status' = [status EXCEPT ![i] = "delivered"]
              /\ IF resp[i].isComplete THEN kept' = kept \cup {i} /\ Advance
                 ELSE kept' = kept /\ pc' = "result" /\ i' = i
              /\ resp' = resp
  <1> USE DEF reqVars, dataVars
  <1>1. CASE Replace \/ Call \/ GiveUp \/ NextFails
    BY <1>1 DEF Replace, Call, GiveUp, NextFails
  <1>2. CASE FilterOut
    BY <1>2 DEF FilterOut
  <1>3. CASE NextResponds
    BY <1>3 DEF NextResponds
  <1>4. CASE MergeResponse
    BY <1>4 DEF MergeResponse
  <1>5. CASE MergeError \/ Finish
    <2>1. /\ UNCHANGED <<i, status, resp, kept>>
          /\ \/ (pc = "failing" /\ pc' \in {"result", "returned"})
             \/ (pc = "result" /\ pc' = "returned")
      BY <1>5 DEF MergeError, Finish
    <2> QED
      BY <2>1
  <1>6. CASE CtxDone \/ Terminated \/ UNCHANGED vars
    <2>1. UNCHANGED <<i, status, resp, kept, pc>>
      BY <1>6 DEF CtxDone, Terminated, vars
    <2> QED
      BY <2>1
  <1> QED
    BY <1>1, <1>2, <1>3, <1>4, <1>5, <1>6 DEF Next, Steps, NextReturns

\* The backends are gone through one by one, and a part is kept when its backend went well.
LEMMA StepOneByOne ==
    ASSUME SequenceInv, [Next]_vars
    PROVE  OneByOne' /\ PartsKept'
  <1>0. TypeOK /\ OneByOne /\ PartsKept
    BY DEF SequenceInv
  <1>1. CASE /\ UNCHANGED <<i, status, resp, kept>>
             /\ \/ pc' = pc \/ (pc = "replace" /\ pc' = "filter")
                \/ (pc = "failing" /\ pc' \in {"result", "returned"})
                \/ (pc = "result" /\ pc' = "returned")
    BY <1>0, <1>1 DEF OneByOne, PartsKept, WentWell, Delivered
  <1>2. CASE /\ pc = "filter" /\ pc' = "calling" /\ status' = [status EXCEPT ![i] = "called"]
             /\ UNCHANGED <<i, kept, resp>>
    <2>1. i \in Backend /\ N \in Nat /\ Backend = 1..N /\ i # N + 1
      BY <1>0, <1>2, InLoop DEF Backend
    <2>2. \A b \in Backend : status'[b] = IF b = i THEN "called" ELSE status[b]
      BY <1>0, <1>2 DEF TypeOK
    <2>3. status[i] = "idle" /\ Delivered' = Delivered
      BY <1>0, <1>2, <2>1, <2>2 DEF OneByOne, Delivered
    <2>4. \A b \in Backend : WentWell(b)' <=> WentWell(b)
      BY <1>2, <2>2, <2>3 DEF WentWell
    <2> QED
      BY <1>0, <1>2, <2>1, <2>2, <2>3, <2>4 DEF OneByOne, PartsKept
  <1>3. CASE /\ pc = "calling" /\ pc' = "answered" /\ UNCHANGED <<i, kept, status>>
             /\ \E r \in Replies : resp' = [resp EXCEPT ![i] = ReplyOf(i, r)]
    <2>1. i \in Backend /\ N \in Nat /\ Backend = 1..N /\ i # N + 1
      BY <1>0, <1>3, InLoop DEF Backend
    <2>2. /\ \A b \in Backend \ {i} : resp'[b] = resp[b]
          /\ resp'[i] # NoResponse
      BY <1>0, <1>3, <2>1, ReplyFacts, ResponseParts DEF TypeOK
    <2>3. status[i] = "called" /\ Delivered' = Delivered
      BY <1>0, <1>3, <2>1, <2>2 DEF OneByOne, Delivered
    <2>4. \A b \in Backend : WentWell(b)' <=> WentWell(b)
      BY <1>3, <2>2, <2>3 DEF WentWell
    <2> QED
      BY <1>0, <1>3, <2>1, <2>2, <2>3, <2>4 DEF OneByOne, PartsKept, Delivered
  <1>4. CASE /\ pc \in {"calling", "answered"} /\ pc' = "failing"
             /\ status' = [status EXCEPT ![i] = "failed"] /\ UNCHANGED <<i, kept, resp>>
    <2>1. i \in Backend /\ N \in Nat /\ Backend = 1..N /\ i # N + 1
      BY <1>0, <1>4, InLoop DEF Backend
    <2>2. \A b \in Backend : status'[b] = IF b = i THEN "failed" ELSE status[b]
      BY <1>0, <1>4 DEF TypeOK
    <2>3. status[i] = "called" /\ Delivered' = Delivered
      BY <1>0, <1>4, <2>1, <2>2 DEF OneByOne, Delivered
    <2>4. \A b \in Backend : WentWell(b)' <=> WentWell(b)
      BY <1>4, <2>2, <2>3 DEF WentWell
    <2> QED
      BY <1>0, <1>4, <2>1, <2>2, <2>3, <2>4 DEF OneByOne, PartsKept
  <1>5. ASSUME pc \in {"filter", "answered"}, NEW a \in {"skipped", "delivered"},
               status' = [status EXCEPT ![i] = a], resp' = resp,
               Advance, kept' = kept \cup {i},
               a = "delivered" => pc = "answered" /\ resp[i].isComplete
        PROVE  OneByOne' /\ PartsKept'
    <2>1. i \in 1..N /\ N \in Nat /\ Backend = 1..N
      BY <1>0, <1>5, InLoop DEF Backend
    <2>2. \A b \in Backend : status'[b] = IF b = i THEN a ELSE status[b]
      BY <1>0, <1>5 DEF TypeOK
    <2>3. \A b \in Backend : WentWell(b)' <=> b = i \/ WentWell(b)
      BY <1>5, <2>1, <2>2 DEF WentWell
    <2>4. i' = i + 1 /\ pc' = IF i = N THEN "result" ELSE "replace"
      BY <1>5 DEF Advance
    <2>5. \A b \in Backend : b < i' <=> b < i \/ b = i
      BY <2>1, <2>4
    <2>6. \A b \in Backend : b > i' => b > i /\ b # i
      BY <2>1, <2>4
    <2>7. i' \in Backend => i' > i /\ i' # i /\ pc' = "replace"
      BY <2>1, <2>4
    <2>8. i' = N + 1 => pc' = "result"
      BY <2>1, <2>4
    <2>9. \A b \in Backend : b < i' => WentWell(b)'
      BY <1>0, <2>3, <2>5 DEF OneByOne
    <2>10. \A b \in Backend : b > i' => status'[b] = "idle"
      BY <1>0, <2>2, <2>6 DEF OneByOne
    <2>11. i' \in Backend => pc' = "replace" /\ status'[i'] = "idle"
      BY <1>0, <2>2, <2>7 DEF OneByOne
    <2>12. \A b \in Delivered' : resp'[b] # NoResponse
      BY <1>0, <1>5, <2>1, <2>2 DEF OneByOne, Delivered
    <2>13. pc' # "answered"
      BY <2>4
    <2>14. OneByOne'
      BY <2>8, <2>9, <2>10, <2>11, <2>12, <2>13 DEF OneByOne
    <2>15. PartsKept'
      BY <1>0, <1>5, <2>1, <2>3 DEF PartsKept
    <2> QED
      BY <2>14, <2>15
  <1>6. CASE /\ pc = "answered" /\ status' = [status EXCEPT ![i] = "delivered"]
             /\ ~resp[i].isComplete
             /\ kept' = kept /\ pc' = "result" /\ i' = i /\ resp' = resp
    <2>1. i \in Backend /\ N \in Nat /\ Backend = 1..N /\ i # N + 1
      BY <1>0, <1>6, InLoop DEF Backend
    <2>2. \A b \in Backend : status'[b] = IF b = i THEN "delivered" ELSE status[b]
      BY <1>0, <1>6 DEF TypeOK
    <2>3. status[i] = "called" /\ Delivered' = Delivered \cup {i}
      BY <1>0, <1>6, <2>1, <2>2 DEF OneByOne, Delivered
    <2>4. \A b \in Backend : WentWell(b)' <=> WentWell(b)
      BY <1>6, <2>2, <2>3 DEF WentWell
    <2> QED
      BY <1>0, <1>6, <2>1, <2>2, <2>3, <2>4 DEF OneByOne, PartsKept
  <1> QED
    BY <1>1, <1>2, <1>3, <1>4, <1>5, <1>6, StatusSteps

\* What is pending and what failed follows from where the loop is.
LEMMA StepAccounted ==
    ASSUME SequenceInv, [Next]_vars
    PROVE  Accounted'
  <1> USE DEF reqVars, dataVars
  <1>0. TypeOK /\ OneByOne /\ Accounted
    BY DEF SequenceInv
  <1>1. CASE Replace \/ Call \/ NextResponds \/ NextFails \/ GiveUp
    <2>1. UNCHANGED <<i, acc>> /\ pc' \in {"filter", "calling", "answered", "failing"}
      BY <1>1 DEF Replace, Call, NextResponds, NextFails, GiveUp
    <2>2. pc \in {"replace", "filter", "calling", "answered"}
      BY <1>1 DEF Replace, Call, NextResponds, NextFails, GiveUp
    <2> QED
      BY <1>0, <2>1, <2>2 DEF Accounted
  <1>2. CASE FilterOut \/ (MergeResponse /\ resp[i].isComplete)
    <2>1. pc \in {"filter", "answered"} /\ Advance
      BY <1>2 DEF FilterOut, MergeResponse
    <2>2. acc'.pending = acc.pending - 1 /\ acc'.errs = acc.errs
      BY <1>0, <1>2 DEF FilterOut, MergeResponse, AccMergeRes, TypeOK
    <2>3. i \in 1..N /\ N \in Nat
      BY <1>0, <2>1, InLoop
    <2>4. acc.pending = N - i + 1 /\ acc.errs = << >>
      BY <1>0, <2>1 DEF Accounted
    <2>5. i = N => acc'.pending = 0 /\ i' = N + 1 /\ pc' = "result" /\ i' \notin 2..N
      BY <2>1, <2>2, <2>3, <2>4 DEF Advance
    <2>6. i # N => acc'.pending = N - i' + 1 /\ pc' = "replace"
      BY <2>1, <2>2, <2>3, <2>4 DEF Advance
    <2> QED
      BY <2>2, <2>4, <2>5, <2>6 DEF Accounted
  <1>3. CASE MergeResponse /\ ~resp[i].isComplete
    <2>1. pc = "answered" /\ pc' = "result" /\ i' = i
      BY <1>3 DEF MergeResponse
    <2>2. acc'.pending = acc.pending - 1 /\ acc'.errs = acc.errs
      BY <1>0, <1>3 DEF MergeResponse, AccMergeRes, TypeOK
    <2>3. i \in 1..N /\ N \in Nat /\ i \in Backend
      BY <1>0, <2>1, InLoop
    <2>4. acc.pending = N - i + 1 /\ acc.errs = << >>
      BY <1>0, <2>1 DEF Accounted
    <2>5. status'[i] = "delivered"
      BY <1>0, <1>3, <2>3 DEF MergeResponse, TypeOK
    <2>6. acc'.pending = N - i /\ i # N + 1
      BY <2>2, <2>3, <2>4
    <2> QED
      BY <2>1, <2>2, <2>4, <2>5, <2>6 DEF Accounted
  <1>4. CASE MergeError
    <2>1. pc = "failing" /\ UNCHANGED <<i, status>>
      BY <1>4 DEF MergeError
    <2>2. i \in 1..N /\ N \in Nat /\ i \in Backend /\ status[i] = "failed"
      BY <1>0, <2>1, InLoop DEF OneByOne
    <2>3. acc.pending = N - i + 1 /\ acc.errs = << >>
      BY <1>0, <2>1 DEF Accounted
    <2>4. CASE i = 1
      BY <1>4, <2>1, <2>3, <2>4 DEF MergeError, Accounted
    <2>5. CASE i # 1
      <3>1. pc' = "result" /\ acc'.pending = N - i /\ i # N + 1 /\ i \in 2..N
        BY <1>4, <2>2, <2>3, <2>5 DEF MergeError, AccMergeErr
      <3>2. acc'.errs = Append(<< >>, i)
        BY <1>4, <2>3, <2>5 DEF MergeError, AccMergeErr
      <3>3. acc'.errs = <<i>>
        BY <3>2
      <3> QED
        BY <2>1, <2>2, <3>1, <3>3 DEF Accounted
    <2> QED
      BY <2>4, <2>5
  <1>5. CASE Finish
    <2>1. pc = "result" /\ pc' = "returned" /\ UNCHANGED <<i, acc, status>>
      BY <1>5 DEF Finish
    <2> QED
      BY <1>0, <2>1 DEF Accounted
  <1>6. CASE CtxDone \/ Terminated \/ UNCHANGED vars
    <2>1. UNCHANGED <<pc, i, acc, status>>
      BY <1>6 DEF CtxDone, Terminated, vars
    <2> QED
      BY <1>0, <2>1 DEF Accounted
  <1> QED
    BY <1>1, <1>2, <1>3, <1>4, <1>5, <1>6 DEF Next, Steps, NextReturns

\* Only a merge delivers; any other step leaves the delivered responses as they are.
LEMMA DeliveredSame ==
    ASSUME SequenceInv, [Next]_vars, ~MergeResponse
    PROVE  Delivered' = Delivered /\ \A b \in Delivered : resp'[b] = resp[b]
  <1> USE DEF reqVars, dataVars
  <1>0. TypeOK /\ OneByOne
    BY DEF SequenceInv
  <1>1. CASE Replace \/ MergeError \/ Finish \/ CtxDone \/ Terminated \/ UNCHANGED vars
    <2>1. UNCHANGED <<status, resp>>
      BY <1>1 DEF Replace, MergeError, Finish, CtxDone, Terminated, vars
    <2> QED
      BY <2>1 DEF Delivered
  <1>2. CASE FilterOut \/ Call \/ NextFails \/ GiveUp
    <2>1. /\ resp' = resp /\ i \in Backend /\ status[i] # "delivered"
          /\ \E a \in {"skipped", "called", "failed"} : status' = [status EXCEPT ![i] = a]
      BY <1>0, <1>2, InLoop DEF FilterOut, Call, NextFails, GiveUp, OneByOne
    <2>2. /\ status'[i] # "delivered"
          /\ \A b \in Backend \ {i} : status'[b] = status[b]
      BY <1>0, <2>1 DEF TypeOK
    <2> QED
      BY <2>1, <2>2 DEF Delivered
  <1>3. CASE NextResponds
    <2>1. /\ status' = status /\ i \in Backend /\ status[i] # "delivered"
          /\ \A b \in Backend \ {i} : resp'[b] = resp[b]
      BY <1>0, <1>3, InLoop DEF NextResponds, OneByOne, TypeOK
    <2> QED
      BY <2>1 DEF Delivered
  <1> QED
    BY <1>1, <1>2, <1>3 DEF Next, Steps, NextReturns

\* What a merge starts from and what it does to the accumulated response.
LEMMA MergeFacts ==
    ASSUME SequenceInv, MergeResponse
    PROVE  /\ i \in 1..N /\ i \in Backend /\ N \in Nat
           /\ resp[i] \in Response /\ resp' = resp
           /\ i \notin Delivered /\ Delivered' = Delivered \cup {i}
           /\ \A b \in Delivered : b < i /\ b \in 1..N /\ resp[b] \in Response
           /\ \A b \in Delivered : resp[b].isComplete
           /\ acc'.data = IF acc.data = NoResponse THEN resp[i] ELSE CombineData(acc.data, resp[i])
           /\ acc'.data \in Response
           /\ acc.errs = << >> /\ acc'.errs = << >>
  <1>0. TypeOK /\ OneByOne /\ Accounted
    BY DEF SequenceInv
  <1>1. pc = "answered" /\ resp' = resp /\ status' = [status EXCEPT ![i] = "delivered"]
    BY DEF MergeResponse
  <1>2. i \in 1..N /\ i \in Backend /\ N \in Nat
    BY <1>0, <1>1, InLoop
  <1>3. status[i] = "called" /\ resp[i] \in Response
    BY <1>0, <1>1, <1>2 DEF OneByOne, TypeOK
  <1>4. Delivered' = Delivered \cup {i} /\ i \notin Delivered
    BY <1>0, <1>1, <1>2, <1>3 DEF TypeOK, Delivered
  <1>5. \A b \in Delivered : b < i /\ b \in 1..N
    <2> SUFFICES ASSUME NEW b \in Delivered PROVE b < i /\ b \in 1..N
      OBVIOUS
    <2>1. b \in 1..N /\ b # i /\ ~(b > i)
      BY <1>0, <1>3 DEF OneByOne, Delivered, Backend
    <2> QED
      BY <1>2, <2>1
  <1>6. \A b \in Delivered : resp[b] \in Response
    BY <1>0 DEF OneByOne, TypeOK, Delivered
  <1>7. \A b \in Delivered : resp[b].isComplete
    BY <1>0, <1>5 DEF OneByOne, WentWell, Delivered
  <1>8. /\ acc'.data = IF acc.data = NoResponse THEN resp[i] ELSE CombineData(acc.data, resp[i])
        /\ acc'.errs = acc.errs
    BY <1>0 DEF MergeResponse, AccMergeRes, TypeOK
  <1>9. acc'.data \in Response
    <2>1. acc.data # NoResponse => CombineData(acc.data, resp[i]) \in Response
      BY <1>0, <1>3, CombineFacts DEF TypeOK
    <2> QED
      BY <1>3, <1>8, <2>1
  <1>10. acc.errs = << >>
    BY <1>0, <1>1 DEF Accounted
  <1> QED
    BY <1>1, <1>2, <1>3, <1>4, <1>5, <1>6, <1>7, <1>8, <1>9, <1>10

\* The value of the last backend is still the last one when a later backend is added
\* that has the key, or not.
LEMMA LastOneMore ==
    ASSUME NEW S \in SUBSET Nat, NEW j \in Nat, NEW k, NEW v, IsLast(v, S, k),
           \A b \in S : b < j
    PROVE  IsLast(IF resp[j].data[k] = Absent THEN v ELSE resp[j].data[k], S \cup {j}, k)
  <1>1. CASE resp[j].data[k] = Absent
    <2>1. CASE v = Absent /\ \A b \in S : resp[b].data[k] = Absent
      BY <1>1, <2>1 DEF IsLast
    <2>2. CASE \E b \in S : /\ v = resp[b].data[k] /\ v # Absent
                            /\ \A c \in S : c > b => resp[c].data[k] = Absent
      BY <1>1, <2>2 DEF IsLast
    <2> QED
      BY <2>1, <2>2 DEF IsLast
  <1>2. CASE resp[j].data[k] # Absent
    <2>1. \A c \in S \cup {j} : ~(c > j)
      OBVIOUS
    <2> QED
      BY <1>2, <2>1 DEF IsLast
  <1> QED
    BY <1>1, <1>2

\* The accumulated response stays the merge of what was delivered.
LEMMA StepAccumulated ==
    ASSUME SequenceInv, [Next]_vars
    PROVE  Accumulated'
  <1> USE DEF reqVars, dataVars
  <1>0. TypeOK /\ OneByOne /\ Accumulated
    BY DEF SequenceInv
  <1>1. CASE MergeResponse
    <2> DEFINE r == resp[i]
    <2>1. /\ r \in Response /\ resp' = resp
          /\ i \notin Delivered /\ Delivered' = Delivered \cup {i} /\ i \in Nat
          /\ \A b \in Delivered : b < i /\ b \in Nat /\ resp[b] \in Response
          /\ \A b \in Delivered : resp[b].isComplete
          /\ acc'.data = IF acc.data = NoResponse THEN r ELSE CombineData(acc.data, r)
          /\ acc'.data \in Response /\ acc'.data # NoResponse
          /\ acc.errs = << >> /\ acc'.errs = << >>
      BY <1>1, MergeFacts, NoResponseAssumption
    <2>2. CASE acc.data = NoResponse
      <3>1. Delivered' = {i} /\ acc'.data = r
        BY <1>0, <2>1, <2>2 DEF Accumulated
      <3>2. \A k \in Key : IsLast(acc.data.data[k], Delivered, k)'
        BY <2>1, <3>1 DEF IsLast
      <3> QED
        BY <2>1, <3>1, <3>2 DEF Accumulated
    <2>3. CASE acc.data # NoResponse
      <3>1. acc.data \in Response /\ acc'.data = CombineData(acc.data, r)
        BY <1>0, <2>1, <2>3 DEF TypeOK
      <3>2. /\ acc'.data.hasData = TRUE
            /\ acc'.data.isComplete =
                 (acc.data.hasData /\ r.hasData /\ acc.data.isComplete /\ r.isComplete)
            /\ \A k \in Key : acc'.data.data[k] =
                 IF r.data[k] = Absent THEN acc.data.data[k] ELSE r.data[k]
        <4> HIDE DEF r
        <4>1. r \in Response
          BY <2>1
        <4>2. CombineData(acc.data, r).hasData = TRUE
          BY <3>1, <4>1, CombineFacts, Zenon
        <4>3. CombineData(acc.data, r).isComplete =
                 (acc.data.hasData /\ r.hasData /\ acc.data.isComplete /\ r.isComplete)
          BY <3>1, <4>1, CombineFacts, Zenon
        <4>4. \A k \in Key : CombineData(acc.data, r).data[k] =
                 IF r.data[k] = Absent THEN acc.data.data[k] ELSE r.data[k]
          BY <3>1, <4>1, CombineFacts, Zenon
        <4> QED
          BY <3>1, <4>2, <4>3, <4>4, Zenon
      <3>3. Delivered # {} /\ ~\E b \in Delivered' : Delivered' = {b}
        BY <1>0, <2>1, <2>3 DEF Accumulated
      <3>4. ASSUME NEW k \in Key
            PROVE  IsLast(acc.data.data[k], Delivered, k)
        BY <1>0, <2>3 DEF Accumulated
      <3>5. ASSUME NEW k \in Key
            PROVE  IsLast(acc.data.data[k], Delivered, k)'
        <4>1. Delivered \in SUBSET Nat
          BY <2>1
        <4>2. IsLast(IF r.data[k] = Absent THEN acc.data.data[k] ELSE r.data[k], Delivered \cup {i}, k)
          BY <2>1, <3>4, <4>1, LastOneMore
        <4>3. IsLast(acc'.data.data[k], Delivered \cup {i}, k)
          BY <3>2, <4>2
        <4> QED
          BY <2>1, <4>3 DEF IsLast
      <3>6. /\ acc.data.hasData <=> \A b \in Delivered : Delivered = {b} => resp[b].hasData
            /\ acc.data.isComplete <=> \A b \in Delivered : resp[b].hasData \/ Delivered = {b}
        BY <1>0, <2>1, <2>3 DEF Accumulated
      <3>7. acc.data.hasData /\ acc.data.isComplete <=> \A b \in Delivered : resp[b].hasData
        BY <3>6
      <3>8. acc'.data.isComplete <=>
              /\ \A b \in Delivered' : resp'[b].isComplete
              /\ \A b \in Delivered' : resp'[b].hasData \/ Delivered' = {b}
        BY <2>1, <3>1, <3>2, <3>3, <3>7, ResponseParts
      <3>9. acc'.data.hasData <=> \A b \in Delivered' : Delivered' = {b} => resp'[b].hasData
        BY <3>2, <3>3
      <3> QED
        BY <2>1, <3>3, <3>5, <3>8, <3>9 DEF Accumulated
    <2> QED
      BY <2>2, <2>3
  <1>2. CASE MergeError /\ i # 1
    <2>1. Delivered' = Delivered /\ resp' = resp
      BY <1>2 DEF MergeError, Delivered
    <2>2. acc'.data = MarkIncomplete(acc.data) /\ acc'.errs = Append(acc.errs, i)
      BY <1>2 DEF MergeError, AccMergeErr
    <2>3. /\ acc'.data = NoResponse <=> acc.data = NoResponse
          /\ acc.data # NoResponse => /\ acc'.data.data = acc.data.data
                                      /\ acc'.data.hasData = acc.data.hasData
                                      /\ acc'.data.isComplete = FALSE
      BY <1>0, <2>2, MarkFacts DEF TypeOK
    <2>4. acc'.errs # << >>
      <3>1. acc.errs \in Seq(Backend)
        BY <1>0 DEF TypeOK
      <3>2. Len(acc'.errs) = Len(acc.errs) + 1 /\ Len(acc.errs) \in Nat
        BY <2>2, <3>1
      <3> QED
        BY <3>2
    <2> QED
      BY <1>0, <2>1, <2>3, <2>4 DEF Accumulated, IsLast
  <1>3. CASE ~MergeResponse /\ acc' = acc
    <2>1. Delivered' = Delivered /\ \A b \in Delivered : resp'[b] = resp[b]
      BY <1>3, DeliveredSame
    <2>2. ASSUME NEW k \in Key, IsLast(acc.data.data[k], Delivered, k)
          PROVE  IsLast(acc.data.data[k], Delivered, k)'
      BY <1>3, <2>1, <2>2 DEF IsLast
    <2> QED
      BY <1>0, <1>3, <2>1, <2>2 DEF Accumulated
  <1>4. CASE FilterOut
    <2>1. Delivered' = Delivered /\ resp' = resp
      <3>1. ~MergeResponse
        BY <1>4 DEF FilterOut, MergeResponse
      <3> QED
        BY <1>4, <3>1, DeliveredSame DEF FilterOut
    <2>2. acc'.data = acc.data /\ acc'.errs = acc.errs
      BY <1>0, <1>4 DEF FilterOut, TypeOK
    <2> QED
      BY <1>0, <2>1, <2>2 DEF Accumulated, IsLast
  <1>5. MergeResponse \/ (MergeError /\ i # 1) \/ acc' = acc \/ FilterOut
    BY DEF Next, Steps, NextReturns, Replace, Call, GiveUp, MergeError, Finish, NextResponds,
           NextFails, CtxDone, Terminated, vars
  <1> QED
    BY <1>1, <1>2, <1>3, <1>4, <1>5

\* The steps that leave the maps, the accumulated data and what is delivered alone.
LEMMA MapsStay ==
    ASSUME SequenceInv, [Next]_vars, ~MergeResponse, ~NextResponds
    PROVE  /\ UNCHANGED <<maps, root, resp>>
           /\ acc'.data = NoResponse <=> acc.data = NoResponse
           /\ acc.data # NoResponse => acc'.data.data = acc.data.data
           /\ pc' # "answered" \/ (pc = "answered" /\ i' = i)
           /\ \A b \in Backend : status'[b] \in {"idle", "skipped"} =>
                status[b] \in {"idle", "skipped"}
  <1> USE DEF reqVars, dataVars
  <1>0. TypeOK /\ OneByOne
    BY DEF SequenceInv
  <1>1. CASE Replace \/ Finish \/ CtxDone \/ Terminated \/ UNCHANGED vars
    <2>1. UNCHANGED <<maps, root, resp, acc, status, i>> /\ (pc' # "answered" \/ pc' = pc)
      BY <1>1 DEF Replace, Finish, CtxDone, Terminated, vars
    <2> QED
      BY <2>1
  <1>2. CASE FilterOut \/ Call \/ NextFails \/ GiveUp
    <2>1. i \in Backend
      BY <1>0, <1>2, InLoop DEF FilterOut, Call, NextFails, GiveUp
    <2>2. UNCHANGED <<maps, root, resp>> /\ acc'.data = acc.data /\ pc' # "answered"
      BY <1>0, <1>2 DEF FilterOut, Call, NextFails, GiveUp, TypeOK, Advance
    <2>3. \E a \in {"skipped", "called", "failed"} :
            status' = [status EXCEPT ![i] = a] /\ (a = "skipped" => pc = "filter")
      BY <1>2 DEF FilterOut, Call, NextFails, GiveUp
    <2>4. \A b \in Backend : status'[b] \in {"idle", "skipped"} => status[b] \in {"idle", "skipped"}
      BY <1>0, <2>1, <2>3 DEF TypeOK, OneByOne
    <2> QED
      BY <2>2, <2>4
  <1>3. CASE MergeError
    <2>1. UNCHANGED <<maps, root, resp, status>> /\ pc' # "answered"
      BY <1>3 DEF MergeError
    <2>2. acc'.data = acc.data \/ acc'.data = MarkIncomplete(acc.data)
      BY <1>3 DEF MergeError, AccMergeErr
    <2> QED
      BY <1>0, <2>1, <2>2, MarkFacts DEF TypeOK
  <1> QED
    BY <1>1, <1>2, <1>3 DEF Next, Steps, NextReturns

\* The bodies of the backends that were not called are never there to be read.
LEMMA BodiesStay ==
    ASSUME SequenceInv, [Next]_vars
    PROVE  \A b \in Backend : status'[b] \in {"idle", "skipped"} => body'[b] = "none"
  <1> USE DEF reqVars, dataVars
  <1>0. TypeOK /\ OneByOne /\ MapsTold
    BY DEF SequenceInv
  <1>1. CASE NextResponds
    <2>1. i \in Backend /\ status' = status /\ status[i] = "called"
      BY <1>0, <1>1, InLoop DEF NextResponds, OneByOne
    <2>2. \A b \in Backend \ {i} : body'[b] = body[b]
      BY <1>0, <1>1 DEF NextResponds, TypeOK
    <2> QED
      BY <1>0, <2>1, <2>2 DEF MapsTold
  <1>2. CASE MergeResponse
    <2>1. i \in Backend /\ body' = body /\ status' = [status EXCEPT ![i] = "delivered"]
      BY <1>0, <1>2, InLoop DEF MergeResponse
    <2> QED
      BY <1>0, <2>1 DEF MapsTold, TypeOK
  <1>3. CASE Replace
    <2>1. \A b \in Backend : body[b] = "none" => body'[b] = "none"
      BY <1>3 DEF Replace, BodyReads
    <2> QED
      BY <1>0, <1>3, <2>1 DEF MapsTold, Replace
  <1>4. CASE ~MergeResponse /\ ~NextResponds /\ ~Replace
    <2>1. body' = body
      BY <1>4 DEF Next, Steps, NextReturns, FilterOut, Call, GiveUp, NextFails, MergeError, Finish,
                  CtxDone, Terminated, vars
    <2> QED
      BY <1>0, <1>4, <2>1, MapsStay DEF MapsTold
  <1> QED
    BY <1>1, <1>2, <1>3, <1>4

\* Where the values of the parts are: the map of a part stays the one that was delivered,
\* but for the one the later parts are merged into.
LEMMA StepMapsTold ==
    ASSUME SequenceInv, [Next]_vars
    PROVE  MapsTold'
  <1> USE DEF reqVars, dataVars
  <1>0. TypeOK /\ OneByOne /\ MapsTold /\ Accumulated
    BY DEF SequenceInv
  <1>1. CASE NextResponds
    <2>1. PICK r \in Replies :
            /\ resp' = [resp EXCEPT ![i] = ReplyOf(i, r)]
            /\ maps' = [maps EXCEPT ![i] = ReplyOf(i, r).data]
      BY <1>1 DEF NextResponds
    <2>2. i \in Backend /\ i \in 0..N /\ status[i] = "called" /\ status' = status
          /\ i' = i /\ root' = root /\ acc' = acc /\ pc' = "answered"
      BY <1>0, <1>1, InLoop DEF NextResponds, OneByOne
    <2>3. /\ maps'[i] = resp'[i].data
          /\ \A b \in Backend \ {i} : maps'[b] = maps[b] /\ resp'[b] = resp[b]
          /\ \A b \in 0..N : b # i => maps'[b] = maps[b]
      BY <1>0, <2>1, <2>2 DEF TypeOK, Backend
    <2>4. root # i /\ i \notin Delivered /\ Delivered' = Delivered
      BY <1>0, <2>2, NAssumption DEF MapsTold, Delivered, Backend
    <2>5. (\A b \in Backend :
             status[b] \in {"idle", "skipped"} => maps[b] = EmptyMap /\ body[b] = "none")'
      BY <1>0, <2>2, <2>3, BodiesStay DEF MapsTold
    <2>6. (\A b \in Delivered : b # root => maps[b] = resp[b].data)'
      <3> SUFFICES ASSUME NEW b \in Delivered, b # root
                   PROVE  maps'[b] = resp'[b].data
        BY <2>2, <2>4
      <3>1. b \in Backend \ {i} /\ maps[b] = resp[b].data
        BY <1>0, <2>4 DEF MapsTold, Delivered
      <3> QED
        BY <2>3, <3>1
    <2>7. (root # 0 => root \in Delivered /\ \A b \in Delivered : resp[b].hasData => root <= b)'
      BY <1>0, <2>2, <2>3, <2>4 DEF MapsTold, Delivered
    <2>8. (acc.data # NoResponse => maps[root] = acc.data.data)'
      BY <1>0, <2>2, <2>3, <2>4 DEF MapsTold, TypeOK
    <2> QED
      BY <2>2, <2>3, <2>5, <2>6, <2>7, <2>8 DEF MapsTold
  <1>2. CASE MergeResponse
    <2>1. /\ i \in Backend /\ i \in 1..N /\ N \in Nat
          /\ resp' = resp /\ resp[i] \in Response
          /\ i \notin Delivered /\ Delivered' = Delivered \cup {i}
          /\ \A b \in Delivered : b < i /\ b \in 1..N /\ resp[b] \in Response
      BY <1>2, MergeFacts
    <2>2. /\ root' = CombinedMap(resp[i]) /\ maps' = [maps EXCEPT ![root'] = acc'.data.data]
          /\ pc = "answered" /\ pc' # "answered"
      BY <1>2 DEF MergeResponse, Advance
    <2>3. root' \in {0, i, root} /\ root' \in 0..N
      BY <1>0, <2>1, <2>2 DEF CombinedMap, TypeOK
    <2>4. /\ maps'[root'] = acc'.data.data
          /\ \A b \in 0..N : b # root' => maps'[b] = maps[b]
      BY <1>0, <2>2, <2>3 DEF TypeOK
    <2>5. maps[i] = resp[i].data
      BY <1>0, <2>2 DEF MapsTold
    <2>6. \A b \in Backend : status'[b] \in {"idle", "skipped"} =>
            b # i /\ status[b] \in {"idle", "skipped"}
      BY <1>0, <1>2, <2>1 DEF MergeResponse, TypeOK
    <2>7. (\A b \in Backend :
             status[b] \in {"idle", "skipped"} => maps[b] = EmptyMap /\ body[b] = "none")'
      <3> SUFFICES ASSUME NEW b \in Backend, status'[b] \in {"idle", "skipped"}
                   PROVE  maps'[b] = EmptyMap /\ body'[b] = "none"
        OBVIOUS
      <3>1. b # i /\ maps[b] = EmptyMap /\ body'[b] = "none" /\ b \in 0..N /\ b # 0
        BY <1>0, <2>6, BodiesStay, NAssumption DEF MapsTold, Backend
      <3>2. b # root
        BY <1>0, <2>6, <3>1 DEF MapsTold, Delivered
      <3> QED
        BY <2>3, <2>4, <3>1, <3>2
    <2>8. \A b \in Delivered : b # root' => maps'[b] = resp[b].data
      <3> SUFFICES ASSUME NEW b \in Delivered, b # root'
                   PROVE  maps[b] = resp[b].data
        BY <2>1, <2>4
      <3>1. CASE b # root
        BY <1>0, <3>1 DEF MapsTold
      <3>2. CASE b = root
        <4>1. acc.data # NoResponse /\ ~acc.data.hasData
          BY <1>0, <2>2, <3>2 DEF CombinedMap, Accumulated
        <4>2. Delivered = {b} /\ ~resp[b].hasData
          BY <1>0, <4>1 DEF Accumulated
        <4>3. resp[b].data = EmptyMap
          BY <2>1, <4>2, ResponseParts
        <4>4. acc.data.data = EmptyMap
          BY <1>0, <4>1, ResponseParts DEF TypeOK
        <4> QED
          BY <1>0, <3>2, <4>1, <4>3, <4>4 DEF MapsTold
      <3> QED
        BY <3>1, <3>2
    <2>9. i # root' => maps'[i] = resp[i].data
      BY <2>1, <2>4, <2>5
    <2>10. root' # 0 => root' \in Delivered' /\ \A b \in Delivered' : resp[b].hasData => root' <= b
      <3>1. CASE acc.data = NoResponse
        <4>1. root' = i /\ Delivered' = {i}
          BY <1>0, <2>1, <2>2, <3>1 DEF CombinedMap, Accumulated
        <4> QED
          BY <2>1, <4>1
      <3>2. CASE acc.data # NoResponse /\ acc.data.hasData
        <4>1. root' = root
          BY <2>2, <3>2 DEF CombinedMap
        <4>2. root # 0 => root \in Delivered /\ \A b \in Delivered : resp[b].hasData => root <= b
          BY <1>0 DEF MapsTold
        <4>3. root # 0 => root <= i
          BY <2>1, <4>2
        <4> QED
          BY <2>1, <4>1, <4>2, <4>3
      <3>3. CASE acc.data # NoResponse /\ ~acc.data.hasData
        <4>1. PICK b \in Delivered : Delivered = {b} /\ ~resp[b].hasData
          BY <1>0, <3>3 DEF Accumulated
        <4>2. root' # 0 => root' = i
          BY <2>2, <3>3 DEF CombinedMap
        <4> QED
          BY <2>1, <4>1, <4>2
      <3> QED
        BY <3>1, <3>2, <3>3
    <2>11. (\A b \in Delivered : b # root => maps[b] = resp[b].data)'
      BY <2>1, <2>8, <2>9
    <2>12. (root # 0 => root \in Delivered /\ \A b \in Delivered : resp[b].hasData => root <= b)'
      BY <2>1, <2>10
    <2> QED
      BY <2>2, <2>4, <2>7, <2>11, <2>12 DEF MapsTold
  <1>3. CASE ~MergeResponse /\ ~NextResponds
    <2>1. /\ UNCHANGED <<maps, root, resp>>
          /\ acc'.data = NoResponse <=> acc.data = NoResponse
          /\ acc.data # NoResponse => acc'.data.data = acc.data.data
          /\ pc' # "answered" \/ (pc = "answered" /\ i' = i)
          /\ \A b \in Backend : status'[b] \in {"idle", "skipped"} => status[b] \in {"idle", "skipped"}
      BY <1>3, MapsStay
    <2>2. Delivered' = Delivered
      BY <1>3, DeliveredSame
    <2>3. (\A b \in Backend :
             status[b] \in {"idle", "skipped"} => maps[b] = EmptyMap /\ body[b] = "none")'
      BY <1>0, <2>1, BodiesStay DEF MapsTold
    <2> QED
      BY <1>0, <2>1, <2>2, <2>3 DEF MapsTold
  <1> QED
    BY <1>1, <1>2, <1>3

-----------------------------------------------------------------------------
(* The parameters                                                          *)

\* What an iteration puts under a parameter: the value it already has, the body of the
\* backend it names, or what that backend's map holds, which is the delivered value
\* unless it is the map the responses are merged into.
LEMMA LookupFacts ==
    ASSUME SequenceInv, NEW d \in Dest, NEW readable \in SUBSET {e[1] : e \in BodyReads},
           pc = "replace", Lookup(d, readable) # Absent
    PROVE  /\ d[1] \in Delivered /\ d[1] <= i
           /\ \/ Lookup(d, readable) = params[d]
              \/ d[2] = Body /\ Lookup(d, readable) = <<d[1], FALSE>>
              \/ d[2] # Body /\ Lookup(d, readable) = resp[d[1]].data[d[2]]
              \/ \A b \in Delivered : resp[b].hasData => d[1] <= b
  <1>0. TypeOK /\ OneByOne /\ PartsKept /\ MapsTold /\ ParamsTold
    BY DEF SequenceInv
  <1>1. /\ Usable(d) /\ d[1] \in kept /\ d[1] < i
        /\ d[1] \in Backend /\ d[2] \in Key \cup {Body}
    BY DEF Lookup, Usable, Dest
  <1>2. i \in Int /\ d[1] \in Int
    BY <1>0, <1>1 DEF TypeOK, Backend
  <1>3. d[1] <= i
    BY <1>1, <1>2
  <1>4. CASE Registered(d)
    <2>1. Lookup(d, readable) = params[d]
      BY <1>0, <1>1, <1>4 DEF Lookup, ParamsTold
    <2> QED
      BY <1>0, <1>1, <1>3, <2>1 DEF ParamsTold, Delivered
  <1>5. CASE ~Registered(d) /\ d[2] = Body
    <2>1. Lookup(d, readable) = <<d[1], FALSE>> /\ d[1] \in readable
      BY <1>1, <1>5 DEF Lookup
    <2>2. body[d[1]] # "none"
      BY <2>1 DEF BodyReads
    <2>3. status[d[1]] \notin {"idle", "skipped"}
      BY <1>0, <1>1, <2>2 DEF MapsTold
    <2>4. d[1] \in Delivered
      BY <1>0, <1>1, <2>3 DEF PartsKept, WentWell, Delivered
    <2> QED
      BY <1>3, <1>5, <2>1, <2>4
  <1>6. CASE ~Registered(d) /\ d[2] # Body
    <2>1. Lookup(d, readable) = maps[d[1]][d[2]] /\ d[2] \in Key
      BY <1>1, <1>6 DEF Lookup
    <2>2. maps[d[1]] # EmptyMap
      BY <2>1 DEF EmptyMap
    <2>3. d[1] \in Delivered
      BY <1>0, <1>1, <2>2 DEF PartsKept, WentWell, Delivered, MapsTold
    <2>4. CASE d[1] = root
      <3>1. root # 0
        BY <1>1, <2>4, NAssumption DEF Backend
      <3> QED
        BY <1>0, <1>3, <2>3, <2>4, <3>1 DEF MapsTold
    <2>5. CASE d[1] # root
      BY <1>0, <1>3, <1>6, <2>1, <2>3, <2>5 DEF MapsTold
    <2> QED
      BY <2>4, <2>5
  <1> QED
    BY <1>4, <1>5, <1>6

\* The parameters change in Replace only, and there to what is looked up.
LEMMA ParamSteps ==
    ASSUME SequenceInv, [Next]_vars
    PROVE  \/ UNCHANGED <<params, registry>>
           \/ /\ Replace
              /\ \E readable \in SUBSET {e[1] : e \in BodyReads} : \A d \in Dest :
                   /\ params'[d] = IF Lookup(d, readable) = Absent THEN params[d]
                                   ELSE Lookup(d, readable)
                   /\ registry'[d] = IF Lookup(d, readable) = Absent THEN registry[d]
                                     ELSE Lookup(d, readable)
  <1>1. CASE Replace
    BY <1>1 DEF Replace
  <1>2. CASE ~Replace
    <2>1. UNCHANGED <<params, registry>>
      BY <1>2 DEF Next, Steps, NextReturns, FilterOut, Call, GiveUp, NextResponds, NextFails,
                  MergeResponse, MergeError, Finish, CtxDone, Terminated, vars, reqVars
    <2> QED
      BY <2>1
  <1> QED
    BY <1>1, <1>2

\* Delivered backends stay delivered, and the loop does not go back.
LEMMA DeliveredGrows ==
    ASSUME SequenceInv, [Next]_vars
    PROVE  /\ i' \in Int /\ i \in Int /\ i <= i'
           /\ \A b \in Delivered : b \in Delivered' /\ resp'[b] = resp[b]
           /\ \A b \in Delivered' : b \in Delivered \/ (b = i /\ resp'[b] = resp[b])
  <1>0. TypeOK
    BY DEF SequenceInv
  <1>1. i' \in Int /\ i \in Int /\ (i' = i \/ i' = i + 1)
    BY <1>0, StepTypeOK, StatusSteps DEF TypeOK, Advance
  <1>2. i <= i'
    BY <1>1
  <1>3. CASE MergeResponse
    BY <1>1, <1>2, <1>3, MergeFacts
  <1>4. CASE ~MergeResponse
    BY <1>1, <1>2, <1>4, DeliveredSame
  <1> QED
    BY <1>3, <1>4

\* The registry and the parameters stay the same, and name delivered backends only.
LEMMA StepParamsTold ==
    ASSUME SequenceInv, [Next]_vars
    PROVE  ParamsTold'
  <1>0. TypeOK /\ ParamsTold
    BY DEF SequenceInv
  <1>1. ASSUME NEW d \in Dest, status[d[1]] = "delivered", d[1] <= i
        PROVE  status'[d[1]] = "delivered" /\ d[1] <= i'
    <2>1. d[1] \in Backend /\ d[1] \in Int
      BY DEF Dest, Backend
    <2>2. d[1] \in Delivered'
      BY <1>1, <2>1, DeliveredGrows DEF Delivered
    <2>3. d[1] <= i'
      BY <1>1, <2>1, DeliveredGrows
    <2> QED
      BY <2>2, <2>3 DEF Delivered
  <1>2. CASE UNCHANGED <<params, registry>>
    BY <1>0, <1>1, <1>2 DEF ParamsTold
  <1>3. CASE Replace
    <2>1. PICK readable \in SUBSET {e[1] : e \in BodyReads} :
            /\ params' = [d \in Dest |->
                         IF Lookup(d, readable) = Absent THEN params[d] ELSE Lookup(d, readable)]
            /\ registry' = [d \in Dest |->
                           IF Lookup(d, readable) = Absent THEN registry[d] ELSE Lookup(d, readable)]
      BY <1>3 DEF Replace
    <2>2. registry' = params'
      BY <1>0, <2>1 DEF ParamsTold
    <2>3. pc = "replace"
      BY <1>3 DEF Replace
    <2>4. ASSUME NEW d \in Dest, params'[d] # Absent
          PROVE  status[d[1]] = "delivered" /\ d[1] <= i
      <3>1. CASE Lookup(d, readable) = Absent
        BY <1>0, <2>1, <2>4, <3>1 DEF ParamsTold
      <3>2. CASE Lookup(d, readable) # Absent
        BY <2>3, <3>2, LookupFacts DEF Delivered
      <3> QED
        BY <3>1, <3>2
    <2> QED
      BY <1>1, <2>2, <2>4 DEF ParamsTold
  <1> QED
    BY <1>2, <1>3, ParamSteps

\* What is returned stays the result of the accumulator.
LEMMA StepReturnTold ==
    ASSUME SequenceInv, [Next]_vars
    PROVE  ReturnTold'
  <1> USE DEF reqVars, dataVars
  <1>0. TypeOK /\ OneByOne /\ ReturnTold
    BY DEF SequenceInv
  <1>1. CASE Finish
    <2>1. UNCHANGED <<i, status, acc>> /\ ret' = AccResult(acc) /\ pc = "result" /\ pc' = "returned"
      BY <1>1 DEF Finish
    <2> QED
      BY <1>0, <2>1 DEF ReturnTold, FirstFailed
  <1>2. CASE MergeError
    <2>1. UNCHANGED <<i, status>> /\ i \in Backend /\ status[i] = "failed"
      BY <1>0, <1>2, InLoop DEF MergeError, OneByOne
    <2>2. CASE i = 1
      BY <1>2, <2>1, <2>2 DEF MergeError, ReturnTold, FirstFailed
    <2>3. CASE i # 1
      BY <1>2, <2>1, <2>3 DEF MergeError, ReturnTold, FirstFailed
    <2> QED
      BY <2>2, <2>3
  <1>3. CASE Replace \/ Call \/ NextResponds \/ NextFails \/ GiveUp
    BY <1>3 DEF Replace, Call, NextResponds, NextFails, GiveUp, ReturnTold
  <1>4. ASSUME pc \in {"filter", "answered"}, NEW a \in {"skipped", "delivered"},
               status' = [status EXCEPT ![i] = a], i' = i \/ i' = i + 1,
               pc' \in {"result", "replace"}
        PROVE  ReturnTold'
    <2>1. i \in 1..N /\ i \in Backend /\ N \in Nat
      BY <1>0, <1>4, InLoop
    <2>2. status'[i] # "failed" /\ i \in Int
      BY <1>0, <1>4, <2>1 DEF TypeOK
    <2>3. i' = 1 => i' = i
      BY <1>4, <2>1
    <2> QED
      BY <1>4, <2>2, <2>3 DEF ReturnTold, FirstFailed
  <1>5. CASE FilterOut \/ MergeResponse
    BY <1>4, <1>5 DEF FilterOut, MergeResponse, Advance
  <1>6. CASE CtxDone \/ Terminated \/ UNCHANGED vars
    <2>1. UNCHANGED <<pc, i, acc, ret, status>>
      BY <1>6 DEF CtxDone, Terminated, vars
    <2> QED
      BY <1>0, <2>1 DEF ReturnTold, FirstFailed
  <1> QED
    BY <1>1, <1>2, <1>3, <1>5, <1>6 DEF Next, Steps, NextReturns

-----------------------------------------------------------------------------
(* The theorems                                                            *)

\* The parts of SequenceInv that only say how the backends and the maps stand.
Standing ==
    /\ TypeOK /\ OneByOne /\ PartsKept /\ Accounted /\ Accumulated
    /\ MapsTold /\ ParamsTold /\ ReturnTold

\* No backend is called after a failure: the ones before the last one called went well.
LEMMA NothingAfterFailure == Standing => NoCallAfterFailure
  <1> SUFFICES ASSUME Standing, NEW b \in Backend, status[b] # "idle", NEW a \in 1..(b - 1)
               PROVE  WentWell(a)
    BY DEF NoCallAfterFailure
  <1>1. b \in 1..N /\ N \in Nat /\ i \in Int
    BY NAssumption DEF Standing, TypeOK, Backend
  <1>2. ~(b > i)
    BY DEF Standing, OneByOne
  <1>3. a \in Backend /\ a < i
    BY <1>1, <1>2 DEF Backend
  <1> QED
    BY <1>3 DEF Standing, OneByOne

\* A value that is the last one is what the largest backend with the key delivered.
LEMMA LastIsLargest ==
    ASSUME NEW S \in SUBSET Nat, NEW k, NEW v, IsLast(v, S, k)
    PROVE  LET having == {b \in S : resp[b].data[k] # Absent} IN
           v = IF having = {} THEN Absent
               ELSE resp[CHOOSE b \in having : \A a \in having : a <= b].data[k]
  <1> DEFINE having == {b \in S : resp[b].data[k] # Absent}
             Largest(b) == \A a \in having : a <= b
  <1>1. CASE v = Absent /\ \A b \in S : resp[b].data[k] = Absent
    BY <1>1
  <1>2. CASE \E b \in S : /\ v = resp[b].data[k] /\ v # Absent
                          /\ \A c \in S : c > b => resp[c].data[k] = Absent
    <2>1. PICK m \in S : /\ v = resp[m].data[k] /\ v # Absent
                         /\ \A c \in S : c > m => resp[c].data[k] = Absent
      BY <1>2
    <2>2. m \in having /\ Largest(m)
      <3>1. ASSUME NEW a \in having PROVE a <= m
        <4>1. a \in Nat /\ m \in Nat /\ ~(a > m)
          BY <2>1
        <4> QED
          BY <4>1
      <3> QED
        BY <2>1, <3>1
    <2>3. \A c \in having : Largest(c) => c = m
      <3> SUFFICES ASSUME NEW c \in having, Largest(c) PROVE c = m
        OBVIOUS
      <3>1. m <= c /\ c <= m /\ m \in Nat /\ c \in Nat
        BY <2>2
      <3> QED
        BY <3>1
    <2> HIDE DEF having, Largest
    <2>4. (CHOOSE b \in having : Largest(b)) = m
      BY <2>2, <2>3
    <2>5. having # {}
      BY <2>2
    <2>6. v = IF having = {} THEN Absent
              ELSE resp[CHOOSE b \in having : Largest(b)].data[k]
      <3>1. resp[CHOOSE b \in having : Largest(b)] = resp[m]
        BY <2>4, Zenon
      <3>2. resp[m].data[k] = v
        BY <2>1
      <3>3. resp[CHOOSE b \in having : Largest(b)].data[k] = v
        BY <3>1, <3>2, Zenon
      <3> QED
        BY <2>5, <3>3
    <2> QED
      BY <2>6, Zenon DEF Largest, having
  <1> QED
    BY <1>1, <1>2 DEF IsLast

\* The returned response holds for every key what the last backend with it delivered.
LEMMA LastOneReturned == Standing => LastBackendWins
  <1> SUFFICES ASSUME Standing, pc = "returned", ret.data # NoResponse, NEW k \in Key
               PROVE  LET having == {b \in Delivered : resp[b].data[k] # Absent} IN
                      ret.data.data[k] =
                        IF having = {} THEN Absent
                        ELSE resp[CHOOSE b \in having : \A a \in having : a <= b].data[k]
    BY DEF LastBackendWins
  <1>1. acc.data \in Response \cup {NoResponse}
    BY DEF Standing, TypeOK
  <1>2. ret = AccResult(acc)
    BY DEF Standing, ReturnTold
  <1>3. ret.data = acc.data \/ ret.data = MarkIncomplete(acc.data)
    BY <1>2 DEF AccResult
  <1>4. acc.data # NoResponse /\ ret.data.data = acc.data.data
    BY <1>1, <1>3, MarkFacts
  <1>5. IsLast(ret.data.data[k], Delivered, k)
    BY <1>4 DEF Standing, Accumulated
  <1>6. Delivered \in SUBSET Nat
    BY NAssumption DEF Delivered, Backend
  <1> QED
    BY <1>5, <1>6, LastIsLargest

\* SequenceInv holds in every state sequentialMerge reaches, for any number of backends.
THEOREM Inductive == Spec => []SequenceInv
  <1>1. SequenceInv <=> Standing /\ NoCallAfterFailure /\ LastBackendWins
    BY DEF SequenceInv, Standing
  <1>2. SequenceInv /\ [Next]_vars => Standing'
    BY StepTypeOK, StepOneByOne, StepAccounted, StepAccumulated, StepMapsTold, StepParamsTold,
       StepReturnTold DEF Standing
  <1>3. Standing' => NoCallAfterFailure' /\ LastBackendWins'
    BY NothingAfterFailure, LastOneReturned, PTL
  <1> QED
    BY <1>1, <1>2, <1>3, InitSequenceInv, PTL DEF Spec

\* A request is not passed on after a failure: the backends before one that was called
\* were skipped or answered completely.
THEOREM NoCallAfterFailureCorrect == Spec => []NoCallAfterFailure
  <1>1. SequenceInv => NoCallAfterFailure
    BY DEF SequenceInv
  <1> QED
    BY <1>1, Inductive, PTL

\* In the merged response every key has the value of the last backend that delivered it.
THEOREM LastBackendWinsCorrect == Spec => []LastBackendWins
  <1>1. SequenceInv => LastBackendWins
    BY DEF SequenceInv
  <1> QED
    BY <1>1, Inductive, PTL

\* A step does not change where a parameter comes from, and sets it from the backend its
\* name refers to, unless that is the one whose map the others are merged into.
LEMMA StepParamOrigin ==
    ASSUME SequenceInv, ParamOriginButFirst, [Next]_vars
    PROVE  ParamOriginButFirst'
  <1>0. ParamsTold
    BY DEF SequenceInv
  <1> SUFFICES ASSUME NEW d \in Dest, params'[d] # Absent
               PROVE  (\/ d[2] = Body /\ params[d][1] = d[1]
                       \/ d[2] # Body /\ params[d] = resp[d[1]].data[d[2]]
                       \/ \A b \in Delivered : resp[b].hasData => d[1] <= b)'
    BY DEF ParamOriginButFirst
  <1>1. d[1] \in Backend /\ d[1] \in Int
    BY DEF Dest, Backend
  <1>2. ASSUME d[1] \in Delivered, d[1] <= i,
               \/ d[2] = Body /\ params'[d][1] = d[1]
               \/ d[2] # Body /\ params'[d] = resp[d[1]].data[d[2]]
               \/ \A b \in Delivered : resp[b].hasData => d[1] <= b
        PROVE  (\/ d[2] = Body /\ params[d][1] = d[1]
                \/ d[2] # Body /\ params[d] = resp[d[1]].data[d[2]]
                \/ \A b \in Delivered : resp[b].hasData => d[1] <= b)'
    <2>1. resp'[d[1]] = resp[d[1]]
      BY <1>2, DeliveredGrows
    <2>2. ASSUME \A b \in Delivered : resp[b].hasData => d[1] <= b
          PROVE  \A b \in Delivered' : resp'[b].hasData => d[1] <= b
      BY <1>2, <2>2, DeliveredGrows
    <2> QED
      BY <1>2, <2>1, <2>2
  <1>3. ASSUME params'[d] = params[d]
        PROVE  (\/ d[2] = Body /\ params[d][1] = d[1]
                \/ d[2] # Body /\ params[d] = resp[d[1]].data[d[2]]
                \/ \A b \in Delivered : resp[b].hasData => d[1] <= b)'
    <2>1. d[1] \in Delivered /\ d[1] <= i
      BY <1>0, <1>1, <1>3 DEF ParamsTold, Delivered
    <2>2. \/ d[2] = Body /\ params'[d][1] = d[1]
          \/ d[2] # Body /\ params'[d] = resp[d[1]].data[d[2]]
          \/ \A b \in Delivered : resp[b].hasData => d[1] <= b
      BY <1>3 DEF ParamOriginButFirst
    <2> QED
      BY <1>2, <2>1, <2>2
  <1>4. ASSUME Replace, NEW readable \in SUBSET {e[1] : e \in BodyReads},
               params'[d] = Lookup(d, readable), params'[d] # params[d]
        PROVE  (\/ d[2] = Body /\ params[d][1] = d[1]
                \/ d[2] # Body /\ params[d] = resp[d[1]].data[d[2]]
                \/ \A b \in Delivered : resp[b].hasData => d[1] <= b)'
    <2>1. pc = "replace" /\ Lookup(d, readable) # Absent
      BY <1>4 DEF Replace
    <2>2. /\ d[1] \in Delivered /\ d[1] <= i
          /\ \/ d[2] = Body /\ params'[d] = <<d[1], FALSE>>
             \/ d[2] # Body /\ params'[d] = resp[d[1]].data[d[2]]
             \/ \A b \in Delivered : resp[b].hasData => d[1] <= b
      BY <1>4, <2>1, LookupFacts
    <2>3. params'[d] = <<d[1], FALSE>> => params'[d][1] = d[1]
      OBVIOUS
    <2> QED
      BY <1>2, <2>2, <2>3
  <1> QED
    BY <1>3, <1>4, ParamSteps

\* A parameter holds what the backend it names delivered, for every backend but the first
\* one that delivered a Data map.
THEOREM ParamOriginButFirstCorrect == Spec => []ParamOriginButFirst
  <1>1. Init => ParamOriginButFirst
    BY DEF Init, ParamOriginButFirst
  <1>2. SequenceInv /\ ParamOriginButFirst /\ [Next]_vars => ParamOriginButFirst'
    BY StepParamOrigin
  <1> QED
    BY <1>1, <1>2, Inductive, PTL DEF Spec

\* A parameter that has a value keeps it, because the registry has the same value and is
\* asked first.
THEOREM ParamsStableCorrect == Spec => ParamsStable
  <1>1. ASSUME SequenceInv, [Next]_vars, NEW d \in Dest, params[d] # Absent, ~Blank(params[d])
        PROVE  params'[d] = params[d]
    <2>1. Registered(d) /\ registry[d] = params[d]
      BY <1>1 DEF SequenceInv, ParamsTold, Registered
    <2>2. \A readable : Lookup(d, readable) \in {Absent, params[d]}
      BY <2>1 DEF Lookup
    <2> QED
      BY <1>1, <2>2, ParamSteps
  <1>2. SequenceInv /\ [Next]_vars =>
          [\A d \in Dest : (params[d] # Absent /\ ~Blank(params[d])) => params'[d] = params[d]]_vars
    BY <1>1
  <1> QED
    BY <1>2, Inductive, PTL DEF Spec, ParamsStable

-----------------------------------------------------------------------------
(* sequentialMerge implements MergePromise                                 *)

Skipped == {b \in Backend : status[b] = "skipped"}
Asked == {b \in Backend : status[b] \in {"called", "delivered", "failed"}}
Failing == {b \in Backend : status[b] = "failed"}
Answers == [b \in Backend |-> AnswerOf(b)]
promised == <<Skipped, Asked, Answers, ResultKind>>

\* The parts of the asked backends, by what they answered.
LEMMA WithFacts ==
    ASSUME SequenceInv
    PROVE  /\ Promise!With("none") = {b \in Backend : status[b] = "called"}
           /\ Promise!With("error") = Failing
           /\ Promise!With("partial") = {b \in Delivered : ~resp[b].isComplete}
           /\ Promise!With("full") = {b \in Delivered : resp[b].isComplete /\ resp[b].hasData}
           /\ Promise!With("hollow") = {b \in Delivered : resp[b].isComplete /\ ~resp[b].hasData}
  <1> SUFFICES ASSUME NEW b \in Backend
               PROVE  /\ b \in Promise!With("none") <=> status[b] = "called"
                      /\ b \in Promise!With("error") <=> status[b] = "failed"
                      /\ b \in Promise!With("partial") <=>
                            status[b] = "delivered" /\ ~resp[b].isComplete
                      /\ b \in Promise!With("full") <=>
                            status[b] = "delivered" /\ resp[b].isComplete /\ resp[b].hasData
                      /\ b \in Promise!With("hollow") <=>
                            status[b] = "delivered" /\ resp[b].isComplete /\ ~resp[b].hasData
    BY DEF Promise!With, Failing, Delivered
  <1>1. \A a : b \in Promise!With(a) <=>
                 status[b] \in {"called", "delivered", "failed"} /\ AnswerOf(b) = a
    BY DEF Promise!With
  <1>2. status[b] = "failed" => AnswerOf(b) = "error"
    BY DEF AnswerOf
  <1>3. status[b] = "delivered" =>
           AnswerOf(b) = IF ~resp[b].isComplete THEN "partial"
                         ELSE IF resp[b].hasData THEN "full" ELSE "hollow"
    BY DEF AnswerOf
  <1>4. status[b] \notin {"failed", "delivered"} => AnswerOf(b) = "none"
    BY DEF AnswerOf
  <1> QED
    BY <1>1, <1>2, <1>3, <1>4

\* The outcome the promise asks for, in terms of what was delivered and what failed.
LEMMA OutcomeFacts ==
    ASSUME SequenceInv
    PROVE  /\ Delivered = {} =>
                Promise!Outcome = IF Failing = {} THEN "nothing" ELSE "error"
           /\ Delivered # {} =>
                Promise!Outcome =
                   IF /\ Asked \cup Skipped = Backend /\ Failing = {}
                      /\ \A b \in Delivered : resp[b].isComplete
                      /\ \A b \in Delivered : resp[b].hasData \/ Delivered = {b}
                   THEN "complete" ELSE "partial"
  <1> DEFINE good == Promise!With("full") \cup Promise!With("hollow") \cup Promise!With("partial")
  <1>1. good = Delivered
    BY WithFacts
  <1>2. Promise!Outcome =
          IF good = {} THEN IF Promise!With("error") = {} THEN "nothing" ELSE "error"
          ELSE IF /\ Asked \cup Skipped = Backend
                  /\ Promise!With("error") \cup Promise!With("partial") = {}
                  /\ Promise!With("hollow") # {} => \E b \in good : good = {b}
               THEN "complete" ELSE "partial"
    BY DEF Promise!Outcome, Asked, Skipped
  <1>3. Promise!With("error") \cup Promise!With("partial") = {} <=>
          Failing = {} /\ \A b \in Delivered : resp[b].isComplete
    BY WithFacts
  <1>4. ASSUME \A b \in Delivered : resp[b].isComplete
        PROVE  (Promise!With("hollow") # {} => \E b \in Delivered : Delivered = {b}) <=>
               \A b \in Delivered : resp[b].hasData \/ Delivered = {b}
    <2>1. Promise!With("hollow") = {b \in Delivered : ~resp[b].hasData}
      BY <1>4, WithFacts
    <2> QED
      BY <2>1
  <1> HIDE DEF good
  <1>5. CASE Delivered = {}
    <2>1. Promise!With("error") = Failing
      BY WithFacts
    <2> QED
      BY <1>1, <1>2, <1>5, <2>1
  <1>6. CASE Delivered # {}
    BY <1>1, <1>2, <1>3, <1>4, <1>6
  <1> QED
    BY <1>5, <1>6

\* What sequentialMerge returns is the outcome the promise asks for.
LEMMA ReturnsOutcome ==
    ASSUME SequenceInv, Finish \/ (MergeError /\ i = 1)
    PROVE  /\ Promise!With("none") = {}
           /\ \/ Asked \cup Skipped = Backend
              \/ Promise!With("error") \cup Promise!With("partial") # {}
           /\ ResultKind = "pending" /\ ResultKind' = Promise!Outcome
  <1>0. TypeOK /\ OneByOne /\ Accounted /\ Accumulated /\ ReturnTold
    BY DEF SequenceInv
  <1>1. /\ pc \in {"failing", "result"} /\ pc' = "returned"
        /\ UNCHANGED <<i, status, resp>>
    BY DEF Finish, MergeError
  <1>2. ResultKind = "pending"
    BY <1>1 DEF ResultKind
  <1>3. ResultKind' =
          IF ret'.data = NoResponse THEN IF ret'.errs = << >> THEN "nothing" ELSE "error"
          ELSE IF ret'.data.isComplete THEN "complete" ELSE "partial"
    BY <1>1 DEF ResultKind
  <1>4. N \in Nat /\ Backend = 1..N /\ i \in 1..(N + 1)
    BY <1>0, NAssumption DEF TypeOK, Backend
  <1>5. \A b \in Backend : b # i => WentWell(b) \/ status[b] = "idle"
    <2> SUFFICES ASSUME NEW b \in Backend, b # i
                 PROVE  WentWell(b) \/ status[b] = "idle"
      OBVIOUS
    <2>1. b < i \/ b > i
      BY <1>4
    <2> QED
      BY <1>0, <2>1 DEF OneByOne
  <1>6. CASE i \in Backend /\ status[i] = "failed"
    <2>1. Failing = {i} /\ Promise!With("none") = {} /\ Promise!With("error") # {}
      BY <1>5, <1>6, WithFacts DEF Failing, WentWell
    <2>2. CASE i = 1
      <3>1. MergeError
        BY <1>0, <1>6, <2>2 DEF Finish, ReturnTold, FirstFailed
      <3>2. ret' = [data |-> NoResponse, errs |-> <<i>>]
        BY <2>2, <3>1 DEF MergeError
      <3>3. ret'.errs # << >> /\ ret'.data = NoResponse
        BY <3>2
      <3>4. Delivered = {}
        <4> SUFFICES ASSUME NEW b \in Delivered PROVE FALSE
          OBVIOUS
        <4>1. b \in 1..N /\ b # 1
          BY <1>4, <1>6, <2>2 DEF Delivered
        <4>2. b > i
          BY <1>4, <2>2, <4>1
        <4> QED
          BY <1>0, <4>2 DEF OneByOne, Delivered
      <3>5. Promise!Outcome = "error"
        BY <2>1, <3>4, OutcomeFacts
      <3> QED
        BY <1>2, <1>3, <2>1, <3>3, <3>5
    <2>3. CASE i # 1
      <3>1. Finish /\ i \in 2..N
        BY <1>4, <1>6, <2>3
      <3>2. ret' = AccResult(acc) /\ acc.errs = <<i>>
        BY <1>0, <1>6, <3>1 DEF Finish, Accounted
      <3>3. acc.errs # << >>
        BY <3>2
      <3>4. ret'.errs # << >> /\ ret'.data = MarkIncomplete(acc.data)
        BY <3>2, <3>3 DEF AccResult
      <3>5. /\ ret'.data = NoResponse <=> Delivered = {}
            /\ ret'.data # NoResponse => ret'.data.isComplete = FALSE
        BY <1>0, <3>4, MarkFacts DEF TypeOK, Accumulated
      <3>6. Promise!Outcome = IF Delivered = {} THEN "error" ELSE "partial"
        BY <2>1, OutcomeFacts
      <3> QED
        BY <1>2, <1>3, <2>1, <3>4, <3>5, <3>6
    <2> QED
      BY <2>2, <2>3
  <1>7. CASE i \in Backend /\ status[i] # "failed"
    <2>1. Finish /\ status[i] = "delivered" /\ ~resp[i].isComplete /\ i # N + 1
      BY <1>0, <1>4, <1>7 DEF OneByOne, MergeError, Finish
    <2>2. /\ Failing = {} /\ Promise!With("none") = {} /\ i \in Delivered
          /\ Promise!With("partial") # {}
      BY <1>5, <1>7, <2>1, WithFacts DEF Failing, WentWell, Delivered
    <2>3. acc.data \in Response /\ ~acc.data.isComplete
      BY <1>0, <2>1, <2>2 DEF Accumulated, TypeOK
    <2>4. ret'.data \in {acc.data, MarkIncomplete(acc.data)}
      BY <2>1 DEF Finish, AccResult
    <2>5. ret'.data # NoResponse /\ ~ret'.data.isComplete
      BY <2>3, <2>4, MarkFacts, NoResponseAssumption
    <2>6. Promise!Outcome = "partial"
      BY <2>1, <2>2, OutcomeFacts
    <2> QED
      BY <1>2, <1>3, <2>2, <2>5, <2>6
  <1>8. CASE i \notin Backend
    <2>1. i = N + 1 /\ Finish /\ pc = "result"
      <3>1. i = N + 1
        BY <1>4, <1>8
      <3>2. pc # "failing" /\ pc \in {"result", "returned"}
        BY <1>0, <3>1 DEF OneByOne
      <3> QED
        BY <3>1, <3>2 DEF MergeError, Finish
    <2>2. \A b \in Backend : WentWell(b)
      <3> SUFFICES ASSUME NEW b \in Backend PROVE WentWell(b)
        OBVIOUS
      <3>1. b < i
        BY <1>4, <2>1
      <3> QED
        BY <1>0, <3>1 DEF OneByOne
    <2>3. Failing = {} /\ Promise!With("none") = {} /\ Asked \cup Skipped = Backend
      BY <2>2, WithFacts DEF Failing, WentWell, Asked, Skipped
    <2>4. \A b \in Delivered : resp[b].isComplete
      BY <2>2 DEF WentWell, Delivered
    <2>5. acc.pending = 0 /\ acc.errs = << >>
      BY <1>0, <1>4, <2>1 DEF Accounted
    <2>6. ret'.data = acc.data /\ ret'.errs = << >>
      BY <2>1, <2>5 DEF Finish, AccResult
    <2>7. CASE Delivered = {}
      <3>1. Promise!Outcome = "nothing" /\ ret'.data = NoResponse
        BY <1>0, <2>3, <2>6, <2>7, OutcomeFacts DEF Accumulated
      <3> QED
        BY <1>2, <1>3, <2>3, <2>6, <3>1
    <2>8. CASE Delivered # {}
      <3>1. /\ acc.data # NoResponse
            /\ acc.data.isComplete <=> \A b \in Delivered : resp[b].hasData \/ Delivered = {b}
        BY <1>0, <2>4, <2>5, <2>8 DEF Accumulated
      <3>2. Promise!Outcome = IF \A b \in Delivered : resp[b].hasData \/ Delivered = {b}
                              THEN "complete" ELSE "partial"
        BY <2>3, <2>4, <2>8, OutcomeFacts
      <3> QED
        BY <1>2, <1>3, <2>3, <2>6, <3>1, <3>2
    <2> QED
      BY <2>7, <2>8
  <1> QED
    BY <1>6, <1>7, <1>8

\* Every step of sequentialMerge is a step of the promise or changes nothing it can see.
LEMMA StepKeepsPromise ==
    ASSUME SequenceInv, [Next]_vars
    PROVE  [Promise!Next]_promised
  <1> USE DEF reqVars, dataVars
  <1>0. TypeOK /\ OneByOne
    BY DEF SequenceInv
  <1>1. CASE FilterOut
    <2>1. /\ i \in Backend /\ status[i] = "idle" /\ status' = [status EXCEPT ![i] = "skipped"]
          /\ UNCHANGED <<ret, resp>> /\ pc = "filter" /\ pc' # "returned"
      BY <1>0, <1>1, InLoop DEF FilterOut, OneByOne, Advance
    <2>2. i \notin Asked \cup Skipped /\ Skipped' = Skipped \cup {i} /\ Asked' = Asked
      BY <1>0, <2>1 DEF TypeOK, Asked, Skipped
    <2>3. Answers' = Answers
      BY <1>0, <2>1 DEF TypeOK, Answers, AnswerOf
    <2>4. ResultKind = "pending" /\ ResultKind' = ResultKind
      BY <2>1 DEF ResultKind
    <2> PICK b \in Backend : b = i
      BY <2>1
    <2>5. Promise!Skip(b)
      BY <2>2, <2>3, <2>4 DEF Promise!Skip, Asked, Skipped, Answers
    <2> QED
      BY <2>5 DEF Promise!Next
  <1>2. CASE Call
    <2>1. /\ i \in Backend /\ status[i] = "idle" /\ status' = [status EXCEPT ![i] = "called"]
          /\ UNCHANGED <<ret, resp>> /\ pc = "filter" /\ pc' # "returned"
      BY <1>0, <1>2, InLoop DEF Call, OneByOne
    <2>2. i \notin Asked \cup Skipped /\ Asked' = Asked \cup {i} /\ Skipped' = Skipped
      BY <1>0, <2>1 DEF TypeOK, Asked, Skipped
    <2>3. Answers' = Answers
      BY <1>0, <2>1 DEF TypeOK, Answers, AnswerOf
    <2>4. ResultKind = "pending" /\ ResultKind' = ResultKind
      BY <2>1 DEF ResultKind
    <2> PICK b \in Backend : b = i
      BY <2>1
    <2>5. Promise!Ask(b)
      BY <2>2, <2>3, <2>4 DEF Promise!Ask, Asked, Skipped, Answers
    <2> QED
      BY <2>5 DEF Promise!Next
  <1>3. CASE NextFails \/ GiveUp \/ MergeResponse
    <2>1. /\ i \in Backend /\ status[i] = "called"
          /\ \E a \in {"failed", "delivered"} : status' = [status EXCEPT ![i] = a]
          /\ UNCHANGED <<ret, resp>> /\ pc # "returned" /\ pc' # "returned"
      BY <1>0, <1>3, InLoop DEF NextFails, GiveUp, MergeResponse, OneByOne, Advance
    <2>2. /\ status'[i] \in {"failed", "delivered"}
          /\ \A c \in Backend \ {i} : status'[c] = status[c]
      BY <1>0, <2>1 DEF TypeOK
    <2>3. Asked' = Asked /\ Skipped' = Skipped /\ i \in Asked
      BY <2>1, <2>2 DEF Asked, Skipped
    <2>4. ResultKind' = ResultKind
      BY <2>1 DEF ResultKind
    <2> PICK b \in Backend : b = i
      BY <2>1
    <2>5. AnswerOf(b) = "none" /\ AnswerOf(b)' \in Promise!Answer \ {"none"}
      BY <2>1, <2>2 DEF AnswerOf, Promise!Answer
    <2>6. \A c \in Backend \ {b} : AnswerOf(c)' = AnswerOf(c)
      BY <2>1, <2>2 DEF AnswerOf
    <2>7. Answers' = [Answers EXCEPT ![b] = AnswerOf(b)']
      BY <2>6 DEF Answers
    <2>8. Promise!Reply(b, AnswerOf(b)')
      BY <2>3, <2>4, <2>5, <2>7 DEF Promise!Reply, Asked, Skipped, Answers
    <2> QED
      BY <2>5, <2>8 DEF Promise!Next
  <1>4. CASE NextResponds
    <2>1. /\ UNCHANGED <<status, ret>> /\ pc # "returned" /\ pc' # "returned"
          /\ i \in Backend /\ status[i] = "called"
          /\ \A b \in Backend \ {i} : resp'[b] = resp[b]
      BY <1>0, <1>4, InLoop DEF NextResponds, OneByOne, TypeOK
    <2>2. \A b \in Backend : AnswerOf(b)' = AnswerOf(b)
      BY <2>1 DEF AnswerOf
    <2>3. UNCHANGED promised
      BY <2>1, <2>2 DEF promised, Skipped, Asked, Answers, ResultKind
    <2> QED
      BY <2>3
  <1>5. CASE Finish \/ (MergeError /\ i = 1)
    <2>1. UNCHANGED <<status, resp>>
      BY <1>5 DEF Finish, MergeError
    <2>2. UNCHANGED <<Skipped, Asked, Answers>>
      BY <2>1 DEF Skipped, Asked, Answers, AnswerOf
    <2>3. Promise!Return
      BY <1>5, <2>2, ReturnsOutcome DEF Promise!Return, Skipped, Asked, Answers
    <2> QED
      BY <2>3 DEF Promise!Next
  <1>6. CASE Replace \/ (MergeError /\ i # 1) \/ CtxDone \/ Terminated \/ UNCHANGED vars
    <2>1. UNCHANGED <<status, resp, ret>> /\ (pc' = pc \/ (pc # "returned" /\ pc' # "returned"))
      BY <1>6 DEF Replace, MergeError, CtxDone, Terminated, vars
    <2>2. UNCHANGED promised
      BY <2>1 DEF promised, Skipped, Asked, Answers, AnswerOf, ResultKind
    <2> QED
      BY <2>2
  <1> QED
    BY <1>1, <1>2, <1>3, <1>4, <1>5, <1>6 DEF Next, Steps, NextReturns

\* sequentialMerge keeps the promise of a merging middleware, for any number of backends:
\* each is skipped or asked at most once, one is left out only after a failure or an
\* incomplete answer, and the result is the function of the answers that it defines.
THEOREM KeepsPromiseCorrect == Spec => KeepsPromise
  <1>1. Init => Promise!Init
    BY DEF Init, Promise!Init, AnswerOf, ResultKind
  <1>2. SequenceInv /\ [Next]_vars => [Promise!Next]_promised
    BY StepKeepsPromise
  <1>3. [Promise!Next]_promised => [Promise!Next]_(Promise!vars)
    BY DEF Promise!vars, promised, Skipped, Asked, Answers
  <1> QED
    BY <1>1, <1>2, <1>3, Inductive, PTL DEF Spec, KeepsPromise, Promise!Spec

=============================================================================
