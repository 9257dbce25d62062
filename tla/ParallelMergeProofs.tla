------------------------ MODULE ParallelMergeProofs ------------------------
(***************************************************************************)
(* Theorems about ParallelMerge, for every number of backends, every set   *)
(* of keys and every set of replies: type correctness and the safety       *)
(* properties of the merge follow from the inductive invariant IInv.       *)
(***************************************************************************)
EXTENDS ParallelMerge, FiniteSetTheorems, TLAPS

-----------------------------------------------------------------------------
(* Lemmas about responses and the accumulator                              *)

\* A reply is a response whose values all come from the backend that gave it.
LEMMA ReplyFacts ==
    ASSUME NEW b \in Backend, NEW r \in Replies
    PROVE  /\ ReplyOf(b, r) \in Response
           /\ \A k \in Key : ReplyOf(b, r).data[k] \in {b, Absent}
  <1>1. r.isComplete \in BOOLEAN /\ r.hasData \in BOOLEAN /\ r.keys \subseteq Key
    BY RepliesAssumption
  <1>2. r.hasData \/ r.keys = {}
    BY RepliesAssumption
  <1>3. ReplyOf(b, r).data \in [Key -> Source \cup {Absent}]
    BY SourceAssumption DEF ReplyOf, Backend
  <1>4. ReplyOf(b, r).hasData \/ ReplyOf(b, r).data = EmptyMap
    BY <1>2 DEF ReplyOf, EmptyMap
  <1> QED
    BY <1>1, <1>3, <1>4 DEF ReplyOf, Response

\* A key of the combination has the value of the later part, if it has one.
LEMMA CombineFacts ==
    ASSUME NEW x \in Response, NEW y \in Response
    PROVE  /\ CombineData(x, y) \in Response
           /\ CombineData(x, y).hasData = TRUE
           /\ CombineData(x, y).isComplete =
                 (x.hasData /\ y.hasData /\ x.isComplete /\ y.isComplete)
           /\ \A k \in Key : CombineData(x, y).data[k] =
                 IF y.data[k] = Absent THEN x.data[k] ELSE y.data[k]
  <1>1. /\ x.data \in [Key -> Source \cup {Absent}]
        /\ y.data \in [Key -> Source \cup {Absent}]
        /\ x.hasData \in BOOLEAN /\ y.hasData \in BOOLEAN
        /\ x.isComplete \in BOOLEAN /\ y.isComplete \in BOOLEAN
        /\ x.hasData \/ x.data = EmptyMap
        /\ y.hasData \/ y.data = EmptyMap
    BY DEF Response
  <1>2. CombineData(x, y).data \in [Key -> Source \cup {Absent}]
    BY <1>1 DEF CombineData, Overlay
  <1>3. \A k \in Key : CombineData(x, y).data[k] =
                 IF y.data[k] = Absent THEN x.data[k] ELSE y.data[k]
    <2> SUFFICES ASSUME NEW k \in Key
                 PROVE  CombineData(x, y).data[k] =
                            IF y.data[k] = Absent THEN x.data[k] ELSE y.data[k]
      OBVIOUS
    <2>1. CASE x.hasData /\ y.hasData
      BY <2>1 DEF CombineData, Overlay
    <2>2. CASE ~y.hasData
      BY <1>1, <2>2 DEF CombineData, EmptyMap
    <2>3. CASE ~x.hasData /\ y.hasData
      BY <1>1, <2>3 DEF CombineData, EmptyMap
    <2> QED
      BY <1>1, <2>1, <2>2, <2>3
  <1> QED
    BY <1>1, <1>2, <1>3 DEF CombineData, Response

\* Clearing the flag changes nothing else.
LEMMA MarkFacts ==
    ASSUME NEW x \in Response \cup {NoResponse}
    PROVE  /\ MarkIncomplete(x) \in Response \cup {NoResponse}
           /\ MarkIncomplete(x) = NoResponse <=> x = NoResponse
           /\ x # NoResponse => /\ MarkIncomplete(x).isComplete = FALSE
                                /\ MarkIncomplete(x).hasData = x.hasData
                                /\ MarkIncomplete(x).data = x.data
  <1>1. CASE x = NoResponse
    BY <1>1 DEF MarkIncomplete
  <1>2. CASE x # NoResponse
    <2>1. x \in Response
      BY <1>2
    <2>2. MarkIncomplete(x) \in Response
      BY <2>1, <1>2 DEF MarkIncomplete, Response
    <2> QED
      BY <2>1, <2>2, <1>2, NoResponseAssumption DEF MarkIncomplete, Response
  <1> QED
    BY <1>1, <1>2

\* Merge(nil, err), field by field.
LEMMA AccMergeErrFacts ==
    ASSUME NEW a \in [pending : 0..N, data : Response \cup {NoResponse}, errs : Seq(Failure)],
           NEW e \in Failure, a.pending > 0
    PROVE  /\ AccMergeErr(a, e) \in
                 [pending : 0..N, data : Response \cup {NoResponse}, errs : Seq(Failure)]
           /\ AccMergeErr(a, e).pending = a.pending - 1
           /\ AccMergeErr(a, e).data = MarkIncomplete(a.data)
           /\ AccMergeErr(a, e).errs = Append(a.errs, e)
  <1>1. MarkIncomplete(a.data) \in Response \cup {NoResponse}
    BY MarkFacts
  <1>2. a.pending - 1 \in 0..N
    BY NAssumption
  <1>3. Append(a.errs, e) \in Seq(Failure)
    OBVIOUS
  <1> QED
    BY <1>1, <1>2, <1>3 DEF AccMergeErr

\* Merge(res, nil), field by field.
LEMMA AccMergeResFacts ==
    ASSUME NEW a \in [pending : 0..N, data : Response \cup {NoResponse}, errs : Seq(Failure)],
           NEW r \in Response, a.pending > 0
    PROVE  /\ AccMergeRes(a, r) \in
                 [pending : 0..N, data : Response \cup {NoResponse}, errs : Seq(Failure)]
           /\ AccMergeRes(a, r).pending = a.pending - 1
           /\ AccMergeRes(a, r).errs = a.errs
           /\ AccMergeRes(a, r).data =
                 IF a.data = NoResponse THEN r ELSE CombineData(a.data, r)
  <1>1. a.data # NoResponse => CombineData(a.data, r) \in Response
    BY CombineFacts
  <1>2. a.pending - 1 \in 0..N
    BY NAssumption
  <1> QED
    BY <1>1, <1>2 DEF AccMergeRes

\* Result(), field by field.
LEMMA AccResultFacts ==
    ASSUME NEW a \in [pending : 0..N, data : Response \cup {NoResponse}, errs : Seq(Failure)]
    PROVE  /\ AccResult(a) \in [data : Response \cup {NoResponse}, errs : Seq(Failure)]
           /\ AccResult(a).errs = a.errs
           /\ AccResult(a).data =
                 IF a.pending > 0 \/ a.errs # << >> THEN MarkIncomplete(a.data) ELSE a.data
  BY MarkFacts DEF AccResult

-----------------------------------------------------------------------------
(* Lemmas about counting                                                   *)

\* The sets of backends the invariant counts are finite.
LEMMA Counts ==
    /\ IsFiniteSet(Backend) /\ Cardinality(Backend) = N
    /\ \A S \in SUBSET Backend : IsFiniteSet(S) /\ Cardinality(S) \in 0..N
  <1>1. IsFiniteSet(Backend) /\ Cardinality(Backend) = N
    BY FS_Interval, NAssumption DEF Backend
  <1>2. ASSUME NEW S \in SUBSET Backend
        PROVE  IsFiniteSet(S) /\ Cardinality(S) \in 0..N
    <2>1. IsFiniteSet(S) /\ Cardinality(S) <= N
      BY <1>1, FS_Subset
    <2>2. Cardinality(S) \in Nat
      BY <2>1, FS_CardinalityType
    <2> QED
      BY <2>1, <2>2, NAssumption
  <1> QED
    BY <1>1, <1>2

-----------------------------------------------------------------------------
(* Lemmas about channels                                                   *)

\* Receiving takes the first message and moves the others up.
LEMMA TailFacts ==
    ASSUME NEW S, NEW q \in Seq(S), q # << >>
    PROVE  /\ Len(Tail(q)) = Len(q) - 1
           /\ Head(q) = q[1] /\ 1 \in 1..Len(q)
           /\ \A n \in 1..Len(Tail(q)) : n + 1 \in 1..Len(q) /\ Tail(q)[n] = q[n + 1]
           /\ \A n \in 1..Len(q) : n # 1 => n - 1 \in 1..Len(Tail(q)) /\ Tail(q)[n - 1] = q[n]
  OBVIOUS

\* Sending leaves the messages in the channel where they are.
LEMMA AppendFacts ==
    ASSUME NEW S, NEW q \in Seq(S), NEW x \in S
    PROVE  /\ Len(Append(q, x)) = Len(q) + 1
           /\ \A n \in 1..Len(q) : Append(q, x)[n] = q[n]
           /\ Append(q, x)[Len(q) + 1] = x
           /\ Len(q) \in Nat
  OBVIOUS

-----------------------------------------------------------------------------
(* The invariant holds initially and is preserved                          *)

\* The invariant holds before the first backend is dispatched.
LEMMA InitIInv == Init => IInv
  <1> SUFFICES ASSUME Init PROVE IInv
    OBVIOUS
  <1> USE DEF Init
  <1>1. NewAccumulator(0) \in
           [pending : 0..N, data : Response \cup {NoResponse}, errs : Seq(Failure)]
    BY NAssumption DEF NewAccumulator
  <1>2. TypeOK
    BY <1>1, NAssumption DEF TypeOK, NoResult, CallStates, PartErrors, Backend
  <1>3. Selected = Backend /\ Delivered = {} /\ Failed = {}
    BY DEF Selected, Delivered, Failed
  <1>4. ProgressInv
    BY <1>3, Counts DEF ProgressInv, Backend, NewAccumulator
  <1>5. CountInv
    BY <1>3, FS_EmptySet DEF CountInv, Ended, Received
  <1>6. ChannelInv
    BY DEF ChannelInv, ListsErrors
  <1>7. Merged = {} /\ Reported = {}
    BY <1>3 DEF Merged, Reported
  <1>8. ErrorsInv
    BY <1>7 DEF ErrorsInv, ListsErrors, NewAccumulator
  <1>9. MergedInv
    BY <1>7 DEF MergedInv, NewAccumulator
  <1>10. ReturnInv
    BY DEF ReturnInv
  <1> QED
    BY <1>2, <1>4, <1>5, <1>6, <1>8, <1>9, <1>10 DEF IInv

\* Types and progress: what a step does to the loop variables.
LEMMA StepTypeProgress == IInv /\ [Next]_vars => TypeOK' /\ ProgressInv'
  <1> SUFFICES ASSUME IInv, [Next]_vars PROVE TypeOK' /\ ProgressInv'
    OBVIOUS
  <1> USE DEF mainVars, workVars, chanVars
  <1>0. TypeOK /\ ProgressInv /\ ChannelInv
    BY DEF IInv
  <1>a. Selected \in SUBSET Backend /\ proxyCount \in 0..N
    BY <1>0 DEF Selected, TypeOK
  <1>1. CASE FilterOut
    <2>1. i \in Backend /\ call[i] = "idle" /\ i \in Selected
      BY <1>0, <1>1 DEF FilterOut, ProgressInv, Selected, Backend
    <2>2. Selected' = Selected \ {i}
      BY <1>0, <1>1, <2>1 DEF FilterOut, TypeOK, Selected
    <2>3. Cardinality(Selected') = Cardinality(Selected) - 1
      BY <1>a, <2>1, <2>2, Counts, FS_RemoveElement
    <2>4. proxyCount' = Cardinality(Selected') /\ proxyCount' \in 0..N
      BY <1>0, <1>1, <1>a, <2>2, <2>3, Counts DEF FilterOut, ProgressInv
    <2>5. TypeOK'
      BY <1>0, <1>1, <2>4, NAssumption DEF FilterOut, TypeOK, CallStates, Over, Backend
    <2>6. ProgressInv'
      BY <1>0, <1>1, <2>4 DEF FilterOut, TypeOK, ProgressInv, Backend
    <2> QED
      BY <2>5, <2>6
  <1>2. CASE Spawn
    <2>1. Selected' = Selected
      BY <1>0, <1>2 DEF Spawn, TypeOK, Selected, ProgressInv, Backend
    <2>2. TypeOK'
      BY <1>0, <1>2, NAssumption DEF Spawn, TypeOK, CallStates, Spawned, Backend
    <2>3. ProgressInv'
      BY <1>0, <1>2, <2>1 DEF Spawn, TypeOK, ProgressInv, Backend
    <2> QED
      BY <2>2, <2>3
  <1>3. CASE StartCollecting
    <2>1. Selected' = Selected
      BY <1>3 DEF StartCollecting, Selected
    <2>2. NewAccumulator(proxyCount) \in
            [pending : 0..N, data : Response \cup {NoResponse}, errs : Seq(Failure)]
      BY <1>a DEF NewAccumulator
    <2>3. TypeOK'
      BY <1>0, <1>3, <2>2, NAssumption DEF StartCollecting, TypeOK
    <2>4. ProgressInv'
      BY <1>0, <1>3, <1>a, <2>1, NAssumption
         DEF StartCollecting, ProgressInv, NewAccumulator, Backend
    <2> QED
      BY <2>3, <2>4
  <1>4. CASE RecvFailed
    <2>1. Selected' = Selected
      BY <1>4 DEF RecvFailed, Selected
    <2>2. Head(failed) \in Failure /\ Tail(failed) \in Seq(Failure) /\ acc.pending > 0
      BY <1>0, <1>4 DEF RecvFailed, TypeOK, ProgressInv
    <2>3. TypeOK'
      BY <1>0, <1>4, <1>a, <2>2, AccMergeErrFacts, NAssumption DEF RecvFailed, TypeOK
    <2>4. acc'.pending = acc.pending - 1
      BY <1>0, <1>4, <2>2, AccMergeErrFacts DEF RecvFailed, TypeOK
    <2>5. i' = i + 1 /\ i \in Nat /\ i < proxyCount /\ pc = "collect"
      BY <1>0, <1>4 DEF RecvFailed, TypeOK
    <2>6. i' <= proxyCount /\ acc'.pending = proxyCount - i'
      BY <1>0, <1>a, <2>4, <2>5 DEF ProgressInv
    <2>7. ProgressInv'
      BY <1>0, <1>4, <2>1, <2>6 DEF RecvFailed, ProgressInv
    <2> QED
      BY <2>3, <2>7
  <1>5. CASE RecvPart
    <2>1. Selected' = Selected
      BY <1>5 DEF RecvPart, Selected
    <2>2. /\ Head(parts) \in Backend /\ Tail(parts) \in Seq(Backend) /\ acc.pending > 0
          /\ Head(parts) = parts[1] /\ 1 \in 1..Len(parts)
      BY <1>0, <1>5 DEF RecvPart, TypeOK, ProgressInv
    <2>3. resp[Head(parts)] \in Response
      BY <1>0, <2>2 DEF ChannelInv, Delivered
    <2>4. TypeOK'
      BY <1>0, <1>5, <1>a, <2>2, <2>3, AccMergeResFacts, NAssumption DEF RecvPart, TypeOK
    <2>5. acc'.pending = acc.pending - 1
      BY <1>0, <1>5, <2>2, <2>3, AccMergeResFacts DEF RecvPart, TypeOK
    <2>6. i' = i + 1 /\ i \in Nat /\ i < proxyCount /\ pc = "collect"
      BY <1>0, <1>5 DEF RecvPart, TypeOK
    <2>7. i' <= proxyCount /\ acc'.pending = proxyCount - i'
      BY <1>0, <1>a, <2>5, <2>6 DEF ProgressInv
    <2>8. ProgressInv'
      BY <1>0, <1>5, <2>1, <2>7 DEF RecvPart, ProgressInv
    <2> QED
      BY <2>4, <2>8
  <1>6. CASE Finish
    <2>1. Selected' = Selected
      BY <1>6 DEF Finish, Selected
    <2>2. TypeOK'
      BY <1>0, <1>6, AccResultFacts DEF Finish, TypeOK, CtxErrors
    <2>3. ProgressInv'
      BY <1>0, <1>6, <2>1 DEF Finish, ProgressInv
    <2> QED
      BY <2>2, <2>3
  <1>7. ASSUME NEW b \in Backend, Worker(b)
        PROVE  TypeOK' /\ ProgressInv'
    <2>1. UNCHANGED mainVars /\ Selected' = Selected
      BY <1>0, <1>7
         DEF Worker, NextReturns, SendPart, GiveUp, SendFailed, Selected, TypeOK
    <2>2. \A c \in Backend : (call[c] = "idle" <=> call'[c] = "idle")
      BY <1>0, <1>7 DEF Worker, NextReturns, SendPart, GiveUp, SendFailed, TypeOK
    <2>3. ProgressInv'
      BY <1>0, <2>1, <2>2 DEF ProgressInv
    <2>4. CASE NextReturns(b)
      <3>1. resp' \in [Backend -> Response \cup {NoResponse}]
        BY <1>0, <2>4, ReplyFacts DEF NextReturns, TypeOK
      <3>2. call' \in [Backend -> CallStates]
        BY <1>0, <2>4 DEF NextReturns, TypeOK, CallStates, Spawned
      <3>3. errOf' \in [Backend -> PartErrors]
        BY <1>0, <2>4 DEF NextReturns, TypeOK, PartErrors
      <3> QED
        BY <1>0, <2>3, <2>4, <3>1, <3>2, <3>3 DEF NextReturns, TypeOK
    <2>5. CASE SendPart(b)
      BY <1>0, <2>3, <2>5 DEF SendPart, TypeOK, CallStates, Spawned
    <2>6. CASE GiveUp(b)
      BY <1>0, <2>3, <2>6 DEF GiveUp, TypeOK, CallStates, Spawned, PartErrors
    <2>7. CASE SendFailed(b)
      BY <1>0, <2>3, <2>7 DEF SendFailed, TypeOK, CallStates, Spawned, Failure
    <2> QED
      BY <1>7, <2>3, <2>4, <2>5, <2>6, <2>7 DEF Worker
  <1>8. CASE \/ \E e \in CtxErrors : ParentDone(e)
             \/ Timeout \/ Terminated \/ UNCHANGED vars
    <2>1. UNCHANGED <<mainVars, workVars, chanVars>>
      BY <1>8 DEF ParentDone, Timeout, Terminated, vars
    <2>2. ctxErr' \in {"none"} \cup CtxErrors
      BY <1>0, <1>8 DEF ParentDone, Timeout, Terminated, vars, TypeOK, CtxErrors
    <2> QED
      BY <1>0, <2>1, <2>2 DEF TypeOK, ProgressInv, Selected
  <1> QED
    BY <1>1, <1>2, <1>3, <1>4, <1>5, <1>6, <1>7, <1>8 DEF Next, Main

\* The steps of the caller that touch neither channel nor goroutine that ended.
LEMMA DispatchKeeps ==
    ASSUME IInv, FilterOut \/ Spawn \/ StartCollecting \/ Finish
    PROVE  /\ Delivered' = Delivered /\ Failed' = Failed
           /\ \A b \in Backend : call'[b] \in {"answered", "delivered"} => call'[b] = call[b]
  <1>1. CASE FilterOut \/ Spawn
    <2>1. i \in Backend /\ call[i] = "idle"
      BY <1>1 DEF FilterOut, Spawn, IInv, ProgressInv, TypeOK, Backend
    <2> QED
      BY <1>1, <2>1 DEF FilterOut, Spawn, IInv, TypeOK, Delivered, Failed
  <1>2. CASE StartCollecting \/ Finish
    BY <1>2 DEF StartCollecting, Finish, workVars, Delivered, Failed
  <1> QED
    BY <1>1, <1>2

\* Counting: an answer moves from a goroutine to a channel to the accumulator.
LEMMA StepCount == IInv /\ [Next]_vars => CountInv'
  <1> SUFFICES ASSUME IInv, [Next]_vars PROVE CountInv'
    OBVIOUS
  <1> USE DEF mainVars, workVars, chanVars
  <1>0. TypeOK /\ ProgressInv /\ CountInv
    BY DEF IInv
  <1>1. CASE FilterOut \/ Spawn \/ StartCollecting \/ Finish
    <2>1. Ended' = Ended
      BY <1>1, DispatchKeeps DEF Ended
    <2>2. Received' = Received
      BY <1>1 DEF FilterOut, Spawn, StartCollecting, Finish, Received
    <2> QED
      BY <1>0, <1>1, <2>1, <2>2 DEF FilterOut, Spawn, StartCollecting, Finish, CountInv
  <1>2. CASE RecvFailed
    <2>1. Ended' = Ended /\ Received = i /\ Received' = i + 1 /\ parts' = parts
      BY <1>2 DEF RecvFailed, Ended, Delivered, Failed, Received
    <2>2. Len(failed') = Len(failed) - 1
      BY <1>0, <1>2, TailFacts DEF RecvFailed, TypeOK
    <2>3. Len(failed) \in Nat /\ Len(parts) \in Nat /\ i \in Nat
      BY <1>0 DEF TypeOK
    <2> QED
      BY <1>0, <2>1, <2>2, <2>3 DEF CountInv
  <1>3. CASE RecvPart
    <2>1. Ended' = Ended /\ Received = i /\ Received' = i + 1 /\ failed' = failed
      BY <1>3 DEF RecvPart, Ended, Delivered, Failed, Received
    <2>2. Len(parts') = Len(parts) - 1
      BY <1>0, <1>3, TailFacts DEF RecvPart, TypeOK
    <2>3. Len(failed) \in Nat /\ Len(parts) \in Nat /\ i \in Nat
      BY <1>0 DEF TypeOK
    <2> QED
      BY <1>0, <2>1, <2>2, <2>3 DEF CountInv
  <1>4. ASSUME NEW b \in Backend, NextReturns(b) \/ GiveUp(b)
        PROVE  CountInv'
    <2>1. Ended' = Ended /\ Received' = Received
      BY <1>0, <1>4 DEF NextReturns, GiveUp, TypeOK, Ended, Delivered, Failed, Received
    <2> QED
      BY <1>0, <1>4, <2>1 DEF NextReturns, GiveUp, CountInv
  <1>5. ASSUME NEW b \in Backend, SendPart(b) \/ SendFailed(b)
        PROVE  CountInv'
    <2>1. b \notin Ended /\ Ended' = Ended \cup {b} /\ Received' = Received
      BY <1>0, <1>5 DEF SendPart, SendFailed, TypeOK, Ended, Delivered, Failed, Received
    <2>2. Ended \in SUBSET Backend
      BY DEF Ended, Delivered, Failed
    <2>3. Cardinality(Ended') = Cardinality(Ended) + 1
      BY <2>1, <2>2, Counts, FS_AddElement
    <2>4. <<b, errOf[b]>> \in Failure
      BY <1>0 DEF TypeOK, Failure
    <2>5. Len(parts') + Len(failed') = Len(parts) + Len(failed) + 1
      <3>1. Len(parts) \in Nat /\ Len(failed) \in Nat
        BY <1>0 DEF TypeOK
      <3>2. CASE SendPart(b)
        BY <1>0, <3>1, <3>2, AppendFacts DEF SendPart, TypeOK
      <3>3. CASE SendFailed(b)
        BY <1>0, <2>4, <3>1, <3>3, AppendFacts DEF SendFailed, TypeOK
      <3> QED
        BY <1>5, <3>2, <3>3
    <2>6. /\ Len(failed) \in Nat /\ Len(parts) \in Nat /\ Received \in Nat
          /\ Len(failed') \in Nat /\ Len(parts') \in Nat
      BY <1>0, <1>5, <2>4, AppendFacts DEF TypeOK, Received, SendPart, SendFailed
    <2> QED
      BY <1>0, <2>1, <2>3, <2>5, <2>6 DEF CountInv
  <1>6. CASE \/ \E e \in CtxErrors : ParentDone(e)
             \/ Timeout \/ Terminated \/ UNCHANGED vars
    BY <1>0, <1>6 DEF ParentDone, Timeout, Terminated, vars, CountInv, Ended, Delivered,
                      Failed, Received
  <1> QED
    BY <1>1, <1>2, <1>3, <1>4, <1>5, <1>6 DEF Next, Main, Worker

\* Channels: what they hold is what ended goroutines put there, once each.
LEMMA StepChannel == IInv /\ [Next]_vars => ChannelInv'
  <1> SUFFICES ASSUME IInv, [Next]_vars PROVE ChannelInv'
    OBVIOUS
  <1> USE DEF mainVars, workVars, chanVars
  <1>0. TypeOK /\ ChannelInv
    BY DEF IInv
  <1>1. CASE FilterOut \/ Spawn \/ StartCollecting \/ Finish
    <2>1. UNCHANGED <<resp, errOf, parts, failed>>
      BY <1>1 DEF FilterOut, Spawn, StartCollecting, Finish
    <2> QED
      BY <1>0, <1>1, <2>1, DispatchKeeps DEF ChannelInv, ListsErrors
  <1>2. CASE RecvFailed
    <2>1. UNCHANGED <<call, resp, errOf, parts>> /\ failed # << >> /\ failed' = Tail(failed)
      BY <1>2 DEF RecvFailed
    <2>2. /\ \A n \in 1..Len(failed') : n + 1 \in 1..Len(failed) /\ failed'[n] = failed[n + 1]
      BY <1>0, <2>1, TailFacts DEF TypeOK
    <2>3. Delivered' = Delivered /\ Failed' = Failed
      BY <2>1 DEF Delivered, Failed
    <2>4. ListsErrors(failed)'
      BY <1>0, <2>1, <2>2, <2>3 DEF ChannelInv, ListsErrors
    <2> QED
      BY <1>0, <2>1, <2>3, <2>4 DEF ChannelInv
  <1>3. CASE RecvPart
    <2>1. UNCHANGED <<call, resp, errOf, failed>> /\ parts # << >> /\ parts' = Tail(parts)
      BY <1>3 DEF RecvPart
    <2>2. /\ \A n \in 1..Len(parts') : n + 1 \in 1..Len(parts) /\ parts'[n] = parts[n + 1]
      BY <1>0, <2>1, TailFacts DEF TypeOK
    <2>3. Delivered' = Delivered /\ Failed' = Failed
      BY <2>1 DEF Delivered, Failed
    <2>4. ListsErrors(failed)'
      BY <1>0, <2>1, <2>3 DEF ChannelInv, ListsErrors
    <2> QED
      BY <1>0, <2>1, <2>2, <2>3, <2>4 DEF ChannelInv
  <1>4. ASSUME NEW b \in Backend, NextReturns(b)
        PROVE  ChannelInv'
    <2>1. Delivered' = Delivered /\ Failed' = Failed /\ b \notin Delivered /\ b \notin Failed
      BY <1>0, <1>4 DEF NextReturns, TypeOK, Delivered, Failed
    <2>2. \A c \in Backend : c # b =>
             resp'[c] = resp[c] /\ errOf'[c] = errOf[c] /\ call'[c] = call[c]
      BY <1>0, <1>4 DEF NextReturns, TypeOK
    <2>3. call'[b] = "answered" => resp'[b] \in Response
                                   /\ \A k \in Key : resp'[b].data[k] \in {b, Absent}
      BY <1>0, <1>4, ReplyFacts DEF NextReturns, TypeOK
    <2>4. call'[b] # "delivered" /\ UNCHANGED chanVars
      BY <1>0, <1>4 DEF NextReturns, TypeOK
    <2>5. \A c \in Failed : c # b /\ c \in Backend
      BY <2>1 DEF Failed
    <2>6. ListsErrors(failed)'
      BY <1>0, <2>1, <2>2, <2>4, <2>5 DEF ChannelInv, ListsErrors
    <2> QED
      BY <1>0, <2>1, <2>2, <2>3, <2>4, <2>6 DEF ChannelInv
  <1>5. ASSUME NEW b \in Backend, GiveUp(b)
        PROVE  ChannelInv'
    <2>1. Delivered' = Delivered /\ Failed' = Failed /\ b \notin Failed
      BY <1>0, <1>5 DEF GiveUp, TypeOK, Delivered, Failed
    <2>2. \A c \in Backend : c # b => errOf'[c] = errOf[c] /\ call'[c] = call[c]
      BY <1>0, <1>5 DEF GiveUp, TypeOK
    <2>3. call'[b] = "failing" /\ UNCHANGED <<resp, parts, failed>>
      BY <1>0, <1>5 DEF GiveUp, TypeOK
    <2>4. \A c \in Failed : c # b /\ c \in Backend
      BY <2>1 DEF Failed
    <2>5. ListsErrors(failed)'
      BY <1>0, <2>1, <2>2, <2>3, <2>4 DEF ChannelInv, ListsErrors
    <2> QED
      BY <1>0, <2>1, <2>2, <2>3, <2>5 DEF ChannelInv
  <1>6. ASSUME NEW b \in Backend, SendPart(b)
        PROVE  ChannelInv'
    <2>1. /\ Delivered' = Delivered \cup {b} /\ b \notin Delivered /\ Failed' = Failed
          /\ call[b] = "answered" /\ parts' = Append(parts, b)
          /\ UNCHANGED <<resp, errOf, failed>>
      BY <1>0, <1>6 DEF SendPart, TypeOK, Delivered, Failed
    <2>2. \A c \in Backend : c # b => call'[c] = call[c]
      BY <1>0, <1>6 DEF SendPart, TypeOK
    <2>3. /\ Len(parts') = Len(parts) + 1 /\ Len(parts) \in Nat
          /\ \A n \in 1..Len(parts) : parts'[n] = parts[n]
          /\ parts'[Len(parts) + 1] = b
      BY <1>0, <2>1, AppendFacts DEF TypeOK
    <2>4. \A n \in 1..Len(parts') : n \in 1..Len(parts) \/ n = Len(parts) + 1
      BY <2>3
    <2>5. \A n \in 1..Len(parts) : parts[n] # b
      BY <1>0, <2>1 DEF ChannelInv
    <2>6. ListsErrors(failed)'
      BY <1>0, <2>1 DEF ChannelInv, ListsErrors
    <2> QED
      BY <1>0, <2>1, <2>2, <2>3, <2>4, <2>5, <2>6 DEF ChannelInv
  <1>7. ASSUME NEW b \in Backend, SendFailed(b)
        PROVE  ChannelInv'
    <2>1. /\ Failed' = Failed \cup {b} /\ b \notin Failed /\ Delivered' = Delivered
          /\ failed' = Append(failed, <<b, errOf[b]>>)
          /\ UNCHANGED <<resp, errOf, parts>>
      BY <1>0, <1>7 DEF SendFailed, TypeOK, Delivered, Failed
    <2>2. \A c \in Backend : call'[c] \in {"answered", "delivered"} => call'[c] = call[c]
      BY <1>0, <1>7 DEF SendFailed, TypeOK
    <2>3. /\ Len(failed') = Len(failed) + 1 /\ Len(failed) \in Nat
          /\ \A n \in 1..Len(failed) : failed'[n] = failed[n]
          /\ failed'[Len(failed) + 1] = <<b, errOf[b]>>
      BY <1>0, <2>1, AppendFacts DEF TypeOK, Failure
    <2>4. \A n \in 1..Len(failed') : n \in 1..Len(failed) \/ n = Len(failed) + 1
      BY <2>3
    <2>5. \A n \in 1..Len(failed) : failed[n][1] # b
      BY <1>0, <2>1 DEF ChannelInv, ListsErrors
    <2>6. ListsErrors(failed)'
      BY <1>0, <2>1, <2>3, <2>4, <2>5 DEF ChannelInv, ListsErrors
    <2> QED
      BY <1>0, <2>1, <2>2, <2>6 DEF ChannelInv
  <1>8. CASE \/ \E e \in CtxErrors : ParentDone(e)
             \/ Timeout \/ Terminated \/ UNCHANGED vars
    BY <1>0, <1>8 DEF ParentDone, Timeout, Terminated, vars, ChannelInv, ListsErrors, Delivered,
                      Failed
  <1> QED
    BY <1>1, <1>2, <1>3, <1>4, <1>5, <1>6, <1>7, <1>8 DEF Next, Main, Worker

\* Which answers have been taken out of the channels, after each step.
LEMMA StepMerged ==
    ASSUME IInv, [Next]_vars
    PROVE  /\ IF RecvPart THEN Merged' = Merged \cup {Head(parts)} /\ Head(parts) \notin Merged
                               /\ Head(parts) \in Delivered
              ELSE Merged' = Merged
           /\ IF RecvFailed THEN Reported' = Reported \cup {Head(failed)[1]}
                                 /\ Head(failed)[1] \notin Reported
                                 /\ Head(failed)[1] \in Failed
              ELSE Reported' = Reported
           /\ Delivered \subseteq Delivered' /\ Failed \subseteq Failed'
           /\ \A b \in Delivered : resp'[b] = resp[b]
           /\ \A b \in Failed : errOf'[b] = errOf[b]
  <1> USE DEF mainVars, workVars, chanVars
  <1>0. TypeOK /\ ChannelInv
    BY DEF IInv
  <1>1. CASE FilterOut \/ Spawn \/ StartCollecting \/ Finish
    <2>1. UNCHANGED <<resp, errOf, parts, failed>> /\ ~RecvPart /\ ~RecvFailed
      BY <1>0, <1>1 DEF FilterOut, Spawn, StartCollecting, Finish, RecvPart, RecvFailed, TypeOK
    <2> QED
      BY <1>1, <2>1, DispatchKeeps DEF Merged, Reported
  <1>2. CASE RecvFailed
    <2>1. /\ UNCHANGED <<call, resp, errOf, parts>> /\ failed # << >> /\ failed' = Tail(failed)
          /\ i \in Nat /\ i' = i + 1
      BY <1>0, <1>2 DEF RecvFailed, TypeOK
    <2>2. Delivered' = Delivered /\ Failed' = Failed
      BY <2>1 DEF Delivered, Failed
    <2>3. /\ Head(failed) = failed[1] /\ 1 \in 1..Len(failed)
          /\ \A n \in 1..Len(failed') : n + 1 \in 1..Len(failed) /\ failed'[n] = failed[n + 1]
          /\ \A n \in 1..Len(failed) : n # 1 =>
                n - 1 \in 1..Len(failed') /\ failed'[n - 1] = failed[n]
      BY <1>0, <2>1, TailFacts DEF TypeOK
    <2>4. Head(failed)[1] \in Failed /\ Head(failed)[1] \notin Reported
      BY <1>0, <2>3 DEF ChannelInv, ListsErrors, Reported
    <2>5. \A n \in 1..Len(failed') : failed'[n][1] # Head(failed)[1]
      BY <1>0, <2>3 DEF ChannelInv, ListsErrors
    <2>6. Reported' = Reported \cup {Head(failed)[1]}
      <3>1. ASSUME NEW b \in Reported' PROVE b \in Reported \cup {Head(failed)[1]}
        <4>1. b \in Failed /\ \A n \in 1..Len(failed') : failed'[n][1] # b
          BY <2>2 DEF Reported
        <4>2. \A n \in 1..Len(failed) : n # 1 => failed[n][1] # b
          BY <2>3, <4>1
        <4> QED
          BY <2>3, <4>1, <4>2 DEF Reported
      <3>2. ASSUME NEW b \in Reported PROVE b \in Reported'
        <4>1. b \in Failed /\ \A n \in 1..Len(failed) : failed[n][1] # b
          BY DEF Reported
        <4>2. \A n \in 1..Len(failed') : failed'[n][1] # b
          BY <2>3, <4>1
        <4> QED
          BY <2>2, <4>1, <4>2 DEF Reported
      <3>3. Head(failed)[1] \in Reported'
        BY <2>2, <2>4, <2>5 DEF Reported
      <3> QED
        BY <3>1, <3>2, <3>3
    <2>7. Len(parts') = Len(parts) /\ (RecvPart => parts' = Tail(parts) /\ parts # << >>)
      BY <2>1 DEF RecvPart
    <2>8. ~RecvPart
      BY <1>0, <2>7, TailFacts DEF TypeOK
    <2>9. Merged' = Merged
      BY <2>1, <2>2 DEF Merged
    <2> QED
      BY <1>2, <2>1, <2>2, <2>4, <2>6, <2>8, <2>9
  <1>3. CASE RecvPart
    <2>1. /\ UNCHANGED <<call, resp, errOf, failed>> /\ parts # << >> /\ parts' = Tail(parts)
      BY <1>3 DEF RecvPart
    <2>2. Delivered' = Delivered /\ Failed' = Failed
      BY <2>1 DEF Delivered, Failed
    <2>3. /\ Head(parts) = parts[1] /\ 1 \in 1..Len(parts)
          /\ \A n \in 1..Len(parts') : n + 1 \in 1..Len(parts) /\ parts'[n] = parts[n + 1]
          /\ \A n \in 1..Len(parts) : n # 1 =>
                n - 1 \in 1..Len(parts') /\ parts'[n - 1] = parts[n]
      BY <1>0, <2>1, TailFacts DEF TypeOK
    <2>4. Head(parts) \in Delivered /\ Head(parts) \notin Merged
      BY <1>0, <2>3 DEF ChannelInv, Merged
    <2>5. \A n \in 1..Len(parts') : parts'[n] # Head(parts)
      BY <1>0, <2>3 DEF ChannelInv
    <2>6. Merged' = Merged \cup {Head(parts)}
      <3>1. ASSUME NEW b \in Merged' PROVE b \in Merged \cup {Head(parts)}
        <4>1. b \in Delivered /\ \A n \in 1..Len(parts') : parts'[n] # b
          BY <2>2 DEF Merged
        <4>2. \A n \in 1..Len(parts) : n # 1 => parts[n] # b
          BY <2>3, <4>1
        <4> QED
          BY <2>3, <4>1, <4>2 DEF Merged
      <3>2. ASSUME NEW b \in Merged PROVE b \in Merged'
        <4>1. b \in Delivered /\ \A n \in 1..Len(parts) : parts[n] # b
          BY DEF Merged
        <4>2. \A n \in 1..Len(parts') : parts'[n] # b
          BY <2>3, <4>1
        <4> QED
          BY <2>2, <4>1, <4>2 DEF Merged
      <3>3. Head(parts) \in Merged'
        BY <2>2, <2>4, <2>5 DEF Merged
      <3> QED
        BY <3>1, <3>2, <3>3
    <2>7. Len(failed') = Len(failed) /\ (RecvFailed => failed' = Tail(failed) /\ failed # << >>)
      BY <2>1 DEF RecvFailed
    <2>8. ~RecvFailed
      BY <1>0, <2>7, TailFacts DEF TypeOK
    <2>9. Reported' = Reported
      BY <2>1, <2>2 DEF Reported
    <2> QED
      BY <1>3, <2>1, <2>2, <2>4, <2>6, <2>8, <2>9
  <1>4. ASSUME NEW b \in Backend, NextReturns(b) \/ GiveUp(b)
        PROVE  /\ Delivered' = Delivered /\ Failed' = Failed
               /\ UNCHANGED <<parts, failed, i, pc>>
               /\ \A c \in Delivered : resp'[c] = resp[c]
               /\ \A c \in Failed : errOf'[c] = errOf[c]
    BY <1>0, <1>4 DEF NextReturns, GiveUp, TypeOK, Delivered, Failed
  <1>5. ASSUME NEW b \in Backend, SendPart(b)
        PROVE  /\ UNCHANGED <<resp, errOf, failed, i, pc>> /\ Failed' = Failed
               /\ Delivered \subseteq Delivered' /\ Merged' = Merged
    <2>1. /\ Delivered' = Delivered \cup {b} /\ Failed' = Failed
          /\ parts' = Append(parts, b) /\ UNCHANGED <<resp, errOf, failed, i, pc>>
      BY <1>0, <1>5 DEF SendPart, TypeOK, Delivered, Failed
    <2>2. /\ Len(parts') = Len(parts) + 1 /\ Len(parts) \in Nat
          /\ \A n \in 1..Len(parts) : parts'[n] = parts[n]
          /\ parts'[Len(parts) + 1] = b
      BY <1>0, <2>1, AppendFacts DEF TypeOK
    <2>3. /\ \A n \in 1..Len(parts') : n \in 1..Len(parts) \/ n = Len(parts) + 1
          /\ \A n \in 1..Len(parts) : n \in 1..Len(parts')
          /\ Len(parts) + 1 \in 1..Len(parts')
      BY <2>2
    <2>4. b \notin Merged
      BY <1>0, <1>5 DEF Merged, Delivered, SendPart
    <2> QED
      BY <2>1, <2>2, <2>3, <2>4 DEF Merged
  <1>6. ASSUME NEW b \in Backend, SendFailed(b)
        PROVE  /\ UNCHANGED <<resp, errOf, parts, i, pc>> /\ Delivered' = Delivered
               /\ Failed \subseteq Failed' /\ Reported' = Reported
    <2>1. /\ Failed' = Failed \cup {b} /\ Delivered' = Delivered
          /\ failed' = Append(failed, <<b, errOf[b]>>) /\ UNCHANGED <<resp, errOf, parts, i, pc>>
      BY <1>0, <1>6 DEF SendFailed, TypeOK, Delivered, Failed
    <2>2. /\ Len(failed') = Len(failed) + 1 /\ Len(failed) \in Nat
          /\ \A n \in 1..Len(failed) : failed'[n] = failed[n]
          /\ failed'[Len(failed) + 1] = <<b, errOf[b]>>
      BY <1>0, <2>1, AppendFacts DEF TypeOK, Failure
    <2>3. /\ \A n \in 1..Len(failed') : n \in 1..Len(failed) \/ n = Len(failed) + 1
          /\ \A n \in 1..Len(failed) : n \in 1..Len(failed')
          /\ Len(failed) + 1 \in 1..Len(failed')
      BY <2>2
    <2>4. b \notin Reported
      BY <1>0, <1>6 DEF Reported, Failed, SendFailed
    <2> QED
      BY <2>1, <2>2, <2>3, <2>4 DEF Reported
  <1>7. ASSUME i' = i PROVE ~RecvPart /\ ~RecvFailed
    BY <1>0, <1>7 DEF RecvPart, RecvFailed, TypeOK
  <1>8. CASE \E b \in Backend : Worker(b)
    <2> PICK b \in Backend : Worker(b)
      BY <1>8
    <2>1. CASE NextReturns(b) \/ GiveUp(b)
      BY <1>4, <1>7, <2>1 DEF Merged, Reported
    <2>2. CASE SendPart(b)
      BY <1>5, <1>7, <2>2 DEF Reported
    <2>3. CASE SendFailed(b)
      BY <1>6, <1>7, <2>3 DEF Merged
    <2> QED
      BY <2>1, <2>2, <2>3 DEF Worker
  <1>9. CASE \/ \E e \in CtxErrors : ParentDone(e)
             \/ Timeout \/ Terminated \/ UNCHANGED vars
    BY <1>7, <1>9 DEF ParentDone, Timeout, Terminated, vars, Merged, Reported, Delivered, Failed
  <1> QED
    BY <1>1, <1>2, <1>3, <1>8, <1>9 DEF Next, Main

\* What happens to the accumulator in a step that receives nothing.
LEMMA AccKept ==
    ASSUME IInv, [Next]_vars, ~RecvPart, ~RecvFailed
    PROVE  acc'.data = acc.data /\ acc'.errs = acc.errs
  <1> USE DEF mainVars
  <1>1. CASE StartCollecting
    BY <1>1 DEF StartCollecting, NewAccumulator, IInv, ProgressInv
  <1>2. CASE ~StartCollecting
    <2>1. acc' = acc
      BY <1>2 DEF Next, Main, Worker, FilterOut, Spawn, Finish, NextReturns, SendPart, GiveUp,
                  SendFailed, ParentDone, Timeout, Terminated, vars
    <2> QED
      BY <2>1
  <1> QED
    BY <1>1, <1>2

\* Errors: the accumulated ones are those of the backends reported so far.
LEMMA StepErrors == IInv /\ [Next]_vars => ErrorsInv'
  <1> SUFFICES ASSUME IInv, [Next]_vars PROVE ErrorsInv'
    OBVIOUS
  <1>0. TypeOK /\ ChannelInv /\ ErrorsInv /\ ProgressInv
    BY DEF IInv
  <1>a. /\ Failed \subseteq Failed' /\ \A b \in Failed : errOf'[b] = errOf[b]
        /\ \A n \in 1..Len(acc.errs) :
              acc.errs[n][1] \in Failed /\ acc.errs[n][2] = errOf[acc.errs[n][1]]
    BY <1>0, StepMerged DEF ErrorsInv, ListsErrors
  <1>1. CASE RecvFailed
    <2> DEFINE e == Head(failed)
    <2>1. e \in Failure /\ acc.pending > 0 /\ acc' = AccMergeErr(acc, e)
      BY <1>0, <1>1 DEF RecvFailed, TypeOK, ProgressInv
    <2>2. /\ acc'.errs = Append(acc.errs, e) /\ acc.errs \in Seq(Failure)
      BY <1>0, <2>1, AccMergeErrFacts DEF TypeOK
    <2>3. /\ Len(acc'.errs) = Len(acc.errs) + 1 /\ Len(acc.errs) \in Nat
          /\ \A n \in 1..Len(acc.errs) : acc'.errs[n] = acc.errs[n]
          /\ acc'.errs[Len(acc.errs) + 1] = e
      BY <2>1, <2>2, AppendFacts
    <2>4. /\ \A n \in 1..Len(acc'.errs) : n \in 1..Len(acc.errs) \/ n = Len(acc.errs) + 1
          /\ \A n \in 1..Len(acc.errs) : n \in 1..Len(acc'.errs)
          /\ Len(acc.errs) + 1 \in 1..Len(acc'.errs)
      BY <2>3
    <2>5. /\ Reported' = Reported \cup {e[1]} /\ e[1] \notin Reported /\ e[1] \in Failed
      BY <1>1, StepMerged
    <2>6. e[2] = errOf[e[1]]
      <3>1. e = failed[1] /\ 1 \in 1..Len(failed)
        BY <1>0, <1>1, TailFacts DEF RecvFailed, TypeOK
      <3> QED
        BY <1>0, <3>1 DEF ChannelInv, ListsErrors
    <2>7. \A n \in 1..Len(acc.errs) : acc.errs[n][1] # e[1]
      BY <1>0, <2>5 DEF ErrorsInv
    <2>8. \A n \in 1..Len(acc'.errs) :
             /\ acc'.errs[n][1] \in Failed' /\ acc'.errs[n][2] = errOf'[acc'.errs[n][1]]
             /\ acc'.errs[n][1] \in Reported'
      <3>1. ASSUME NEW n \in 1..Len(acc.errs)
            PROVE  /\ acc'.errs[n][1] \in Failed' /\ acc'.errs[n][2] = errOf'[acc'.errs[n][1]]
                   /\ acc'.errs[n][1] \in Reported'
        <4>1. acc.errs[n][1] \in Failed /\ acc.errs[n][2] = errOf[acc.errs[n][1]]
          BY <1>a
        <4>2. acc.errs[n][1] \in Reported
          BY <1>0 DEF ErrorsInv
        <4>3. acc'.errs[n] = acc.errs[n]
          BY <2>3
        <4> HIDE DEF e
        <4> QED
          BY <1>a, <2>5, <4>1, <4>2, <4>3
      <3>2. e[1] \in Failed' /\ e[2] = errOf'[e[1]] /\ e[1] \in Reported'
        BY <1>a, <2>5, <2>6
      <3> HIDE DEF e
      <3> QED
        BY <2>3, <2>4, <3>1, <3>2
    <2>9. \A m, n \in 1..Len(acc'.errs) : acc'.errs[m][1] = acc'.errs[n][1] => m = n
      BY <1>0, <2>3, <2>4, <2>7 DEF ErrorsInv, ListsErrors
    <2>10. \A b \in Reported' : \E n \in 1..Len(acc'.errs) : acc'.errs[n][1] = b
      BY <1>0, <2>3, <2>4, <2>5 DEF ErrorsInv
    <2> HIDE DEF e
    <2> QED
      BY <2>8, <2>9, <2>10 DEF ErrorsInv, ListsErrors
  <1>2. CASE ~RecvFailed
    <2>1. Reported' = Reported
      BY <1>2, StepMerged
    <2>2. acc'.errs = acc.errs
      <3>1. CASE RecvPart
        <4>1. Head(parts) \in Backend /\ acc.pending > 0 /\ Head(parts) \in Delivered
          BY <1>0, <3>1, StepMerged DEF RecvPart, TypeOK, ProgressInv
        <4>2. resp[Head(parts)] \in Response
          BY <1>0, <4>1 DEF ChannelInv, Delivered
        <4> QED
          BY <1>0, <3>1, <4>1, <4>2, AccMergeResFacts DEF RecvPart, TypeOK
      <3>2. CASE ~RecvPart
        BY <1>2, <3>2, AccKept
      <3> QED
        BY <3>1, <3>2
    <2> QED
      BY <1>0, <1>a, <2>1, <2>2 DEF ErrorsInv, ListsErrors
  <1> QED
    BY <1>1, <1>2

\* Data: the accumulated response is the merge of those taken so far.
LEMMA StepMergedInv == IInv /\ [Next]_vars => MergedInv'
  <1> SUFFICES ASSUME IInv, [Next]_vars PROVE MergedInv'
    OBVIOUS
  <1>0. TypeOK /\ ChannelInv /\ MergedInv /\ ProgressInv
    BY DEF IInv
  <1>a. \A b \in Merged : /\ resp'[b] = resp[b] /\ resp[b] \in Response /\ b \in Backend
                          /\ \A k \in Key : resp[b].data[k] \in {b, Absent}
    BY <1>0, StepMerged DEF ChannelInv, Delivered, Merged
  <1>b. acc.data \in Response \cup {NoResponse}
    BY <1>0 DEF TypeOK
  <1>1. CASE RecvPart
    <2> DEFINE h == Head(parts)
               r == resp[h]
               d == acc.data
    <2>1. /\ Merged' = Merged \cup {h} /\ h \notin Merged /\ h \in Delivered
          /\ h \in Backend /\ acc.pending > 0 /\ acc' = AccMergeRes(acc, r) /\ resp'[h] = r
      BY <1>0, <1>1, StepMerged DEF RecvPart, TypeOK, ProgressInv, workVars, Delivered
    <2>2. r \in Response /\ \A k \in Key : r.data[k] \in {h, Absent}
      BY <1>0, <2>1 DEF ChannelInv, Delivered
    <2>3. acc'.data = (IF d = NoResponse THEN r ELSE CombineData(d, r)) /\ acc'.errs = acc.errs
      BY <1>0, <2>1, <2>2, AccMergeResFacts DEF TypeOK
    <2>4. h # Absent /\ \A b \in Merged : b # Absent
      BY <1>a, <2>1, AbsentAssumption, SourceAssumption DEF Backend
    <2>5. CASE d = NoResponse
      <3>1. Merged' = {h} /\ acc'.data = r
        BY <1>0, <2>1, <2>3, <2>5 DEF MergedInv
      <3>2. \A k \in Key :
               IF \E b \in Merged' : Has(b, k)'
               THEN acc'.data.data[k] \in {b \in Merged' : Has(b, k)'}
               ELSE acc'.data.data[k] = Absent
        BY <2>1, <2>2, <2>4, <3>1 DEF Has
      <3>3. acc'.data # NoResponse
        BY <2>2, <3>1, NoResponseAssumption
      <3>4. r.hasData \in BOOLEAN /\ r.isComplete \in BOOLEAN
        BY <2>2 DEF Response
      <3> HIDE DEF h, r, d
      <3> QED
        BY <2>1, <3>1, <3>2, <3>3, <3>4 DEF MergedInv
    <2>6. CASE d # NoResponse
      <3>1. d \in Response /\ Merged # {}
        BY <1>0, <1>b, <2>6 DEF MergedInv
      <3>2. acc'.data = CombineData(d, r)
        BY <2>3, <2>6
      <3>3. /\ acc'.data \in Response /\ acc'.data.hasData = TRUE
            /\ acc'.data.isComplete = (d.hasData /\ r.hasData /\ d.isComplete /\ r.isComplete)
            /\ \A k \in Key : acc'.data.data[k] =
                  IF r.data[k] = Absent THEN d.data[k] ELSE r.data[k]
        <4>1. /\ CombineData(d, r) \in Response
              /\ CombineData(d, r).hasData = TRUE
              /\ CombineData(d, r).isComplete =
                    (d.hasData /\ r.hasData /\ d.isComplete /\ r.isComplete)
              /\ \A k \in Key : CombineData(d, r).data[k] =
                    IF r.data[k] = Absent THEN d.data[k] ELSE r.data[k]
          <5> HIDE DEF h, r, d
          <5> QED
            BY <2>2, <3>1, CombineFacts
        <4> HIDE DEF h, r, d
        <4> QED
          BY <3>2, <4>1
      <3>4. acc'.data # NoResponse
        BY <3>3, NoResponseAssumption
      <3>5. \A b \in Merged' : Merged' # {b}
        BY <2>1, <3>1
      <3>6. ASSUME NEW k \in Key
            PROVE  IF \E b \in Merged' : Has(b, k)'
                   THEN acc'.data.data[k] \in {b \in Merged' : Has(b, k)'}
                   ELSE acc'.data.data[k] = Absent
        <4>1. CASE r.data[k] = Absent
          <5>1. acc'.data.data[k] = d.data[k]
            BY <3>3, <4>1
          <5>2. \A b \in Merged' : Has(b, k)' <=> (b \in Merged /\ Has(b, k))
            BY <1>a, <2>1, <4>1 DEF Has
          <5>3. IF \E b \in Merged : Has(b, k)
                THEN d.data[k] \in {b \in Merged : Has(b, k)}
                ELSE d.data[k] = Absent
            BY <1>0, <2>6 DEF MergedInv
          <5> HIDE DEF h, r, d
          <5> QED
            BY <2>1, <5>1, <5>2, <5>3
        <4>2. CASE r.data[k] # Absent
          <5>1. acc'.data.data[k] = h
            BY <2>2, <3>3, <4>2
          <5>2. h \in Merged' /\ resp'[h].data[k] # Absent
            BY <2>1, <4>2
          <5> HIDE DEF h, r, d
          <5> QED
            BY <5>1, <5>2 DEF Has
        <4> QED
          BY <4>1, <4>2
      <3>7. ASSUME acc.errs = << >>
            PROVE  acc'.data.isComplete <=>
                     \A b \in Merged' : resp'[b].isComplete /\ resp'[b].hasData
        <4>1. d.isComplete <=>
                 \A b \in Merged : resp[b].isComplete /\ (resp[b].hasData \/ Merged = {b})
          BY <1>0, <2>6, <3>7 DEF MergedInv
        <4>2. \A b \in Merged : /\ ~d.hasData => ~resp[b].hasData
                                /\ Merged = {b} => d.hasData = resp[b].hasData
          BY <1>0, <2>6 DEF MergedInv
        <4>3. \A b \in Merged : resp'[b] = resp[b]
          BY <1>a
        <4>4. (d.hasData /\ d.isComplete) <=>
                 \A b \in Merged : resp[b].isComplete /\ resp[b].hasData
          BY <3>1, <4>1, <4>2
        <4> HIDE DEF r, d, h
        <4> QED
          BY <2>1, <3>3, <4>3, <4>4
      <3> HIDE DEF h, r, d
      <3> QED
        BY <2>1, <2>3, <3>3, <3>4, <3>5, <3>6, <3>7 DEF MergedInv
    <2> QED
      BY <2>5, <2>6
  <1>2. CASE ~RecvPart
    <2>1. Merged' = Merged
      BY <1>2, StepMerged
    <2>2. \A b \in Merged, k \in Key : Has(b, k)' <=> Has(b, k)
      BY <1>a, <2>1 DEF Has
    <2>3. CASE RecvFailed
      <3>1. Head(failed) \in Failure /\ acc.pending > 0 /\ acc' = AccMergeErr(acc, Head(failed))
        BY <1>0, <2>3 DEF RecvFailed, TypeOK, ProgressInv
      <3>2. acc'.data = MarkIncomplete(acc.data) /\ acc'.errs = Append(acc.errs, Head(failed))
            /\ acc.errs \in Seq(Failure)
        BY <1>0, <3>1, AccMergeErrFacts DEF TypeOK
      <3>3. acc'.errs # << >>
        BY <3>1, <3>2
      <3>4. /\ acc'.data = NoResponse <=> acc.data = NoResponse
            /\ acc.data # NoResponse => /\ acc'.data.hasData = acc.data.hasData
                                        /\ acc'.data.data = acc.data.data
        BY <1>b, <3>2, MarkFacts
      <3> QED
        BY <1>0, <1>a, <2>1, <2>2, <3>3, <3>4 DEF MergedInv
    <2>4. CASE ~RecvFailed
      <3>1. acc'.data = acc.data /\ acc'.errs = acc.errs
        BY <1>2, <2>4, AccKept
      <3> QED
        BY <1>0, <1>a, <2>1, <2>2, <3>1 DEF MergedInv
    <2> QED
      BY <2>3, <2>4
  <1> QED
    BY <1>1, <1>2

\* Return: the result is fixed in the step that returns it.
LEMMA StepReturn == IInv /\ [Next]_vars => ReturnInv'
  <1> SUFFICES ASSUME IInv, [Next]_vars PROVE ReturnInv'
    OBVIOUS
  <1> USE DEF mainVars
  <1>0. TypeOK /\ ReturnInv
    BY DEF IInv
  <1>1. CASE Finish
    BY <1>1 DEF Finish, ReturnInv
  <1>2. CASE FilterOut \/ Spawn \/ StartCollecting \/ RecvFailed \/ RecvPart
    BY <1>2 DEF FilterOut, Spawn, StartCollecting, RecvFailed, RecvPart, ReturnInv
  <1>3. CASE UNCHANGED mainVars
    BY <1>0, <1>3 DEF ReturnInv
  <1> QED
    BY <1>1, <1>2, <1>3 DEF Next, Main, Worker, NextReturns, SendPart, GiveUp, SendFailed,
                            ParentDone, Timeout, Terminated, vars

\* The inductive invariant: every state of every execution satisfies IInv.
THEOREM Inductive == Spec => []IInv
  <1>1. IInv /\ [Next]_vars => IInv'
    BY StepTypeProgress, StepCount, StepChannel, StepErrors, StepMergedInv, StepReturn DEF IInv
  <1> QED
    BY InitIInv, <1>1, PTL DEF Spec

-----------------------------------------------------------------------------
(* What the invariant implies                                              *)

\* When parallelMerge has returned, every answer was received and merged.
LEMMA AllJoined ==
    ASSUME IInv, pc = "returned"
    PROVE  /\ Ended = Selected /\ parts = << >> /\ failed = << >>
           /\ Merged = Delivered /\ Reported = Failed /\ acc.pending = 0
           /\ ret.errs = acc.errs
           /\ ret.data = IF acc.errs # << >> THEN MarkIncomplete(acc.data) ELSE acc.data
  <1>0. TypeOK /\ ProgressInv /\ CountInv /\ ReturnInv
    BY DEF IInv
  <1>1. i = proxyCount /\ acc.pending = 0 /\ Received = proxyCount /\ proxyCount \in Nat
    BY <1>0 DEF ReturnInv, ProgressInv, TypeOK, Received
  <1>2. Ended \in SUBSET Selected /\ Selected \in SUBSET Backend
    BY DEF Ended, Delivered, Failed, Selected
  <1>3. IsFiniteSet(Selected) /\ Cardinality(Ended) <= Cardinality(Selected)
    BY <1>2, Counts, FS_Subset
  <1>4. Cardinality(Ended) = Cardinality(Selected) + Len(parts) + Len(failed)
    BY <1>0, <1>1 DEF CountInv, ProgressInv
  <1>5. /\ Len(parts) \in Nat /\ Len(failed) \in Nat /\ Cardinality(Ended) \in Nat
        /\ Cardinality(Selected) \in Nat
    BY <1>0, <1>2, Counts DEF TypeOK
  <1>6. Len(parts) = 0 /\ Len(failed) = 0 /\ Cardinality(Ended) = Cardinality(Selected)
    BY <1>3, <1>4, <1>5
  <1>7. parts = << >> /\ failed = << >>
    BY <1>0, <1>6 DEF TypeOK
  <1>8. Ended = Selected
    BY <1>2, <1>3, <1>6, FS_Subset
  <1>9. Merged = Delivered /\ Reported = Failed
    BY <1>6 DEF Merged, Reported
  <1>10. /\ ret.errs = acc.errs
         /\ ret.data = IF acc.errs # << >> THEN MarkIncomplete(acc.data) ELSE acc.data
    BY <1>0, <1>1, AccResultFacts DEF ReturnInv, TypeOK
  <1> QED
    BY <1>1, <1>7, <1>8, <1>9, <1>10

\* Type correctness of the fork and join, for every number of backends.
THEOREM TypeCorrect == Spec => []TypeOK
  BY Inductive, PTL DEF IInv

\* When it has returned, every goroutine is over and the channels are empty.
LEMMA AllOver == IInv => ForkJoin
  <1> SUFFICES ASSUME IInv, pc = "returned"
               PROVE  (\A b \in Backend : call[b] \in Over) /\ parts = << >> /\ failed = << >>
    BY DEF ForkJoin
  <1>1. \A b \in Backend : call[b] # "skipped" => b \in Ended
    BY AllJoined DEF Selected
  <1> QED
    BY <1>1, AllJoined DEF Ended, Delivered, Failed, Over

\* No goroutine of a request outlives the request.
THEOREM ForkJoinCorrect == Spec => []ForkJoin
  BY Inductive, AllOver, PTL

\* A buffer of one place per backend is enough for requestPart never to wait.
THEOREM SendNeverBlocksCorrect == Spec => []SendNeverBlocks
  <1>1. IInv => SendNeverBlocks
    <2> SUFFICES ASSUME IInv, NEW b \in Backend, call[b] \in {"answered", "failing"}
                 PROVE  Len(parts) < ChanCap /\ Len(failed) < ChanCap
      BY DEF SendNeverBlocks
    <2>1. TypeOK /\ CountInv
      BY DEF IInv
    <2>2. b \notin Ended /\ Ended \in SUBSET Backend /\ Ended \cup {b} \in SUBSET Backend
      BY DEF Ended, Delivered, Failed
    <2>3. Cardinality(Ended \cup {b}) = Cardinality(Ended) + 1
      BY <2>2, Counts, FS_AddElement
    <2>4. Cardinality(Ended) + 1 <= N /\ Cardinality(Ended) \in Nat
      BY <2>2, <2>3, Counts
    <2>5. Len(parts) \in Nat /\ Len(failed) \in Nat /\ Received \in Nat
      BY <2>1 DEF TypeOK, Received
    <2> QED
      BY <2>1, <2>4, <2>5, NAssumption DEF CountInv, ChanCap
  <1> QED
    BY Inductive, <1>1, PTL

\* The flag of the returned response, from the merged ones.
LEMMA CompleteFlag == IInv => CompleteIffAllComplete
  <1> SUFFICES ASSUME IInv, pc = "returned", ret.data # NoResponse
               PROVE  ret.data.isComplete <=>
                        /\ Failed = {}
                        /\ \A b \in Delivered : resp[b].isComplete
                        /\ \A b \in Delivered : resp[b].hasData \/ Delivered = {b}
    BY DEF CompleteIffAllComplete
  <1>0. TypeOK /\ MergedInv /\ ErrorsInv
    BY DEF IInv
  <1>1. CASE acc.errs # << >>
    <2>1. acc.data \in Response \cup {NoResponse} /\ ret.data = MarkIncomplete(acc.data)
      BY <1>0, <1>1, AllJoined DEF TypeOK
    <2>2. ret.data.isComplete = FALSE
      BY <2>1, MarkFacts
    <2>3. Len(acc.errs) \in Nat /\ Len(acc.errs) # 0
      BY <1>0, <1>1 DEF TypeOK
    <2>4. acc.errs[1][1] \in Failed
      BY <1>0, <2>3 DEF ErrorsInv, ListsErrors
    <2> QED
      BY <2>2, <2>4
  <1>2. CASE acc.errs = << >>
    <2>1. Failed = {}
      BY <1>0, <1>2, AllJoined DEF ErrorsInv
    <2>2. ret.data = acc.data
      BY <1>2, AllJoined
    <2> QED
      BY <1>0, <1>2, <2>1, <2>2, AllJoined DEF MergedInv
  <1> QED
    BY <1>1, <1>2

\* The completeness flag of the answer tells the truth.
THEOREM CompleteIffAllCompleteCorrect == Spec => []CompleteIffAllComplete
  BY Inductive, CompleteFlag, PTL

\* The returned errors are those of the reported backends, which are all that failed.
LEMMA FailuresListed == IInv => FailuresReported
  <1> SUFFICES ASSUME IInv, pc = "returned" PROVE FailuresReported
    BY DEF FailuresReported
  <1>1. ErrorsInv
    BY DEF IInv
  <1> QED
    BY <1>1, AllJoined DEF FailuresReported, ErrorsInv, ListsErrors

\* The merge error lists the failures, all of them and nothing else.
THEOREM FailuresReportedCorrect == Spec => []FailuresReported
  BY Inductive, FailuresListed, PTL

\* The returned data is that of the merged backends, which are all that delivered.
LEMMA UnionOfDelivered == IInv => MergedDataIsUnion
  <1> SUFFICES ASSUME IInv, pc = "returned" PROVE MergedDataIsUnion
    BY DEF MergedDataIsUnion
  <1>1. MergedInv /\ acc.data \in Response \cup {NoResponse}
    BY DEF IInv, TypeOK
  <1>2. /\ ret.data = NoResponse <=> acc.data = NoResponse
        /\ ret.data # NoResponse => ret.data.data = acc.data.data
    BY <1>1, AllJoined, MarkFacts
  <1> QED
    BY <1>1, <1>2, AllJoined DEF MergedDataIsUnion, MergedInv

\* The merged data is the union of what was delivered.
THEOREM MergedDataIsUnionCorrect == Spec => []MergedDataIsUnion
  BY Inductive, UnionOfDelivered, PTL

\* Nothing touches the result, a channel or a response after the return.
THEOREM ReturnIsFinalCorrect == Spec => ReturnIsFinal
  <1>1. IInv /\ [Next]_vars =>
           [pc = "returned" => UNCHANGED <<mainVars, workVars, chanVars>>]_vars
    <2> SUFFICES ASSUME IInv, [Next]_vars, pc = "returned"
                 PROVE  UNCHANGED <<mainVars, workVars, chanVars>>
      OBVIOUS
    <2>1. \A b \in Backend : call[b] # "skipped" => b \in Ended
      BY AllJoined DEF Selected
    <2>2. \A b \in Backend : call[b] \notin {"calling", "answered", "failing"}
      BY <2>1 DEF Ended, Delivered, Failed
    <2>3. \A b \in Backend : ~Worker(b)
      BY <2>2 DEF Worker, NextReturns, SendPart, GiveUp, SendFailed
    <2>4. ~Main
      BY DEF Main, FilterOut, Spawn, StartCollecting, RecvFailed, RecvPart, Finish
    <2> QED
      BY <2>3, <2>4 DEF Next, ParentDone, Timeout, Terminated, vars, mainVars, workVars, chanVars
  <1> QED
    BY Inductive, <1>1, PTL DEF Spec, ReturnIsFinal

-----------------------------------------------------------------------------
(* ParallelMerge implements MergePromise                                   *)

\* The variables of the promise, as ParallelMerge implements them.
Asked == {b \in Backend : call[b] \in Spawned}
Answers == [b \in Backend |-> AnswerOf(b)]
promised == <<Skipped, Asked, Answers, ResultKind>>

\* The parts of the asked backends, by what they answered.
LEMMA WithFacts ==
    ASSUME IInv
    PROVE  /\ Promise!With("none") = {b \in Backend : call[b] \in {"calling", "answered", "failing"}}
           /\ Promise!With("error") = Failed
           /\ Promise!With("partial") = {b \in Delivered : ~resp[b].isComplete}
           /\ Promise!With("full") = {b \in Delivered : resp[b].isComplete /\ resp[b].hasData}
           /\ Promise!With("hollow") = {b \in Delivered : resp[b].isComplete /\ ~resp[b].hasData}
  <1> SUFFICES ASSUME NEW b \in Backend
               PROVE  /\ b \in Promise!With("none") <=> call[b] \in {"calling", "answered", "failing"}
                      /\ b \in Promise!With("error") <=> call[b] = "failed"
                      /\ b \in Promise!With("partial") <=>
                            call[b] = "delivered" /\ ~resp[b].isComplete
                      /\ b \in Promise!With("full") <=>
                            call[b] = "delivered" /\ resp[b].isComplete /\ resp[b].hasData
                      /\ b \in Promise!With("hollow") <=>
                            call[b] = "delivered" /\ resp[b].isComplete /\ ~resp[b].hasData
    BY DEF Promise!With, Failed, Delivered
  <1>1. \A a : b \in Promise!With(a) <=> call[b] \in Spawned /\ AnswerOf(b) = a
    BY DEF Promise!With
  <1>2. call[b] = "failed" => AnswerOf(b) = "error"
    BY DEF AnswerOf
  <1>3. call[b] = "delivered" =>
           AnswerOf(b) = IF ~resp[b].isComplete THEN "partial"
                         ELSE IF resp[b].hasData THEN "full" ELSE "hollow"
    BY DEF AnswerOf
  <1>4. call[b] \notin {"failed", "delivered"} => AnswerOf(b) = "none"
    BY DEF AnswerOf
  <1> QED
    BY <1>1, <1>2, <1>3, <1>4 DEF Spawned

\* A step that answers nobody and asks nobody is a stutter of the promise.
LEMMA Stutters ==
    ASSUME IInv, UNCHANGED <<pc, ret>>,
           \A b \in Backend : /\ call'[b] \in Spawned <=> call[b] \in Spawned
                              /\ call'[b] = "skipped" <=> call[b] = "skipped"
                              /\ AnswerOf(b)' = AnswerOf(b)
    PROVE  UNCHANGED promised
  BY DEF promised, Skipped, Asked, Answers, ResultKind

\* The result parallelMerge returns is the outcome the promise asks for.
LEMMA ReturnsOutcome ==
    ASSUME IInv, IInv', Finish
    PROVE  /\ Promise!With("none") = {} /\ Asked \cup Skipped = Backend
           /\ ResultKind' = Promise!Outcome
  <1>1. /\ pc' = "returned" /\ UNCHANGED <<call, resp, errOf>>
        /\ Delivered' = Delivered /\ Failed' = Failed
    BY DEF Finish, workVars, Delivered, Failed
  <1>2. /\ ForkJoin' /\ CompleteIffAllComplete' /\ FailuresReported' /\ MergedDataIsUnion'
    BY AllOver, CompleteFlag, FailuresListed, UnionOfDelivered, PTL
  <1>3. \A b \in Backend : call[b] \in Over
    BY <1>1, <1>2 DEF ForkJoin
  <1>4. Promise!With("none") = {}
    BY <1>3, WithFacts DEF Over
  <1>5. Asked \cup Skipped = Backend
    BY <1>3 DEF Asked, Skipped, Over, Spawned
  <1> DEFINE good == Promise!With("full") \cup Promise!With("hollow") \cup Promise!With("partial")
  <1>6. good = Delivered
    BY WithFacts
  <1>7. ret'.data = NoResponse <=> Delivered = {}
    BY <1>1, <1>2 DEF MergedDataIsUnion
  <1>8. ret'.errs = << >> <=> Failed = {}
    <2>1. ret'.errs \in Seq(Failure)
      BY DEF IInv, TypeOK
    <2>2. ret'.errs # << >> => 1 \in 1..Len(ret'.errs)
      BY <2>1
    <2>3. \A b \in Failed : \E n \in 1..Len(ret'.errs) : ret'.errs[n][1] = b
      BY <1>1, <1>2 DEF FailuresReported
    <2>4. \A n \in 1..Len(ret'.errs) : ret'.errs[n][1] \in Failed
      BY <1>1, <1>2 DEF FailuresReported
    <2> QED
      BY <2>1, <2>2, <2>3, <2>4
  <1>9. CASE Delivered = {}
    <2>1. Promise!Outcome = IF Failed = {} THEN "nothing" ELSE "error"
      <3>1. Promise!With("error") = Failed
        BY WithFacts
      <3> QED
        BY <1>6, <1>9, <3>1 DEF Promise!Outcome
    <2>2. ResultKind' = IF ret'.errs = << >> THEN "nothing" ELSE "error"
      BY <1>1, <1>7, <1>9 DEF ResultKind
    <2> QED
      BY <1>4, <1>5, <1>8, <2>1, <2>2
  <1>10. CASE Delivered # {}
    <2>1. ret'.data.isComplete <=>
            /\ Failed = {}
            /\ \A b \in Delivered : resp[b].isComplete
            /\ \A b \in Delivered : resp[b].hasData \/ Delivered = {b}
      BY <1>1, <1>2, <1>7, <1>10 DEF CompleteIffAllComplete
    <2>2. Promise!With("error") \cup Promise!With("partial") = {} <=>
            Failed = {} /\ \A b \in Delivered : resp[b].isComplete
      BY WithFacts
    <2>4. ASSUME \A b \in Delivered : resp[b].isComplete
          PROVE  (Promise!With("hollow") # {} => \E b \in Delivered : Delivered = {b}) <=>
                 \A b \in Delivered : resp[b].hasData \/ Delivered = {b}
      <3>1. Promise!With("hollow") = {b \in Delivered : ~resp[b].hasData}
        BY <2>4, WithFacts
      <3> QED
        BY <3>1
    <2>5. Promise!Outcome = IF ret'.data.isComplete THEN "complete" ELSE "partial"
      <3>1. Promise!Outcome =
              IF good = {} THEN IF Promise!With("error") = {} THEN "nothing" ELSE "error"
              ELSE IF /\ Asked \cup Skipped = Backend
                      /\ Promise!With("error") \cup Promise!With("partial") = {}
                      /\ Promise!With("hollow") # {} => \E b \in good : good = {b}
                   THEN "complete" ELSE "partial"
        BY DEF Promise!Outcome, Asked
      <3> HIDE DEF good
      <3>2. good # {}
        BY <1>6, <1>10
      <3>3. (/\ Promise!With("error") \cup Promise!With("partial") = {}
             /\ Promise!With("hollow") # {} => \E b \in Delivered : Delivered = {b})
            <=> ret'.data.isComplete
        BY <2>1, <2>2, <2>4
      <3> QED
        BY <1>5, <1>6, <3>1, <3>2, <3>3
    <2>6. ResultKind' = IF ret'.data.isComplete THEN "complete" ELSE "partial"
      BY <1>1, <1>7, <1>10 DEF ResultKind
    <2> QED
      BY <1>4, <1>5, <2>5, <2>6
  <1> QED
    BY <1>4, <1>5, <1>9, <1>10

\* Every step of ParallelMerge is a step of the promise, or a stutter.
LEMMA StepKeepsPromise ==
    ASSUME IInv, IInv', [Next]_vars
    PROVE  [Promise!Next]_promised
  <1> USE DEF mainVars, workVars, chanVars
  <1>0. TypeOK /\ ProgressInv /\ ChannelInv
    BY DEF IInv
  <1>1. CASE FilterOut
    <2>1. i \in Backend /\ call[i] = "idle" /\ call' = [call EXCEPT ![i] = "skipped"]
      BY <1>0, <1>1 DEF FilterOut, ProgressInv, TypeOK, Backend
    <2>2. UNCHANGED <<pc, ret, resp>> /\ pc = "dispatch"
      BY <1>1 DEF FilterOut
    <2>3. /\ i \notin Asked \cup Skipped /\ Skipped' = Skipped \cup {i} /\ Asked' = Asked
      BY <1>0, <2>1 DEF TypeOK, Asked, Skipped, Spawned
    <2>4. Answers' = Answers
      BY <1>0, <2>1, <2>2 DEF TypeOK, Answers, AnswerOf
    <2>5. ResultKind = "pending" /\ ResultKind' = ResultKind
      BY <2>2 DEF ResultKind
    <2> PICK b \in Backend : b = i
      BY <2>1
    <2>6. Promise!Skip(b)
      BY <2>3, <2>4, <2>5 DEF Promise!Skip, Asked, Answers
    <2> QED
      BY <2>6 DEF Promise!Next
  <1>2. CASE Spawn
    <2>1. i \in Backend /\ call[i] = "idle" /\ call' = [call EXCEPT ![i] = "calling"]
      BY <1>0, <1>2 DEF Spawn, ProgressInv, TypeOK, Backend
    <2>2. UNCHANGED <<pc, ret, resp>> /\ pc = "dispatch"
      BY <1>2 DEF Spawn
    <2>3. /\ i \notin Asked \cup Skipped /\ Asked' = Asked \cup {i} /\ Skipped' = Skipped
      BY <1>0, <2>1 DEF TypeOK, Asked, Skipped, Spawned
    <2>4. Answers' = Answers
      BY <1>0, <2>1, <2>2 DEF TypeOK, Answers, AnswerOf
    <2>5. ResultKind = "pending" /\ ResultKind' = ResultKind
      BY <2>2 DEF ResultKind
    <2> PICK b \in Backend : b = i
      BY <2>1
    <2>6. Promise!Ask(b)
      BY <2>3, <2>4, <2>5 DEF Promise!Ask, Asked, Answers
    <2> QED
      BY <2>6 DEF Promise!Next
  <1>3. CASE StartCollecting \/ RecvFailed \/ RecvPart
    <2>1. UNCHANGED <<call, resp, ret>> /\ pc # "returned" /\ pc' # "returned"
      BY <1>3 DEF StartCollecting, RecvFailed, RecvPart
    <2>2. UNCHANGED promised
      BY <2>1 DEF promised, Skipped, Asked, Answers, AnswerOf, ResultKind
    <2> QED
      BY <2>2
  <1>4. CASE Finish
    <2>1. UNCHANGED <<Skipped, Asked, Answers>> /\ ResultKind = "pending"
      BY <1>4 DEF Finish, Skipped, Asked, Answers, AnswerOf, ResultKind
    <2>2. Promise!Return
      BY <1>4, <2>1, ReturnsOutcome DEF Promise!Return, Asked, Answers
    <2> QED
      BY <2>2 DEF Promise!Next
  <1>5. ASSUME NEW b \in Backend, NextReturns(b) \/ GiveUp(b)
        PROVE  UNCHANGED promised
    <2>1. UNCHANGED <<pc, ret>> /\ call[b] \in {"calling", "answered"}
      BY <1>5 DEF NextReturns, GiveUp
    <2>2. /\ call'[b] \in {"answered", "failing"}
          /\ \A c \in Backend \ {b} : call'[c] = call[c] /\ resp'[c] = resp[c]
      BY <1>0, <1>5 DEF NextReturns, GiveUp, TypeOK
    <2>3. AnswerOf(b) = "none" /\ AnswerOf(b)' = "none"
      BY <2>1, <2>2 DEF AnswerOf
    <2>4. \A c \in Backend \ {b} : AnswerOf(c)' = AnswerOf(c)
      BY <2>2 DEF AnswerOf
    <2> QED
      BY <2>1, <2>2, <2>3, <2>4, Stutters DEF Spawned
  <1>6. ASSUME NEW b \in Backend, SendPart(b) \/ SendFailed(b)
        PROVE  Promise!Next
    <2>1. UNCHANGED <<pc, ret, resp>> /\ call[b] \in {"answered", "failing"}
      BY <1>6 DEF SendPart, SendFailed
    <2>2. /\ call'[b] \in {"delivered", "failed"}
          /\ \A c \in Backend \ {b} : call'[c] = call[c]
      BY <1>0, <1>6 DEF SendPart, SendFailed, TypeOK
    <2>3. Asked' = Asked /\ Skipped' = Skipped /\ b \in Asked
      BY <2>1, <2>2 DEF Asked, Skipped, Spawned
    <2>4. AnswerOf(b) = "none" /\ AnswerOf(b)' \in Promise!Answer \ {"none"}
      BY <2>1, <2>2 DEF AnswerOf, Promise!Answer
    <2>5. \A c \in Backend \ {b} : AnswerOf(c)' = AnswerOf(c)
      BY <2>1, <2>2 DEF AnswerOf
    <2>6. Answers' = [Answers EXCEPT ![b] = AnswerOf(b)']
      BY <2>5 DEF Answers
    <2>7. ResultKind' = ResultKind
      BY <2>1 DEF ResultKind
    <2>8. Promise!Reply(b, AnswerOf(b)')
      BY <2>3, <2>4, <2>6, <2>7 DEF Promise!Reply, Asked, Answers
    <2> QED
      BY <2>4, <2>8 DEF Promise!Next
  <1>7. CASE \/ \E e \in CtxErrors : ParentDone(e)
             \/ Timeout \/ Terminated \/ UNCHANGED vars
    <2>1. UNCHANGED <<pc, ret, call, resp>>
      BY <1>7 DEF ParentDone, Timeout, Terminated, vars
    <2>2. UNCHANGED promised
      BY <2>1 DEF promised, Skipped, Asked, Answers, AnswerOf, ResultKind
    <2> QED
      BY <2>2
  <1> QED
    BY <1>1, <1>2, <1>3, <1>4, <1>5, <1>6, <1>7 DEF Next, Main, Worker

\* parallelMerge keeps the promise of a merging middleware, for any number of backends:
\* each is skipped or asked at most once, nothing is outstanding when it returns, and
\* what it returns is the function of the answers that MergePromise defines.
THEOREM KeepsPromiseCorrect == Spec => KeepsPromise
  <1>1. Init => Promise!Init
    BY DEF Init, Promise!Init, Skipped, Spawned, AnswerOf, ResultKind
  <1>2. IInv /\ IInv' /\ [Next]_vars => [Promise!Next]_promised
    BY StepKeepsPromise
  <1>3. [Promise!Next]_promised => [Promise!Next]_(Promise!vars)
    BY DEF Promise!vars, promised, Asked, Answers
  <1> QED
    BY <1>1, <1>2, <1>3, Inductive, PTL DEF Spec, KeepsPromise, Promise!Spec

=============================================================================
