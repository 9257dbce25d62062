------------------------- MODULE ConcurrentCallsProofs -------------------------
(***************************************************************************)
(* Theorems about ConcurrentCalls, for any number of concurrent calls:     *)
(* CollectorInv is inductive, and with it no complete response is missed.  *)
(***************************************************************************)
EXTENDS ConcurrentCalls, FiniteSetTheorems, TLAPS

-----------------------------------------------------------------------------
(* Lemmas about counting and channels                                      *)

\* The sets of calls the invariant counts are finite.
LEMMA Counts ==
    ASSUME NEW S \in SUBSET Call
    PROVE  /\ IsFiniteSet(S) /\ Cardinality(S) \in 0..Calls
           /\ Cardinality(S) = Calls => S = Call
           /\ \A c \in Call \ S : /\ Cardinality(S \cup {c}) = Cardinality(S) + 1
                                  /\ Cardinality(S) < Calls
  <1>1. IsFiniteSet(Call) /\ Cardinality(Call) = Calls
    BY FS_Interval, CallsAssumption DEF Call
  <1>2. IsFiniteSet(S) /\ Cardinality(S) <= Calls /\ (Cardinality(S) = Calls => S = Call)
    BY <1>1, FS_Subset
  <1>3. Cardinality(S) \in 0..Calls
    BY <1>2, FS_CardinalityType, CallsAssumption
  <1>4. ASSUME NEW c \in Call \ S
        PROVE  Cardinality(S \cup {c}) = Cardinality(S) + 1 /\ Cardinality(S) < Calls
    <2>1. Cardinality(S \cup {c}) = Cardinality(S) + 1
      BY <1>2, FS_AddElement
    <2>2. Cardinality(S) # Calls
      BY <1>2
    <2> QED
      BY <2>1, <2>2, <1>3, CallsAssumption
  <1> QED
    BY <1>2, <1>3, <1>4

\* Receiving takes the first message and moves the others up.
LEMMA TailFacts ==
    ASSUME NEW S, NEW q \in Seq(S), q # << >>
    PROVE  /\ Tail(q) \in Seq(S) /\ Head(q) \in S
           /\ Len(q) \in Nat /\ Len(Tail(q)) = Len(q) - 1
           /\ Head(q) = q[1] /\ 1 \in 1..Len(q)
           /\ \A n \in 1..Len(Tail(q)) : n + 1 \in 1..Len(q) /\ Tail(q)[n] = q[n + 1]
           /\ \A n \in 1..Len(q) : n # 1 => n - 1 \in 1..Len(Tail(q)) /\ Tail(q)[n - 1] = q[n]
  OBVIOUS

\* Sending leaves the messages in the channel where they are.
LEMMA AppendFacts ==
    ASSUME NEW S, NEW q \in Seq(S), NEW x \in S
    PROVE  /\ Append(q, x) \in Seq(S)
           /\ Len(q) \in Nat /\ Len(Append(q, x)) = Len(q) + 1
           /\ \A n \in 1..Len(q) : Append(q, x)[n] = q[n]
           /\ Append(q, x)[Len(q) + 1] = x
  OBVIOUS

-----------------------------------------------------------------------------
(* CollectorInv is inductive                                               *)

\* The steps of the contexts, and those that change nothing.
ContextStep ==
    UNCHANGED <<mainVars, workVars, results, failed>>
    /\ (parentErr' = "none" => parentErr = "none")
    /\ (parentErr' # parentErr => pc # "returned")

\* A context that ends leaves everything else alone.
LEMMA ContextSteps ==
    ASSUME TypeOK,
           \/ \E e \in CtxErrors : ParentDone(e)
           \/ Timeout \/ Terminated \/ UNCHANGED vars
    PROVE  ContextStep /\ TypeOK'
  <1> USE DEF ContextStep, TypeOK, CtxErrors, mainVars, workVars
  <1>1. CASE \E e \in CtxErrors : ParentDone(e)
    BY <1>1 DEF ParentDone
  <1>2. CASE Timeout
    BY <1>2 DEF Timeout
  <1>3. CASE Terminated \/ UNCHANGED vars
    BY <1>3 DEF Terminated, vars, ctxVars
  <1> QED
    BY <1>1, <1>2, <1>3

\* The invariant holds before the first call is started.
LEMMA InitCollectorInv == Init => CollectorInv /\ NoCompleteResponseMissed
  <1> SUFFICES ASSUME Init PROVE CollectorInv /\ NoCompleteResponseMissed
    OBVIOUS
  <1> USE DEF Init
  <1>1. TypeOK
    BY CallsAssumption DEF TypeOK, NoResult
  <1>2. Delivered = {} /\ Failed = {} /\ Ended = {}
    BY DEF Delivered, Failed, Ended
  <1>3. AnswersCounted
    BY <1>2, FS_EmptySet DEF AnswersCounted
  <1>4. StartedInOrder
    BY DEF StartedInOrder, Call
  <1>5. NothingCompleteSeen
    BY <1>2 DEF NothingCompleteSeen
  <1> QED
    BY <1>1, <1>3, <1>4, <1>5
       DEF CollectorInv, SendNeverBlocks, AnswerIsMeaningful, NoCompleteResponseMissed

\* Every step keeps the types.
LEMMA StepTypeOK == CollectorInv /\ [Next]_vars => TypeOK'
  <1> SUFFICES ASSUME CollectorInv, [Next]_vars PROVE TypeOK'
    OBVIOUS
  <1> USE DEF TypeOK, Over
  <1>0. TypeOK
    BY DEF CollectorInv
  <1>1. CASE Spawn
    <2>1. i \in Call /\ (i # Calls => i + 1 \in 0..Calls)
      BY <1>0, <1>1, CallsAssumption DEF Spawn, CollectorInv, StartedInOrder, Call
    <2> QED
      BY <1>0, <1>1, <2>1, CallsAssumption DEF Spawn, ctxVars
  <1>2. CASE RecvResult
    <2>1. Head(results) \in Call /\ Tail(results) \in Seq(Call) /\ i + 1 \in 0..Calls
      BY <1>0, <1>2, TailFacts, CallsAssumption DEF RecvResult
    <2>2. Head(results) \in 0..Calls
      BY <2>1, CallsAssumption DEF Call
    <2> QED
      BY <1>0, <1>2, <2>1, <2>2 DEF RecvResult, Return, workVars, CtxErrors
  <1>3. CASE RecvFailed
    <2>1. /\ Head(failed) \in {"backend", "null"} \cup CtxErrors
          /\ Tail(failed) \in Seq({"backend", "null"} \cup CtxErrors) /\ i + 1 \in 0..Calls
      BY <1>0, <1>3, TailFacts, CallsAssumption DEF RecvFailed
    <2> QED
      BY <1>0, <1>3, <2>1 DEF RecvFailed, workVars, ctxVars
  <1>4. CASE ParentGone
    <2>1. i + 1 \in 0..Calls
      BY <1>0, <1>4, CallsAssumption DEF ParentGone
    <2> QED
      BY <1>0, <1>4, <2>1 DEF ParentGone, workVars, ctxVars
  <1>5. CASE Finish
    BY <1>0, <1>5 DEF Finish, Return, workVars, CtxErrors
  <1>6. ASSUME NEW c \in Call, NextReturns(c) PROVE TypeOK'
    BY <1>0, <1>6 DEF NextReturns, mainVars, ctxVars
  <1>7. ASSUME NEW c \in Call, SendResult(c) PROVE TypeOK'
    BY <1>0, <1>7, AppendFacts DEF SendResult, mainVars, ctxVars
  <1>8. ASSUME NEW c \in Call, GiveUp(c) PROVE TypeOK'
    BY <1>0, <1>8 DEF GiveUp, mainVars, ctxVars
  <1>9. ASSUME NEW c \in Call, SendFailed(c) PROVE TypeOK'
    <2>1. errOf[c] \in {"backend", "null"} \cup CtxErrors
      BY <1>0, <1>9 DEF SendFailed, CollectorInv, NothingCompleteSeen
    <2> QED
      BY <1>0, <1>9, <2>1, AppendFacts DEF SendFailed, mainVars, ctxVars
  <1> QED
    BY <1>0, <1>1, <1>2, <1>3, <1>4, <1>5, <1>6, <1>7, <1>8, <1>9, ContextSteps
       DEF Next, Main, Send

\* The calls are started one after the other, then collected.
LEMMA StepStartedInOrder == CollectorInv /\ [Next]_vars => StartedInOrder'
  <1> SUFFICES ASSUME CollectorInv, [Next]_vars PROVE StartedInOrder'
    OBVIOUS
  <1>0. TypeOK /\ StartedInOrder
    BY DEF CollectorInv
  <1>1. CASE Spawn
    <2>1. i \in Call
      BY <1>0, <1>1, CallsAssumption DEF Spawn, StartedInOrder, TypeOK, Call
    <2> QED
      BY <1>0, <1>1, <2>1, CallsAssumption DEF Spawn, StartedInOrder, TypeOK, Call
  <1>2. CASE RecvResult \/ RecvFailed \/ ParentGone \/ Finish
    BY <1>0, <1>2 DEF RecvResult, RecvFailed, ParentGone, Finish, Return, workVars, StartedInOrder
  <1>3. ASSUME NEW c \in Call, NextReturns(c) \/ Send(c) PROVE StartedInOrder'
    <2>1. UNCHANGED mainVars /\ \A d \in Call : call[d] = "idle" <=> call'[d] = "idle"
      BY <1>0, <1>3 DEF NextReturns, Send, SendResult, GiveUp, SendFailed, TypeOK
    <2> QED
      BY <1>0, <2>1 DEF StartedInOrder, mainVars
  <1>4. CASE ContextStep
    BY <1>0, <1>4 DEF ContextStep, mainVars, workVars, StartedInOrder
  <1> QED
    BY <1>0, <1>1, <1>2, <1>3, <1>4, ContextSteps DEF Next, Main

\* The collector and the contexts leave what was handed in as it is.
LEMMA MainKeepsEnded ==
    ASSUME CollectorInv, Main \/ ContextStep
    PROVE  /\ Delivered' = Delivered /\ Failed' = Failed /\ Ended' = Ended
           /\ UNCHANGED <<complete, errOf>>
           /\ \A c \in Call : call'[c] # call[c] => call[c] = "idle" /\ call'[c] = "calling"
  <1>1. CASE Spawn
    <2>1. i \in Call /\ call[i] = "idle"
      BY <1>1, CallsAssumption DEF Spawn, CollectorInv, StartedInOrder, TypeOK, Call
    <2> QED
      BY <1>1, <2>1 DEF Spawn, CollectorInv, TypeOK, Delivered, Failed, Ended
  <1>2. CASE RecvResult \/ RecvFailed \/ ParentGone \/ Finish \/ ContextStep
    BY <1>2 DEF RecvResult, RecvFailed, ParentGone, Finish, ContextStep, workVars,
       Delivered, Failed, Ended
  <1> QED
    BY <1>1, <1>2 DEF Main

\* A call that hands in its answer has ended, the others are where they were.
LEMMA SendEnds ==
    ASSUME TypeOK, NEW c \in Call
    PROVE  /\ SendResult(c) => /\ c \notin Ended /\ Delivered' = Delivered \cup {c}
                               /\ Failed' = Failed /\ Ended' = Ended \cup {c}
           /\ SendFailed(c) => /\ c \notin Ended /\ Failed' = Failed \cup {c}
                               /\ Delivered' = Delivered /\ Ended' = Ended \cup {c}
           /\ NextReturns(c) \/ GiveUp(c) => /\ c \notin Ended
                               /\ Delivered' = Delivered /\ Failed' = Failed /\ Ended' = Ended
  <1>1. SendResult(c) => /\ c \notin Ended /\ Delivered' = Delivered \cup {c} /\ Failed' = Failed
    BY DEF TypeOK, SendResult, Delivered, Failed, Ended
  <1>2. SendFailed(c) => /\ c \notin Ended /\ Failed' = Failed \cup {c} /\ Delivered' = Delivered
    BY DEF TypeOK, SendFailed, Delivered, Failed, Ended
  <1>3. NextReturns(c) \/ GiveUp(c) => c \notin Ended /\ Delivered' = Delivered /\ Failed' = Failed
    BY DEF TypeOK, NextReturns, GiveUp, Delivered, Failed, Ended
  <1> QED
    BY <1>1, <1>2, <1>3 DEF Ended

\* An answer is counted once, from the goroutine to the channel to the loop.
LEMMA StepAnswersCounted == CollectorInv /\ [Next]_vars => AnswersCounted'
  <1> SUFFICES ASSUME CollectorInv, [Next]_vars PROVE AnswersCounted'
    OBVIOUS
  <1>0. /\ TypeOK /\ AnswersCounted /\ StartedInOrder
        /\ Len(results) \in Nat /\ Len(failed) \in Nat /\ i \in 0..Calls
    BY DEF CollectorInv, TypeOK
  <1>a. Delivered \in SUBSET Call /\ Failed \in SUBSET Call /\ Ended \in SUBSET Call
    BY DEF Delivered, Failed, Ended
  <1>b. Cardinality(Delivered) \in Nat /\ Cardinality(Failed) \in Nat /\ Cardinality(Ended) \in Nat
    BY <1>a, Counts
  <1>1. CASE Spawn
    <2>1. UNCHANGED <<Delivered, Failed, Ended, results, failed>>
      BY <1>1, MainKeepsEnded DEF Spawn, Main
    <2> QED
      BY <1>0, <1>1, <2>1 DEF AnswersCounted, Spawn, ctxVars
  <1>2. CASE RecvResult
    <2>1. UNCHANGED <<Delivered, Failed, Ended, failed, parentErr>>
      BY <1>2, MainKeepsEnded DEF RecvResult, Main
    <2>2. Len(results') = Len(results) - 1
      BY <1>0, <1>2, TailFacts DEF RecvResult, TypeOK
    <2>3. pc = "collect" /\ (pc' = "returned" \/ (pc' = pc /\ i' = i + 1))
      BY <1>2 DEF RecvResult, Return
    <2> QED
      BY <1>0, <1>b, <2>1, <2>2, <2>3 DEF AnswersCounted
  <1>3. CASE RecvFailed
    <2>1. UNCHANGED <<Delivered, Failed, Ended, results, parentErr>>
      BY <1>3, MainKeepsEnded DEF RecvFailed, Main, ctxVars
    <2>2. Len(failed') = Len(failed) - 1
      BY <1>0, <1>3, TailFacts DEF RecvFailed, TypeOK
    <2>3. pc = "collect" /\ pc' = pc /\ i' = i + 1
      BY <1>3 DEF RecvFailed
    <2> QED
      BY <1>0, <1>b, <2>1, <2>2, <2>3 DEF AnswersCounted
  <1>4. CASE ParentGone \/ Finish
    <2>1. UNCHANGED <<Delivered, Failed, Ended, results, failed, parentErr>>
      BY <1>4, MainKeepsEnded DEF ParentGone, Finish, Main, ctxVars
    <2>2. parentErr # "none" \/ pc' = "returned"
      BY <1>4 DEF ParentGone, Finish, Return
    <2> QED
      BY <1>0, <2>1, <2>2 DEF AnswersCounted
  <1>5. ASSUME NEW c \in Call, NextReturns(c) \/ GiveUp(c) PROVE AnswersCounted'
    <2>1. UNCHANGED <<Delivered, Failed, Ended, results, failed, parentErr, pc, i>>
      BY <1>0, <1>5, SendEnds DEF NextReturns, GiveUp, mainVars, ctxVars
    <2> QED
      BY <1>0, <2>1 DEF AnswersCounted
  <1>6. ASSUME NEW c \in Call, SendResult(c) PROVE AnswersCounted'
    <2>1. UNCHANGED <<Failed, failed, parentErr, pc, i>>
      BY <1>0, <1>6, SendEnds DEF SendResult, mainVars, ctxVars
    <2>2. Len(results') = Len(results) + 1
      BY <1>0, <1>6, AppendFacts DEF SendResult, TypeOK
    <2>3. /\ Cardinality(Delivered') = Cardinality(Delivered) + 1
          /\ Cardinality(Ended') = Cardinality(Ended) + 1
      <3>1. c \in Call \ Ended /\ c \in Call \ Delivered
        BY <1>0, <1>6, SendEnds DEF Ended
      <3> QED
        BY <1>0, <1>6, <1>a, <3>1, SendEnds, Counts
    <2> QED
      BY <1>0, <1>b, <2>1, <2>2, <2>3 DEF AnswersCounted
  <1>7. ASSUME NEW c \in Call, SendFailed(c) PROVE AnswersCounted'
    <2>1. UNCHANGED <<Delivered, results, parentErr, pc, i>>
      BY <1>0, <1>7, SendEnds DEF SendFailed, mainVars, ctxVars
    <2>2. Len(failed') = Len(failed) + 1
      <3>1. errOf[c] \in {"backend", "null"} \cup CtxErrors
        BY <1>0, <1>7 DEF SendFailed, CollectorInv, NothingCompleteSeen, TypeOK
      <3> QED
        BY <1>0, <1>7, <3>1, AppendFacts DEF SendFailed, TypeOK
    <2>3. /\ Cardinality(Failed') = Cardinality(Failed) + 1
          /\ Cardinality(Ended') = Cardinality(Ended) + 1
      <3>1. c \in Call \ Ended /\ c \in Call \ Failed
        BY <1>0, <1>7, SendEnds DEF Ended
      <3> QED
        BY <1>0, <1>7, <1>a, <3>1, SendEnds, Counts
    <2> QED
      BY <1>0, <1>b, <2>1, <2>2, <2>3 DEF AnswersCounted
  <1>8. CASE ContextStep
    <2>1. UNCHANGED <<Delivered, Failed, Ended, results, failed, pc, i>>
      BY <1>8, MainKeepsEnded DEF ContextStep, mainVars
    <2> QED
      BY <1>0, <1>8, <2>1 DEF AnswersCounted, ContextStep
  <1> QED
    BY <1>0, <1>1, <1>2, <1>3, <1>4, <1>5, <1>6, <1>7, <1>8, ContextSteps DEF Next, Main, Send

\* A call that has not handed in its answer finds room: the channels hold one answer per call.
LEMMA RoomForEveryCall == TypeOK /\ AnswersCounted => SendNeverBlocks
  <1> SUFFICES ASSUME TypeOK, AnswersCounted, NEW c \in Call
               PROVE  /\ call[c] = "answered" => Room(results)
                      /\ call[c] = "failing" => Room(failed)
    BY DEF SendNeverBlocks
  <1>1. Delivered \in SUBSET Call /\ Failed \in SUBSET Call
    BY DEF Delivered, Failed
  <1>2. /\ Len(results) \in Nat /\ Len(failed) \in Nat /\ Calls \in Nat
        /\ Len(results) <= Cardinality(Delivered) /\ Len(failed) <= Cardinality(Failed)
    BY CallsAssumption DEF TypeOK, AnswersCounted
  <1>3. ASSUME call[c] = "answered" PROVE Room(results)
    <2>1. c \in Call \ Delivered
      BY <1>3 DEF Delivered
    <2>2. Cardinality(Delivered) < Calls
      BY <1>1, <2>1, Counts
    <2>3. Cardinality(Delivered) \in Nat
      BY <1>1, Counts
    <2> QED
      BY <1>2, <2>2, <2>3 DEF Room
  <1>4. ASSUME call[c] = "failing" PROVE Room(failed)
    <2>1. c \in Call \ Failed
      BY <1>4 DEF Failed
    <2>2. Cardinality(Failed) < Calls
      BY <1>1, <2>1, Counts
    <2>3. Cardinality(Failed) \in Nat
      BY <1>1, Counts
    <2> QED
      BY <1>2, <2>2, <2>3 DEF Room
  <1> QED
    BY <1>3, <1>4

\* A delivered answer is still in its channel, or was seen to be incomplete.
LEMMA StepNothingCompleteSeen == CollectorInv /\ [Next]_vars => NothingCompleteSeen'
  <1> SUFFICES ASSUME CollectorInv, [Next]_vars PROVE NothingCompleteSeen'
    OBVIOUS
  <1>0. TypeOK /\ NothingCompleteSeen
    BY DEF CollectorInv
  <1>a. results \in Seq(Call) /\ Delivered \subseteq Call
    BY <1>0 DEF TypeOK, Delivered
  <1>1. CASE Spawn
    <2>1. UNCHANGED <<Delivered, complete, errOf, results, response>>
      BY <1>1, MainKeepsEnded DEF Spawn, Main
    <2>2. \A c \in Call : call'[c] = "failing" => call[c] = "failing"
      BY <1>1, MainKeepsEnded DEF Main
    <2>3. pc = "start" /\ (pc' = "start" \/ i' = 0)
      BY <1>1 DEF Spawn
    <2> QED
      BY <1>0, <2>1, <2>2, <2>3 DEF NothingCompleteSeen
  <1>2. CASE RecvResult
    <2>1. UNCHANGED <<Delivered, complete, errOf, call, parentErr>>
      BY <1>2, MainKeepsEnded DEF RecvResult, Main, workVars
    <2>2. /\ results # << >> /\ results' = Tail(results) /\ response' = Head(results)
          /\ pc = "collect" /\ (pc' # "returned" => ~complete[Head(results)])
      BY <1>2 DEF RecvResult, Return
    <2>3. Head(results) = results[1] /\ Head(results) \in Delivered
      <3>1. 1 \in 1..Len(results) /\ Head(results) = results[1]
        BY <1>a, <2>2, TailFacts
      <3> QED
        BY <1>0, <3>1 DEF NothingCompleteSeen
    <2>6. Head(results) # 0
      BY <1>a, <2>3, CallsAssumption DEF Call
    <2>4. \A n \in 1..Len(results') : results'[n] \in Delivered'
      BY <1>0, <1>a, <2>1, <2>2, TailFacts DEF NothingCompleteSeen
    <2>5. ASSUME pc' # "returned", NEW c \in Delivered, complete[c]
          PROVE  \E n \in 1..Len(results') : results'[n] = c
      <3>1. PICK n \in 1..Len(results) : results[n] = c
        BY <1>0, <2>2, <2>5 DEF NothingCompleteSeen
      <3>2. n # 1
        BY <2>2, <2>3, <2>5, <3>1
      <3> QED
        BY <1>a, <2>2, <3>1, <3>2, TailFacts
    <2> QED
      BY <1>0, <2>1, <2>2, <2>3, <2>4, <2>5, <2>6 DEF NothingCompleteSeen
  <1>3. CASE RecvFailed
    <2>1. UNCHANGED <<Delivered, complete, errOf, call, results, response, pc, parentErr>>
      BY <1>3, MainKeepsEnded DEF RecvFailed, Main, workVars, ctxVars
    <2>2. err' # "none"
      <3>1. Head(failed) \in {"backend", "null"} \cup CtxErrors
        BY <1>0, <1>3, TailFacts DEF RecvFailed, TypeOK
      <3> QED
        BY <1>3, <3>1 DEF RecvFailed, CtxErrors
    <2> QED
      BY <1>0, <2>1, <2>2 DEF NothingCompleteSeen
  <1>4. CASE ParentGone \/ Finish
    <2>1. UNCHANGED <<Delivered, complete, errOf, call, results, response, parentErr>>
      BY <1>4, MainKeepsEnded DEF ParentGone, Finish, Main, workVars, ctxVars
    <2>2. pc' = "returned" \/ (pc' = pc /\ parentErr # "none")
      BY <1>4 DEF ParentGone, Finish, Return
    <2> QED
      BY <1>0, <2>1, <2>2 DEF NothingCompleteSeen
  <1>5. ASSUME NEW c \in Call, NextReturns(c) \/ GiveUp(c) PROVE NothingCompleteSeen'
    <2>1. UNCHANGED <<Delivered, results, response, err, pc, i, parentErr>> /\ c \notin Ended
      BY <1>0, <1>5, SendEnds DEF NextReturns, GiveUp, mainVars, ctxVars
    <2>2. \A d \in Delivered : complete'[d] = complete[d]
      BY <1>0, <1>5, <2>1 DEF NextReturns, GiveUp, TypeOK, Ended, Delivered
    <2>3. \A d \in Call : call'[d] = "failing" => errOf'[d] # "none"
      BY <1>0, <1>5 DEF NextReturns, GiveUp, TypeOK, NothingCompleteSeen
    <2> QED
      BY <1>0, <2>1, <2>2, <2>3 DEF NothingCompleteSeen
  <1>6. ASSUME NEW c \in Call, SendResult(c) PROVE NothingCompleteSeen'
    <2>1. /\ UNCHANGED <<complete, errOf, response, err, pc, i, parentErr>>
          /\ Delivered' = Delivered \cup {c} /\ results' = Append(results, c)
      BY <1>0, <1>6, SendEnds DEF SendResult, mainVars, ctxVars
    <2>2. \A d \in Call : call'[d] = "failing" => call[d] = "failing"
      BY <1>0, <1>6 DEF SendResult, TypeOK
    <2>3. /\ Len(results) \in Nat /\ Len(results') = Len(results) + 1
          /\ results'[Len(results) + 1] = c
          /\ \A n \in 1..Len(results) : results'[n] = results[n]
      BY <1>a, <2>1, AppendFacts
    <2>4. \A n \in 1..Len(results') : results'[n] \in Delivered'
      BY <1>0, <2>1, <2>3 DEF NothingCompleteSeen
    <2>5. ASSUME pc # "returned", NEW d \in Delivered', complete[d]
          PROVE  \E n \in 1..Len(results') : results'[n] = d
      <3>1. CASE d = c
        BY <2>3, <3>1
      <3>2. CASE d # c
        <4>1. PICK n \in 1..Len(results) : results[n] = d
          BY <1>0, <2>1, <2>5, <3>2 DEF NothingCompleteSeen
        <4>2. n \in 1..Len(results') /\ results'[n] = d
          BY <2>3, <4>1
        <4> QED
          BY <4>2
      <3> QED
        BY <3>1, <3>2
    <2> QED
      BY <1>0, <2>1, <2>2, <2>4, <2>5 DEF NothingCompleteSeen
  <1>7. ASSUME NEW c \in Call, SendFailed(c) PROVE NothingCompleteSeen'
    <2>1. UNCHANGED <<Delivered, complete, errOf, results, response, err, pc, i, parentErr>>
      BY <1>0, <1>7, SendEnds DEF SendFailed, mainVars, ctxVars
    <2>2. \A d \in Call : call'[d] = "failing" => call[d] = "failing"
      BY <1>0, <1>7 DEF SendFailed, TypeOK
    <2> QED
      BY <1>0, <2>1, <2>2 DEF NothingCompleteSeen
  <1>8. CASE ContextStep
    <2>1. UNCHANGED <<Delivered, complete, errOf, call, results, response, err, pc, i>>
      BY <1>8, MainKeepsEnded DEF ContextStep, mainVars, workVars
    <2> QED
      BY <1>0, <1>8, <2>1 DEF NothingCompleteSeen, ContextStep
  <1> QED
    BY <1>0, <1>1, <1>2, <1>3, <1>4, <1>5, <1>6, <1>7, <1>8, ContextSteps DEF Next, Main, Send

\* What the collector returns was delivered, and is nothing only if the caller is gone.
LEMMA StepAnswerIsMeaningful == CollectorInv /\ [Next]_vars => AnswerIsMeaningful'
  <1> SUFFICES ASSUME CollectorInv, [Next]_vars PROVE AnswerIsMeaningful'
    OBVIOUS
  <1>0. TypeOK /\ NothingCompleteSeen /\ AnswerIsMeaningful
    BY DEF CollectorInv
  <1>1. CASE Spawn \/ RecvFailed \/ ParentGone
    BY <1>1 DEF Spawn, RecvFailed, ParentGone, AnswerIsMeaningful
  <1>2. CASE RecvResult
    <2>1. UNCHANGED <<Delivered, complete, parentErr>>
      BY <1>2, MainKeepsEnded DEF RecvResult, Main
    <2>2. 1 \in 1..Len(results) /\ Head(results) = results[1] /\ Head(results) \in Call
      BY <1>0, <1>2, TailFacts DEF RecvResult, TypeOK
    <2>3. Head(results) \in Delivered
      BY <1>0, <2>2 DEF NothingCompleteSeen
    <2>4. Head(results) # 0
      BY <2>2, CallsAssumption DEF Call
    <2>5. pc' = "returned" => ret' = [response |-> Head(results), err |-> "none"]
      BY <1>2 DEF RecvResult, Return
    <2> QED
      BY <2>1, <2>3, <2>4, <2>5 DEF AnswerIsMeaningful
  <1>3. CASE Finish
    <2>1. UNCHANGED <<Delivered, complete, parentErr>>
      BY <1>3, MainKeepsEnded DEF Finish, Main
    <2>2. ret' = [response |-> response, err |-> err] /\ pc = "collect" /\ i > 0
      BY <1>3, CallsAssumption DEF Finish, Return
    <2>3. response # 0 => response \in Delivered /\ ~complete[response]
      BY <1>0, <2>2 DEF NothingCompleteSeen
    <2>4. parentErr = "none" => (response # 0 \/ err # "none")
      BY <1>0, <2>2 DEF NothingCompleteSeen
    <2> QED
      BY <2>1, <2>2, <2>3, <2>4 DEF AnswerIsMeaningful
  <1>4. ASSUME NEW c \in Call, NextReturns(c) \/ GiveUp(c) PROVE AnswerIsMeaningful'
    <2>1. UNCHANGED <<Delivered, pc, ret, parentErr>> /\ c \notin Ended
      BY <1>0, <1>4, SendEnds DEF NextReturns, GiveUp, mainVars, ctxVars
    <2>2. \A d \in Delivered : complete'[d] = complete[d]
      BY <1>0, <1>4, <2>1 DEF NextReturns, GiveUp, TypeOK, Ended, Delivered
    <2> QED
      BY <1>0, <2>1, <2>2 DEF AnswerIsMeaningful
  <1>5. ASSUME NEW c \in Call, SendResult(c) \/ SendFailed(c) PROVE AnswerIsMeaningful'
    <2>1. UNCHANGED <<complete, pc, ret, parentErr>> /\ Delivered \subseteq Delivered'
      BY <1>0, <1>5, SendEnds DEF SendResult, SendFailed, mainVars, ctxVars
    <2> QED
      BY <1>0, <2>1 DEF AnswerIsMeaningful
  <1>6. CASE ContextStep
    <2>1. UNCHANGED <<Delivered, complete, pc, ret>>
      BY <1>6, MainKeepsEnded DEF ContextStep, mainVars
    <2>2. pc = "returned" => parentErr' = parentErr
      BY <1>6 DEF ContextStep
    <2> QED
      BY <1>0, <2>1, <2>2 DEF AnswerIsMeaningful
  <1> QED
    BY <1>0, <1>1, <1>2, <1>3, <1>4, <1>5, <1>6, ContextSteps DEF Next, Main, Send

\* When the loop ends with the caller still there, every answer was received.
LEMMA StepNoCompleteResponseMissed ==
    CollectorInv /\ NoCompleteResponseMissed /\ [Next]_vars => NoCompleteResponseMissed'
  <1> SUFFICES ASSUME CollectorInv, NoCompleteResponseMissed, [Next]_vars
               PROVE  NoCompleteResponseMissed'
    OBVIOUS
  <1>0. TypeOK /\ NothingCompleteSeen /\ AnswersCounted /\ AnswerIsMeaningful
    BY DEF CollectorInv
  <1>1. CASE Spawn \/ RecvFailed \/ ParentGone
    BY <1>1 DEF Spawn, RecvFailed, ParentGone, NoCompleteResponseMissed
  <1>2. CASE RecvResult
    <2>1. Head(results) \in Call
      BY <1>0, <1>2, TailFacts DEF RecvResult, TypeOK
    <2>2. Head(results) # 0
      BY <2>1, CallsAssumption DEF Call
    <2>3. complete' = complete
      BY <1>2 DEF RecvResult, workVars
    <2>4. pc' = "returned" => complete[Head(results)] /\ ret' = [response |-> Head(results), err |-> "none"]
      BY <1>2 DEF RecvResult, Return
    <2> QED
      BY <2>2, <2>3, <2>4 DEF NoCompleteResponseMissed
  <1>3. CASE Finish
    <2> SUFFICES ASSUME parentErr = "none"
                 PROVE  \A c \in Call : call'[c] \in Over /\ (c \in Delivered' => ~complete'[c])
      BY <1>3 DEF Finish, NoCompleteResponseMissed
    <2>1. UNCHANGED <<call, Delivered, complete>> /\ pc = "collect" /\ i = Calls
      BY <1>3, MainKeepsEnded DEF Finish, Main, workVars
    <2>2. Len(results) \in Nat /\ Len(failed) \in Nat /\ Calls \in Nat
      BY <1>0, CallsAssumption DEF TypeOK
    <2>3. Ended \in SUBSET Call
      BY DEF Ended, Delivered, Failed
    <2>4. Cardinality(Ended) \in 0..Calls
      BY <2>3, Counts
    <2>5. Len(results) + Len(failed) + Calls = Cardinality(Ended)
      BY <1>0, <2>1 DEF AnswersCounted
    <2>6. Cardinality(Ended) = Calls /\ Len(results) = 0
      BY <2>2, <2>4, <2>5
    <2>7. Ended = Call
      BY <2>3, <2>6, Counts
    <2>8. \A c \in Call : call[c] \in Over
      BY <2>7 DEF Ended, Delivered, Failed, Over
    <2>9. \A c \in Delivered : ~complete[c]
      BY <1>0, <2>1, <2>6 DEF NothingCompleteSeen
    <2> QED
      BY <2>1, <2>8, <2>9
  <1>4. ASSUME NEW c \in Call, NextReturns(c) \/ Send(c) PROVE NoCompleteResponseMissed'
    <2> SUFFICES ASSUME pc = "returned", parentErr = "none",
                        ret.response = 0 \/ ~complete'[ret.response],
                        ret.response = 0 \/ ~complete[ret.response]
                        => \A d \in Call : call[d] \in Over
                 PROVE  NoCompleteResponseMissed'
      BY <1>4 DEF NoCompleteResponseMissed, NextReturns, Send, SendResult, GiveUp, SendFailed,
         mainVars, ctxVars
    <2>1. call[c] \notin Over
      BY <1>4 DEF NextReturns, Send, SendResult, GiveUp, SendFailed, Over
    <2>2. ret.response # 0 => ret.response \in Delivered
      BY <1>0 DEF AnswerIsMeaningful
    <2>3. \A d \in Delivered : complete'[d] = complete[d]
      BY <1>0, <1>4, <2>1 DEF NextReturns, Send, SendResult, GiveUp, SendFailed, TypeOK,
         Delivered, Over
    <2> QED
      BY <2>1, <2>2, <2>3
  <1>5. CASE ContextStep
    <2>1. UNCHANGED <<call, Delivered, complete, pc, ret>>
      BY <1>5, MainKeepsEnded DEF ContextStep, mainVars, workVars
    <2>2. pc = "returned" => parentErr' = parentErr
      BY <1>5 DEF ContextStep
    <2> QED
      BY <2>1, <2>2 DEF NoCompleteResponseMissed
  <1> QED
    BY <1>0, <1>1, <1>2, <1>3, <1>4, <1>5, ContextSteps DEF Next, Main

-----------------------------------------------------------------------------
(* The theorems                                                            *)

\* The counts, the channels and what the collector holds fit together at all times,
\* for any number of concurrent calls; CollectorInv is inductive.
THEOREM Inductive == Spec => []CollectorInv
  <1>1. CollectorInv /\ [Next]_vars => CollectorInv'
    <2>1. TypeOK' /\ AnswersCounted' => SendNeverBlocks'
      BY RoomForEveryCall, PTL
    <2> QED
      BY <2>1, StepTypeOK, StepStartedInOrder, StepAnswersCounted, StepNothingCompleteSeen,
         StepAnswerIsMeaningful DEF CollectorInv
  <1> QED
    BY InitCollectorInv, <1>1, PTL DEF Spec

\* No goroutine of processConcurrentCall is ever stuck on its channel, even when the
\* collector returned early.
THEOREM SendNeverBlocksCorrect == Spec => []SendNeverBlocks
  BY Inductive, PTL DEF CollectorInv

\* The middleware returns a delivered response, alone if complete, and it returns
\* nothing at all only to a caller that is gone.
THEOREM AnswerIsMeaningfulCorrect == Spec => []AnswerIsMeaningful
  BY Inductive, PTL DEF CollectorInv

\* While its caller is there the middleware returns without a complete response only
\* after every call has handed in something else.
THEOREM NoCompleteResponseMissedCorrect == Spec => []NoCompleteResponseMissed
  <1>1. /\ CollectorInv /\ NoCompleteResponseMissed /\ [Next]_vars /\ CollectorInv'
        => NoCompleteResponseMissed'
    BY StepNoCompleteResponseMissed
  <1> QED
    BY InitCollectorInv, Inductive, <1>1, PTL DEF Spec

================================================================================
