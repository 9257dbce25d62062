--------------------------- MODULE StartupProofs ---------------------------
(***************************************************************************)
(* Proofs about Startup, for every deployment: the configuration, the      *)
(* loader of plugins, the agents and the server keep their invariants,     *)
(* whatever the other parts do meanwhile, and a request enters only a      *)
(* gateway that is ready.  The invariant of each part is shown to be kept  *)
(* by the part's own steps; the steps of the others leave its variables    *)
(* alone.                                                                  *)
(***************************************************************************)
EXTENDS Startup, FiniteSetTheorems, WellFoundedInduction, TLAPS

-----------------------------------------------------------------------------
(* The server                                                              *)

\* Each step of the gateway is one of the server, or leaves the server alone.
LEMMA ServerSteps ==
    ASSUME [Next]_vars
    PROVE  \/ UNCHANGED serverVars
           \/ S!PlainHTTP \/ S!CollectKeys \/ S!LoadKey \/ S!KeysLoaded
           \/ S!ServerFailed \/ S!BeginShutdown \/ S!Drained \/ S!ShutdownTimeout
           \/ S!Listen \/ S!ListenerClosed \/ S!ListenerBroken \/ S!Cancel
           \/ \E r \in Requests : S!Arrive(r) \/ S!Answer(r) \/ S!Stream(r)
  BY DEF Next, vars, Main, Parse, LoadPlugins, StartAgents, BuildExecutors, RegisterEndpoints,
         WrapHandlers, RunServer, Serve, Request, RunAgent, AgentSettles, Signal

\* Loading a key pair takes it off the list.
LEMMA KeysFacts ==
    ASSUME NEW q \in Seq(S!Outcome), q # << >>
    PROVE  /\ Tail(q) \in Seq(S!Outcome) /\ Head(q) \in S!Outcome
           /\ Len(q) \in Nat \ {0} /\ Len(Tail(q)) = Len(q) - 1
           /\ Head(q) = q[1]
           /\ \A n \in 1..Len(Tail(q)) : n + 1 \in 1..Len(q) /\ Tail(q)[n] = q[n + 1]
  OBVIOUS

LEMMA ServerStepTypeOK ==
    ASSUME S!WellFormed(cfg), S!TypeOK, [Next]_vars
    PROVE  S!TypeOK'
  <1>1. CASE UNCHANGED serverVars
    BY <1>1 DEF serverVars, S!TypeOK
  <1>2. CASE S!PlainHTTP \/ S!KeysLoaded \/ S!ServerFailed \/ S!BeginShutdown \/ S!Drained \/ S!ShutdownTimeout
    BY <1>2 DEF S!PlainHTTP, S!KeysLoaded, S!ServerFailed, S!BeginShutdown, S!Drained,
                S!ShutdownTimeout, S!Return, S!TypeOK, S!Started
  <1>3. CASE S!CollectKeys
    <2>1. keys' \in Seq(S!Outcome)
      BY <1>3 DEF S!CollectKeys, S!WellFormed
    <2>2. QED
      BY <1>3, <2>1 DEF S!CollectKeys, S!Return, S!TypeOK
  <1>4. CASE S!LoadKey
    <2>1. keys' \in Seq(S!Outcome) /\ Head(keys) \in S!Outcome
      BY <1>4, KeysFacts DEF S!LoadKey, S!TypeOK
    <2>2. QED
      BY <1>4, <2>1 DEF S!LoadKey, S!Return, S!TypeOK, S!Outcome
  <1>5. CASE S!Listen \/ S!ListenerClosed \/ S!ListenerBroken \/ S!Cancel
    BY <1>5 DEF S!Listen, S!ListenerClosed, S!ListenerBroken, S!Cancel, S!TypeOK, S!Started
  <1>6. ASSUME NEW r \in Requests, S!Arrive(r) \/ S!Answer(r) \/ S!Stream(r) PROVE S!TypeOK'
    BY <1>6 DEF S!Arrive, S!Answer, S!Stream, S!TypeOK
  <1>7. QED
    BY <1>1, <1>2, <1>3, <1>4, <1>5, <1>6, ServerSteps

\* The pairs that are loaded stay the ones of the configuration.
LEMMA AllKeysFacts ==
    ASSUME S!WellFormed(cfg)
    PROVE  S!AllKeys \in Seq(S!Outcome) /\ Len(S!AllKeys) \in Nat
  <1>1. cfg.keys \in Seq(S!Outcome) /\ cfg.legacy \in Seq(S!Outcome)
    BY DEF S!WellFormed
  <1>2. S!AllKeys \in Seq(S!Outcome)
    BY <1>1 DEF S!AllKeys
  <1>3. QED
    BY <1>2

LEMMA LoadedKeysAreGood ==
    ASSUME S!WellFormed(cfg), S!TypeOK, S!GoodSoFar, cfg' = cfg,
           keys # << >>, Head(keys) = "ok", keys' = Tail(keys)
    PROVE  S!GoodSoFar'
  <1>1. S!AllKeys' = S!AllKeys /\ Len(S!AllKeys) \in Nat
    BY AllKeysFacts DEF S!AllKeys
  <1>2. PICK d \in 0..Len(S!AllKeys) :
          /\ Len(keys) = Len(S!AllKeys) - d
          /\ \A j \in 1..Len(keys) : keys[j] = S!AllKeys[d + j]
          /\ \A j \in 1..d : S!AllKeys[j] = "ok"
    BY DEF S!GoodSoFar
  <1>3. /\ Len(keys) \in Nat \ {0} /\ Len(keys') = Len(keys) - 1
        /\ keys[1] = "ok"
        /\ \A n \in 1..Len(keys') : n + 1 \in 1..Len(keys) /\ keys'[n] = keys[n + 1]
    BY KeysFacts DEF S!TypeOK
  <1>4. d \in Nat /\ d + 1 \in 0..Len(S!AllKeys)
    BY <1>1, <1>2, <1>3
  <1>5. Len(keys') = Len(S!AllKeys) - (d + 1)
    BY <1>1, <1>2, <1>3, <1>4
  <1>6. \A j \in 1..Len(keys') : keys'[j] = S!AllKeys[(d + 1) + j]
    BY <1>2, <1>3, <1>4
  <1>7. S!AllKeys[d + 1] = "ok"
    BY <1>2, <1>3, <1>4
  <1>8. \A j \in 1..(d + 1) : S!AllKeys[j] = "ok"
    BY <1>2, <1>4, <1>7
  <1>9. \E e \in 0..Len(S!AllKeys) :
          /\ Len(keys') = Len(S!AllKeys) - e
          /\ \A j \in 1..Len(keys') : keys'[j] = S!AllKeys[e + j]
          /\ \A j \in 1..e : S!AllKeys[j] = "ok"
    BY <1>4, <1>5, <1>6, <1>8
  <1>10. QED
    BY <1>1, <1>9 DEF S!GoodSoFar

LEMMA ServerStepStartedInOrder ==
    ASSUME S!WellFormed(cfg), S!TypeOK, S!StartedInOrder, [Next]_vars
    PROVE  S!StartedInOrder'
  <1>1. CASE UNCHANGED serverVars
    BY <1>1 DEF serverVars, S!StartedInOrder, S!AllGood, S!GoodSoFar, S!AllKeys, S!Secure
  <1>u. ASSUME cfg' = cfg PROVE S!AllKeys' = S!AllKeys /\ (S!Secure <=> S!Secure') /\ (S!AllGood <=> S!AllGood')
    BY <1>u DEF S!AllKeys, S!Secure, S!AllGood
  <1>2. CASE S!PlainHTTP
    BY <1>2, <1>u DEF S!PlainHTTP, S!StartedInOrder, S!TypeOK
  <1>3. CASE S!CollectKeys
    <2>1. S!AllKeys' = S!AllKeys /\ keys' = S!AllKeys /\ S!Secure'
      BY <1>3, <1>u DEF S!CollectKeys, S!AllKeys
    <2>2. CASE keys' = << >>
      BY <1>3, <2>1, <2>2 DEF S!CollectKeys, S!Return, S!StartedInOrder
    <2>3. CASE keys' # << >>
      <3>1. 0 \in 0..Len(S!AllKeys) /\ S!AllKeys \in Seq(S!Outcome)
        BY AllKeysFacts
      <3>2. S!GoodSoFar'
        BY <2>1, <2>3, <3>1 DEF S!GoodSoFar
      <3>3. QED
        BY <1>3, <2>1, <2>3, <3>2 DEF S!CollectKeys, S!StartedInOrder
    <2>4. QED
      BY <2>2, <2>3
  <1>4. CASE S!LoadKey
    <2>1. CASE Head(keys) # "ok"
      <3>1. /\ pc' = "returned" /\ result' = Head(keys) /\ result' \notin {"none", "nil", "deadline", "server"}
            /\ UNCHANGED <<serve, stopping>> /\ serve = "none"
        BY <1>4, <2>1, KeysFacts DEF S!LoadKey, S!Return, S!TypeOK, S!Outcome, S!StartedInOrder
      <3>2. QED
        BY <3>1 DEF S!StartedInOrder
    <2>2. CASE Head(keys) = "ok"
      <3>1. S!GoodSoFar' /\ S!Secure'
        BY <1>4, <1>u, <2>2, LoadedKeysAreGood DEF S!LoadKey, S!StartedInOrder
      <3>2. QED
        BY <1>4, <1>u, <2>2, <3>1 DEF S!LoadKey, S!StartedInOrder
    <2>3. QED
      BY <2>1, <2>2
  <1>5. CASE S!KeysLoaded
    <2>1. PICK d \in 0..Len(S!AllKeys) :
            /\ Len(keys) = Len(S!AllKeys) - d
            /\ \A j \in 1..d : S!AllKeys[j] = "ok"
      BY <1>5 DEF S!KeysLoaded, S!StartedInOrder, S!GoodSoFar
    <2>2. d = Len(S!AllKeys) /\ S!AllKeys \in Seq(S!Outcome)
      BY <1>5, <2>1, AllKeysFacts DEF S!KeysLoaded
    <2>3. S!AllGood
      BY <1>5, <2>1, <2>2 DEF S!KeysLoaded, S!StartedInOrder, S!GoodSoFar, S!AllGood
    <2>4. QED
      BY <1>5, <1>u, <2>3 DEF S!KeysLoaded, S!StartedInOrder
  <1>6. CASE S!ServerFailed \/ S!BeginShutdown \/ S!Drained \/ S!ShutdownTimeout
    BY <1>6, <1>u DEF S!ServerFailed, S!BeginShutdown, S!Drained, S!ShutdownTimeout, S!Return, S!StartedInOrder
  <1>7. CASE S!Listen \/ S!ListenerClosed \/ S!ListenerBroken
    <2>1. cfg' = cfg /\ keys' = keys
      BY <1>7 DEF S!Listen, S!ListenerClosed, S!ListenerBroken
    <2>2. S!GoodSoFar' <=> S!GoodSoFar
      BY <2>1 DEF S!GoodSoFar, S!AllKeys
    <2>3. QED
      BY <1>7, <1>u, <2>1, <2>2 DEF S!Listen, S!ListenerClosed, S!ListenerBroken, S!StartedInOrder
  <1>8. ASSUME S!Cancel \/ \E r \in Requests : S!Arrive(r) \/ S!Answer(r) \/ S!Stream(r)
        PROVE  S!StartedInOrder'
    <2>1. UNCHANGED <<cfg, keys, pc, serve, stopping, result>>
      BY <1>8 DEF S!Cancel, S!Arrive, S!Answer, S!Stream
    <2>2. S!GoodSoFar' <=> S!GoodSoFar
      BY <2>1 DEF S!GoodSoFar, S!AllKeys
    <2>3. QED
      BY <1>u, <2>1, <2>2 DEF S!StartedInOrder
  <1>9. QED
    BY <1>1, <1>2, <1>3, <1>4, <1>5, <1>6, <1>7, <1>8, ServerSteps

LEMMA ServerStepAdmittedOnly ==
    ASSUME S!TypeOK, S!AdmittedOnly, [Next]_vars
    PROVE  S!AdmittedOnly'
  <1>1. cfg' = cfg
    BY ServerSteps DEF serverVars, S!PlainHTTP, S!CollectKeys, S!LoadKey, S!KeysLoaded, S!ServerFailed,
         S!BeginShutdown, S!Drained, S!ShutdownTimeout, S!Listen, S!ListenerClosed,
         S!ListenerBroken, S!Cancel, S!Arrive, S!Answer, S!Stream
  <1>2. \A c : S!Admits(c) <=> S!Admits(c)'
    BY <1>1 DEF S!Admits, S!Secure, S!ClientCAs, S!CertPool
  <1>3. ASSUME NEW r \in Requests, S!Arrive(r) \/ S!Answer(r) \/ S!Stream(r) PROVE S!AdmittedOnly'
    <2>1. req'[r] \in {"open", "answered"} => S!Admits(cfg.clients[r])
      BY <1>3 DEF S!Arrive, S!Answer, S!Stream, S!TypeOK, S!AdmittedOnly
    <2>2. \A q \in Requests \ {r} : req'[q] = req[q]
      BY <1>3 DEF S!Arrive, S!Answer, S!Stream, S!TypeOK
    <2>3. \A q \in Requests : req'[q] \in {"open", "answered"} => S!Admits(cfg.clients[q])
      BY <2>1, <2>2 DEF S!AdmittedOnly
    <2>4. QED
      BY <1>1, <1>2, <2>3 DEF S!AdmittedOnly
  <1>4. CASE req' = req
    BY <1>1, <1>2, <1>4 DEF S!AdmittedOnly
  <1>5. QED
    BY <1>3, <1>4, ServerSteps
       DEF serverVars, S!PlainHTTP, S!CollectKeys, S!LoadKey, S!KeysLoaded, S!ServerFailed,
           S!BeginShutdown, S!Drained, S!ShutdownTimeout, S!Listen, S!ListenerClosed,
           S!ListenerBroken, S!Cancel

\* Whose connection is hijacked is a matter of the configuration, which stays.
LEMMA ServerConfigStays ==
    ASSUME [Next]_vars
    PROVE  cfg' = cfg /\ \A r \in Requests : S!Hijacked(r)' <=> S!Hijacked(r)
  <1>1. cfg' = cfg
    BY ServerSteps DEF serverVars, S!PlainHTTP, S!CollectKeys, S!LoadKey, S!KeysLoaded, S!ServerFailed,
         S!BeginShutdown, S!Drained, S!ShutdownTimeout, S!Listen, S!ListenerClosed,
         S!ListenerBroken, S!Cancel, S!Arrive, S!Answer, S!Stream
  <1>2. QED
    BY <1>1 DEF S!Hijacked

\* A request that is open keeps RunServer from returning without an error, but for hijacked
\* connections, and only over them is one let in once it stops.
LEMMA ServerStepCleanEnd ==
    ASSUME S!TypeOK, S!StartedInOrder, S!CleanEndLosesNothing, [Next]_vars
    PROVE  S!CleanEndLosesNothing'
  <1>0. \A r \in Requests : S!Hijacked(r)' <=> S!Hijacked(r)
    BY ServerConfigStays
  <1>1. CASE UNCHANGED <<req, result>>
    BY <1>0, <1>1 DEF S!CleanEndLosesNothing
  <1>2. CASE S!Drained
    BY <1>0, <1>2 DEF S!Drained, S!Return, S!CleanEndLosesNothing
  <1>3. CASE req' = req /\ result' # "nil"
    BY <1>3 DEF S!CleanEndLosesNothing
  <1>4. ASSUME NEW r \in Requests, S!Arrive(r) \/ S!Answer(r) \/ S!Stream(r)
        PROVE  S!CleanEndLosesNothing'
    <2>1. result' = result
      BY <1>4 DEF S!Arrive, S!Answer, S!Stream
    <2>2. \A q \in Requests \ {r} : req'[q] = req[q]
      BY <1>4 DEF S!Arrive, S!Answer, S!Stream, S!TypeOK
    <2>3. req'[r] = "open" => ~stopping \/ S!Hijacked(r)
      BY <1>4 DEF S!Arrive, S!Answer, S!Stream, S!TypeOK
    <2>4. QED
      BY <1>0, <2>1, <2>2, <2>3 DEF S!CleanEndLosesNothing, S!StartedInOrder
  <1>5. CASE S!LoadKey
    <2>1. req' = req /\ (result' = result \/ (result' = Head(keys) /\ Head(keys) \in S!Outcome))
      BY <1>5, KeysFacts DEF S!LoadKey, S!Return, S!TypeOK
    <2>2. QED
      BY <1>1, <1>3, <2>1 DEF S!Outcome
  <1>6. QED
    BY <1>1, <1>2, <1>3, <1>4, <1>5, ServerSteps
       DEF serverVars, S!PlainHTTP, S!CollectKeys, S!KeysLoaded, S!ServerFailed,
           S!BeginShutdown, S!ShutdownTimeout, S!Listen, S!ListenerClosed,
           S!ListenerBroken, S!Cancel, S!Return

LEMMA ServerStepFirstKeyError ==
    ASSUME S!WellFormed(cfg), S!TypeOK, S!StartedInOrder, S!FirstKeyErrorReturned, [Next]_vars
    PROVE  S!FirstKeyErrorReturned'
  <1>1. cfg' = cfg /\ S!AllKeys' = S!AllKeys /\ (S!Secure <=> S!Secure')
    BY ServerSteps DEF serverVars, S!PlainHTTP, S!CollectKeys, S!LoadKey, S!KeysLoaded, S!ServerFailed,
         S!BeginShutdown, S!Drained, S!ShutdownTimeout, S!Listen, S!ListenerClosed,
         S!ListenerBroken, S!Cancel, S!Arrive, S!Answer, S!Stream, S!AllKeys, S!Secure
  <1>a. S!AllKeys \in Seq(S!Outcome) /\ Len(S!AllKeys) \in Nat
    BY AllKeysFacts
  <1> DEFINE First(e) == \A i \in DOMAIN S!AllKeys :
               (S!AllKeys[i] # "ok" /\ \A j \in 1..(i - 1) : S!AllKeys[j] = "ok") => e = S!AllKeys[i]
  <1>f. S!FirstKeyErrorReturned <=> (pc = "returned" /\ S!Secure => First(result))
    BY DEF S!FirstKeyErrorReturned, S!AllKeys
  <1>g. (pc' = "returned" /\ S!Secure => First(result')) => S!FirstKeyErrorReturned'
    BY <1>1 DEF S!FirstKeyErrorReturned, S!AllKeys, S!Secure
  <1>2. CASE (pc' = pc \/ pc' # "returned") /\ result' = result
    BY <1>2, <1>f, <1>g
  <1>3. CASE S!CollectKeys
    <2>1. keys' = S!AllKeys
      BY <1>3 DEF S!CollectKeys, S!AllKeys
    <2>2. pc' = "returned" => S!AllKeys = << >>
      BY <1>3, <2>1 DEF S!CollectKeys
    <2>3. QED
      BY <1>g, <2>2
  <1>4. CASE S!LoadKey /\ Head(keys) # "ok"
    <2>1. PICK d \in 0..Len(S!AllKeys) :
            /\ Len(keys) = Len(S!AllKeys) - d
            /\ \A j \in 1..Len(keys) : keys[j] = S!AllKeys[d + j]
            /\ \A j \in 1..d : S!AllKeys[j] = "ok"
      BY <1>4 DEF S!LoadKey, S!StartedInOrder, S!GoodSoFar
    <2>2. result' = keys[1] /\ Len(keys) \in Nat \ {0} /\ keys[1] # "ok"
      BY <1>4, KeysFacts DEF S!LoadKey, S!Return, S!TypeOK
    <2>3. d \in Nat /\ d + 1 \in 1..Len(S!AllKeys) /\ S!AllKeys[d + 1] = keys[1]
      BY <1>a, <2>1, <2>2
    <2>4. ASSUME NEW i \in DOMAIN S!AllKeys, S!AllKeys[i] # "ok",
                 \A j \in 1..(i - 1) : S!AllKeys[j] = "ok"
          PROVE  result' = S!AllKeys[i]
      <3>1. i \in 1..Len(S!AllKeys)
        BY <1>a
      <3>2. i > d
        BY <2>1, <2>4, <3>1
      <3>3. i <= d + 1
        BY <2>2, <2>3, <2>4, <3>1
      <3>4. i = d + 1
        BY <2>3, <3>1, <3>2, <3>3
      <3>5. QED
        BY <2>2, <2>3, <3>4
    <2>5. QED
      BY <1>g, <2>4
  <1>5. CASE S!LoadKey /\ Head(keys) = "ok"
    BY <1>2, <1>5 DEF S!LoadKey
  <1>6. CASE S!ServerFailed \/ S!Drained \/ S!ShutdownTimeout
    <2>1. serve # "none"
      BY <1>6 DEF S!ServerFailed, S!Drained, S!ShutdownTimeout, S!StartedInOrder
    <2>2. S!Secure => First(result')
      BY <1>a, <2>1 DEF S!StartedInOrder, S!AllGood
    <2>3. QED
      BY <1>g, <2>2
  <1>7. QED
    BY <1>2, <1>3, <1>4, <1>5, <1>6, ServerSteps
       DEF serverVars, S!PlainHTTP, S!KeysLoaded, S!BeginShutdown, S!Listen, S!ListenerClosed,
           S!ListenerBroken, S!Cancel, S!Arrive, S!Answer, S!Stream

LEMMA ServerStepLeftWaiting ==
    ASSUME S!TypeOK, S!StartedInOrder, S!LeftWaitingOnlyByShutdown, [Next]_vars
    PROVE  S!LeftWaitingOnlyByShutdown'
  <1>1. CASE S!CollectKeys \/ S!LoadKey
    <2>1. serve' = "none"
      BY <1>1 DEF S!CollectKeys, S!LoadKey, S!StartedInOrder
    <2>2. QED
      BY <2>1 DEF S!LeftWaitingOnlyByShutdown
  <1>2. CASE S!ServerFailed \/ S!Drained \/ S!ShutdownTimeout
    BY <1>2 DEF S!ServerFailed, S!Drained, S!ShutdownTimeout, S!Return, S!LeftWaitingOnlyByShutdown
  <1>3. CASE S!Listen \/ S!ListenerClosed \/ S!ListenerBroken
    BY <1>3 DEF S!Listen, S!ListenerClosed, S!ListenerBroken, S!LeftWaitingOnlyByShutdown
  <1>4. QED
    BY <1>1, <1>2, <1>3, ServerSteps
       DEF serverVars, S!PlainHTTP, S!KeysLoaded, S!BeginShutdown, S!Cancel, S!Arrive, S!Answer, S!Stream,
           S!LeftWaitingOnlyByShutdown

\* Whom the configuration admits speaks a version it names, and has an authority
\* that could be loaded.
LEMMA AdmittedClients ==
    ASSUME S!WellFormed(cfg), S!AdmittedOnly
    PROVE  S!ClientsAreAdmitted
  <1> SUFFICES ASSUME NEW r \in Requests, S!Secure, req[r] \in {"open", "answered"}
               PROVE  /\ cfg.min \notin DOMAIN S!Known => 13 \in cfg.clients[r].versions
                      /\ cfg.max \in DOMAIN S!Known =>
                           \E v \in cfg.clients[r].versions : v <= S!Known[cfg.max]
                      /\ cfg.mtls => /\ cfg.clients[r].issuer \notin {"none", "missing", "legacy"}
                                     /\ cfg.clients[r].issuer = "system" => cfg.system
    BY DEF S!ClientsAreAdmitted
  <1>1. S!Admits(cfg.clients[r])
    BY DEF S!AdmittedOnly
  <1>2. PICK v \in cfg.clients[r].versions : S!Version(cfg.min) <= v /\ v <= S!Version(cfg.max)
    BY <1>1 DEF S!Admits
  <1>3. v \in Int
    BY <1>2 DEF S!WellFormed
  <1>4. \A n \in DOMAIN S!Known : S!Known[n] \in 9..13
    BY DEF S!Known
  <1>5. S!Version(cfg.max) \in 9..13
    BY <1>4 DEF S!Version
  <1>6. cfg.min \notin DOMAIN S!Known => v = 13
    BY <1>2, <1>3, <1>5 DEF S!Version
  <1>7. cfg.max \in DOMAIN S!Known => v <= S!Known[cfg.max]
    BY <1>2 DEF S!Version
  <1>8. cfg.mtls => cfg.clients[r].issuer \in S!ClientCAs
    BY <1>1 DEF S!Admits
  <1>9. cfg.mtls => /\ cfg.clients[r].issuer \notin {"none", "missing", "legacy"}
                    /\ cfg.clients[r].issuer = "system" => cfg.system
    BY <1>8 DEF S!ClientCAs, S!CertPool, S!WellFormed
  <1>10. QED
    BY <1>2, <1>6, <1>7, <1>9

-----------------------------------------------------------------------------
(* The agents                                                              *)

SignalStep ==
    groupDone' = TRUE
    /\ UNCHANGED <<crew, agentAt, factoryAt, start, offered, agent, attempt, index, groupErr>>

\* What the goroutine of one agent does.
AgentStep(a) ==
    \/ A!Connect(a) \/ A!ConnectFails(a) \/ A!BackoffOver(a) \/ A!ConnectionLost(a) \/ A!Stop(a)
    \/ A!Move(a) \/ A!Test(a) \/ A!Wrap(a) \/ A!Read(a)

\* Each step of the gateway is one of the agents, or leaves them alone.
LEMMA AgentSteps ==
    ASSUME [Next]_vars
    PROVE  \/ UNCHANGED agentVars
           \/ A!NoAgents \/ A!BuildFails \/ A!Offer \/ A!Started \/ A!Wait
           \/ A!Alive /\ \E a \in A!Agents : AgentStep(a)
           \/ SignalStep
  BY DEF Next, vars, Main, Parse, LoadPlugins, StartAgents, BuildExecutors, RegisterEndpoints,
         WrapHandlers, RunServer, Serve, Request, RunAgent, AgentSettles, Signal, SignalStep,
         AgentStep, A!Start, A!Jitter

\* A step of an agent concerns that agent only.
LEMMA AgentStepFacts ==
    ASSUME A!TypeOK, NEW a \in A!Agents, AgentStep(a)
    PROVE  /\ UNCHANGED <<crew, agentAt, factoryAt, start, offered>>
           /\ \E state \in A!Working \cup {"connected", "failed", "stopped", "crashed"} :
                agent' = [agent EXCEPT ![a] = state]
           /\ agent[a] # "none"
           /\ attempt' \in [A!Agents -> 0..MaxAttempts]
           /\ index' \in Int
           /\ groupDone' \in BOOLEAN /\ groupErr' \in A!Agents \cup {0}
  <1>1. index \in Int /\ MaxAttempts \in Nat /\ RngLen \in Nat
    BY BoundsAssumption DEF A!TypeOK
  <1>2. CASE A!Connect(a) \/ A!BackoffOver(a) \/ A!ConnectionLost(a) \/ A!Stop(a)
    BY <1>2 DEF A!Connect, A!BackoffOver, A!ConnectionLost, A!Stop, A!Become, A!Quiet, A!TypeOK, A!Working
  <1>3. CASE A!ConnectFails(a)
    <2>1. attempt' \in [A!Agents -> 0..MaxAttempts]
      BY <1>1, <1>3 DEF A!ConnectFails, A!TypeOK
    <2>2. UNCHANGED index /\ A!Quiet /\ agent[a] = "connecting"
      BY <1>3 DEF A!ConnectFails
    <2>3. CASE A!ShouldContinue(a, attempt[a] + 1)
      BY <1>1, <1>3, <2>1, <2>2, <2>3 DEF A!ConnectFails, A!Become, A!Quiet, A!TypeOK, A!Working
    <2>4. CASE ~A!ShouldContinue(a, attempt[a] + 1)
      BY <1>1, <1>3, <2>1, <2>2, <2>4 DEF A!ConnectFails, A!Fail, A!Become, A!Quiet, A!TypeOK, A!Working
    <2>5. QED
      BY <2>3, <2>4
  <1>4. CASE A!Move(a) \/ A!Test(a) \/ A!Wrap(a) \/ A!Read(a)
    BY <1>1, <1>4 DEF A!Move, A!Test, A!Wrap, A!Read, A!Become, A!Quiet, A!TypeOK, A!Working
  <1>5. QED
    BY <1>2, <1>3, <1>4 DEF AgentStep

\* An agent is one of those configured.
LEMMA CrewFacts ==
    ASSUME A!WellFormed(crew)
    PROVE  /\ A!Agents = 1..Len(crew.agents) /\ Len(crew.agents) \in Nat /\ crew.factories \in Nat
           /\ \A a \in A!Agents : /\ crew.agents[a].retries \in Int
                                  /\ crew.agents[a].pipe \in BOOLEAN
                                  /\ crew.agents[a].jitter \in BOOLEAN
  <1> DEFINE Rec == [pipe : BOOLEAN, retries : Int, jitter : BOOLEAN, takers : SUBSET Nat]
  <1>1. crew.agents \in Seq(Rec)
    BY DEF A!WellFormed
  <1>2. \A x \in Rec : x.retries \in Int /\ x.pipe \in BOOLEAN /\ x.jitter \in BOOLEAN
    OBVIOUS
  <1> HIDE DEF Rec
  <1>3. A!Agents = 1..Len(crew.agents) /\ Len(crew.agents) \in Nat
    BY <1>1 DEF A!Agents
  <1>4. \A a \in A!Agents : crew.agents[a] \in Rec
    BY <1>1, <1>3
  <1>5. QED
    BY <1>2, <1>3, <1>4 DEF A!WellFormed

LEMMA AgentsStepTypeOK ==
    ASSUME A!WellFormed(crew), A!TypeOK, [Next]_vars
    PROVE  A!TypeOK'
  <1>0. /\ A!Agents = 1..Len(crew.agents) /\ Len(crew.agents) \in Nat /\ crew.factories \in Nat
        /\ agentAt \in Nat /\ factoryAt \in Nat
    BY CrewFacts DEF A!TypeOK
  <1>1. CASE UNCHANGED agentVars
    BY <1>1 DEF agentVars, A!TypeOK, A!Agents
  <1>2. CASE A!NoAgents \/ A!Started \/ A!Wait \/ SignalStep
    BY <1>2 DEF A!NoAgents, A!Started, A!Wait, SignalStep, A!TypeOK, A!Agents
  <1>3. CASE A!BuildFails
    <2>1. crew' = crew /\ A!Agents' = A!Agents
      BY <1>3 DEF A!BuildFails, A!Agents
    <2>2. agentAt' \in 1..(Len(crew.agents) + 1)
      BY <1>0, <1>3 DEF A!BuildFails
    <2>3. QED
      BY <1>3, <2>1, <2>2 DEF A!BuildFails, A!TypeOK
  <1>4. CASE A!Offer
    <2>1. crew' = crew /\ A!Agents' = A!Agents
      BY <1>4 DEF A!Offer, A!Agents
    <2>2. agentAt' \in 1..(Len(crew.agents) + 1) /\ factoryAt' \in {1} \cup 1..crew.factories
      BY <1>0, <1>4 DEF A!Offer, A!TypeOK
    <2>3. offered' \in [A!Agents -> Seq(1..crew.factories)]
      <3>1. factoryAt \in 1..crew.factories /\ agentAt \in A!Agents
        BY <1>0, <1>4 DEF A!Offer, A!TypeOK
      <3>2. offered[agentAt] \in Seq(1..crew.factories)
        BY <3>1 DEF A!TypeOK
      <3>3. Append(offered[agentAt], factoryAt) \in Seq(1..crew.factories)
        BY <3>1, <3>2
      <3>4. QED
        BY <1>4, <3>3 DEF A!Offer, A!TypeOK
    <2>4. agent' \in [A!Agents -> A!Working \cup {"none", "connected", "failed", "stopped", "crashed"}]
      BY <1>4 DEF A!Offer, A!TypeOK, A!Working
    <2>5. QED
      BY <1>4, <2>1, <2>2, <2>3, <2>4 DEF A!Offer, A!TypeOK
  <1>5. ASSUME NEW a \in A!Agents, AgentStep(a) PROVE A!TypeOK'
    <2>1. A!Agents' = A!Agents
      BY <1>5, AgentStepFacts DEF A!Agents
    <2>2. agent' \in [A!Agents -> A!Working \cup {"none", "connected", "failed", "stopped", "crashed"}]
      BY <1>5, AgentStepFacts DEF A!TypeOK
    <2>3. QED
      BY <1>5, <2>1, <2>2, AgentStepFacts DEF A!TypeOK
  <1>6. QED
    BY <1>1, <1>2, <1>3, <1>4, <1>5, AgentSteps

\* The list of the first n factories.
LEMMA FirstFactories ==
    ASSUME NEW n \in Nat
    PROVE  /\ Len([k0 \in 1..n |-> k0]) = n
           /\ Append([k0 \in 1..n |-> k0], n + 1) = [k0 \in 1..(n + 1) |-> k0]
  <1>1. [k0 \in 1..n |-> k0] \in Seq(Nat) /\ Len([k0 \in 1..n |-> k0]) = n
    OBVIOUS
  <1>2. Append([k0 \in 1..n |-> k0], n + 1) \in Seq(Nat) /\ Len(Append([k0 \in 1..n |-> k0], n + 1)) = n + 1
    BY <1>1
  <1>3. [k0 \in 1..(n + 1) |-> k0] \in Seq(Nat) /\ Len([k0 \in 1..(n + 1) |-> k0]) = n + 1
    OBVIOUS
  <1>4. \A k0 \in 1..(n + 1) : Append([j \in 1..n |-> j], n + 1)[k0] = [j \in 1..(n + 1) |-> j][k0]
    BY <1>1
  <1>5. QED
    BY <1>1, <1>2, <1>3, <1>4

\* What was offered stays as it was while agents run.
LEMMA OfferedStays ==
    ASSUME NEW a \in A!Agents, A!OfferedToOne(a), crew' = crew, offered'[a] = offered[a],
           agent[a] = "none" => agent'[a] = "none"
    PROVE  A!OfferedToOne(a)'
  BY DEF A!OfferedToOne

LEMMA AgentsStepOfferedSoFar ==
    ASSUME A!WellFormed(crew), A!TypeOK, A!OfferedSoFar, [Next]_vars
    PROVE  A!OfferedSoFar'
  <1>0. /\ A!Agents = 1..Len(crew.agents) /\ Len(crew.agents) \in Nat /\ crew.factories \in Nat
        /\ agentAt \in Nat /\ factoryAt \in Nat /\ factoryAt >= 1 /\ agentAt >= 1
    BY CrewFacts DEF A!TypeOK
  <1>1. CASE UNCHANGED agentVars
    BY <1>1 DEF agentVars, A!OfferedSoFar, A!OfferedToOne, A!Agents
  <1>2. CASE A!NoAgents \/ A!Started \/ A!Wait \/ SignalStep
    <2>1. /\ UNCHANGED <<crew, agentAt, factoryAt, offered, agent>>
          /\ start' \in {"wait", "returned"} =>
               \/ start \in {"wait", "returned"}
               \/ crew.factories > 0 /\ agentAt > Len(crew.agents)
      BY <1>2 DEF A!NoAgents, A!Started, A!Wait, SignalStep
    <2>2. A!Agents' = A!Agents /\ \A a : A!OfferedToOne(a) <=> A!OfferedToOne(a)'
      BY <2>1 DEF A!OfferedToOne, A!Agents
    <2>3. QED
      BY <2>1, <2>2 DEF A!OfferedSoFar
  <1>3. CASE A!BuildFails
    <2>1. /\ UNCHANGED <<crew, factoryAt, start, offered, agent>> /\ factoryAt = 1
          /\ A!Agents' = A!Agents /\ agentAt' = agentAt + 1 /\ agentAt \in A!Agents
          /\ start = "running" /\ ~crew.agents[agentAt].pipe
      BY <1>3 DEF A!BuildFails, A!Agents
    <2>2. offered[agentAt] = [k0 \in 1..0 |-> k0]
      BY <1>0, <2>1 DEF A!OfferedSoFar
    <2>3. Len(offered[agentAt]) = 0 /\ 1..(Len(offered[agentAt]) - 1) = {}
      BY <2>2, FirstFactories
    <2>4. A!OfferedToOne(agentAt)
      BY <2>1, <2>2, <2>3 DEF A!OfferedToOne
    <2>5. \A a \in A!Agents : a < agentAt' => A!OfferedToOne(a)'
      BY <1>0, <2>1, <2>4, OfferedStays DEF A!OfferedSoFar
    <2>6. \A a \in A!Agents : a >= agentAt' =>
            agent'[a] = "none" /\ offered'[a] = [k0 \in 1..(IF a = agentAt' THEN factoryAt' - 1 ELSE 0) |-> k0]
      BY <1>0, <2>1 DEF A!OfferedSoFar
    <2>7. QED
      BY <2>1, <2>5, <2>6 DEF A!OfferedSoFar
  <1>4. CASE A!Offer
    <2>a. PICK b : b = agentAt
      OBVIOUS
    <2>b. PICK n : n = factoryAt
      OBVIOUS
    <2>c. \A a \in A!Agents :
            /\ a < agentAt => A!OfferedToOne(a)
            /\ a > agentAt => agent[a] = "none" /\ offered[a] = [k0 \in 1..0 |-> k0]
      <3>1. SUFFICES ASSUME NEW a \in A!Agents
                     PROVE  /\ a < agentAt => A!OfferedToOne(a)
                            /\ a > agentAt => agent[a] = "none" /\ offered[a] = [k0 \in 1..0 |-> k0]
        OBVIOUS
      <3>2. /\ a < agentAt => A!OfferedToOne(a)
            /\ a >= agentAt => /\ agent[a] = "none"
                               /\ offered[a] = [k0 \in 1..(IF a = agentAt THEN factoryAt - 1 ELSE 0) |-> k0]
        BY DEF A!OfferedSoFar
      <3>3. QED
        BY <1>0, <3>2
    <2> DEFINE taken == n \in crew.agents[b].takers
    <2>1. /\ UNCHANGED <<crew, start>> /\ A!Agents' = A!Agents /\ b \in A!Agents
          /\ start = "running" /\ crew.agents[b].pipe /\ n <= crew.factories
          /\ offered' = [offered EXCEPT ![b] = Append(@, n)]
          /\ agent' = [agent EXCEPT ![b] = IF taken THEN "connecting" ELSE @]
          /\ factoryAt' = (IF taken \/ n = crew.factories THEN 1 ELSE n + 1)
          /\ agentAt' = (IF taken \/ n = crew.factories THEN b + 1 ELSE b)
      BY <1>4, <2>a, <2>b DEF A!Offer, A!Agents
    <2>2. /\ offered[b] = [k0 \in 1..(n - 1) |-> k0] /\ agent[b] = "none"
          /\ \A k0 \in 1..(n - 1) : k0 \notin crew.agents[b].takers
      BY <1>0, <2>a, <2>b, <2>1 DEF A!OfferedSoFar
    <2> HIDE DEF taken
    <2>3. n \in Nat /\ n >= 1 /\ n - 1 \in Nat /\ (n - 1) + 1 = n /\ b \in Nat
      BY <1>0, <2>a, <2>b
    <2>4. Append(offered[b], n) = [k0 \in 1..n |-> k0] /\ Len([k0 \in 1..n |-> k0]) = n
      BY <2>2, <2>3, FirstFactories
    <2>5. /\ offered'[b] = [k0 \in 1..n |-> k0] /\ Len(offered'[b]) = n
          /\ agent'[b] = IF taken THEN "connecting" ELSE "none"
      BY <2>1, <2>2, <2>4 DEF A!TypeOK
    <2>6. \A a \in A!Agents \ {b} : offered'[a] = offered[a] /\ agent'[a] = agent[a]
      BY <2>1 DEF A!TypeOK
    <2>7. ASSUME NEW a \in A!Agents, a < b PROVE A!OfferedToOne(a)'
      <3>1. a # b /\ A!OfferedToOne(a)
        BY <2>a, <2>c, <2>3, <2>7
      <3>2. offered'[a] = offered[a] /\ agent'[a] = agent[a] /\ crew' = crew
        BY <2>1, <2>6, <3>1
      <3>3. QED
        BY <3>1, <3>2, OfferedStays
    <2>8. CASE taken \/ n = crew.factories
      <3>1. A!OfferedToOne(b)'
        <4>1. crew' = crew /\ Len(offered'[b]) = n /\ n # 0 /\ crew.agents[b].pipe
          BY <2>1, <2>3, <2>5
        <4>2. offered'[b] = [k0 \in 1..n |-> k0] /\ \A k0 \in 1..(n - 1) : k0 \notin crew.agents[b].takers
          BY <2>2, <2>5
        <4>3. n \in crew.agents[b].takers \/ (n = crew.factories /\ agent'[b] = "none")
          BY <2>5, <2>8 DEF taken
        <4>4. QED
          BY <4>1, <4>2, <4>3 DEF A!OfferedToOne
      <3>2. agentAt' = b + 1 /\ factoryAt' = 1 /\ crew' = crew /\ A!Agents' = A!Agents
        BY <2>1, <2>8
      <3>3. ASSUME NEW a \in A!Agents, a < b + 1 PROVE A!OfferedToOne(a)'
        <4>1. CASE a = b
          BY <3>1, <4>1
        <4>2. CASE a # b
          BY <1>0, <2>3, <2>7, <3>3, <4>2
        <4>3. QED
          BY <4>1, <4>2
      <3>4. ASSUME NEW a \in A!Agents, a >= b + 1
            PROVE  agent'[a] = "none" /\ offered'[a] = [k0 \in 1..0 |-> k0]
        <4>1. a # b /\ a > b /\ offered'[a] = offered[a] /\ agent'[a] = agent[a]
          BY <1>0, <2>3, <2>6, <3>4
        <4>2. QED
          BY <2>a, <2>c, <3>4, <4>1
      <3>5. QED
        BY <1>0, <2>1, <2>3, <3>2, <3>3, <3>4 DEF A!OfferedSoFar
    <2>9. CASE ~(taken \/ n = crew.factories)
      <3>1. agentAt' = b /\ factoryAt' = n + 1 /\ agent'[b] = "none" /\ crew' = crew
        BY <2>1, <2>5, <2>9
      <3>2. \A k0 \in 1..n : k0 \notin crew.agents[b].takers
        BY <2>2, <2>3, <2>9 DEF taken
      <3>3. ASSUME NEW a \in A!Agents, a >= b
            PROVE  /\ agent'[a] = "none"
                   /\ offered'[a] = [k0 \in 1..(IF a = b THEN n ELSE 0) |-> k0]
        <4>1. CASE a = b
          BY <2>5, <3>1, <4>1
        <4>2. CASE a # b
          BY <1>0, <2>a, <2>6, <3>3, <4>2 DEF A!OfferedSoFar
        <4>3. QED
          BY <4>1, <4>2
      <3>4. (n + 1) - 1 = n
        BY <2>3
      <3>5. QED
        BY <2>1, <2>7, <3>1, <3>2, <3>3, <3>4 DEF A!OfferedSoFar
    <2>10. QED
      BY <2>8, <2>9
  <1>5. ASSUME NEW b \in A!Agents, AgentStep(b) PROVE A!OfferedSoFar'
    <2>1. /\ UNCHANGED <<crew, agentAt, factoryAt, start, offered>>
          /\ agent[b] # "none" /\ \A a \in A!Agents \ {b} : agent'[a] = agent[a]
      BY <1>5, AgentStepFacts DEF A!TypeOK
    <2>2. A!Agents' = A!Agents
      BY <2>1 DEF A!Agents
    <2>3. \A a \in A!Agents : A!OfferedToOne(a) => A!OfferedToOne(a)'
      BY <2>1, OfferedStays
    <2>4. QED
      BY <2>1, <2>2, <2>3 DEF A!OfferedSoFar
  <1>6. QED
    BY <1>1, <1>2, <1>3, <1>4, <1>5, AgentSteps

\* An agent that does not fail a connection keeps its attempts, and does not fail.
LEMMA OtherStepFacts ==
    ASSUME A!TypeOK, NEW a \in A!Agents, AgentStep(a), ~A!ConnectFails(a)
    PROVE  /\ attempt' = attempt /\ agent'[a] # "failed" /\ agent[a] # "failed"
           /\ \A b \in A!Agents \ {a} : agent'[b] = agent[b]
  <1>1. CASE A!Connect(a) \/ A!BackoffOver(a) \/ A!ConnectionLost(a) \/ A!Stop(a)
    BY <1>1 DEF A!Connect, A!BackoffOver, A!ConnectionLost, A!Stop, A!Become, A!TypeOK
  <1>2. CASE A!Move(a) \/ A!Test(a) \/ A!Wrap(a) \/ A!Read(a)
    BY <1>2 DEF A!Move, A!Test, A!Wrap, A!Read, A!Become, A!TypeOK
  <1>3. QED
    BY <1>1, <1>2 DEF AgentStep

\* A failed connection is one more attempt, and the end of the agent that has no
\* more of them.
LEMMA ConnectFailsFacts ==
    ASSUME A!TypeOK, NEW a \in A!Agents, A!ConnectFails(a)
    PROVE  /\ UNCHANGED <<crew, index>> /\ agent[a] = "connecting"
           /\ attempt'[a] = attempt[a] + 1
           /\ \A b \in A!Agents \ {a} : agent'[b] = agent[b] /\ attempt'[b] = attempt[b]
           /\ A!ShouldContinue(a, attempt[a] + 1) =>
                agent'[a] = IF crew.agents[a].jitter THEN "move" ELSE "backoff"
           /\ ~A!ShouldContinue(a, attempt[a] + 1) => agent'[a] = "failed"
  <1>1. /\ UNCHANGED <<crew, index>> /\ agent[a] = "connecting"
        /\ attempt'[a] = attempt[a] + 1
        /\ \A b \in A!Agents \ {a} : attempt'[b] = attempt[b]
    BY DEF A!ConnectFails, A!Quiet, A!TypeOK
  <1>2. CASE A!ShouldContinue(a, attempt[a] + 1)
    BY <1>1, <1>2 DEF A!ConnectFails, A!Become, A!TypeOK
  <1>3. CASE ~A!ShouldContinue(a, attempt[a] + 1)
    BY <1>1, <1>3 DEF A!ConnectFails, A!Fail, A!Become, A!TypeOK
  <1>4. QED
    BY <1>1, <1>2, <1>3

LEMMA AgentsStepRetries ==
    ASSUME A!WellFormed(crew), A!TypeOK, A!OfferedSoFar, A!RetriesLeft,
           A!GivesUpOnItsOwn, [Next]_vars
    PROVE  A!RetriesLeft' /\ A!GivesUpOnItsOwn'
  <1>0. /\ \A a \in A!Agents : crew.agents[a].retries \in Int
        /\ \A a \in A!Agents : attempt[a] \in Int
    BY CrewFacts, BoundsAssumption DEF A!TypeOK
  <1>1. CASE UNCHANGED <<crew, agent, attempt>>
    BY <1>1 DEF A!RetriesLeft, A!GivesUpOnItsOwn, A!Agents
  <1>2. CASE A!Offer
    <2>1. /\ UNCHANGED <<crew, attempt>> /\ A!Agents' = A!Agents /\ agentAt \in A!Agents
          /\ \A a \in A!Agents : agent'[a] = agent[a] \/ (a = agentAt /\ agent'[a] = "connecting")
      BY <1>2 DEF A!Offer, A!Agents, A!TypeOK
    <2>2. agent[agentAt] = "none"
      <3>1. agentAt \in Nat /\ agentAt >= agentAt
        BY <2>1, CrewFacts
      <3>2. \A a \in A!Agents : a >= agentAt => agent[a] = "none"
        BY DEF A!OfferedSoFar
      <3>3. QED
        BY <2>1, <3>1, <3>2
    <2>3. \A a \in A!Agents : agent'[a] = "failed" <=> agent[a] = "failed"
      BY <2>1, <2>2
    <2>4. QED
      BY <2>1, <2>3 DEF A!RetriesLeft, A!GivesUpOnItsOwn
  <1>3. ASSUME NEW a \in A!Agents, AgentStep(a) PROVE A!RetriesLeft' /\ A!GivesUpOnItsOwn'
    <2>1. crew' = crew /\ A!Agents' = A!Agents
      BY <1>3, AgentStepFacts DEF A!Agents
    <2>2. CASE A!ConnectFails(a)
      <3>1. A!ShouldContinue(a, attempt[a] + 1) <=>
              (crew.agents[a].retries <= 0 \/ attempt[a] + 1 <= crew.agents[a].retries)
        BY DEF A!ShouldContinue
      <3>2. agent[a] = "connecting" /\ attempt'[a] = attempt[a] + 1
        BY <2>2, ConnectFailsFacts
      <3>3. crew.agents[a].retries > 0 => attempt[a] <= crew.agents[a].retries
        BY <3>2 DEF A!RetriesLeft
      <3>4. /\ (crew.agents[a].retries > 0 /\ agent'[a] # "failed") => attempt'[a] <= crew.agents[a].retries
            /\ agent'[a] = "failed" =>
                 crew.agents[a].retries > 0 /\ attempt'[a] = crew.agents[a].retries + 1
        BY <1>0, <2>2, <3>1, <3>2, <3>3, ConnectFailsFacts
      <3>5. \A b \in A!Agents \ {a} : agent'[b] = agent[b] /\ attempt'[b] = attempt[b]
        BY <2>2, ConnectFailsFacts
      <3>6. QED
        BY <2>1, <3>4, <3>5 DEF A!RetriesLeft, A!GivesUpOnItsOwn
    <2>3. CASE ~A!ConnectFails(a)
      BY <1>3, <2>1, <2>3, OtherStepFacts DEF A!RetriesLeft, A!GivesUpOnItsOwn
    <2>4. QED
      BY <2>2, <2>3
  <1>4. QED
    BY <1>1, <1>2, <1>3, AgentSteps
       DEF agentVars, A!NoAgents, A!BuildFails, A!Started, A!Wait, SignalStep

Drawing == {"move", "test", "wrap", "read"}

\* At most one agent draws jitter.
OneDraws ==
    \A a, b \in A!Agents : crew.agents[a].jitter /\ crew.agents[b].jitter => a = b

\* A draw moves the index down, and back to the top if it fell off the ring.
LEMMA DrawFacts ==
    ASSUME A!TypeOK, A!DrawsAlone, OneDraws, NEW a \in A!Agents, agent[a] \in Drawing,
           A!Move(a) \/ A!Test(a) \/ A!Wrap(a) \/ A!Read(a)
    PROVE  /\ index' \in -1..(RngLen - 1)
           /\ index' = -1 => agent'[a] \in {"test", "wrap"}
           /\ agent'[a] = "test" => index' < RngLen - 1
           /\ agent'[a] = "wrap" => index' = -1
           /\ agent'[a] \in Drawing \cup {"backoff"}
  <1>1. index \in Int /\ RngLen \in Nat /\ RngLen > 0
    BY BoundsAssumption DEF A!TypeOK
  <1>2. crew.agents[a].jitter
    BY DEF A!DrawsAlone, Drawing
  <1>3. /\ index \in -1..(RngLen - 1)
        /\ index = -1 => \E b \in A!Agents : agent[b] \in {"test", "wrap"}
        /\ agent[a] = "test" => index < RngLen - 1
        /\ agent[a] = "wrap" => index = -1
    BY DEF A!DrawsAlone, OneDraws
  <1>4. \A b \in A!Agents : agent[b] \in {"test", "wrap"} => b = a
    BY <1>2 DEF A!DrawsAlone, OneDraws
  <1>5. index = -1 => agent[a] \in {"test", "wrap"}
    BY <1>3, <1>4
  <1>6. CASE A!Move(a)
    BY <1>1, <1>3, <1>5, <1>6 DEF A!Move, A!Become, A!TypeOK, Drawing
  <1>7. CASE A!Test(a)
    BY <1>1, <1>3, <1>5, <1>7 DEF A!Test, A!Become, A!TypeOK, Drawing
  <1>8. CASE A!Wrap(a)
    BY <1>1, <1>3, <1>5, <1>8 DEF A!Wrap, A!Become, A!TypeOK, Drawing
  <1>9. CASE A!Read(a)
    BY <1>1, <1>3, <1>5, <1>9 DEF A!Read, A!Become, A!TypeOK, Drawing
  <1>10. QED
    BY <1>6, <1>7, <1>8, <1>9

\* What the other steps of an agent do to its draws: they leave the index, and an
\* agent begins to draw only if it has jitter.
LEMMA UndrawnFacts ==
    ASSUME A!TypeOK, NEW a \in A!Agents, AgentStep(a), agent[a] \notin Drawing
    PROVE  /\ index' = index /\ agent'[a] \notin Drawing \ {"move"}
           /\ agent'[a] = "move" => crew.agents[a].jitter
  <1>1. CASE A!Connect(a) \/ A!BackoffOver(a) \/ A!ConnectionLost(a) \/ A!Stop(a)
    BY <1>1 DEF A!Connect, A!BackoffOver, A!ConnectionLost, A!Stop, A!Become, A!TypeOK, Drawing
  <1>2. CASE A!ConnectFails(a)
    BY <1>2, ConnectFailsFacts DEF Drawing
  <1>3. CASE A!Move(a) \/ A!Test(a) \/ A!Wrap(a) \/ A!Read(a)
    BY <1>3 DEF A!Move, A!Test, A!Wrap, A!Read, Drawing
  <1>4. QED
    BY <1>1, <1>2, <1>3 DEF AgentStep

\* An agent that is drawing goes on to draw.
LEMMA DrawingGoesOn ==
    ASSUME NEW a \in A!Agents, AgentStep(a), agent[a] \in Drawing
    PROVE  A!Move(a) \/ A!Test(a) \/ A!Wrap(a) \/ A!Read(a)
  BY DEF AgentStep, Drawing, A!Connect, A!ConnectFails, A!BackoffOver, A!ConnectionLost, A!Stop

LEMMA AgentsStepDrawsAlone ==
    ASSUME A!WellFormed(crew), A!TypeOK, A!OfferedSoFar, A!DrawsAlone, A!JitterSafeAlone, [Next]_vars
    PROVE  A!DrawsAlone' /\ A!JitterSafeAlone'
  <1>1. CASE UNCHANGED <<crew, agent, index>>
    BY <1>1 DEF A!DrawsAlone, A!JitterSafeAlone, A!Alive, A!Agents
  <1>2. CASE A!Offer
    <2>1. /\ UNCHANGED <<crew, index>> /\ A!Agents' = A!Agents /\ agentAt \in A!Agents
          /\ \A a \in A!Agents : agent'[a] = agent[a] \/ (a = agentAt /\ agent'[a] = "connecting")
      BY <1>2 DEF A!Offer, A!Agents, A!TypeOK
    <2>2. agent[agentAt] = "none"
      <3>1. agentAt \in Nat /\ agentAt >= agentAt
        BY <2>1, CrewFacts
      <3>2. \A a \in A!Agents : a >= agentAt => agent[a] = "none"
        BY DEF A!OfferedSoFar
      <3>3. QED
        BY <2>1, <3>1, <3>2
    <2>3. \A a \in A!Agents, s \in Drawing \cup {"crashed"} : agent'[a] = s <=> agent[a] = s
      BY <2>1, <2>2 DEF Drawing
    <2>4. A!JitterSafeAlone'
      BY <2>1, <2>3 DEF A!JitterSafeAlone, A!Alive
    <2>5. \A a \in A!Agents : /\ agent'[a] = "test" <=> agent[a] = "test"
                              /\ agent'[a] = "wrap" <=> agent[a] = "wrap"
                              /\ agent'[a] = "move" <=> agent[a] = "move"
                              /\ agent'[a] = "read" <=> agent[a] = "read"
      BY <2>3 DEF Drawing
    <2>6. A!DrawsAlone'
      BY <2>1, <2>5 DEF A!DrawsAlone
    <2>7. QED
      BY <2>4, <2>6
  <1>3. ASSUME NEW a \in A!Agents, AgentStep(a) PROVE A!DrawsAlone' /\ A!JitterSafeAlone'
    <2>1. /\ crew' = crew /\ A!Agents' = A!Agents
          /\ \A b \in A!Agents \ {a} : agent'[b] = agent[b]
      BY <1>3, AgentStepFacts DEF A!Agents, A!TypeOK
    <2>2. CASE agent[a] \in Drawing
      <3>1. crew.agents[a].jitter /\ (A!Move(a) \/ A!Test(a) \/ A!Wrap(a) \/ A!Read(a))
        BY <1>3, <2>2, DrawingGoesOn DEF A!DrawsAlone, Drawing
      <3>2. CASE OneDraws
        <4>1. \A b \in A!Agents \ {a} : agent[b] \notin Drawing
          BY <3>1, <3>2 DEF A!DrawsAlone, Drawing, OneDraws
        <4>2. /\ index' \in -1..(RngLen - 1)
              /\ index' = -1 => agent'[a] \in {"test", "wrap"}
              /\ agent'[a] = "test" => index' < RngLen - 1
              /\ agent'[a] = "wrap" => index' = -1
              /\ agent'[a] \in Drawing \cup {"backoff"}
          BY <2>2, <3>1, <3>2, DrawFacts
        <4>3. A!DrawsAlone'
          BY <2>1, <3>1, <4>1, <4>2 DEF A!DrawsAlone, Drawing
        <4>4. A!JitterSafeAlone'
          BY <2>1, <4>2 DEF A!JitterSafeAlone, A!Alive, Drawing
        <4>5. QED
          BY <4>3, <4>4
      <3>3. CASE ~OneDraws
        <4>1. \E b, c \in A!Agents : b # c /\ crew.agents[b].jitter /\ crew.agents[c].jitter
          BY <3>3 DEF OneDraws
        <4>2. \A b \in A!Agents : agent'[b] \in Drawing => crew.agents[b].jitter
          BY <2>1, <3>1 DEF A!DrawsAlone, Drawing
        <4>3. QED
          BY <2>1, <4>1, <4>2 DEF A!DrawsAlone, A!JitterSafeAlone, Drawing
      <3>4. QED
        BY <3>2, <3>3
    <2>3. CASE agent[a] \notin Drawing
      <3>1. /\ index' = index /\ agent'[a] \notin Drawing \ {"move"}
            /\ agent'[a] = "move" => crew.agents[a].jitter
        BY <1>3, <2>3, UndrawnFacts
      <3>2. A!DrawsAlone'
        BY <2>1, <2>3, <3>1 DEF A!DrawsAlone, Drawing
      <3>3. agent'[a] # "crashed"
        BY <1>3, <2>3, ConnectFailsFacts
           DEF AgentStep, A!Connect, A!BackoffOver, A!ConnectionLost, A!Stop, A!Move, A!Test, A!Wrap,
               A!Read, A!Become, A!TypeOK, Drawing
      <3>4. A!JitterSafeAlone'
        BY <2>1, <3>3 DEF A!JitterSafeAlone, A!Alive
      <3>5. QED
        BY <3>2, <3>4
    <2>4. QED
      BY <2>2, <2>3
  <1>4. QED
    BY <1>1, <1>2, <1>3, AgentSteps
       DEF agentVars, A!NoAgents, A!BuildFails, A!Started, A!Wait, SignalStep

-----------------------------------------------------------------------------
(* The loader of plugins                                                   *)

FilesTyped == files \in Seq(Plugins) /\ Len(files) <= MaxFiles

\* Each step of the gateway is one of the loader, or leaves it alone.
LEMMA LoaderSteps ==
    ASSUME [Next]_vars
    PROVE  \/ UNCHANGED pluginVars
           \/ P!Open \/ P!RegisterOne \/ P!OpenReturns \/ P!LoadReturns
           \/ P!WrapHandler \/ P!HandlerReady \/ \E n \in Names : P!BuildExecutor(n)
  BY DEF Next, vars, Main, Parse, LoadPlugins, StartAgents, BuildExecutors, RegisterEndpoints,
         WrapHandlers, RunServer, Serve, Request, RunAgent, AgentSettles, Signal

\* A file of the folder is a plugin.
LEMMA FilesFacts ==
    ASSUME FilesTyped
    PROVE  /\ DOMAIN files = 1..Len(files) /\ Len(files) \in Nat /\ MaxFiles \in Nat
           /\ \A j \in DOMAIN files :
                /\ files[j].opens \in BOOLEAN /\ files[j].panics \in BOOLEAN
                /\ DOMAIN files[j].registers = 1..Len(files[j].registers)
                /\ Len(files[j].registers) \in Nat
                /\ \A m \in DOMAIN files[j].registers :
                     /\ files[j].registers[m].name \in Names
                     /\ files[j].registers[m].kind \in {"ok", "error", "wrongType"}
  <1> DEFINE Rec == [name : Names, kind : {"ok", "error", "wrongType"}]
  <1>0. Plugins \subseteq [opens : BOOLEAN, panics : BOOLEAN, registers : Seq(Rec)]
    BY PluginsAssumption
  <1>2. \A r \in Rec : r.name \in Names /\ r.kind \in {"ok", "error", "wrongType"}
    OBVIOUS
  <1> HIDE DEF Rec
  <1>1. \A j \in DOMAIN files : files[j] \in Plugins
    BY DEF FilesTyped
  <1>3. \A j \in DOMAIN files : /\ files[j].opens \in BOOLEAN /\ files[j].panics \in BOOLEAN
                                /\ files[j].registers \in Seq(Rec)
    BY <1>0, <1>1
  <1>4. \A s \in Seq(Rec) : /\ DOMAIN s = 1..Len(s) /\ Len(s) \in Nat
                          /\ \A m \in DOMAIN s : s[m] \in Rec
    OBVIOUS
  <1>5. QED
    BY <1>2, <1>3, <1>4, PluginsAssumption DEF FilesTyped

\* The loader is done with a file: it is counted, or it is an error.
Advance ==
    /\ stage = "load" /\ k \in DOMAIN files
    /\ k' = k + 1 /\ step' = 0
    /\ P!Failing(k) => errors' = Append(errors, k) /\ loaded' = loaded
    /\ ~P!Failing(k) => errors' = errors /\ loaded' = loaded + 1
    /\ \A m \in DOMAIN files[k].registers : files[k].opens => m < step
    /\ UNCHANGED <<files, registry, fifo, handler, executor, user, stage>>

\* A file is opened, or it fails at once, or when its registrations are made.
LEMMA LoaderStepKinds ==
    ASSUME FilesTyped, P!TypeOK, P!LastSoFar, P!Open \/ P!OpenReturns
    PROVE  Advance \/ (step = 0 /\ step' = 1 /\ stage = "load" /\ k \in DOMAIN files /\ files[k].opens
                        /\ UNCHANGED <<files, k, registry, loaded, errors, fifo, handler, executor,
                                       user, stage>>)
  <1>1. k \in Nat /\ k >= 1
    BY FilesFacts DEF P!TypeOK
  <1>2. CASE P!Open
    BY <1>1, <1>2, FilesFacts DEF P!Open, P!PluginFailed, P!Failing, Advance
  <1>3. CASE P!OpenReturns
    <2>1. k \in DOMAIN files /\ stage = "load" /\ step = Len(files[k].registers) + 1
      BY <1>1, <1>3, FilesFacts DEF P!OpenReturns
    <2>2. step > 0
      BY <2>1, FilesFacts
    <2>3. files[k].opens
      BY <2>2 DEF P!LastSoFar
    <2>4. \A m \in DOMAIN files[k].registers : m < step
      BY <2>1, FilesFacts
    <2>5. CASE files[k].panics
      BY <1>3, <2>1, <2>4, <2>5 DEF P!OpenReturns, P!PluginFailed, P!Failing, Advance
    <2>6. CASE ~files[k].panics
      BY <1>3, <2>1, <2>3, <2>4, <2>6 DEF P!OpenReturns, P!Failing, Advance
    <2>7. QED
      BY <2>5, <2>6
  <1>4. QED
    BY <1>2, <1>3

\* The errors after one more.
LEMMA AppendError ==
    ASSUME NEW T, NEW s \in Seq(T), NEW e \in T
    PROVE  /\ Append(s, e) \in Seq(T) /\ Len(Append(s, e)) = Len(s) + 1
           /\ P!ToSet(Append(s, e)) = P!ToSet(s) \cup {e}
           /\ \A m \in 1..Len(s) : Append(s, e)[m] = s[m] /\ s[m] \in P!ToSet(s)
           /\ Append(s, e)[Len(s) + 1] = e
  <1>1. /\ Append(s, e) \in Seq(T) /\ Len(Append(s, e)) = Len(s) + 1 /\ Len(s) \in Nat
        /\ \A m \in 1..Len(s) : Append(s, e)[m] = s[m]
        /\ Append(s, e)[Len(s) + 1] = e
        /\ DOMAIN s = 1..Len(s) /\ DOMAIN Append(s, e) = 1..(Len(s) + 1)
    OBVIOUS
  <1>2. QED
    BY <1>1 DEF P!ToSet

LEMMA LoaderStepTypeOK ==
    ASSUME FilesTyped, fifo \in Seq(Names), P!TypeOK, P!EveryFileAccounted, P!LastSoFar, [Next]_vars
    PROVE  P!TypeOK' /\ FilesTyped' /\ (fifo \in Seq(Names))'
  <1>0. k \in Nat /\ k >= 1 /\ step \in Nat /\ loaded \in Nat /\ Len(errors) \in Nat
    BY FilesFacts, PluginsAssumption DEF P!TypeOK
  <1>1. CASE UNCHANGED pluginVars
    BY <1>1 DEF pluginVars, P!TypeOK, FilesTyped
  <1>2. CASE P!Open \/ P!OpenReturns
    <2>1. CASE Advance
      <3>1. k \in 1..Len(files) /\ k \in 1..MaxFiles /\ files' = files
        BY <1>0, <2>1, FilesFacts DEF Advance, FilesTyped
      <3>2. errors' \in Seq(1..MaxFiles)
        <4>1. errors \in Seq(1..MaxFiles)
          BY DEF P!TypeOK
        <4>2. Append(errors, k) \in Seq(1..MaxFiles)
          BY <3>1, <4>1
        <4>3. errors' = errors \/ errors' = Append(errors, k)
          BY <2>1 DEF Advance
        <4>4. QED
          BY <4>1, <4>2, <4>3
      <3>3. loaded' \in 0..MaxFiles
        <4>1. loaded + Len(errors) = k - 1
          BY DEF P!EveryFileAccounted
        <4>2. loaded' = loaded \/ loaded' = loaded + 1
          BY <2>1 DEF Advance
        <4>3. QED
          BY <1>0, <3>1, <4>1, <4>2, PluginsAssumption
      <3>4. k' \in 1..(Len(files') + 1) /\ step' \in Nat
        BY <1>0, <2>1, <3>1, FilesFacts DEF Advance
      <3>5. QED
        BY <2>1, <3>1, <3>2, <3>3, <3>4 DEF Advance, P!TypeOK, FilesTyped
    <2>2. CASE ~Advance
      BY <1>2, <2>2, LoaderStepKinds DEF P!TypeOK, FilesTyped
    <2>3. QED
      BY <2>1, <2>2
  <1>3. CASE P!RegisterOne
    <2>1. k \in DOMAIN files /\ k \in 1..MaxFiles
      BY <1>0, <1>3, FilesFacts DEF P!RegisterOne, FilesTyped
    <2> DEFINE r == files[k].registers[step]
    <2>2. r.name \in Names /\ r.kind \in {"ok", "error", "wrongType"}
      BY <1>3, <2>1, FilesFacts DEF P!RegisterOne
    <2>3. [name |-> r.name, from |-> k, kind |-> r.kind] \in P!Factory
      BY <2>1, <2>2 DEF P!Factory
    <2>4. registry' = [registry EXCEPT ![r.name] = [name |-> r.name, from |-> k, kind |-> r.kind]]
      BY <1>3 DEF P!RegisterOne
    <2> HIDE DEF r
    <2>5. registry' \in [Names -> P!Factory \cup {P!None}]
      BY <2>3, <2>4 DEF P!TypeOK
    <2>6. QED
      BY <1>0, <1>3, <2>5 DEF P!RegisterOne, P!TypeOK, FilesTyped
  <1>4. CASE P!LoadReturns
    BY <1>4 DEF P!LoadReturns, P!TypeOK, FilesTyped
  <1>5. CASE P!WrapHandler
    <2>1. Head(fifo) \in Names /\ Tail(fifo) \in Seq(Names)
      BY <1>5 DEF P!WrapHandler
    <2>2. registry[Head(fifo)].kind = "ok" => registry[Head(fifo)] \in P!Factory
      BY <2>1 DEF P!TypeOK, P!None
    <2>3. handler' \in Seq(P!Factory)
      BY <1>5, <2>2 DEF P!WrapHandler, P!TypeOK
    <2>4. QED
      BY <1>5, <2>1, <2>3 DEF P!WrapHandler, P!TypeOK, FilesTyped
  <1>6. CASE P!HandlerReady
    BY <1>6 DEF P!HandlerReady, P!TypeOK, FilesTyped
  <1>7. ASSUME NEW n \in Names, P!BuildExecutor(n) PROVE P!TypeOK' /\ FilesTyped' /\ (fifo \in Seq(Names))'
    BY <1>7 DEF P!BuildExecutor, P!TypeOK, FilesTyped
  <1>8. QED
    BY <1>1, <1>2, <1>3, <1>4, <1>5, <1>6, <1>7, LoaderSteps

LEMMA LoaderStepEveryFile ==
    ASSUME FilesTyped, P!TypeOK, P!EveryFileAccounted, P!LastSoFar, [Next]_vars
    PROVE  P!EveryFileAccounted'
  <1>0. k \in Nat /\ k >= 1 /\ loaded \in Nat /\ Len(errors) \in Nat /\ Len(files) \in Nat
    BY FilesFacts, PluginsAssumption DEF P!TypeOK
  <1>1. CASE UNCHANGED <<files, k, loaded, errors, stage>>
    BY <1>1 DEF P!EveryFileAccounted, P!Failing
  <1>2. CASE P!Open \/ P!OpenReturns
    <2>1. CASE Advance
      <3>1. PICK e : e = k
        OBVIOUS
      <3>2. /\ e \in 1..Len(files) /\ k' = e + 1 /\ stage' = "load" /\ files' = files
            /\ P!Failing(e) => errors' = Append(errors, e) /\ loaded' = loaded
            /\ ~P!Failing(e) => errors' = errors /\ loaded' = loaded + 1
        BY <2>1, <3>1, FilesFacts DEF Advance
      <3>3. /\ loaded + Len(errors) = e - 1
            /\ P!ToSet(errors) = {j \in 1..(e - 1) : P!Failing(j)}
            /\ \A m \in 2..Len(errors) : errors[m - 1] < errors[m]
        BY <3>1 DEF P!EveryFileAccounted
      <3>4. \A j : P!Failing(j)' <=> P!Failing(j)
        BY <3>2 DEF P!Failing
      <3>5. e \in Nat /\ e >= 1 /\ (e + 1) - 1 = e /\ 1..e = 1..(e - 1) \cup {e}
        BY <1>0, <3>1
      <3>6. CASE P!Failing(e)
        <4>1. PICK T : T = 1..MaxFiles
          OBVIOUS
        <4>a. errors \in Seq(T)
          BY <4>1 DEF P!TypeOK
        <4>b. e \in T
          BY <3>2, <3>5, <4>1, FilesFacts DEF FilesTyped
        <4>2. /\ Len(errors') = Len(errors) + 1 /\ P!ToSet(errors') = P!ToSet(errors) \cup {e}
              /\ \A m \in 1..Len(errors) : errors'[m] = errors[m] /\ errors[m] \in P!ToSet(errors)
              /\ errors'[Len(errors) + 1] = e
          <5>0. PICK s : s = errors
            OBVIOUS
          <5>a. s \in Seq(T)
            BY <4>a, <5>0
          <5>1. errors' = Append(s, e)
            BY <3>2, <3>6, <5>0
          <5>2. /\ Len(Append(s, e)) = Len(s) + 1
                /\ P!ToSet(Append(s, e)) = P!ToSet(s) \cup {e}
                /\ \A m \in 1..Len(s) : Append(s, e)[m] = s[m] /\ s[m] \in P!ToSet(s)
                /\ Append(s, e)[Len(s) + 1] = e
            BY <5>a, <4>b, AppendError
          <5>3. QED
            BY <5>0, <5>1, <5>2, Zenon
        <4>3. P!ToSet(errors') = {j \in 1..((e + 1) - 1) : P!Failing(j)}
          BY <3>3, <3>5, <3>6, <4>2
        <4>4. \A m \in 1..Len(errors) : errors[m] < e
          BY <3>3, <3>5, <4>2
        <4>5. ASSUME NEW m \in 2..Len(errors') PROVE errors'[m - 1] < errors'[m]
          <5>1. CASE m \in 2..Len(errors)
            BY <1>0, <3>3, <4>2, <5>1
          <5>2. CASE m = Len(errors) + 1
            BY <1>0, <4>2, <4>4, <4>5, <5>2
          <5>3. QED
            BY <1>0, <4>2, <4>5, <5>1, <5>2
        <4>6. loaded' + Len(errors') = (e + 1) - 1
          BY <1>0, <3>2, <3>3, <3>5, <3>6, <4>2
        <4>7. P!ToSet(errors)' = P!ToSet(errors')
          BY DEF P!ToSet
        <4>8. QED
          BY <3>2, <3>4, <4>3, <4>5, <4>6, <4>7 DEF P!EveryFileAccounted
      <3>7. CASE ~P!Failing(e)
        <4>1. errors' = errors /\ loaded' + Len(errors) = (e + 1) - 1
          BY <1>0, <3>2, <3>3, <3>5, <3>7
        <4>2. P!ToSet(errors) = {j \in 1..((e + 1) - 1) : P!Failing(j)}
          BY <3>3, <3>5, <3>7
        <4>3. P!ToSet(errors)' = P!ToSet(errors)
          BY <4>1 DEF P!ToSet
        <4>4. QED
          BY <3>2, <3>3, <3>4, <4>1, <4>2, <4>3 DEF P!EveryFileAccounted
      <3>8. QED
        BY <3>6, <3>7
    <2>2. CASE ~Advance
      BY <1>1, <1>2, <2>2, LoaderStepKinds
    <2>3. QED
      BY <2>1, <2>2
  <1>3. CASE P!LoadReturns
    <2>1. UNCHANGED <<files, k, loaded, errors>> /\ k = Len(files) + 1
      BY <1>0, <1>3 DEF P!LoadReturns, P!TypeOK
    <2>2. QED
      BY <2>1 DEF P!EveryFileAccounted, P!Failing
  <1>4. CASE P!HandlerReady
    BY <1>4 DEF P!HandlerReady, P!EveryFileAccounted, P!Failing
  <1>5. QED
    BY <1>1, <1>2, <1>3, <1>4, LoaderSteps DEF pluginVars, P!RegisterOne, P!WrapHandler, P!BuildExecutor

\* Who has registered a name.
LEMMA RegisteredFacts ==
    ASSUME NEW j, NEW n
    PROVE  n \in P!RegisteredBy(j) <=>
             \E m \in DOMAIN files[j].registers :
                /\ files[j].registers[m].name = n
                /\ files[j].opens /\ (j < k \/ (j = k /\ m < step))
  BY DEF P!RegisteredBy

LEMMA LoaderStepLast ==
    ASSUME FilesTyped, P!TypeOK, P!EveryFileAccounted, P!LastSoFar, [Next]_vars
    PROVE  P!LastSoFar'
  <1>0. k \in Nat /\ k >= 1 /\ step \in Nat /\ Len(files) \in Nat /\ DOMAIN files = 1..Len(files)
    BY FilesFacts, PluginsAssumption DEF P!TypeOK
  <1>1. CASE UNCHANGED <<files, k, step, registry>>
    BY <1>1 DEF P!LastSoFar, P!RegisteredBy
  <1>2. ASSUME files' = files, registry' = registry,
               \A j \in DOMAIN files, n \in Names : n \in P!RegisteredBy(j)' <=> n \in P!RegisteredBy(j)
        PROVE  \A n \in Names :
                /\ registry'[n].from \in {0} \cup {j \in DOMAIN files' : n \in P!RegisteredBy(j)'}
                /\ \A j \in DOMAIN files' : n \in P!RegisteredBy(j)' => j <= registry'[n].from
    BY <1>2 DEF P!LastSoFar
  <1>3. CASE P!Open \/ P!OpenReturns
    <2>1. /\ files' = files /\ registry' = registry
          /\ k' <= Len(files') => step' \in 0..(Len(files'[k'].registers) + 1)
          /\ k' > Len(files') => step' = 0
          /\ step' > 0 => files'[k'].opens
      BY <1>0, <1>3, LoaderStepKinds, FilesFacts DEF Advance
    <2>2. ASSUME NEW j \in DOMAIN files, NEW m \in DOMAIN files[j].registers, files[j].opens
          PROVE  (j < k' \/ (j = k' /\ m < step')) <=> (j < k \/ (j = k /\ m < step))
      <3>1. m \in Nat /\ m >= 1 /\ j \in Nat
        BY <1>0, FilesFacts
      <3>2. CASE Advance
        BY <1>0, <2>2, <3>1, <3>2 DEF Advance
      <3>3. CASE ~Advance
        BY <1>0, <1>3, <3>1, <3>3, LoaderStepKinds
      <3>4. QED
        BY <3>2, <3>3
    <2>3. ASSUME NEW j \in DOMAIN files, NEW n \in Names
          PROVE  n \in P!RegisteredBy(j)' <=> n \in P!RegisteredBy(j)
      BY <2>1, <2>2 DEF P!RegisteredBy
    <2>4. QED
      BY <1>2, <2>1, <2>3 DEF P!LastSoFar
  <1>4. CASE P!RegisterOne
    <2>1. PICK e, m0 : e = k /\ m0 = step
      OBVIOUS
    <2>2. PICK r : r = files[e].registers[m0]
      OBVIOUS
    <2>3. /\ e \in DOMAIN files /\ m0 \in DOMAIN files[e].registers /\ UNCHANGED <<files, k>>
          /\ step' = m0 + 1
          /\ registry' = [registry EXCEPT ![r.name] = [name |-> r.name, from |-> e, kind |-> r.kind]]
      BY <1>0, <1>4, <2>1, <2>2 DEF P!RegisterOne
    <2>4. m0 \in Nat /\ m0 >= 1 /\ m0 <= Len(files[e].registers) /\ r.name \in Names
      BY <2>2, <2>3, FilesFacts
    <2>5. files[e].opens
      BY <2>1, <2>4 DEF P!LastSoFar
    <2>6. /\ k' <= Len(files') => step' \in 0..(Len(files'[k'].registers) + 1)
          /\ k' > Len(files') => step' = 0
          /\ step' > 0 => files'[k'].opens
      BY <1>0, <2>1, <2>3, <2>4, <2>5, FilesFacts
    <2>7. ASSUME NEW j \in DOMAIN files, NEW n \in Names
          PROVE  n \in P!RegisteredBy(j)' <=> n \in P!RegisteredBy(j) \/ (j = e /\ n = r.name)
      <3>1. \A m \in DOMAIN files[j].registers :
              (j < k' \/ (j = k' /\ m < step')) <=> ((j < k \/ (j = k /\ m < step)) \/ (j = e /\ m = m0))
        BY <1>0, <2>1, <2>3, <2>4, FilesFacts
      <3>2. n \in P!RegisteredBy(j)' <=>
              \E m \in DOMAIN files[j].registers :
                 files[j].registers[m].name = n /\ files[j].opens /\ (j < k' \/ (j = k' /\ m < step'))
        BY <2>3 DEF P!RegisteredBy
      <3>3. QED
        BY <2>2, <2>3, <2>5, <3>1, <3>2, RegisteredFacts
    <2>8. ASSUME NEW n \in Names
          PROVE  /\ registry'[n].from \in {0} \cup {j \in DOMAIN files : n \in P!RegisteredBy(j)'}
                 /\ \A j \in DOMAIN files : n \in P!RegisteredBy(j)' => j <= registry'[n].from
      <3>1. CASE n = r.name
        <4>1. registry'[n].from = e
          BY <2>3, <2>4, <3>1 DEF P!TypeOK
        <4>2. n \in P!RegisteredBy(e)'
          BY <2>3, <2>7, <3>1
        <4>3. \A j \in DOMAIN files : n \in P!RegisteredBy(j)' => j <= e
          <5>1. SUFFICES ASSUME NEW j \in DOMAIN files, n \in P!RegisteredBy(j)' PROVE j <= e
            OBVIOUS
          <5>2. CASE n \in P!RegisteredBy(j)
            BY <1>0, <2>1, <5>2, RegisteredFacts
          <5>3. QED
            BY <1>0, <2>3, <2>7, <5>1, <5>2
        <4>4. QED
          BY <2>3, <4>1, <4>2, <4>3
      <3>2. CASE n # r.name
        <4>1. registry'[n] = registry[n]
          BY <2>3, <2>4, <3>2 DEF P!TypeOK
        <4>2. \A j \in DOMAIN files : n \in P!RegisteredBy(j)' <=> n \in P!RegisteredBy(j)
          BY <2>7, <3>2
        <4>3. QED
          BY <4>1, <4>2 DEF P!LastSoFar
      <3>3. QED
        BY <3>1, <3>2
    <2>9. QED
      BY <2>3, <2>6, <2>8 DEF P!LastSoFar
  <1>5. QED
    BY <1>1, <1>3, <1>4, LoaderSteps
       DEF pluginVars, P!LoadReturns, P!WrapHandler, P!HandlerReady, P!BuildExecutor

\* The largest of a set is what is chosen.
LEMMA MaxFacts ==
    ASSUME NEW Q \in SUBSET Int, NEW x \in Q, \A y \in Q : x >= y
    PROVE  P!Max(Q) = x
  <1>1. \E z \in Q : \A y \in Q : z >= y
    OBVIOUS
  <1>2. P!Max(Q) \in Q /\ \A y \in Q : P!Max(Q) >= y
    BY <1>1 DEF P!Max
  <1>3. P!Max(Q) \in Int /\ x \in Int /\ P!Max(Q) >= x /\ x >= P!Max(Q)
    BY <1>2
  <1>4. QED
    BY <1>3

\* When the folder is done, the last so far is the last.
LEMMA LastOfAll ==
    ASSUME FilesTyped, P!TypeOK, P!EveryFileAccounted, P!LastSoFar
    PROVE  P!LastRegistrationWins
  <1> SUFFICES ASSUME stage # "load", NEW n \in Names
               PROVE  registry[n].from =
                        P!Max({0} \cup {j \in DOMAIN files : files[j].opens /\
                                \E r \in P!ToSet(files[j].registers) : r.name = n})
    BY DEF P!LastRegistrationWins
  <1> DEFINE Q == {j \in DOMAIN files : files[j].opens /\
                                \E r \in P!ToSet(files[j].registers) : r.name = n}
  <1>1. k = Len(files) + 1 /\ DOMAIN files = 1..Len(files) /\ Len(files) \in Nat
    BY FilesFacts DEF P!EveryFileAccounted
  <1>2. \A j \in DOMAIN files : n \in P!RegisteredBy(j) <=> j \in Q
    <2>1. SUFFICES ASSUME NEW j \in DOMAIN files PROVE n \in P!RegisteredBy(j) <=> j \in Q
      OBVIOUS
    <2>2. j < k
      BY <1>1, <2>1
    <2>3. n \in P!RegisteredBy(j) <=>
            files[j].opens /\ \E m \in DOMAIN files[j].registers : files[j].registers[m].name = n
      BY <2>2, RegisteredFacts
    <2>4. (\E r \in P!ToSet(files[j].registers) : r.name = n) <=>
            \E m \in DOMAIN files[j].registers : files[j].registers[m].name = n
      BY DEF P!ToSet
    <2>5. QED
      BY <2>1, <2>3, <2>4
  <1>3. registry[n].from \in {0} \cup Q /\ \A j \in Q : j <= registry[n].from
    BY <1>2 DEF P!LastSoFar
  <1>4. {0} \cup Q \in SUBSET Int /\ \A j \in Q : j >= 1
    BY <1>1
  <1> HIDE DEF Q
  <1>5. \A y \in {0} \cup Q : registry[n].from >= y
    BY <1>3, <1>4
  <1>6. P!Max({0} \cup Q) = registry[n].from
    BY <1>3, <1>4, <1>5, MaxFacts
  <1>7. QED
    BY <1>6 DEF Q

-----------------------------------------------------------------------------
(* The order of the parts                                                  *)

Steps == {"health", "transport", "debug", "echo", "endpoints", "options"}

\* What is still to register contains what was not done yet.
StillToDo ==
    /\ todo \in Seq(Steps)
    /\ transport \/ \E j \in DOMAIN todo : todo[j] = "transport"
    /\ seen = Len(svc.endpoints) \/ \E j \in DOMAIN todo : todo[j] = "endpoints"

\* How far the program is: plugins are loaded for an accepted configuration,
\* routes registered after them, and the server started after both.
OrderInv ==
    /\ stage # "load" => C!Accepted
    /\ stage = "load" => todo = R!Order
    /\ StillToDo
    /\ serve # "none" => R!Done /\ stage \in {"client", "serving"}
    /\ stage = "serving" => fifo = << >>
    /\ user = "server" => stage # "client"

\* A configuration that was accepted, or refused, is not read on.
LEMMA ParseEnds ==
    ASSUME C!Next
    PROVE  ~C!Accepted
  BY DEF C!Next, C!Accepted, C!ReadFile, C!Decode, C!CheckVersion, C!InitGlobalParams,
         C!InitAsyncAgentDefaults, C!InitAsyncAgentBackend, C!AgentsDone, C!InitEndpoint, C!InitBackend,
         C!EndpointsDone, C!ResolveAlias, C!Normalized

\* Every router registers the endpoints, and sets the transport.
LEMMA OrderFacts ==
    /\ R!Order \in Seq(Steps) /\ R!Order # << >>
    /\ \E j \in DOMAIN R!Order : R!Order[j] = "transport"
    /\ \E j \in DOMAIN R!Order : R!Order[j] = "endpoints"
  <1>1. PICK s : s = R!Order
    OBVIOUS
  <1>2. CASE s = <<"health", "transport", "debug", "echo", "endpoints", "options">>
    <2>1. Len(s) = 6 /\ s[2] = "transport" /\ s[5] = "endpoints"
      BY <1>2
    <2>2. s \in Seq(Steps)
      BY <1>2 DEF Steps
    <2>3. DOMAIN s = 1..6 /\ s # << >>
      BY <2>1, <2>2
    <2>4. QED
      BY <1>1, <2>1, <2>2, <2>3
  <1>3. CASE s = <<"debug", "health", "transport", "endpoints">>
    <2>1. Len(s) = 4 /\ s[3] = "transport" /\ s[4] = "endpoints"
      BY <1>3
    <2>2. s \in Seq(Steps)
      BY <1>3 DEF Steps
    <2>3. DOMAIN s = 1..4 /\ s # << >>
      BY <2>1, <2>2
    <2>4. QED
      BY <1>1, <2>1, <2>2, <2>3
  <1>4. CASE s = <<"debug", "echo", "health", "transport", "endpoints">>
    <2>1. Len(s) = 5 /\ s[4] = "transport" /\ s[5] = "endpoints"
      BY <1>4
    <2>2. s \in Seq(Steps)
      BY <1>4 DEF Steps
    <2>3. DOMAIN s = 1..5 /\ s # << >>
      BY <2>1, <2>2
    <2>4. QED
      BY <1>1, <2>1, <2>2, <2>3
  <1>5. QED
    BY <1>1, <1>2, <1>3, <1>4 DEF R!Order

\* What is left when the first thing is done.
LEMMA TailKeeps ==
    ASSUME NEW s \in Seq(Steps), s # << >>, NEW j \in DOMAIN s, s[j] # Head(s)
    PROVE  \E m \in DOMAIN Tail(s) : Tail(s)[m] = s[j]
  <1>1. j \in 2..Len(s) /\ Tail(s) \in Seq(Steps) /\ Len(Tail(s)) = Len(s) - 1
    OBVIOUS
  <1>2. j - 1 \in DOMAIN Tail(s) /\ Tail(s)[j - 1] = s[j]
    BY <1>1
  <1>3. QED
    BY <1>2

\* Registering goes through the list in its order.
LEMMA RunKeeps ==
    ASSUME StillToDo, R!Run, svc' = svc
    PROVE  StillToDo' /\ todo # << >> /\ site' = site
  <1>1. PICK s : s = todo
    OBVIOUS
  <1>2. s \in Seq(Steps) /\ s # << >>
    BY <1>1 DEF StillToDo, R!Run, R!RegisterDebug, R!RegisterEcho, R!RegisterHealth, R!InitTransport,
       R!RegisterEndpoint, R!EndpointsRegistered, R!RegisterOptions, R!Registering
  <1>3. Tail(s) \in Seq(Steps)
    BY <1>2
  <1>4. site' = site
    BY DEF R!Run, R!RegisterDebug, R!RegisterEcho, R!RegisterHealth, R!InitTransport,
       R!RegisterEndpoint, R!EndpointsRegistered, R!RegisterOptions
  <1>5. CASE R!RegisterDebug \/ R!RegisterEcho \/ R!RegisterHealth
    <2>1. todo' = Tail(s) /\ Head(s) \notin {"transport", "endpoints"} /\ UNCHANGED <<seen, transport>>
      BY <1>1, <1>5 DEF R!RegisterDebug, R!RegisterEcho, R!RegisterHealth, R!Registering
    <2>2. QED
      BY <1>1, <1>2, <1>3, <1>4, <2>1, TailKeeps DEF StillToDo
  <1>6. CASE R!InitTransport
    <2>1. todo' = Tail(s) /\ Head(s) # "endpoints" /\ seen' = seen /\ transport'
      BY <1>1, <1>6 DEF R!InitTransport, R!Registering
    <2>2. QED
      BY <1>1, <1>2, <1>3, <1>4, <2>1, TailKeeps DEF StillToDo
  <1>7. CASE R!RegisterEndpoint
    <2>1. todo' = todo /\ Head(s) = "endpoints" /\ transport' = transport
      BY <1>1, <1>7 DEF R!RegisterEndpoint, R!Registering
    <2>2. 1 \in DOMAIN s /\ s[1] = "endpoints"
      BY <1>2, <2>1
    <2>3. QED
      BY <1>1, <1>2, <1>4, <2>1, <2>2 DEF StillToDo
  <1>8. CASE R!EndpointsRegistered
    <2>1. todo' = Tail(s) /\ Head(s) # "transport" /\ seen = Len(svc.endpoints)
          /\ UNCHANGED <<seen, transport>>
      BY <1>1, <1>8 DEF R!EndpointsRegistered, R!Registering
    <2>2. QED
      BY <1>1, <1>2, <1>3, <1>4, <2>1, TailKeeps DEF StillToDo
  <1>9. CASE R!RegisterOptions
    <2>1. /\ todo' = todo \/ todo' = Tail(s)
          /\ Head(s) \notin {"transport", "endpoints"} /\ UNCHANGED <<seen, transport>>
      BY <1>1, <1>9 DEF R!RegisterOptions, R!Registering
    <2>2. QED
      BY <1>1, <1>2, <1>3, <1>4, <2>1, TailKeeps DEF StillToDo
  <1>10. QED
    BY <1>1, <1>2, <1>4, <1>5, <1>6, <1>7, <1>8, <1>9 DEF R!Run

LEMMA OrderStep ==
    ASSUME OrderInv, user \in {"server", "client"}, [Next]_vars
    PROVE  OrderInv'
  <1>a. ASSUME UNCHANGED <<at, err, svc, site, todo, seen, transport, panicked>>
        PROVE  /\ C!Accepted' <=> C!Accepted
               /\ R!Order' = R!Order
               /\ StillToDo' <=> StillToDo
               /\ R!Done' <=> R!Done
    BY <1>a DEF C!Accepted, R!Order, R!Done, StillToDo
  <1>1. CASE UNCHANGED vars
    BY <1>1, <1>a DEF vars, configVars, pluginVars, routerVars, serverVars, OrderInv
  <1>2. CASE Parse
    <2>1. ~C!Accepted /\ UNCHANGED <<stage, todo, seen, transport, panicked, site, serve, fifo, user>>
      BY <1>2, ParseEnds DEF Parse, pluginVars, routerVars, serverVars
    <2>2. stage = "load" /\ serve = "none" /\ todo = R!Order
      BY <2>1 DEF OrderInv
    <2>3. R!Order' = R!Order
      BY <2>1 DEF R!Order
    <2>4. StillToDo'
      BY <2>1, <2>2, OrderFacts DEF StillToDo
    <2>5. QED
      BY <2>1, <2>2, <2>3, <2>4 DEF OrderInv
  <1>3. CASE LoadPlugins
    <2>1. C!Accepted /\ UNCHANGED <<at, err, svc, site, todo, seen, transport, panicked, serve>>
      BY <1>3 DEF LoadPlugins, configVars, routerVars, serverVars
    <2>2. stage = "load"
      BY <1>3 DEF LoadPlugins, P!Open, P!RegisterOne, P!OpenReturns, P!LoadReturns
    <2>3. serve = "none"
      BY <2>2 DEF OrderInv
    <2>4. /\ UNCHANGED <<user, fifo>>
          /\ stage' = stage \/ stage' = user
      BY <1>3 DEF LoadPlugins, P!Open, P!RegisterOne, P!OpenReturns, P!LoadReturns
    <2>5. CASE stage' = stage
      BY <1>a, <2>1, <2>2, <2>3, <2>4, <2>5 DEF OrderInv
    <2>6. CASE stage' = user /\ stage' # stage
      BY <1>a, <2>1, <2>2, <2>3, <2>4, <2>6 DEF OrderInv
    <2>7. QED
      BY <2>4, <2>5, <2>6
  <1>4. CASE StartAgents
    BY <1>4, <1>a DEF StartAgents, configVars, pluginVars, routerVars, serverVars, OrderInv
  <1>5. CASE BuildExecutors
    <2>1. UNCHANGED <<at, err, svc, site, todo, seen, transport, panicked, serve, stage, fifo, user>>
      BY <1>5 DEF BuildExecutors, P!BuildExecutor, configVars, routerVars, serverVars
    <2>2. QED
      BY <1>a, <2>1 DEF OrderInv
  <1>6. CASE RegisterEndpoints
    <2>1. /\ R!Run /\ stage # "load" /\ UNCHANGED <<at, err, svc, serve, stage, fifo, user>>
      BY <1>6 DEF RegisterEndpoints, configVars, pluginVars, serverVars
    <2>2. StillToDo' /\ todo # << >>
      BY <2>1, RunKeeps DEF OrderInv
    <2>3. serve = "none"
      BY <2>2 DEF OrderInv, R!Done
    <2>4. C!Accepted' <=> C!Accepted
      BY <2>1 DEF C!Accepted
    <2>5. QED
      BY <2>1, <2>2, <2>3, <2>4 DEF OrderInv
  <1>7. CASE WrapHandlers
    <2>1. UNCHANGED <<at, err, svc, site, todo, seen, transport, panicked, serve, user>>
      BY <1>7 DEF WrapHandlers, P!WrapHandler, P!HandlerReady, configVars, routerVars, serverVars
    <2>2. /\ stage = "server"
          /\ stage' = "server" \/ (stage' = "serving" /\ fifo = << >> /\ fifo' = fifo)
      BY <1>7 DEF WrapHandlers, P!WrapHandler, P!HandlerReady
    <2>3. serve = "none"
      BY <2>2 DEF OrderInv
    <2>4. QED
      BY <1>a, <2>1, <2>2, <2>3 DEF OrderInv
  <1>8. CASE RunServer
    <2>1. /\ R!Done /\ stage \in {"client", "serving"}
          /\ UNCHANGED <<at, err, svc, site, todo, seen, transport, panicked, stage, fifo, user>>
      BY <1>8 DEF RunServer, configVars, pluginVars, routerVars
    <2>2. QED
      BY <1>a, <2>1 DEF OrderInv
  <1>9. CASE Serve \/ \E r \in Requests : Request(r)
    <2>1. UNCHANGED <<at, err, svc, site, todo, seen, transport, panicked, stage, fifo, user>>
      BY <1>9 DEF Serve, Request, configVars, pluginVars, routerVars
    <2>2. serve # "none" \/ serve' = serve
      BY <1>9 DEF Serve, Request, S!Listen, S!ListenerClosed, S!ListenerBroken
    <2>3. QED
      BY <1>a, <2>1, <2>2 DEF OrderInv
  <1>10. CASE Signal \/ \E a \in 1..MaxAgents : RunAgent(a) \/ AgentSettles(a)
    <2>1. UNCHANGED <<at, err, svc, site, todo, seen, transport, panicked, stage, fifo, user, serve>>
      BY <1>10 DEF Signal, S!Cancel, RunAgent, AgentSettles, configVars, pluginVars, routerVars, serverVars
    <2>2. QED
      BY <1>a, <2>1 DEF OrderInv
  <1>11. QED
    BY <1>1, <1>2, <1>3, <1>4, <1>5, <1>6, <1>7, <1>8, <1>9, <1>10 DEF Next, Main

-----------------------------------------------------------------------------
(* Induction, and the positions of a text                                  *)

\* The position after one more byte.
NextTo(p, c) == IF c = "\r" THEN p ELSE IF c = "\n" THEN <<p[1] + 1, 0>> ELSE <<p[1], p[2] + 1>>
At(source, f, i) == IF i = 0 THEN <<0, 0>> ELSE NextTo(f[i - 1], source[i])

\* The order of the natural numbers is well founded, as a set of pairs.
LEMMA Less == IsWellFoundedOn({ss \in Nat \X Nat : ss[1] < ss[2]}, Nat)
  BY NatLessThanWellFounded DEF OpToRel

\* Every set of natural numbers that is not empty has a least one.
LEMMA NatMin ==
    ASSUME NEW T, T \subseteq Nat, T # {}
    PROVE  \E x \in T : \A y \in T : x <= y
  <1>1. PICK rel : rel = {ss \in Nat \X Nat : ss[1] < ss[2]}
    OBVIOUS
  <1>2. PICK x \in T : \A y \in T : ~(<<y, x>> \in rel)
    BY <1>1, Less, WFMin
  <1>3. \A y \in T : ~(y < x)
    BY <1>1, <1>2
  <1>4. QED
    BY <1>2, <1>3

\* Induction over the natural numbers, of a set.
LEMMA SetInduction ==
    ASSUME NEW T, 0 \in T, \A n \in Nat : n \in T => n + 1 \in T
    PROVE  Nat \subseteq T
  <1>1. SUFFICES ASSUME Nat \ T # {} PROVE FALSE
    OBVIOUS
  <1>2. PICK x \in Nat \ T : \A y \in Nat \ T : x <= y
    <2>1. Nat \ T \subseteq Nat
      OBVIOUS
    <2>2. QED
      BY <1>1, <2>1, NatMin
  <1>3. x # 0 /\ x - 1 \in Nat /\ x - 1 \in T
    BY <1>2
  <1>4. QED
    BY <1>3

\* There is a function that gives the positions, of texts of any length.
LEMMA PositionsExist ==
    ASSUME NEW source \in Seq(STRING)
    PROVE  \A m \in Nat : \E f : f = [i \in 0..m |-> At(source, f, i)]
  <1>1. PICK T : T = {m \in Nat : \E f : f = [i \in 0..m |-> At(source, f, i)]}
    OBVIOUS
  <1>2. 0 \in T
    <2>1. PICK f : f = [i \in 0..0 |-> <<0, 0>>]
      OBVIOUS
    <2>2. f = [i \in 0..0 |-> At(source, f, i)]
      BY <2>1 DEF At
    <2>3. QED
      BY <1>1, <2>2
  <1>3. ASSUME NEW n \in Nat, n \in T PROVE n + 1 \in T
    <2>1. PICK f : f = [i \in 0..n |-> At(source, f, i)]
      BY <1>1, <1>3
    <2>2. PICK g : g = [i \in 0..n + 1 |-> IF i <= n THEN f[i] ELSE At(source, f, i)]
      OBVIOUS
    <2>3. \A i \in 0..n + 1 : g[i] = At(source, g, i)
      <3>1. TAKE i \in 0..n + 1
      <3>2. i = 0 \/ (i - 1 \in 0..n /\ g[i - 1] = f[i - 1])
        BY <2>2
      <3>3. At(source, g, i) = At(source, f, i)
        BY <3>2 DEF At
      <3>4. i \in 0..n => f[i] = At(source, f, i)
        BY <2>1
      <3>5. QED
        BY <2>2, <3>3, <3>4
    <2>4. g = [i \in 0..n + 1 |-> g[i]]
      BY <2>2
    <2>5. g = [i \in 0..n + 1 |-> At(source, g, i)]
      BY <2>3, <2>4
    <2>6. n + 1 \in Nat /\ \E h : h = [i \in 0..n + 1 |-> At(source, h, i)]
      BY <2>5
    <2>7. QED
      BY <1>1, <2>6
  <1>4. Nat \subseteq T
    BY <1>2, <1>3, SetInduction
  <1>5. QED
    BY <1>1, <1>4

\* Positions is one: each position follows from the one before it.
LEMMA PositionsFacts ==
    ASSUME NEW source \in Seq(STRING)
    PROVE  \A i \in 0..Len(source) : C!Positions(source)[i] = At(source, C!Positions(source), i)
  <1>1. PICK g : g = [i \in 0..Len(source) |-> At(source, g, i)]
    BY PositionsExist
  <1>2. g = [i \in 0..Len(source) |-> 
       IF i = 0 THEN <<0, 0>>
            ELSE IF source[i] = "\r" THEN g[i - 1]
            ELSE IF source[i] = "\n" THEN <<g[i - 1][1] + 1, 0>>
            ELSE <<g[i - 1][1], g[i - 1][2] + 1>>]
    BY <1>1 DEF At, NextTo
  <1>3. C!Positions(source) = [i \in 0..Len(source) |-> 
       IF i = 0 THEN <<0, 0>>
            ELSE IF source[i] = "\r" THEN C!Positions(source)[i - 1]
            ELSE IF source[i] = "\n" THEN <<C!Positions(source)[i - 1][1] + 1, 0>>
            ELSE <<C!Positions(source)[i - 1][1], C!Positions(source)[i - 1][2] + 1>>]
    BY <1>2, Zenon DEF C!Positions
  <1>4. QED
    BY <1>3 DEF At, NextTo

\* A position is a row and a column.
LEMMA PositionsTyped ==
    ASSUME NEW source \in Seq(STRING)
    PROVE  \A i \in 0..Len(source) : C!Positions(source)[i] \in Nat \X Nat
  <1>1. PICK p : p = C!Positions(source)
    OBVIOUS
  <1>2. PICK T : T = {i \in Nat : i <= Len(source) => p[i] \in Nat \X Nat}
    OBVIOUS
  <1>3. 0 \in T
    BY <1>1, <1>2, PositionsFacts DEF At
  <1>4. ASSUME NEW n \in Nat, n \in T PROVE n + 1 \in T
    <2>1. SUFFICES ASSUME n + 1 <= Len(source) PROVE p[n + 1] \in Nat \X Nat
      BY <1>2
    <2>2. p[n] \in Nat \X Nat
      BY <1>2, <1>4, <2>1
    <2>3. p[n + 1] = NextTo(p[n], source[n + 1])
      <3>1. n + 1 \in 0..Len(source) /\ n + 1 # 0 /\ (n + 1) - 1 = n
        BY <2>1
      <3>2. QED
        BY <1>1, <3>1, PositionsFacts DEF At
    <2>4. QED
      BY <2>2, <2>3 DEF NextTo
  <1>5. Nat \subseteq T
    BY <1>3, <1>4, SetInduction
  <1>6. QED
    BY <1>1, <1>2, <1>5

\* Positions go on, and stay only at carriage returns.
LEMMA PositionsGoOn ==
    ASSUME NEW source \in Seq(STRING), NEW n \in 0..Len(source), NEW m \in n..Len(source)
    PROVE  \/ C!Before(C!Positions(source)[n], C!Positions(source)[m])
           \/ /\ C!Positions(source)[n] = C!Positions(source)[m]
              /\ \A i \in n + 1..m : source[i] = "\r"
  <1>1. PICK p : p = C!Positions(source)
    OBVIOUS
  <1>2. PICK T : T = {d \in Nat : n + d <= Len(source) =>
                        C!Before(p[n], p[n + d]) \/ (p[n] = p[n + d] /\ \A i \in n + 1..n + d : source[i] = "\r")}
    OBVIOUS
  <1>3. 0 \in T
    BY <1>2
  <1>4. ASSUME NEW d \in Nat, d \in T PROVE d + 1 \in T
    <2>1. PICK x : x = n + d
      OBVIOUS
    <2>2. SUFFICES ASSUME x + 1 <= Len(source)
                   PROVE  \/ C!Before(p[n], p[x + 1])
                          \/ (p[n] = p[x + 1] /\ \A i \in n + 1..x + 1 : source[i] = "\r")
      BY <1>2, <2>1
    <2>3. C!Before(p[n], p[x]) \/ (p[n] = p[x] /\ \A i \in n + 1..x : source[i] = "\r")
      BY <1>2, <1>4, <2>1, <2>2
    <2>4. p[x] \in Nat \X Nat /\ p[n] \in Nat \X Nat
      BY <1>1, <2>1, <2>2, PositionsTyped
    <2>5. p[x + 1] = NextTo(p[x], source[x + 1])
      <3>1. x + 1 \in 0..Len(source) /\ x + 1 # 0 /\ (x + 1) - 1 = x
        BY <2>1, <2>2
      <3>2. QED
        BY <1>1, <3>1, PositionsFacts DEF At
    <2>6. CASE source[x + 1] = "\r"
      <3>1. p[x + 1] = p[x]
        BY <2>5, <2>6 DEF NextTo
      <3>2. \A i \in n + 1..x + 1 : i \in n + 1..x \/ i = x + 1
        BY <2>1
      <3>3. QED
        BY <2>3, <2>6, <3>1, <3>2
    <2>7. CASE source[x + 1] # "\r"
      <3>1. C!Before(p[x], p[x + 1])
        BY <2>4, <2>5, <2>7 DEF NextTo, C!Before
      <3>2. p[x + 1] \in Nat \X Nat
        BY <2>4, <2>5 DEF NextTo
      <3>3. C!Before(p[n], p[x + 1])
        BY <2>3, <2>4, <3>1, <3>2 DEF C!Before
      <3>4. QED
        BY <3>3
    <2>8. QED
      BY <2>6, <2>7
  <1>5. Nat \subseteq T
    BY <1>3, <1>4, SetInduction
  <1>6. m - n \in T /\ n + (m - n) = m
    BY <1>5
  <1>7. QED
    BY <1>1, <1>2, <1>6

\* The place of an error, in every text (ConfigInit.ErrorsAreLocated).
LEMMA ErrorsLocated == C!ErrorsAreLocated
  <1>1. SUFFICES ASSUME NEW text \in Texts
                 PROVE  /\ \A n \in Len(text) + 1..Len(text) + 2 :
                            C!RowCol(text, n) = C!RowCol(text, IF text = << >> THEN 0 ELSE Len(text) - 1)
                        /\ \A n \in 0..Len(text) : \A m \in n + 1..Len(text) :
                            \/ C!Before(C!RowCol(text, n), C!RowCol(text, m))
                            \/ /\ C!RowCol(text, n) = C!RowCol(text, m)
                               /\ \A i \in n + 1..m : text[i] = "\r"
    BY DEF C!ErrorsAreLocated
  <1>2. text \in Seq(STRING) /\ Len(text) \in Nat /\ (text = << >> <=> Len(text) = 0)
    BY ConfigAssumption
  <1>3. \A n \in 0..Len(text) : C!RowCol(text, n) = C!Positions(text)[n]
    <2>1. C!Positions(text)[0] = <<0, 0>>
      BY <1>2, PositionsFacts DEF At
    <2>2. QED
      BY <1>2, <2>1 DEF C!RowCol
  <1>4. ASSUME NEW n \in Len(text) + 1..Len(text) + 2
        PROVE  C!RowCol(text, n) = C!RowCol(text, IF text = << >> THEN 0 ELSE Len(text) - 1)
    BY <1>2 DEF C!RowCol
  <1>5. ASSUME NEW n \in 0..Len(text), NEW m \in n + 1..Len(text)
        PROVE  \/ C!Before(C!RowCol(text, n), C!RowCol(text, m))
               \/ /\ C!RowCol(text, n) = C!RowCol(text, m)
                  /\ \A i \in n + 1..m : text[i] = "\r"
    <2>1. m \in 0..Len(text) /\ m \in n..Len(text)
      BY <1>2
    <2>2. QED
      BY <1>2, <1>3, <2>1, PositionsGoOn
  <1>6. QED
    BY <1>4, <1>5

-----------------------------------------------------------------------------
(* The configuration: how far the walk is                                  *)

IsTuple(s, n) == s = [j \in 1..n |-> s[j]]
\* What was done by place p: all of a stage, what precedes the backends of its
\* i-th agent or endpoint, and the j-th backend of that.
Past(p, what) ==
    \/ what = "agents" /\ p.stage \in {"endpoints", "aliases", "done"}
    \/ what = "endpoints" /\ p.stage \in {"aliases", "done"}
Begun(p, what, i) == Past(p, what) \/ (p.stage = what /\ (i < p.i \/ (i = p.i /\ p.j > 0)))
Walked(p, what, i, j) == Past(p, what) \/ (p.stage = what /\ (i < p.i \/ (i = p.i /\ j < p.j)))

Global(f) == C!OrElse(C!ParseDuration(f.timeout), 0, Default)
Own(x, global) == C!OrElse(C!ParseDuration(x.timeout), 0, global)

ServiceFields == {"version", "address", "hosts", "timeout", "output", "extra", "agents", "endpoints"}
AgentFields == {"timeout", "workers", "interval", "backends"}
EndpointFields == {"path", "inputs", "timeout", "output", "method", "calls", "backends"}
BackendFields ==
    {"hosts", "unsafe", "method", "encoding", "scheme", "pattern", "timeout", "calls", "keys", "decoder"}

Kept(was, b) ==
    /\ DOMAIN b = BackendFields
    /\ b.unsafe = was.unsafe /\ b.pattern = was.pattern /\ b.scheme # ""
Fresh(was, b) == Kept(was, b) /\ b.hosts = was.hosts /\ b.encoding = was.encoding
Bounded(was, b, timeout) ==
    Kept(was, b) /\ b.timeout = timeout /\ (b.hosts \in {"clean", "none"} \/ b.unsafe)

AgentWalked(p, global, was, a, i) ==
    /\ DOMAIN a = AgentFields
    /\ IsTuple(a.backends, Len(was.backends))
    /\ IF Begun(p, "agents", i)
       THEN a.timeout = Own(was, global) /\ a.workers \in Nat \ {0} /\ a.interval \in Nat \ {0}
       ELSE a.timeout = C!ParseDuration(was.timeout) /\ a.workers \in Int /\ a.interval \in Int
    /\ \A j \in 1..Len(was.backends) :
        IF Walked(p, "agents", i, j) THEN Bounded(was.backends[j], a.backends[j], a.timeout)
        ELSE Fresh(was.backends[j], a.backends[j])

Mapped(was, e, b) ==
    /\ b.keys = C!URLKeys(b) /\ b.pattern \ Sequential \subseteq e.inputs
    /\ e.output = "no-op" => b.encoding = "no-op"
    /\ b.decoder = "no-op" => e.output = "no-op" \/ ToLower[was.encoding] = "no-op"

EndpointWalked(p, global, was, e, i) ==
    /\ DOMAIN e = EndpointFields
    /\ IsTuple(e.backends, Len(was.backends))
    /\ e.inputs = was.inputs /\ e.path = was.path
    /\ IF Begun(p, "endpoints", i)
       THEN /\ e.timeout = Own(was, global) /\ e.calls \in Int \ {0}
            /\ was.path \notin Reserved /\ Len(was.backends) # 0
            /\ e.output = "no-op" => Len(was.backends) = 1
       ELSE e.timeout = C!ParseDuration(was.timeout) /\ e.calls \in Int
    /\ \A j \in 1..Len(was.backends) :
        IF Walked(p, "endpoints", i, j)
        THEN Bounded(was.backends[j], e.backends[j], e.timeout) /\ Mapped(was.backends[j], e, e.backends[j])
        ELSE Fresh(was.backends[j], e.backends[j])

ServiceWalked ==
    /\ DOMAIN svc = ServiceFields
    /\ IF at.stage \in {"version", "globals"}
       THEN svc.timeout = C!ParseDuration(file.timeout) /\ svc.hosts = file.hosts
       ELSE svc.timeout = Global(file) /\ svc.hosts \in {"clean", "none"}
    /\ IsTuple(svc.agents, Len(file.agents)) /\ IsTuple(svc.endpoints, Len(file.endpoints))

Renamed(f, left) == (DOMAIN f \cap DOMAIN Alias) \ left
Into(f, left, t) == {m \in Renamed(f, left) : Alias[m] = t}
Renaming(was, is, left) ==
    (\A m \in DOMAIN was \cap DOMAIN Alias : Alias[m] \notin DOMAIN Alias) =>
        /\ DOMAIN is = (DOMAIN was \ Renamed(was, left)) \cup {Alias[m] : m \in Renamed(was, left)}
        /\ \A t \in DOMAIN is :
            IF Into(was, left, t) = {} THEN is[t] = was[t]
            ELSE is[t] \in {was[m] : m \in Into(was, left, t)}

AgentsWalked ==
    \A i \in 1..Len(file.agents) : AgentWalked(at, Global(file), file.agents[i], svc.agents[i], i)
EndpointsWalked ==
    \A i \in 1..Len(file.endpoints) :
        EndpointWalked(at, Global(file), file.endpoints[i], svc.endpoints[i], i)

PlaceTyped ==
    /\ at \in [stage : C!Stages, i : Nat, j : Nat]
    /\ at.stage \in {"agents", "endpoints"} => at.i >= 1

WalkInv ==
    /\ PlaceTyped
    /\ err = "none" =>
        /\ at.stage \in {"read", "decode"} => svc = C!Empty
        /\ at.stage \notin {"read", "decode"} => ServiceWalked /\ AgentsWalked /\ EndpointsWalked
        /\ at.stage \in {"version", "globals", "agents", "endpoints"} => svc.extra = file.extra
        /\ at.stage \in {"aliases", "done"} => Renaming(file.extra, svc.extra, pending)

\* Refused or not, what is left to rename is there to be renamed.
BaseInv ==
    /\ err \in C!Errors \cup {"none"}
    /\ svc.timeout \in Int /\ Len(svc.endpoints) \in Nat
    /\ pending \subseteq DOMAIN svc.extra
    /\ at.stage # "aliases" => pending = {}
    /\ C!RefusedForAReason
    /\ err # "none" => at.stage = "done"

-----------------------------------------------------------------------------
(* The configuration: what is read                                         *)

\* A function on 1..n is a tuple of that length.
LEMMA TupleFacts ==
    ASSUME NEW n \in Nat, NEW s, IsTuple(s, n)
    PROVE  DOMAIN s = 1..n /\ Len(s) = n
  <1>1. PICK T : T = {s[j] : j \in 1..n}
    OBVIOUS
  <1>2. s \in [1..n -> T]
    BY <1>1 DEF IsTuple
  <1>3. s \in Seq(T)
    BY <1>2
  <1>4. QED
    BY <1>2, <1>3

\* What is known of a file that was read.
LEMMA FileFacts ==
    ASSUME C!WellFormed(file)
    PROVE  /\ Len(file.agents) \in Nat /\ Len(file.endpoints) \in Nat
           /\ DOMAIN file.agents = 1..Len(file.agents)
           /\ DOMAIN file.endpoints = 1..Len(file.endpoints)
           /\ \A i \in 1..Len(file.agents) :
                /\ DOMAIN file.agents[i] = AgentFields /\ file.agents[i].workers \in Int
                /\ file.agents[i].backends \in Seq(C!FileBackend)
           /\ \A i \in 1..Len(file.endpoints) :
                /\ DOMAIN file.endpoints[i] = EndpointFields /\ file.endpoints[i].calls \in Int
                /\ file.endpoints[i].backends \in Seq(C!FileBackend)
                /\ IsFiniteSet(file.endpoints[i].inputs)
  <1>1. file.agents \in Seq(C!FileAgent) /\ file.endpoints \in Seq(C!FileEndpoint)
    BY DEF C!WellFormed
  <1>2. /\ Len(file.agents) \in Nat /\ Len(file.endpoints) \in Nat
         /\ DOMAIN file.agents = 1..Len(file.agents)
         /\ DOMAIN file.endpoints = 1..Len(file.endpoints)
    BY <1>1
  <1>3. \A i \in 1..Len(file.agents) : file.agents[i] \in C!FileAgent
    BY <1>1
  <1>4. \A i \in 1..Len(file.endpoints) : file.endpoints[i] \in C!FileEndpoint
    BY <1>1
  <1>5. \A i \in 1..Len(file.agents) :
            /\ DOMAIN file.agents[i] = AgentFields /\ file.agents[i].workers \in Int
            /\ file.agents[i].backends \in Seq(C!FileBackend)
    BY <1>3 DEF C!FileAgent, AgentFields
  <1>6. \A i \in 1..Len(file.endpoints) :
            /\ DOMAIN file.endpoints[i] = EndpointFields /\ file.endpoints[i].calls \in Int
            /\ file.endpoints[i].backends \in Seq(C!FileBackend)
    BY <1>4 DEF C!FileEndpoint, EndpointFields
  <1>7. \A i \in 1..Len(file.endpoints) : IsFiniteSet(file.endpoints[i].inputs)
    BY <1>2 DEF C!WellFormed, C!IsFiniteSet, IsFiniteSet
  <1>8. QED
    BY <1>5, <1>6, <1>7, <1>2

\* What is known of a list of backends that was read.
LEMMA FileBackendFacts ==
    ASSUME NEW s \in Seq(C!FileBackend)
    PROVE  /\ Len(s) \in Nat /\ DOMAIN s = 1..Len(s)
           /\ \A j \in 1..Len(s) :
                /\ s[j].hosts \in C!HostLists
                /\ DOMAIN s[j] = {"hosts", "unsafe", "method", "encoding", "scheme", "pattern"}
  <1>1. \A j \in 1..Len(s) : s[j] \in C!FileBackend
    OBVIOUS
  <1>2. QED
    BY <1>1 DEF C!FileBackend

\* A duration is a number, and the one of the service is not 0.
LEMMA DurationFacts ==
    ASSUME NEW v
    PROVE  C!ParseDuration(v) \in Int /\ Global(v) \in Int \ {0}
  <1>1. \A w : C!ParseDuration(w) \in Int
    BY ConfigAssumption DEF C!ParseDuration
  <1>2. QED
    BY <1>1, ConfigAssumption DEF Global, C!OrElse

\* What Decode makes of a list of backends.
LEMMA BackendsDecoded ==
    ASSUME NEW s \in Seq(C!FileBackend), NEW t, t = [j \in DOMAIN s |-> C!NormalizeBackend(s[j])]
    PROVE  /\ IsTuple(t, Len(s))
           /\ \A j \in 1..Len(s) : Fresh(s[j], t[j])
  <1>1. /\ Len(s) \in Nat /\ DOMAIN s = 1..Len(s)
        /\ \A j \in 1..Len(s) :
             /\ s[j].hosts \in C!HostLists
             /\ DOMAIN s[j] = {"hosts", "unsafe", "method", "encoding", "scheme", "pattern"}
    BY FileBackendFacts
  <1>2. ASSUME NEW j \in 1..Len(s) PROVE Fresh(s[j], t[j])
    BY <1>1, <1>2 DEF C!NormalizeBackend, C!OrElse, Fresh, Kept, BackendFields
  <1>3. QED
    BY <1>1, <1>2 DEF IsTuple

\* ConfigInit counts as FiniteSetTheorems does.
LEMMA SameCardinality ==
    ASSUME NEW T
    PROVE  C!Cardinality(T) = Cardinality(T)
  BY DEF C!Cardinality, Cardinality, C!IsFiniteSet, IsFiniteSet

-----------------------------------------------------------------------------
(* The configuration: one step of the walk                                 *)

\* The first thing that is wrong ends the walk.
LEMMA RefusedEnds ==
    ASSUME NEW e, e # "none", C!Fail(e)
    PROVE  WalkInv' /\ err' # "none"
  <1>1. at' = C!Place("done", 0, 0) /\ err' = e
    BY DEF C!Fail
  <1>2. at' = [stage |-> "done", i |-> 0, j |-> 0]
    BY <1>1 DEF C!Place
  <1>3. QED
    BY <1>1, <1>2 DEF WalkInv, PlaceTyped, C!Stages

\* Or it goes on at the next place.
LEMMA GoesOn ==
    ASSUME NEW stg \in {"version", "globals", "agents", "endpoints"}, NEW x \in Nat \ {0}, NEW y \in Nat,
           at' = [stage |-> stg, i |-> x, j |-> y],
           svc'.extra = file'.extra, ServiceWalked', AgentsWalked', EndpointsWalked'
    PROVE  WalkInv'
  <1>1. DOMAIN at' = {"stage", "i", "j"} /\ at'.stage = stg /\ at'.i = x /\ at'.j = y
    OBVIOUS
  <1>2. QED
    BY <1>1 DEF WalkInv, PlaceTyped, C!Stages

\* Decode: everything has its fields, and nothing was completed yet.
LEMMA DecodeWalks ==
    ASSUME C!WellFormed(file), WalkInv, C!Decode
    PROVE  WalkInv'
  <1>1. CASE file.state = "malformed"
    BY <1>1, RefusedEnds DEF C!Decode
  <1>2. CASE file.state # "malformed"
    <2>1. /\ svc' = C!NormalizeService(file) /\ file' = file
          /\ at' = C!Place("version", 1, 0)
      BY <1>2 DEF C!Decode, C!Fail, C!GoTo
    <2>2. /\ at' = [stage |-> "version", i |-> 1, j |-> 0]
          /\ at'.stage = "version" /\ at'.i = 1 /\ at'.j = 0
      BY <2>1 DEF C!Place
    <2>3. /\ DOMAIN svc' = ServiceFields
          /\ svc'.timeout = C!ParseDuration(file.timeout) /\ svc'.hosts = file.hosts
          /\ svc'.extra = file.extra
          /\ svc'.agents = [i \in DOMAIN file.agents |-> C!NormalizeAgent(file.agents[i])]
          /\ svc'.endpoints = [i \in DOMAIN file.endpoints |-> C!NormalizeEndpoint(file.endpoints[i])]
      BY <2>1 DEF C!NormalizeService, ServiceFields
    <2>4. ServiceWalked'
      BY <2>1, <2>2, <2>3, FileFacts DEF ServiceWalked, IsTuple
    <2>5. ASSUME NEW i \in 1..Len(file.agents) PROVE AgentWalked(at', Global(file), file.agents[i], svc'.agents[i], i)
      <3>1. PICK w : w = file.agents[i]
        OBVIOUS
      <3>2. DOMAIN w = AgentFields /\ w.workers \in Int /\ w.backends \in Seq(C!FileBackend) /\ i \in DOMAIN file.agents
        BY <3>1, FileFacts
      <3>3. PICK a : a = C!NormalizeAgent(w)
        OBVIOUS
      <3>4. /\ DOMAIN a = AgentFields /\ a.workers = w.workers
            /\ a.timeout = C!ParseDuration(w.timeout) /\ a.interval = C!ParseDuration(w.interval)
            /\ a.backends = [j \in DOMAIN w.backends |-> C!NormalizeBackend(w.backends[j])]
        BY <3>2, <3>3 DEF C!NormalizeAgent, AgentFields
      <3>5. /\ IsTuple(a.backends, Len(w.backends))
            /\ \A j \in 1..Len(w.backends) : Fresh(w.backends[j], a.backends[j])
        BY <3>2, <3>4, BackendsDecoded
      <3>6. a.interval \in Int
        BY <3>4, DurationFacts
      <3>7. svc'.agents[i] = a /\ file'.agents[i] = w
        BY <2>1, <2>3, <3>1, <3>2, <3>3
      <3>8. ~Begun(at', "agents", i) /\ \A j : ~Walked(at', "agents", i, j)
        BY <2>2 DEF Begun, Walked, Past
      <3>9. AgentWalked(at', Global(file), w, a, i)
        BY <3>2, <3>4, <3>5, <3>6, <3>8 DEF AgentWalked
      <3>10. QED
        BY <3>1, <3>7, <3>9
    <2>6. ASSUME NEW i \in 1..Len(file.endpoints)
          PROVE  EndpointWalked(at', Global(file), file.endpoints[i], svc'.endpoints[i], i)
      <3>1. PICK w : w = file.endpoints[i]
        OBVIOUS
      <3>2. DOMAIN w = EndpointFields /\ w.calls \in Int /\ w.backends \in Seq(C!FileBackend) /\ i \in DOMAIN file.endpoints
        BY <3>1, FileFacts
      <3>3. PICK e : e = C!NormalizeEndpoint(w)
        OBVIOUS
      <3>4. /\ DOMAIN e = EndpointFields /\ e.calls = w.calls /\ e.inputs = w.inputs /\ e.path = w.path
            /\ e.timeout = C!ParseDuration(w.timeout)
            /\ e.backends = [j \in DOMAIN w.backends |-> C!NormalizeBackend(w.backends[j])]
        BY <3>2, <3>3 DEF C!NormalizeEndpoint, EndpointFields
      <3>5. /\ IsTuple(e.backends, Len(w.backends))
            /\ \A j \in 1..Len(w.backends) : Fresh(w.backends[j], e.backends[j])
        BY <3>2, <3>4, BackendsDecoded
      <3>6. svc'.endpoints[i] = e /\ file'.endpoints[i] = w
        BY <2>1, <2>3, <3>1, <3>2, <3>3
      <3>7. ~Begun(at', "endpoints", i) /\ \A j : ~Walked(at', "endpoints", i, j)
        BY <2>2 DEF Begun, Walked, Past
      <3>8. EndpointWalked(at', Global(file), w, e, i)
        BY <3>2, <3>4, <3>5, <3>7 DEF EndpointWalked
      <3>9. QED
        BY <3>1, <3>6, <3>8
    <2>7. AgentsWalked' /\ EndpointsWalked'
      BY <2>1, <2>5, <2>6 DEF AgentsWalked, EndpointsWalked
    <2>8. QED
      BY <2>1, <2>2, <2>3, <2>4, <2>7, GoesOn
  <1>3. QED
    BY <1>1, <1>2

\* Where the walk is: the places of a stage, in order, with nothing refused.
LEMMA WalkingFacts ==
    ASSUME WalkInv, err = "none", at.stage \in {"globals", "agents", "endpoints"}
    PROVE  /\ ServiceWalked /\ AgentsWalked /\ EndpointsWalked /\ svc.extra = file.extra
           /\ at.stage # "globals" => svc.timeout = Global(file) /\ svc.hosts \in {"clean", "none"}
           /\ DOMAIN svc = ServiceFields
           /\ at = [stage |-> at.stage, i |-> at.i, j |-> at.j] /\ at.i \in Nat /\ at.j \in Nat
           /\ at.stage # "globals" => at.i >= 1
  BY DEF WalkInv, PlaceTyped, ServiceWalked

\* The version is looked at, and nothing else.
LEMMA CheckVersionWalks ==
    ASSUME WalkInv, err = "none", C!CheckVersion
    PROVE  WalkInv'
  <1>1. CASE ~svc.version
    BY <1>1, RefusedEnds DEF C!CheckVersion
  <1>2. CASE svc.version
    <2>1. /\ at.stage = "version" /\ file' = file /\ svc' = svc
          /\ at' = [stage |-> "globals", i |-> 1, j |-> 0]
      BY <1>2 DEF C!CheckVersion, C!GoTo, C!Place
    <2>2. ServiceWalked /\ AgentsWalked /\ EndpointsWalked /\ svc.extra = file.extra
      BY <2>1 DEF WalkInv
    <2>3. at'.stage = "globals"
      BY <2>1
    <2>4. ServiceWalked' /\ svc'.extra = file'.extra
      BY <2>1, <2>2, <2>3 DEF ServiceWalked
    <2>5. AgentsWalked' /\ EndpointsWalked'
      BY <2>1, <2>2, <2>3 DEF AgentsWalked, AgentWalked, EndpointsWalked, EndpointWalked, Begun, Walked, Past
    <2>6. QED
      BY <2>1, <2>4, <2>5, GoesOn
  <1>3. QED
    BY <1>1, <1>2

\* The service has its own timeout or the default, and clean hosts.
LEMMA GlobalsWalk ==
    ASSUME C!WellFormed(file), WalkInv, err = "none", C!InitGlobalParams
    PROVE  WalkInv'
  <1>1. CASE ~svc.address \/ svc.hosts = "bad"
    BY <1>1, RefusedEnds DEF C!InitGlobalParams
  <1>2. CASE ~(~svc.address \/ svc.hosts = "bad")
    <2>1. /\ at.stage = "globals" /\ file' = file /\ svc.hosts # "bad"
          /\ svc' = [svc EXCEPT !.timeout = C!OrElse(@, 0, Default), !.hosts = C!SafeCleanHosts(@)]
          /\ at' = [stage |-> "agents", i |-> 1, j |-> 0]
      BY <1>2 DEF C!InitGlobalParams, C!GoTo, C!Place
    <2>2. at'.stage = "agents" /\ at'.i = 1 /\ at'.j = 0
      BY <2>1
    <2>3. ServiceWalked /\ AgentsWalked /\ EndpointsWalked /\ svc.extra = file.extra
      BY <2>1, WalkingFacts
    <2>4. /\ DOMAIN svc' = ServiceFields
          /\ svc'.timeout = Global(file) /\ svc'.hosts \in {"clean", "none"}
          /\ svc'.extra = svc.extra /\ svc'.agents = svc.agents /\ svc'.endpoints = svc.endpoints
      BY <2>1, <2>3 DEF ServiceWalked, ServiceFields, Global, C!SafeCleanHosts, C!WellFormed, C!HostLists
    <2>5. ServiceWalked'
      BY <2>1, <2>2, <2>3, <2>4 DEF ServiceWalked, Global
    <2>6. AgentsWalked'
      BY <2>1, <2>2, <2>3, <2>4 DEF AgentsWalked, AgentWalked, Begun, Walked, Past
    <2>7. EndpointsWalked'
      BY <2>1, <2>2, <2>3, <2>4 DEF EndpointsWalked, EndpointWalked, Begun, Walked, Past
    <2>8. QED
      BY <2>1, <2>3, <2>4, <2>5, <2>6, <2>7, GoesOn
  <1>3. QED
    BY <1>1, <1>2

\* A step at an agent is about no other, and about no endpoint.
LEMMA OneAgent ==
    ASSUME C!WellFormed(file), WalkInv, err = "none", at.stage = "agents", file' = file,
           NEW x \in 1..Len(file.agents), at.i = x,
           NEW y \in Nat \ {0}, at' = [stage |-> "agents", i |-> x, j |-> y],
           NEW a, svc' = [svc EXCEPT !.agents[x] = a],
           AgentWalked(at', Global(file), file.agents[x], a, x)
    PROVE  WalkInv'
  <1>1. /\ ServiceWalked /\ AgentsWalked /\ EndpointsWalked /\ svc.extra = file.extra
        /\ DOMAIN svc = ServiceFields
    BY WalkingFacts
  <1>2. at'.stage = "agents" /\ at'.i = x /\ at'.j = y
    OBVIOUS
  <1>3. Len(file.agents) \in Nat /\ IsTuple(svc.agents, Len(file.agents))
    BY <1>1, FileFacts DEF ServiceWalked
  <1>4. /\ svc'.agents = [svc.agents EXCEPT ![x] = a]
        /\ svc'.endpoints = svc.endpoints /\ svc'.extra = svc.extra /\ svc'.timeout = svc.timeout
        /\ svc'.hosts = svc.hosts /\ DOMAIN svc' = ServiceFields
    BY <1>1 DEF ServiceFields
  <1>5. /\ IsTuple(svc'.agents, Len(file.agents)) /\ svc'.agents[x] = a
        /\ \A i \in 1..Len(file.agents) : i # x => svc'.agents[i] = svc.agents[i]
    <2>1. DOMAIN svc.agents = 1..Len(file.agents)
      BY <1>3, TupleFacts
    <2>2. PICK s, t : s = svc.agents /\ t = svc'.agents
      OBVIOUS
    <2>3. DOMAIN s = 1..Len(file.agents) /\ t = [s EXCEPT ![x] = a]
      BY <1>4, <2>1, <2>2
    <2>4. IsTuple(t, Len(file.agents)) /\ t[x] = a /\ \A i \in 1..Len(file.agents) : i # x => t[i] = s[i]
      BY <2>3 DEF IsTuple
    <2>5. QED
      BY <2>2, <2>4
  <1>6. ServiceWalked'
    BY <1>1, <1>2, <1>4, <1>5 DEF ServiceWalked
  <1>7. ASSUME NEW i \in 1..Len(file.agents), i # x
        PROVE  AgentWalked(at', Global(file), file.agents[i], svc'.agents[i], i)
    <2>1. AgentWalked(at, Global(file), file.agents[i], svc.agents[i], i) /\ svc'.agents[i] = svc.agents[i]
      BY <1>1, <1>5, <1>7 DEF AgentsWalked
    <2>2. (Begun(at', "agents", i) <=> Begun(at, "agents", i))
          /\ \A j : Walked(at', "agents", i, j) <=> Walked(at, "agents", i, j)
      BY <1>2, <1>7 DEF Begun, Walked, Past
    <2>3. QED
      BY <2>1, <2>2 DEF AgentWalked
  <1>8. AgentsWalked'
    BY <1>5, <1>7 DEF AgentsWalked
  <1>9. EndpointsWalked'
    BY <1>1, <1>2, <1>4 DEF EndpointsWalked, EndpointWalked, Begun, Walked, Past
  <1>10. QED
    BY <1>1, <1>2, <1>4, <1>6, <1>8, <1>9, GoesOn

\* An agent takes what it lacks from the service.
LEMMA AgentDefaultsWalk ==
    ASSUME C!WellFormed(file), WalkInv, err = "none", C!InitAsyncAgentDefaults
    PROVE  WalkInv'
  <1>1. PICK x : x = at.i
    OBVIOUS
  <1>2. /\ ServiceWalked /\ AgentsWalked /\ svc.timeout = Global(file) /\ DOMAIN svc = ServiceFields
        /\ at.stage = "agents" /\ x <= Len(svc.agents) /\ at.j = 0 /\ file' = file
        /\ at = [stage |-> at.stage, i |-> at.i, j |-> at.j] /\ x \in Nat /\ x >= 1
    BY <1>1, WalkingFacts DEF C!InitAsyncAgentDefaults, C!GoTo
  <1>3. Len(file.agents) \in Nat /\ IsTuple(svc.agents, Len(file.agents))
    BY <1>2, FileFacts DEF ServiceWalked
  <1>4. x \in 1..Len(file.agents) /\ DOMAIN svc.agents = 1..Len(file.agents)
    BY <1>2, <1>3, TupleFacts
  <1>5. PICK o : o = svc.agents[x]
    OBVIOUS
  <1>6. PICK a : a = C!CompleteAgent(o)
    OBVIOUS
  <1>7. at' = [at EXCEPT !.j = 1] /\ svc' = [svc EXCEPT !.agents[x] = a]
    BY <1>1, <1>5, <1>6 DEF C!InitAsyncAgentDefaults, C!GoTo
  <1>8. at' = [stage |-> "agents", i |-> x, j |-> 1]
    <2>1. at = [stage |-> "agents", i |-> x, j |-> 0]
      BY <1>1, <1>2
    <2>2. QED
      BY <1>7, <2>1
  <1>9. PICK w : w = file.agents[x]
    OBVIOUS
  <1>10. AgentWalked(at, Global(file), w, o, x)
    BY <1>2, <1>4, <1>5, <1>9 DEF AgentsWalked
  <1>11. ~Begun(at, "agents", x) /\ \A j \in Nat : ~Walked(at, "agents", x, j)
    BY <1>1, <1>2 DEF Begun, Walked, Past
  <1>12. /\ DOMAIN o = AgentFields /\ IsTuple(o.backends, Len(w.backends))
         /\ o.timeout = C!ParseDuration(w.timeout) /\ o.workers \in Int /\ o.interval \in Int
         /\ \A j \in 1..Len(w.backends) : Fresh(w.backends[j], o.backends[j])
    BY <1>10, <1>11 DEF AgentWalked
  <1>13. /\ DOMAIN a = AgentFields /\ a.timeout = Own(w, Global(file))
         /\ a.workers \in Nat \ {0} /\ a.interval \in Nat \ {0} /\ a.backends = o.backends
    BY <1>2, <1>6, <1>12 DEF C!CompleteAgent, AgentFields, Own
  <1>14. Begun(at', "agents", x) /\ \A j \in Nat \ {0} : ~Walked(at', "agents", x, j)
    BY <1>2, <1>8 DEF Begun, Walked, Past
  <1>15. AgentWalked(at', Global(file), w, a, x)
    BY <1>12, <1>13, <1>14 DEF AgentWalked
  <1>16. QED
    BY <1>1, <1>2, <1>4, <1>7, <1>8, <1>9, <1>15, OneAgent

\* The hosts a backend is left with.
LEMMA HostsFacts ==
    ASSUME NEW was, was.hosts \in C!HostLists, NEW b, Fresh(was, b), ~C!Rejected(b), svc.hosts \in {"clean", "none"}
    PROVE  C!BackendHosts(b) \in {"clean", "none"} \/ b.unsafe
  BY DEF Fresh, Kept, C!Rejected, C!BackendHosts, C!SafeCleanHosts, C!HostLists

\* A backend of an agent takes what it lacks from both.
LEMMA AgentBackendWalks ==
    ASSUME C!WellFormed(file), WalkInv, err = "none", C!InitAsyncAgentBackend
    PROVE  WalkInv'
  <1>1. PICK x, y : x = at.i /\ y = at.j
    OBVIOUS
  <1>2. /\ ServiceWalked /\ AgentsWalked /\ EndpointsWalked /\ svc.extra = file.extra
        /\ svc.hosts \in {"clean", "none"} /\ DOMAIN svc = ServiceFields
        /\ at.stage = "agents" /\ x <= Len(svc.agents)
        /\ at = [stage |-> "agents", i |-> x, j |-> y] /\ x \in Nat /\ x >= 1 /\ y \in Nat /\ y > 0
    BY <1>1, WalkingFacts DEF C!InitAsyncAgentBackend
  <1>3. Len(file.agents) \in Nat /\ IsTuple(svc.agents, Len(file.agents))
    BY <1>2, FileFacts DEF ServiceWalked
  <1>4. x \in 1..Len(file.agents) /\ DOMAIN svc.agents = 1..Len(file.agents)
    BY <1>2, <1>3, TupleFacts
  <1>5. PICK a, w : a = svc.agents[x] /\ w = file.agents[x]
    OBVIOUS
  <1>6. w.backends \in Seq(C!FileBackend) /\ Len(w.backends) \in Nat
    BY <1>4, <1>5, FileFacts
  <1>7. AgentWalked(at, Global(file), w, a, x)
    BY <1>2, <1>4, <1>5 DEF AgentsWalked
  <1>8. DOMAIN a.backends = 1..Len(w.backends) /\ Len(a.backends) = Len(w.backends)
    BY <1>6, <1>7, TupleFacts DEF AgentWalked
  <1>9. CASE y > Len(a.backends)
    <2>1. at' = [stage |-> "agents", i |-> x + 1, j |-> 0] /\ svc' = svc /\ file' = file
      BY <1>1, <1>5, <1>9 DEF C!InitAsyncAgentBackend, C!GoTo, C!Place
    <2>2. at'.stage = "agents" /\ at'.i = x + 1 /\ at'.j = 0
      BY <2>1
    <2>3. ASSUME NEW i \in 1..Len(file.agents)
          PROVE  AgentWalked(at', Global(file), file.agents[i], svc'.agents[i], i)
      <3>1. AgentWalked(at, Global(file), file.agents[i], svc.agents[i], i)
        BY <1>2 DEF AgentsWalked
      <3>2. PICK n : n = Len(file.agents[i].backends)
        OBVIOUS
      <3>3. n \in Nat /\ (i = x => n < y)
        BY <1>5, <1>8, <1>9, <3>2, FileFacts, FileBackendFacts
      <3>4. Begun(at', "agents", i) <=> Begun(at, "agents", i)
        BY <1>2, <2>2 DEF Begun, Past
      <3>5. \A j \in 1..n : Walked(at', "agents", i, j) <=> Walked(at, "agents", i, j)
        BY <1>2, <2>2, <3>3 DEF Walked, Past
      <3>6. QED
        BY <2>1, <3>1, <3>2, <3>4, <3>5 DEF AgentWalked
    <2>4. AgentsWalked'
      BY <2>1, <2>3 DEF AgentsWalked
    <2>5. ServiceWalked' /\ svc'.extra = file'.extra
      BY <1>2, <2>1, <2>2 DEF ServiceWalked
    <2>6. EndpointsWalked'
      BY <1>2, <2>1, <2>2 DEF EndpointsWalked, EndpointWalked, Begun, Walked, Past
    <2>7. QED
      BY <1>2, <2>1, <2>4, <2>5, <2>6, GoesOn
  <1>10. CASE ~(y > Len(a.backends)) /\ C!Rejected(a.backends[y])
    BY <1>1, <1>5, <1>10, RefusedEnds DEF C!InitAsyncAgentBackend
  <1>11. CASE ~(y > Len(a.backends)) /\ ~C!Rejected(a.backends[y])
    <2>1. PICK b, wb : b = a.backends[y] /\ wb = w.backends[y]
      OBVIOUS
    <2>2. PICK b2 : b2 = C!AgentInherit(a, b)
      OBVIOUS
    <2>3. /\ svc' = [svc EXCEPT !.agents[x].backends[y] = b2] /\ file' = file
          /\ at' = [at EXCEPT !.j = @ + 1]
      BY <1>1, <1>5, <1>11, <2>1, <2>2 DEF C!InitAsyncAgentBackend, C!GoTo
    <2>4. PICK a2 : a2 = [a EXCEPT !.backends[y] = b2]
      OBVIOUS
    <2>5. svc' = [svc EXCEPT !.agents[x] = a2]
      BY <1>5, <2>3, <2>4
    <2>6. at' = [stage |-> "agents", i |-> x, j |-> y + 1]
      BY <1>2, <2>3
    <2>7. y \in 1..Len(w.backends)
      BY <1>2, <1>6, <1>8, <1>11
    <2>8. /\ Begun(at, "agents", x) /\ Begun(at', "agents", x)
          /\ ~Walked(at, "agents", x, y) /\ Walked(at', "agents", x, y)
          /\ \A j \in 1..Len(w.backends) : j # y => (Walked(at', "agents", x, j) <=> Walked(at, "agents", x, j))
      BY <1>2, <1>6, <2>6, <2>7 DEF Begun, Walked, Past
    <2>9. DOMAIN a = AgentFields /\ Fresh(wb, b)
      BY <1>7, <2>1, <2>7, <2>8 DEF AgentWalked
    <2>10. wb.hosts \in C!HostLists
      BY <1>6, <2>1, <2>7, FileBackendFacts
    <2>11. C!BackendHosts(b) \in {"clean", "none"} \/ b.unsafe
      BY <1>2, <1>11, <2>1, <2>9, <2>10, HostsFacts
    <2>12. Bounded(wb, b2, a.timeout)
      BY <2>2, <2>9, <2>11 DEF C!AgentInherit, Bounded, Fresh, Kept, BackendFields
    <2>13. PICK t : t = [a.backends EXCEPT ![y] = b2]
      OBVIOUS
    <2>14. /\ IsTuple(t, Len(w.backends)) /\ t[y] = b2
           /\ \A j \in 1..Len(w.backends) : j # y => t[j] = a.backends[j]
      BY <1>8, <2>7, <2>13 DEF IsTuple
    <2>15. /\ DOMAIN a2 = AgentFields /\ a2.backends = t
           /\ a2.timeout = a.timeout /\ a2.workers = a.workers /\ a2.interval = a.interval
      BY <2>4, <2>9, <2>13 DEF AgentFields
    <2>16. AgentWalked(at', Global(file), w, a2, x)
      BY <1>7, <2>1, <2>7, <2>8, <2>12, <2>14, <2>15 DEF AgentWalked
    <2>17. QED
      BY <1>1, <1>2, <1>4, <1>5, <2>3, <2>5, <2>6, <2>16, OneAgent
  <1>12. QED
    BY <1>9, <1>10, <1>11

\* After the last agent all of them are complete.
LEMMA AgentsDoneWalks ==
    ASSUME C!WellFormed(file), WalkInv, err = "none", C!AgentsDone
    PROVE  WalkInv'
  <1>1. /\ at.stage = "agents" /\ at.i > Len(svc.agents) /\ svc' = svc /\ file' = file
        /\ at' = [stage |-> "endpoints", i |-> 1, j |-> 0]
    BY DEF C!AgentsDone, C!GoTo, C!Place
  <1>2. /\ ServiceWalked /\ AgentsWalked /\ EndpointsWalked /\ svc.extra = file.extra /\ at.i \in Nat
    BY <1>1, WalkingFacts
  <1>3. at'.stage = "endpoints" /\ at'.i = 1 /\ at'.j = 0
    BY <1>1
  <1>4. Len(file.agents) \in Nat /\ Len(svc.agents) = Len(file.agents)
    BY <1>2, FileFacts, TupleFacts DEF ServiceWalked
  <1>5. ASSUME NEW i \in 1..Len(file.agents)
        PROVE  AgentWalked(at', Global(file), file.agents[i], svc'.agents[i], i)
    <2>1. AgentWalked(at, Global(file), file.agents[i], svc.agents[i], i)
      BY <1>2 DEF AgentsWalked
    <2>2. /\ Begun(at', "agents", i) /\ Begun(at, "agents", i)
          /\ \A j : Walked(at', "agents", i, j) /\ Walked(at, "agents", i, j)
      BY <1>1, <1>2, <1>3, <1>4 DEF Begun, Walked, Past
    <2>3. QED
      BY <1>1, <2>1, <2>2 DEF AgentWalked
  <1>6. AgentsWalked'
    BY <1>1, <1>5 DEF AgentsWalked
  <1>7. ServiceWalked'
    BY <1>1, <1>2, <1>3 DEF ServiceWalked
  <1>8. ASSUME NEW i \in 1..Len(file.endpoints)
        PROVE  EndpointWalked(at', Global(file), file.endpoints[i], svc'.endpoints[i], i)
    <2>1. EndpointWalked(at, Global(file), file.endpoints[i], svc.endpoints[i], i)
      BY <1>2 DEF EndpointsWalked
    <2>2. /\ ~Begun(at', "endpoints", i) /\ ~Begun(at, "endpoints", i)
          /\ \A j \in Nat : ~Walked(at', "endpoints", i, j) /\ ~Walked(at, "endpoints", i, j)
      BY <1>1, <1>3 DEF Begun, Walked, Past
    <2>3. QED
      BY <1>1, <2>1, <2>2 DEF EndpointWalked
  <1>9. EndpointsWalked'
    BY <1>1, <1>8 DEF EndpointsWalked
  <1>10. QED
    BY <1>1, <1>2, <1>6, <1>7, <1>9, GoesOn

\* A step at an endpoint is about no other, and about no agent.
LEMMA OneEndpoint ==
    ASSUME C!WellFormed(file), WalkInv, err = "none", at.stage = "endpoints", file' = file,
           NEW x \in 1..Len(file.endpoints), at.i = x,
           NEW y \in Nat \ {0}, at' = [stage |-> "endpoints", i |-> x, j |-> y],
           NEW e, svc' = [svc EXCEPT !.endpoints[x] = e],
           EndpointWalked(at', Global(file), file.endpoints[x], e, x)
    PROVE  WalkInv'
  <1>1. /\ ServiceWalked /\ AgentsWalked /\ EndpointsWalked /\ svc.extra = file.extra
        /\ DOMAIN svc = ServiceFields
    BY WalkingFacts
  <1>2. at'.stage = "endpoints" /\ at'.i = x /\ at'.j = y
    OBVIOUS
  <1>3. Len(file.endpoints) \in Nat /\ IsTuple(svc.endpoints, Len(file.endpoints))
    BY <1>1, FileFacts DEF ServiceWalked
  <1>4. /\ svc'.endpoints = [svc.endpoints EXCEPT ![x] = e]
        /\ svc'.agents = svc.agents /\ svc'.extra = svc.extra /\ svc'.timeout = svc.timeout
        /\ svc'.hosts = svc.hosts /\ DOMAIN svc' = ServiceFields
    BY <1>1 DEF ServiceFields
  <1>5. /\ IsTuple(svc'.endpoints, Len(file.endpoints)) /\ svc'.endpoints[x] = e
        /\ \A i \in 1..Len(file.endpoints) : i # x => svc'.endpoints[i] = svc.endpoints[i]
    <2>1. DOMAIN svc.endpoints = 1..Len(file.endpoints)
      BY <1>3, TupleFacts
    <2>2. PICK s, t : s = svc.endpoints /\ t = svc'.endpoints
      OBVIOUS
    <2>3. DOMAIN s = 1..Len(file.endpoints) /\ t = [s EXCEPT ![x] = e]
      BY <1>4, <2>1, <2>2
    <2>4. IsTuple(t, Len(file.endpoints)) /\ t[x] = e /\ \A i \in 1..Len(file.endpoints) : i # x => t[i] = s[i]
      BY <2>3 DEF IsTuple
    <2>5. QED
      BY <2>2, <2>4
  <1>6. ServiceWalked'
    BY <1>1, <1>2, <1>4, <1>5 DEF ServiceWalked
  <1>7. ASSUME NEW i \in 1..Len(file.endpoints), i # x
        PROVE  EndpointWalked(at', Global(file), file.endpoints[i], svc'.endpoints[i], i)
    <2>1. EndpointWalked(at, Global(file), file.endpoints[i], svc.endpoints[i], i)
          /\ svc'.endpoints[i] = svc.endpoints[i]
      BY <1>1, <1>5, <1>7 DEF EndpointsWalked
    <2>2. (Begun(at', "endpoints", i) <=> Begun(at, "endpoints", i))
          /\ \A j : Walked(at', "endpoints", i, j) <=> Walked(at, "endpoints", i, j)
      BY <1>2, <1>7 DEF Begun, Walked, Past
    <2>3. QED
      BY <2>1, <2>2 DEF EndpointWalked
  <1>8. EndpointsWalked'
    BY <1>5, <1>7 DEF EndpointsWalked
  <1>9. AgentsWalked'
    BY <1>1, <1>2, <1>4 DEF AgentsWalked, AgentWalked, Begun, Walked, Past
  <1>10. QED
    BY <1>1, <1>2, <1>4, <1>6, <1>8, <1>9, GoesOn

\* An endpoint takes what it lacks from the service, if it has backends.
LEMMA EndpointDefaultsWalk ==
    ASSUME C!WellFormed(file), WalkInv, err = "none", C!InitEndpoint
    PROVE  WalkInv'
  <1>1. PICK x : x = at.i
    OBVIOUS
  <1>2. /\ ServiceWalked /\ EndpointsWalked /\ svc.timeout = Global(file) /\ DOMAIN svc = ServiceFields
        /\ at.stage = "endpoints" /\ x <= Len(svc.endpoints) /\ at.j = 0
        /\ at = [stage |-> at.stage, i |-> at.i, j |-> at.j] /\ x \in Nat /\ x >= 1
    BY <1>1, WalkingFacts DEF C!InitEndpoint
  <1>3. Len(file.endpoints) \in Nat /\ IsTuple(svc.endpoints, Len(file.endpoints))
    BY <1>2, FileFacts DEF ServiceWalked
  <1>4. x \in 1..Len(file.endpoints) /\ DOMAIN svc.endpoints = 1..Len(file.endpoints)
    BY <1>2, <1>3, TupleFacts
  <1>5. PICK o, w : o = svc.endpoints[x] /\ w = file.endpoints[x]
    OBVIOUS
  <1>6. PICK e : e = C!Complete(o)
    OBVIOUS
  <1>7. CASE C!Validate(o) # "none"
    BY <1>1, <1>5, <1>7, RefusedEnds DEF C!InitEndpoint
  <1>8. CASE C!Validate(o) = "none" /\ e.output = "no-op" /\ Len(o.backends) > 1
    BY <1>1, <1>5, <1>6, <1>8, RefusedEnds DEF C!InitEndpoint
  <1>9. CASE C!Validate(o) = "none" /\ ~(e.output = "no-op" /\ Len(o.backends) > 1)
    <2>1. at' = [at EXCEPT !.j = 1] /\ svc' = [svc EXCEPT !.endpoints[x] = e] /\ file' = file
      BY <1>1, <1>5, <1>6, <1>9 DEF C!InitEndpoint, C!GoTo
    <2>2. at' = [stage |-> "endpoints", i |-> x, j |-> 1]
      <3>1. at = [stage |-> "endpoints", i |-> x, j |-> 0]
        BY <1>1, <1>2
      <3>2. QED
        BY <2>1, <3>1
    <2>3. EndpointWalked(at, Global(file), w, o, x)
      BY <1>2, <1>4, <1>5 DEF EndpointsWalked
    <2>4. ~Begun(at, "endpoints", x) /\ \A j \in Nat : ~Walked(at, "endpoints", x, j)
      BY <1>1, <1>2 DEF Begun, Walked, Past
    <2>5. /\ DOMAIN o = EndpointFields /\ IsTuple(o.backends, Len(w.backends)) /\ o.inputs = w.inputs
          /\ o.path = w.path
          /\ o.timeout = C!ParseDuration(w.timeout) /\ o.calls \in Int
          /\ \A j \in 1..Len(w.backends) : Fresh(w.backends[j], o.backends[j])
      BY <2>3, <2>4 DEF EndpointWalked
    <2>6. Len(o.backends) = Len(w.backends) /\ DOMAIN o.backends = 1..Len(w.backends) /\ Len(w.backends) \in Nat
      BY <1>4, <1>5, <2>5, FileFacts, FileBackendFacts, TupleFacts
    <2>7. w.path \notin Reserved /\ Len(w.backends) # 0
      <3>1. o.path \notin Reserved /\ o.backends # << >>
        BY <1>9 DEF C!Validate
      <3>2. Len(w.backends) = 0 => o.backends = << >>
        BY <2>5 DEF IsTuple
      <3>3. QED
        BY <2>5, <3>1, <3>2
    <2>8. /\ DOMAIN e = EndpointFields /\ e.timeout = Own(w, Global(file))
          /\ e.calls \in Int \ {0} /\ e.backends = o.backends /\ e.inputs = w.inputs
          /\ e.path = w.path
      BY <1>2, <1>6, <2>5 DEF C!Complete, C!OrElse, EndpointFields, Own
    <2>9. e.output = "no-op" => Len(w.backends) = 1
      <3>1. PICK n : n = Len(w.backends)
        OBVIOUS
      <3>2. n \in Nat \ {0} /\ n = Len(o.backends)
        BY <2>6, <2>7, <3>1
      <3>3. \A m \in Nat \ {0} : m > 1 \/ m = 1
        OBVIOUS
      <3>4. QED
        BY <1>9, <3>1, <3>2, <3>3
    <2>10. Begun(at', "endpoints", x) /\ \A j \in Nat \ {0} : ~Walked(at', "endpoints", x, j)
      BY <1>2, <2>2 DEF Begun, Walked, Past
    <2>11. EndpointWalked(at', Global(file), w, e, x)
      BY <2>5, <2>7, <2>8, <2>9, <2>10 DEF EndpointWalked
    <2>12. QED
      BY <1>1, <1>2, <1>4, <1>5, <2>1, <2>2, <2>11, OneEndpoint
  <1>10. QED
    BY <1>7, <1>8, <1>9

\* A backend of an endpoint has the hosts, timeout and keys it should.
LEMMA EndpointBackendWalks ==
    ASSUME C!WellFormed(file), WalkInv, err = "none", C!InitBackend
    PROVE  WalkInv'
  <1>1. PICK x, y : x = at.i /\ y = at.j
    OBVIOUS
  <1>2. /\ ServiceWalked /\ AgentsWalked /\ EndpointsWalked /\ svc.extra = file.extra
        /\ svc.hosts \in {"clean", "none"} /\ DOMAIN svc = ServiceFields
        /\ at.stage = "endpoints" /\ x <= Len(svc.endpoints)
        /\ at = [stage |-> "endpoints", i |-> x, j |-> y] /\ x \in Nat /\ x >= 1 /\ y \in Nat /\ y > 0
    BY <1>1, WalkingFacts DEF C!InitBackend
  <1>3. Len(file.endpoints) \in Nat /\ IsTuple(svc.endpoints, Len(file.endpoints))
    BY <1>2, FileFacts DEF ServiceWalked
  <1>4. x \in 1..Len(file.endpoints) /\ DOMAIN svc.endpoints = 1..Len(file.endpoints)
    BY <1>2, <1>3, TupleFacts
  <1>5. PICK e, w : e = svc.endpoints[x] /\ w = file.endpoints[x]
    OBVIOUS
  <1>6. w.backends \in Seq(C!FileBackend) /\ Len(w.backends) \in Nat
    BY <1>4, <1>5, FileFacts
  <1>7. EndpointWalked(at, Global(file), w, e, x)
    BY <1>2, <1>4, <1>5 DEF EndpointsWalked
  <1>8. DOMAIN e.backends = 1..Len(w.backends) /\ Len(e.backends) = Len(w.backends)
    BY <1>6, <1>7, TupleFacts DEF EndpointWalked
  <1>9. CASE y > Len(e.backends)
    <2>1. at' = [stage |-> "endpoints", i |-> x + 1, j |-> 0] /\ svc' = svc /\ file' = file
      BY <1>1, <1>5, <1>9 DEF C!InitBackend, C!GoTo, C!Place
    <2>2. at'.stage = "endpoints" /\ at'.i = x + 1 /\ at'.j = 0
      BY <2>1
    <2>3. ASSUME NEW i \in 1..Len(file.endpoints)
          PROVE  EndpointWalked(at', Global(file), file.endpoints[i], svc'.endpoints[i], i)
      <3>1. EndpointWalked(at, Global(file), file.endpoints[i], svc.endpoints[i], i)
        BY <1>2 DEF EndpointsWalked
      <3>2. PICK n : n = Len(file.endpoints[i].backends)
        OBVIOUS
      <3>3. n \in Nat /\ (i = x => n < y)
        BY <1>5, <1>8, <1>9, <3>2, FileFacts, FileBackendFacts
      <3>4. Begun(at', "endpoints", i) <=> Begun(at, "endpoints", i)
        BY <1>2, <2>2 DEF Begun, Past
      <3>5. \A j \in 1..n : Walked(at', "endpoints", i, j) <=> Walked(at, "endpoints", i, j)
        BY <1>2, <2>2, <3>3 DEF Walked, Past
      <3>6. QED
        BY <2>1, <3>1, <3>2, <3>4, <3>5 DEF EndpointWalked
    <2>4. EndpointsWalked'
      BY <2>1, <2>3 DEF EndpointsWalked
    <2>5. ServiceWalked' /\ svc'.extra = file'.extra
      BY <1>2, <2>1, <2>2 DEF ServiceWalked
    <2>6. AgentsWalked'
      BY <1>2, <2>1, <2>2 DEF AgentsWalked, AgentWalked, Begun, Walked, Past
    <2>7. QED
      BY <1>2, <2>1, <2>4, <2>5, <2>6, GoesOn
  <1>10. CASE ~(y > Len(e.backends)) /\ C!Rejected(e.backends[y])
    BY <1>1, <1>5, <1>10, RefusedEnds DEF C!InitBackend
  <1>11. CASE ~(y > Len(e.backends)) /\ C!MappingError(e, e.backends[y]) # "none"
    BY <1>1, <1>5, <1>10, <1>11, RefusedEnds DEF C!InitBackend
  <1>12. CASE ~(y > Len(e.backends)) /\ ~C!Rejected(e.backends[y]) /\ C!MappingError(e, e.backends[y]) = "none"
    <2>1. PICK b, wb : b = e.backends[y] /\ wb = w.backends[y]
      OBVIOUS
    <2>2. PICK b2 : b2 = C!Inherit(e, b)
      OBVIOUS
    <2>3. /\ svc' = [svc EXCEPT !.endpoints[x].backends[y] = b2] /\ file' = file
          /\ at' = [at EXCEPT !.j = @ + 1]
      BY <1>1, <1>5, <1>12, <2>1, <2>2 DEF C!InitBackend, C!GoTo
    <2>4. PICK e2 : e2 = [e EXCEPT !.backends[y] = b2]
      OBVIOUS
    <2>5. svc' = [svc EXCEPT !.endpoints[x] = e2]
      BY <1>5, <2>3, <2>4
    <2>6. at' = [stage |-> "endpoints", i |-> x, j |-> y + 1]
      BY <1>2, <2>3
    <2>7. y \in 1..Len(w.backends)
      BY <1>2, <1>6, <1>8, <1>12
    <2>8. /\ Begun(at, "endpoints", x) /\ Begun(at', "endpoints", x)
          /\ ~Walked(at, "endpoints", x, y) /\ Walked(at', "endpoints", x, y)
          /\ \A j \in 1..Len(w.backends) : j # y => (Walked(at', "endpoints", x, j) <=> Walked(at, "endpoints", x, j))
      BY <1>2, <1>6, <2>6, <2>7 DEF Begun, Walked, Past
    <2>9. DOMAIN e = EndpointFields /\ Fresh(wb, b)
      BY <1>7, <2>1, <2>7, <2>8 DEF EndpointWalked
    <2>10. wb.hosts \in C!HostLists
      BY <1>6, <2>1, <2>7, FileBackendFacts
    <2>11. C!BackendHosts(b) \in {"clean", "none"} \/ b.unsafe
      BY <1>2, <1>12, <2>1, <2>9, <2>10, HostsFacts
    <2>12. /\ DOMAIN b2 = BackendFields /\ b2.unsafe = b.unsafe /\ b2.pattern = b.pattern /\ b2.scheme = b.scheme
           /\ b2.hosts = C!BackendHosts(b) /\ b2.timeout = e.timeout /\ b2.keys = C!URLKeys(b)
           /\ b2.encoding = (IF e.output = "no-op" THEN "no-op" ELSE b.encoding)
           /\ b2.decoder = C!DecoderOf(IF e.output = "no-op" THEN "no-op" ELSE b.encoding)
      BY <2>2, <2>9 DEF C!Inherit, Fresh, Kept, BackendFields
    <2>13. Bounded(wb, b2, e.timeout)
      BY <2>9, <2>11, <2>12 DEF Bounded, Fresh, Kept
    <2>14. Mapped(wb, e, b2)
      <3>1. b.pattern \ Sequential \subseteq e.inputs
        BY <1>12, <2>1 DEF C!MappingError
      <3>2. C!URLKeys(b2) = C!URLKeys(b)
        BY <2>12 DEF C!URLKeys
      <3>3. b2.decoder = "no-op" => e.output = "no-op" \/ ToLower[wb.encoding] = "no-op"
        BY <2>9, <2>12 DEF C!DecoderOf, Fresh
      <3>4. QED
        BY <2>12, <3>1, <3>2, <3>3 DEF Mapped
    <2>15. PICK t : t = [e.backends EXCEPT ![y] = b2]
      OBVIOUS
    <2>16. /\ IsTuple(t, Len(w.backends)) /\ t[y] = b2
           /\ \A j \in 1..Len(w.backends) : j # y => t[j] = e.backends[j]
      BY <1>8, <2>7, <2>15 DEF IsTuple
    <2>17. /\ DOMAIN e2 = EndpointFields /\ e2.backends = t
           /\ e2.timeout = e.timeout /\ e2.inputs = e.inputs /\ e2.calls = e.calls /\ e2.output = e.output
          /\ e2.path = e.path
      BY <2>4, <2>9, <2>15 DEF EndpointFields
    <2>18. \A v, z : Mapped(v, e, z) => Mapped(v, e2, z)
      BY <2>17 DEF Mapped
    <2>19. \A j \in 1..Len(w.backends) :
            IF Walked(at', "endpoints", x, j)
            THEN Bounded(w.backends[j], t[j], e.timeout) /\ Mapped(w.backends[j], e2, t[j])
            ELSE Fresh(w.backends[j], t[j])
      BY <1>7, <2>1, <2>8, <2>13, <2>14, <2>16, <2>18 DEF EndpointWalked
    <2>20. EndpointWalked(at', Global(file), w, e2, x)
      BY <1>7, <2>8, <2>16, <2>17, <2>19 DEF EndpointWalked
    <2>21. QED
      BY <1>1, <1>2, <1>4, <1>5, <2>3, <2>5, <2>6, <2>20, OneEndpoint
  <1>13. QED
    BY <1>9, <1>10, <1>11, <1>12

\* After the last endpoint all of them are complete; nothing is renamed.
LEMMA EndpointsDoneWalks ==
    ASSUME C!WellFormed(file), WalkInv, err = "none", C!EndpointsDone
    PROVE  WalkInv'
  <1>1. /\ at.stage = "endpoints" /\ at.i > Len(svc.endpoints) /\ svc' = svc /\ file' = file
        /\ at' = [stage |-> "aliases", i |-> 0, j |-> 0] /\ pending' = DOMAIN svc.extra
    BY DEF C!EndpointsDone, C!Place
  <1>2. /\ ServiceWalked /\ AgentsWalked /\ EndpointsWalked /\ svc.extra = file.extra /\ at.i \in Nat
    BY <1>1, WalkingFacts
  <1>3. at'.stage = "aliases" /\ at'.i = 0 /\ at'.j = 0
    BY <1>1
  <1>4. Len(file.endpoints) \in Nat /\ Len(svc.endpoints) = Len(file.endpoints)
    BY <1>2, FileFacts, TupleFacts DEF ServiceWalked
  <1>5. ASSUME NEW i \in 1..Len(file.endpoints)
        PROVE  EndpointWalked(at', Global(file), file.endpoints[i], svc'.endpoints[i], i)
    <2>1. EndpointWalked(at, Global(file), file.endpoints[i], svc.endpoints[i], i)
      BY <1>2 DEF EndpointsWalked
    <2>2. /\ Begun(at', "endpoints", i) /\ Begun(at, "endpoints", i)
          /\ \A j : Walked(at', "endpoints", i, j) /\ Walked(at, "endpoints", i, j)
      BY <1>1, <1>2, <1>3, <1>4 DEF Begun, Walked, Past
    <2>3. QED
      BY <1>1, <2>1, <2>2 DEF EndpointWalked
  <1>6. EndpointsWalked'
    BY <1>1, <1>5 DEF EndpointsWalked
  <1>7. ServiceWalked'
    BY <1>1, <1>2, <1>3 DEF ServiceWalked
  <1>8. ASSUME NEW i \in 1..Len(file.agents)
        PROVE  AgentWalked(at', Global(file), file.agents[i], svc'.agents[i], i)
    <2>1. AgentWalked(at, Global(file), file.agents[i], svc.agents[i], i)
      BY <1>2 DEF AgentsWalked
    <2>2. /\ Begun(at', "agents", i) /\ Begun(at, "agents", i)
          /\ \A j : Walked(at', "agents", i, j) /\ Walked(at, "agents", i, j)
      BY <1>1, <1>3 DEF Begun, Walked, Past
    <2>3. QED
      BY <1>1, <2>1, <2>2 DEF AgentWalked
  <1>9. AgentsWalked'
    BY <1>1, <1>8 DEF AgentsWalked
  <1>10. Renaming(file'.extra, svc'.extra, pending')
    BY <1>1, <1>2 DEF Renaming, Renamed, Into
  <1>11. PlaceTyped'
    BY <1>1 DEF PlaceTyped, C!Stages
  <1>12. QED
    BY <1>3, <1>6, <1>7, <1>9, <1>10, <1>11 DEF WalkInv

\* Renaming one more namespace.
LEMMA RenamesOne ==
    ASSUME NEW was, NEW is, NEW left, left \subseteq DOMAIN is, Renaming(was, is, left),
           NEW m \in left, m \in DOMAIN Alias,
           NEW is2, is2 = C!Without(C!With(is, Alias[m], is[m]), m),
           NEW left2, left2 \ {Alias[m]} = left \ {m, Alias[m]}, m \notin left2
    PROVE  Renaming(was, is2, left2)
  <1>1. SUFFICES ASSUME \A n \in DOMAIN was \cap DOMAIN Alias : Alias[n] \notin DOMAIN Alias
                 PROVE  /\ DOMAIN is2 = (DOMAIN was \ Renamed(was, left2)) \cup {Alias[n] : n \in Renamed(was, left2)}
                        /\ \A t \in DOMAIN is2 :
                            IF Into(was, left2, t) = {} THEN is2[t] = was[t]
                            ELSE is2[t] \in {was[n] : n \in Into(was, left2, t)}
    BY DEF Renaming
  <1>2. PICK D, R0, t0 : D = DOMAIN was /\ R0 = Renamed(was, left) /\ t0 = Alias[m]
    OBVIOUS
  <1>3. /\ DOMAIN is = (D \ R0) \cup {Alias[n] : n \in R0}
        /\ \A t \in DOMAIN is :
            IF Into(was, left, t) = {} THEN is[t] = was[t] ELSE is[t] \in {was[n] : n \in Into(was, left, t)}
    BY <1>1, <1>2 DEF Renaming
  <1>4. R0 \subseteq D /\ R0 \subseteq DOMAIN Alias /\ R0 \cap left = {}
    BY <1>2 DEF Renamed
  <1>5. m \in D /\ m \notin R0 /\ m \in DOMAIN is
    BY <1>1, <1>2, <1>3, <1>4
  <1>6. t0 \notin DOMAIN Alias /\ t0 # m
    BY <1>1, <1>2, <1>5
  <1>7. Renamed(was, left2) = R0 \cup {m}
    BY <1>2, <1>5, <1>6 DEF Renamed
  <1>8. Into(was, left, m) = {} /\ is[m] = was[m]
    <2>1. Into(was, left, m) = {}
      BY <1>1, <1>2, <1>4 DEF Into
    <2>2. QED
      BY <1>3, <1>5, <2>1
  <1>9. DOMAIN is2 = (DOMAIN is \cup {t0}) \ {m}
    BY <1>2 DEF C!Without, C!With
  <1>10. \A t \in DOMAIN is2 : is2[t] = IF t = t0 THEN is[m] ELSE is[t]
    BY <1>2, <1>9 DEF C!Without, C!With
  <1>11. \A n \in R0 : Alias[n] # m
    BY <1>1, <1>2, <1>4
  <1>12. DOMAIN is2 = (D \ (R0 \cup {m})) \cup {Alias[n] : n \in R0 \cup {m}}
    BY <1>2, <1>3, <1>6, <1>9, <1>11
  <1>13. ASSUME NEW t \in DOMAIN is2
         PROVE  IF Into(was, left2, t) = {} THEN is2[t] = was[t]
                ELSE is2[t] \in {was[n] : n \in Into(was, left2, t)}
    <2>1. CASE t = t0
      <3>1. m \in Into(was, left2, t)
        BY <1>2, <1>7, <2>1 DEF Into
      <3>2. is2[t] = was[m]
        BY <1>8, <1>10, <2>1
      <3>3. QED
        BY <3>1, <3>2
    <2>2. CASE t # t0
      <3>1. Into(was, left2, t) = Into(was, left, t)
        BY <1>2, <1>7, <2>2 DEF Into
      <3>2. t \in DOMAIN is /\ is2[t] = is[t]
        BY <1>9, <1>10, <2>2
      <3>3. QED
        BY <1>3, <3>1, <3>2
    <2>3. QED
      BY <2>1, <2>2
  <1>14. QED
    BY <1>2, <1>7, <1>12, <1>13

\* A namespace is renamed, and everything else is as it was.
LEMMA AliasWalks ==
    ASSUME WalkInv, BaseInv, err = "none", NEW m \in pending, C!ResolveAlias(m)
    PROVE  WalkInv' /\ pending' \subseteq DOMAIN svc'.extra /\ svc'.timeout = svc.timeout
  <1>1. /\ ServiceWalked /\ AgentsWalked /\ EndpointsWalked /\ Renaming(file.extra, svc.extra, pending)
        /\ PlaceTyped /\ at.stage = "aliases" /\ UNCHANGED <<file, at, err>>
        /\ DOMAIN svc = ServiceFields /\ pending \subseteq DOMAIN svc.extra
    BY DEF WalkInv, BaseInv, ServiceWalked, C!ResolveAlias
  <1>2. /\ Renaming(file.extra, svc'.extra, pending') /\ pending' \subseteq DOMAIN svc'.extra
        /\ DOMAIN svc' = ServiceFields
        /\ svc'.timeout = svc.timeout /\ svc'.hosts = svc.hosts
        /\ svc'.agents = svc.agents /\ svc'.endpoints = svc.endpoints
    <2>1. CASE m \notin DOMAIN Alias
      <3>1. pending' = pending \ {m} /\ svc' = svc
        BY <2>1 DEF C!ResolveAlias
      <3>2. PICK D, l, l2 : D = file.extra /\ l = pending /\ l2 = pending'
        OBVIOUS
      <3>3. Renamed(D, l2) = Renamed(D, l)
        BY <2>1, <3>1, <3>2 DEF Renamed
      <3>4. Renaming(D, svc.extra, l2)
        BY <1>1, <3>2, <3>3 DEF Renaming, Into
      <3>5. QED
        BY <1>1, <3>1, <3>2, <3>4
    <2>2. CASE m \in DOMAIN Alias
      <3>1. PICK is : is = svc.extra
        OBVIOUS
      <3>2. PICK is2 : is2 = C!Without(C!With(is, Alias[m], is[m]), m)
        OBVIOUS
      <3>3. svc' = [svc EXCEPT !.extra = is2]
        BY <2>2, <3>1, <3>2 DEF C!ResolveAlias
      <3>4. PICK more \in SUBSET ({Alias[m]} \ DOMAIN is) : pending' = (pending \ {m}) \cup more
        BY <2>2, <3>1 DEF C!ResolveAlias
      <3>5. PICK l, l2 : l = pending /\ l2 = pending'
        OBVIOUS
      <3>6. m \in l /\ l \subseteq DOMAIN is /\ l2 \ {Alias[m]} = l \ {m, Alias[m]} /\ m \notin l2
        BY <1>1, <3>1, <3>4, <3>5
      <3>7. PICK was : was = file.extra
        OBVIOUS
      <3>8. Renaming(was, is, l)
        BY <1>1, <3>1, <3>5, <3>7
      <3>9. Renaming(was, is2, l2)
        BY <2>2, <3>2, <3>6, <3>8, RenamesOne
      <3>10. DOMAIN is2 = (DOMAIN is \cup {Alias[m]}) \ {m}
        BY <3>2 DEF C!Without, C!With
      <3>11. l2 \subseteq DOMAIN is2
        BY <3>4, <3>5, <3>6, <3>10
      <3>12. /\ svc'.extra = is2 /\ DOMAIN svc' = ServiceFields
             /\ svc'.timeout = svc.timeout /\ svc'.hosts = svc.hosts
             /\ svc'.agents = svc.agents /\ svc'.endpoints = svc.endpoints
        BY <1>1, <3>3 DEF ServiceFields
      <3>13. QED
        BY <3>5, <3>7, <3>9, <3>11, <3>12
    <2>3. QED
      BY <2>1, <2>2
  <1>3. ServiceWalked'
    BY <1>1, <1>2 DEF ServiceWalked
  <1>4. AgentsWalked' /\ EndpointsWalked'
    BY <1>1, <1>2 DEF AgentsWalked, EndpointsWalked
  <1>5. PlaceTyped'
    BY <1>1 DEF PlaceTyped
  <1>6. QED
    BY <1>1, <1>2, <1>3, <1>4, <1>5 DEF WalkInv

\* After the last namespace nothing is left to rename.
LEMMA NormalizedWalks ==
    ASSUME WalkInv, err = "none", C!Normalized
    PROVE  WalkInv'
  <1>1. /\ at.stage = "aliases" /\ UNCHANGED <<svc, file, pending>>
        /\ at' = [stage |-> "done", i |-> 0, j |-> 0]
    BY DEF C!Normalized, C!GoTo, C!Place
  <1>2. ServiceWalked /\ AgentsWalked /\ EndpointsWalked /\ Renaming(file.extra, svc.extra, pending)
    BY <1>1 DEF WalkInv
  <1>3. at'.stage = "done"
    BY <1>1
  <1>4. PlaceTyped'
    BY <1>1 DEF PlaceTyped, C!Stages
  <1>5. ServiceWalked'
    BY <1>1, <1>2, <1>3 DEF ServiceWalked
  <1>6. /\ \A i : Begun(at', "agents", i) /\ Begun(at, "agents", i)
        /\ \A i : Begun(at', "endpoints", i) /\ Begun(at, "endpoints", i)
        /\ \A i, j : Walked(at', "agents", i, j) /\ Walked(at, "agents", i, j)
        /\ \A i, j : Walked(at', "endpoints", i, j) /\ Walked(at, "endpoints", i, j)
    BY <1>1, <1>3 DEF Begun, Walked, Past
  <1>7. AgentsWalked'
    BY <1>1, <1>2, <1>6 DEF AgentsWalked, AgentWalked
  <1>8. EndpointsWalked'
    BY <1>1, <1>2, <1>6 DEF EndpointsWalked, EndpointWalked
  <1>9. QED
    BY <1>1, <1>2, <1>3, <1>4, <1>5, <1>7, <1>8 DEF WalkInv

\* Reading the file changes nothing of the configuration.
LEMMA ReadWalks ==
    ASSUME WalkInv, err = "none", C!ReadFile
    PROVE  WalkInv'
  <1>1. CASE file.state = "unreadable"
    BY <1>1, RefusedEnds DEF C!ReadFile
  <1>2. CASE file.state # "unreadable"
    <2>1. /\ at.stage = "read" /\ svc' = svc /\ at' = [stage |-> "decode", i |-> 1, j |-> 0]
      BY <1>2 DEF C!ReadFile, C!GoTo, C!Place
    <2>2. at'.stage = "decode" /\ PlaceTyped' /\ svc' = C!Empty
      BY <2>1 DEF PlaceTyped, C!Stages, WalkInv
    <2>3. QED
      BY <2>2 DEF WalkInv, C!Empty
  <1>3. QED
    BY <1>1, <1>2

\* A configuration that is refused for its placeholders is left as it is.
LEMMA PlaceholdersRefused ==
    ASSUME C!WellFormed(file), WalkInv, err = "none", C!InitBackend, err' \in {"WrongNumberOfParams", "UndefinedOutputParam"}
    PROVE  C!RefusedForAReason'
  <1>1. PICK x, y : x = at.i /\ y = at.j
    OBVIOUS
  <1>2. /\ ServiceWalked /\ EndpointsWalked
        /\ at.stage = "endpoints" /\ x <= Len(svc.endpoints)
        /\ x \in Nat /\ x >= 1 /\ y \in Nat /\ y > 0
    BY <1>1, WalkingFacts DEF C!InitBackend
  <1>3. Len(file.endpoints) \in Nat /\ IsTuple(svc.endpoints, Len(file.endpoints))
    BY <1>2, FileFacts DEF ServiceWalked
  <1>4. x \in 1..Len(file.endpoints) /\ DOMAIN svc.endpoints = 1..Len(file.endpoints)
    BY <1>2, <1>3, TupleFacts
  <1>5. PICK e, w : e = svc.endpoints[x] /\ w = file.endpoints[x]
    OBVIOUS
  <1>6. Len(w.backends) \in Nat /\ IsFiniteSet(w.inputs)
    BY <1>4, <1>5, FileFacts, FileBackendFacts
  <1>7. IsTuple(e.backends, Len(w.backends)) /\ e.inputs = w.inputs
    BY <1>2, <1>4, <1>5 DEF EndpointsWalked, EndpointWalked
  <1>8. DOMAIN e.backends = 1..Len(w.backends) /\ Len(e.backends) = Len(w.backends)
    BY <1>6, <1>7, TupleFacts
  <1>9. PICK b : b = e.backends[y]
    OBVIOUS
  <1>10. ~(y > Len(e.backends)) /\ C!MappingError(e, b) # "none" /\ svc' = svc
    BY <1>1, <1>5, <1>9 DEF C!InitBackend, C!Fail, C!GoTo
  <1>11. y \in DOMAIN e.backends
    BY <1>2, <1>6, <1>8, <1>10
  <1>12. ~(b.pattern \subseteq e.inputs \cup Sequential)
    <2>1. SUFFICES ASSUME b.pattern \subseteq e.inputs \cup Sequential PROVE FALSE
      OBVIOUS
    <2>2. b.pattern \ Sequential \subseteq e.inputs
      BY <2>1
    <2>3. C!OutputSetSize(b.pattern) > C!Cardinality(e.inputs)
      BY <1>10, <2>2 DEF C!MappingError
    <2>4. PICK T : T = (IF b.pattern = {} THEN {} ELSE (b.pattern \ {C!Max(b.pattern)}) \ Sequential)
      OBVIOUS
    <2>5. T \subseteq e.inputs /\ IsFiniteSet(e.inputs)
      BY <1>6, <1>7, <2>2, <2>4
    <2>6. Cardinality(T) \in Nat /\ Cardinality(e.inputs) \in Nat /\ Cardinality(T) <= Cardinality(e.inputs)
      BY <2>5, FS_Subset, FS_CardinalityType
    <2>7. C!OutputSetSize(b.pattern) = Cardinality(T)
      <3>1. Cardinality({}) = 0
        BY FS_EmptySet
      <3>2. QED
        BY <2>4, <3>1, SameCardinality DEF C!OutputSetSize
    <2>8. QED
      BY <2>3, <2>6, <2>7, SameCardinality
  <1>13. QED
    BY <1>4, <1>5, <1>9, <1>10, <1>11, <1>12 DEF C!RefusedForAReason, C!EndpointOf, C!BackendOf

-----------------------------------------------------------------------------
(* The configuration: the whole walk                                       *)

\* A step refuses the configuration, goes on to a place before the renaming,
\* begins that or renames.
LEMMA ConfigStepKinds ==
    ASSUME C!Next, err = "none"
    PROVE  /\ file' = file
           /\ \/ \E e \in C!Errors : C!Fail(e)
              \/ err' = err /\ pending' = pending /\ at.stage # "aliases" /\ at'.stage # "aliases"
              \/ C!EndpointsDone
              \/ \E m \in pending : C!ResolveAlias(m)
              \/ C!Normalized
  <1>1. CASE C!ReadFile
    BY <1>1 DEF C!ReadFile, C!Fail, C!GoTo, C!Place, C!Errors
  <1>2. CASE C!Decode
    BY <1>2 DEF C!Decode, C!Fail, C!GoTo, C!Place, C!Errors
  <1>3. CASE C!CheckVersion
    BY <1>3 DEF C!CheckVersion, C!Fail, C!GoTo, C!Place, C!Errors
  <1>4. CASE C!InitGlobalParams
    BY <1>4 DEF C!InitGlobalParams, C!Fail, C!GoTo, C!Place, C!Errors
  <1>5. CASE C!InitAsyncAgentDefaults
    <2>1. at.stage = "agents" /\ at' = [at EXCEPT !.j = 1] /\ UNCHANGED <<file, pending, err>>
      BY <1>5 DEF C!InitAsyncAgentDefaults, C!GoTo
    <2>2. at'.stage = "agents"
      BY <2>1
    <2>3. QED
      BY <2>1, <2>2
  <1>6. CASE C!InitAsyncAgentBackend
    <2>1. \/ C!Fail("InvalidHost")
          \/ C!GoTo(C!Place("agents", at.i + 1, 0))
          \/ C!GoTo([at EXCEPT !.j = @ + 1])
      BY <1>6 DEF C!InitAsyncAgentBackend
    <2>2. at.stage = "agents"
      BY <1>6 DEF C!InitAsyncAgentBackend
    <2>3. CASE C!Fail("InvalidHost")
      BY <2>3 DEF C!Fail, C!Errors
    <2>4. CASE C!GoTo(C!Place("agents", at.i + 1, 0))
      BY <2>2, <2>4 DEF C!GoTo, C!Place
    <2>5. CASE C!GoTo([at EXCEPT !.j = @ + 1])
      BY <2>2, <2>5 DEF C!GoTo
    <2>6. QED
      BY <2>1, <2>3, <2>4, <2>5
  <1>7. CASE C!AgentsDone
    BY <1>7 DEF C!AgentsDone, C!GoTo, C!Place
  <1>8. CASE C!InitEndpoint
    <2>1. at.stage = "endpoints"
      BY <1>8 DEF C!InitEndpoint
    <2>2. PICK e : e = svc.endpoints[at.i]
      OBVIOUS
    <2>3. \/ C!Validate(e) # "none" /\ C!Fail(C!Validate(e))
          \/ C!Fail("InvalidNoOpEncoding")
          \/ C!GoTo([at EXCEPT !.j = 1])
      BY <1>8, <2>2 DEF C!InitEndpoint
    <2>4. C!Validate(e) # "none" => C!Validate(e) \in C!Errors
      BY DEF C!Validate, C!Errors
    <2>5. CASE C!GoTo([at EXCEPT !.j = 1])
      BY <2>1, <2>5 DEF C!GoTo
    <2>6. CASE C!Fail("InvalidNoOpEncoding")
      BY <2>6 DEF C!Fail, C!Errors
    <2>7. CASE C!Validate(e) # "none" /\ C!Fail(C!Validate(e))
      <3>1. PICK why \in C!Errors : why = C!Validate(e)
        BY <2>4, <2>7
      <3>2. C!Fail(why)
        BY <2>7, <3>1
      <3>3. QED
        BY <3>1, <3>2 DEF C!Fail
    <2>8. QED
      BY <2>3, <2>5, <2>6, <2>7
  <1>9. CASE C!InitBackend
    <2>1. at.stage = "endpoints"
      BY <1>9 DEF C!InitBackend
    <2>2. PICK e, b : e = svc.endpoints[at.i] /\ b = e.backends[at.j]
      OBVIOUS
    <2>3. \/ C!MappingError(e, b) # "none" /\ C!Fail(C!MappingError(e, b))
          \/ C!Fail("InvalidHost")
          \/ C!GoTo(C!Place("endpoints", at.i + 1, 0))
          \/ C!GoTo([at EXCEPT !.j = @ + 1])
      BY <1>9, <2>2 DEF C!InitBackend
    <2>4. C!MappingError(e, b) # "none" => C!MappingError(e, b) \in C!Errors
      BY DEF C!MappingError, C!Errors
    <2>5. CASE C!GoTo([at EXCEPT !.j = @ + 1])
      BY <2>1, <2>5 DEF C!GoTo
    <2>6. CASE C!Fail("InvalidHost")
      BY <2>6 DEF C!Fail, C!Errors
    <2>7. CASE C!MappingError(e, b) # "none" /\ C!Fail(C!MappingError(e, b))
      <3>1. PICK why \in C!Errors : why = C!MappingError(e, b)
        BY <2>4, <2>7
      <3>2. C!Fail(why)
        BY <2>7, <3>1
      <3>3. QED
        BY <3>1, <3>2 DEF C!Fail
    <2>8. CASE C!GoTo(C!Place("endpoints", at.i + 1, 0))
      BY <2>1, <2>8 DEF C!GoTo, C!Place
    <2>9. QED
      BY <2>3, <2>5, <2>6, <2>7, <2>8
  <1>10. CASE C!EndpointsDone
    BY <1>10 DEF C!EndpointsDone
  <1>11. CASE \E m \in pending : C!ResolveAlias(m)
    BY <1>11 DEF C!ResolveAlias
  <1>12. CASE C!Normalized
    BY <1>12 DEF C!Normalized, C!GoTo
  <1>13. QED
    BY <1>1, <1>2, <1>3, <1>4, <1>5, <1>6, <1>7, <1>8, <1>9, <1>10, <1>11, <1>12 DEF C!Next

\* While nothing was refused the timeout of the service is a number, and the
\* endpoints are a list.
LEMMA TimeoutTyped ==
    ASSUME C!WellFormed(file), WalkInv, err = "none"
    PROVE  svc.timeout \in Int /\ Len(svc.endpoints) \in Nat
  <1>1. CASE at.stage \in {"read", "decode"}
    <2>1. svc.timeout = C!Empty.timeout /\ svc.endpoints = C!Empty.endpoints
      BY <1>1 DEF WalkInv
    <2>2. C!Empty.timeout = 0 /\ C!Empty.endpoints = << >>
      BY DEF C!Empty
    <2>3. QED
      BY <2>1, <2>2
  <1>2. CASE at.stage \notin {"read", "decode"}
    <2>1. svc.timeout = C!ParseDuration(file.timeout) \/ svc.timeout = Global(file)
      BY <1>2 DEF WalkInv, ServiceWalked
    <2>2. C!ParseDuration(file.timeout) \in Int /\ Global(file) \in Int
      BY DurationFacts
    <2>3. Len(file.endpoints) \in Nat /\ IsTuple(svc.endpoints, Len(file.endpoints))
      BY <1>2, FileFacts DEF WalkInv, ServiceWalked
    <2>4. Len(svc.endpoints) \in Nat
      BY <2>3, TupleFacts
    <2>5. QED
      BY <2>1, <2>2, <2>4
  <1>3. QED
    BY <1>1, <1>2

\* Every step of the walk keeps what was done, and refuses for a reason.
LEMMA ConfigStep ==
    ASSUME C!WellFormed(file), WalkInv, BaseInv, C!Next
    PROVE  WalkInv' /\ BaseInv' /\ file' = file
  <1>1. at.stage # "done" /\ (at.stage = "aliases" => C!Normalized \/ \E m \in pending : C!ResolveAlias(m))
    BY DEF C!Next, C!ReadFile, C!Decode, C!CheckVersion, C!InitGlobalParams, C!InitAsyncAgentDefaults,
           C!InitAsyncAgentBackend, C!AgentsDone, C!InitEndpoint, C!InitBackend, C!EndpointsDone,
           C!ResolveAlias, C!Normalized
  <1>2. err = "none"
    BY <1>1 DEF BaseInv
  <1>3. WalkInv'
    BY <1>2, ReadWalks, DecodeWalks, CheckVersionWalks, GlobalsWalk, AgentDefaultsWalk, AgentBackendWalks,
       AgentsDoneWalks, EndpointDefaultsWalk, EndpointBackendWalks, EndpointsDoneWalks, AliasWalks,
       NormalizedWalks DEF C!Next
  <1>4. file' = file
    BY <1>2, ConfigStepKinds
  <1>5. err' = "none" => svc'.timeout \in Int /\ Len(svc'.endpoints) \in Nat
    <2>1. (C!WellFormed(file) /\ WalkInv /\ err = "none" => svc.timeout \in Int /\ Len(svc.endpoints) \in Nat)'
      BY TimeoutTyped, PTL
    <2>2. C!WellFormed(file)'
      BY <1>4 DEF C!WellFormed
    <2>3. QED
      BY <1>3, <2>1, <2>2
  <1>6. CASE \E e \in C!Errors : C!Fail(e)
    <2>1. err' \in C!Errors /\ at'.stage = "done" /\ svc' = svc /\ pending' = pending
      BY <1>6 DEF C!Fail, C!Place
    <2>2. C!RefusedForAReason'
      <3>1. CASE err' \in {"WrongNumberOfParams", "UndefinedOutputParam"}
        <4>1. C!InitBackend
          BY <1>1, <1>2, <3>1 DEF C!Next, C!ReadFile, C!Decode, C!CheckVersion, C!InitGlobalParams, C!InitAsyncAgentDefaults,
           C!InitAsyncAgentBackend, C!AgentsDone, C!InitEndpoint, C!EndpointsDone,
           C!ResolveAlias, C!Normalized, C!Fail, C!GoTo, C!Validate
        <4>2. QED
          BY <1>2, <3>1, <4>1, PlaceholdersRefused
      <3>2. CASE err' \notin {"WrongNumberOfParams", "UndefinedOutputParam"}
        BY <3>2 DEF C!RefusedForAReason
      <3>3. QED
        BY <3>1, <3>2
    <2>3. at.stage # "aliases"
      BY <1>1, <1>6, <1>2, <2>1 DEF C!Normalized, C!ResolveAlias, C!GoTo, C!Errors
    <2>4. QED
      BY <1>3, <1>4, <2>1, <2>2, <2>3 DEF BaseInv
  <1>7. CASE err' = err
    <2>1. err' = "none" /\ C!RefusedForAReason' /\ svc'.timeout \in Int /\ Len(svc'.endpoints) \in Nat
      BY <1>2, <1>5, <1>7 DEF C!RefusedForAReason
    <2>2. pending' \subseteq DOMAIN svc'.extra /\ (at'.stage # "aliases" => pending' = {})
      <3>1. CASE pending' = pending /\ at.stage # "aliases" /\ at'.stage # "aliases"
        BY <3>1 DEF BaseInv
      <3>2. CASE C!EndpointsDone
        BY <3>2 DEF C!EndpointsDone, C!Place
      <3>3. ASSUME NEW m \in pending, C!ResolveAlias(m)
            PROVE  pending' \subseteq DOMAIN svc'.extra /\ at'.stage = "aliases"
        BY <1>2, <3>3, AliasWalks DEF C!ResolveAlias
      <3>4. CASE C!Normalized
        BY <3>4 DEF C!Normalized, C!GoTo
      <3>5. CASE \E e \in C!Errors : C!Fail(e)
        BY <3>5, <2>1 DEF C!Fail, C!Errors
      <3>6. QED
        BY <1>2, <3>1, <3>2, <3>3, <3>4, <3>5, ConfigStepKinds
    <2>3. QED
      BY <1>3, <1>4, <2>1, <2>2 DEF BaseInv
  <1>8. QED
    BY <1>2, <1>6, <1>7, ConfigStepKinds DEF C!EndpointsDone, C!ResolveAlias, C!Normalized, C!GoTo

\* Before anything is read, all of it holds.
LEMMA ConfigBegins ==
    ASSUME C!Begin
    PROVE  WalkInv /\ BaseInv
  <1>1. svc = C!Empty /\ at = [stage |-> "read", i |-> 1, j |-> 0] /\ pending = {} /\ err = "none"
    BY DEF C!Begin, C!Place
  <1>2. at.stage = "read" /\ PlaceTyped
    BY <1>1 DEF PlaceTyped, C!Stages
  <1>3. WalkInv
    BY <1>1, <1>2 DEF WalkInv
  <1>4. BaseInv
    <2>1. C!Empty.timeout = 0 /\ C!Empty.endpoints = << >>
      BY DEF C!Empty
    <2>2. QED
      BY <1>1, <1>2, <2>1 DEF BaseInv, C!RefusedForAReason
  <1>5. QED
    BY <1>3, <1>4

\* An accepted configuration was walked to its end.
LEMMA AcceptedFacts ==
    ASSUME C!WellFormed(file), WalkInv, BaseInv, C!Accepted
    PROVE  /\ DOMAIN svc.agents = 1..Len(file.agents) /\ DOMAIN svc.endpoints = 1..Len(file.endpoints)
           /\ Len(file.agents) \in Nat /\ Len(file.endpoints) \in Nat
           /\ \A i \in 1..Len(file.agents) : 
                LET was == file.agents[i]  a == svc.agents[i] IN
                /\ a.timeout = Own(was, Global(file)) /\ a.workers \in Nat \ {0} /\ a.interval \in Nat \ {0}
                /\ Len(was.backends) \in Nat /\ DOMAIN a.backends = 1..Len(was.backends)
                /\ \A j \in 1..Len(was.backends) : Bounded(was.backends[j], a.backends[j], a.timeout)
           /\ \A i \in 1..Len(file.endpoints) :
                LET was == file.endpoints[i]  e == svc.endpoints[i] IN
                /\ e.timeout = Own(was, Global(file)) /\ e.calls \in Int \ {0} /\ e.inputs = was.inputs
                /\ e.path = was.path /\ was.path \notin Reserved
                /\ Len(e.backends) = Len(was.backends) /\ (e.output = "no-op" => Len(was.backends) = 1)
                /\ Len(was.backends) \in Nat /\ DOMAIN e.backends = 1..Len(was.backends)
                /\ \A j \in 1..Len(was.backends) :
                    /\ Bounded(was.backends[j], e.backends[j], e.timeout)
                    /\ Mapped(was.backends[j], e, e.backends[j])
           /\ Renaming(file.extra, svc.extra, {})
  <1>1. /\ at.stage = "done" /\ err = "none" /\ pending = {}
        /\ ServiceWalked /\ AgentsWalked /\ EndpointsWalked /\ Renaming(file.extra, svc.extra, {})
    BY DEF C!Accepted, WalkInv, BaseInv
  <1>2. Len(file.agents) \in Nat /\ Len(file.endpoints) \in Nat
    BY FileFacts
  <1>3. IsTuple(svc.agents, Len(file.agents)) /\ IsTuple(svc.endpoints, Len(file.endpoints))
    BY <1>1 DEF ServiceWalked
  <1>4. DOMAIN svc.agents = 1..Len(file.agents) /\ DOMAIN svc.endpoints = 1..Len(file.endpoints)
    BY <1>2, <1>3, TupleFacts
  <1>5. ASSUME NEW i \in 1..Len(file.agents), NEW was, NEW a, was = file.agents[i], a = svc.agents[i]
        PROVE  /\ a.timeout = Own(was, Global(file)) /\ a.workers \in Nat \ {0} /\ a.interval \in Nat \ {0}
               /\ Len(was.backends) \in Nat /\ DOMAIN a.backends = 1..Len(was.backends)
               /\ \A j \in 1..Len(was.backends) : Bounded(was.backends[j], a.backends[j], a.timeout)
    <2>1. AgentWalked(at, Global(file), was, a, i)
      BY <1>1, <1>5 DEF AgentsWalked
    <2>2. Begun(at, "agents", i) /\ \A j : Walked(at, "agents", i, j)
      BY <1>1 DEF Begun, Walked, Past
    <2>3. Len(was.backends) \in Nat
      BY <1>5, FileFacts, FileBackendFacts
    <2>4. DOMAIN a.backends = 1..Len(was.backends)
      BY <2>1, <2>3, TupleFacts DEF AgentWalked
    <2>5. QED
      BY <2>1, <2>2, <2>3, <2>4 DEF AgentWalked
  <1>6. ASSUME NEW i \in 1..Len(file.endpoints), NEW was, NEW e, was = file.endpoints[i], e = svc.endpoints[i]
        PROVE  /\ e.timeout = Own(was, Global(file)) /\ e.calls \in Int \ {0} /\ e.inputs = was.inputs
               /\ e.path = was.path /\ was.path \notin Reserved
               /\ Len(e.backends) = Len(was.backends) /\ (e.output = "no-op" => Len(was.backends) = 1)
               /\ Len(was.backends) \in Nat /\ DOMAIN e.backends = 1..Len(was.backends)
               /\ \A j \in 1..Len(was.backends) :
                    /\ Bounded(was.backends[j], e.backends[j], e.timeout)
                    /\ Mapped(was.backends[j], e, e.backends[j])
    <2>1. EndpointWalked(at, Global(file), was, e, i)
      BY <1>1, <1>6 DEF EndpointsWalked
    <2>2. Begun(at, "endpoints", i) /\ \A j : Walked(at, "endpoints", i, j)
      BY <1>1 DEF Begun, Walked, Past
    <2>3. Len(was.backends) \in Nat
      BY <1>6, FileFacts, FileBackendFacts
    <2>4. DOMAIN e.backends = 1..Len(was.backends) /\ Len(e.backends) = Len(was.backends)
      BY <2>1, <2>3, TupleFacts DEF EndpointWalked
    <2>5. QED
      BY <2>1, <2>2, <2>3, <2>4 DEF EndpointWalked
  <1>7. QED
    BY <1>1, <1>2, <1>4, <1>5, <1>6

\* Each backend of an accepted configuration is the one written at its place.
LEMMA BackendsOf ==
    ASSUME C!WellFormed(file), WalkInv, BaseInv, C!Accepted
    PROVE  /\ \A a \in C!AgentOf : \A b \in C!BackendOf(a) : \E was : Bounded(was, b, a.timeout)
           /\ \A e \in C!EndpointOf : \A b \in C!BackendOf(e) :
                \E was : Bounded(was, b, e.timeout) /\ Mapped(was, e, b)
  <1>1. ASSUME NEW a \in C!AgentOf, NEW b \in C!BackendOf(a)
        PROVE  \E was : Bounded(was, b, a.timeout)
    <2>1. PICK i \in 1..Len(file.agents) : a = svc.agents[i]
      BY AcceptedFacts DEF C!AgentOf
    <2>2. PICK j \in 1..Len(file.agents[i].backends) : b = a.backends[j]
      BY <2>1, AcceptedFacts DEF C!BackendOf
    <2>3. Bounded(file.agents[i].backends[j], b, a.timeout)
      BY <2>1, <2>2, AcceptedFacts
    <2>4. QED
      BY <2>3
  <1>2. ASSUME NEW e \in C!EndpointOf, NEW b \in C!BackendOf(e)
        PROVE  \E was : Bounded(was, b, e.timeout) /\ Mapped(was, e, b)
    <2>1. PICK i \in 1..Len(file.endpoints) : e = svc.endpoints[i]
      BY AcceptedFacts DEF C!EndpointOf
    <2>2. PICK j \in 1..Len(file.endpoints[i].backends) : b = e.backends[j]
      BY <2>1, AcceptedFacts DEF C!BackendOf
    <2>3. /\ Bounded(file.endpoints[i].backends[j], b, e.timeout)
          /\ Mapped(file.endpoints[i].backends[j], e, b)
      BY <2>1, <2>2, AcceptedFacts
    <2>4. QED
      BY <2>3
  <1>3. QED
    BY <1>1, <1>2

\* The invariants of ConfigInit follow: its types,
LEMMA ConfigTyped ==
    ASSUME C!WellFormed(file), WalkInv, BaseInv
    PROVE  C!TypeOK
  <1>1. at.stage \in C!Stages /\ at.i \in Nat /\ at.j \in Nat
    BY DEF WalkInv, PlaceTyped
  <1>2. err \in C!Errors \cup {"none"} /\ pending \subseteq DOMAIN svc.extra /\ svc.timeout \in Int
    BY DEF BaseInv
  <1>3. ASSUME C!Accepted, NEW e \in C!EndpointOf PROVE e.calls \in Int \ {0}
    BY <1>3, AcceptedFacts DEF C!EndpointOf
  <1>4. ASSUME C!Accepted, NEW a \in C!AgentOf
        PROVE  a.workers \in Nat \ {0} /\ a.interval \in Nat \ {0}
    BY <1>4, AcceptedFacts DEF C!AgentOf
  <1>5. QED
    BY <1>1, <1>2, <1>3, <1>4 DEF C!TypeOK

\* the timeouts of agents, endpoints and backends,
LEMMA ConfigBounded ==
    ASSUME C!WellFormed(file), WalkInv, BaseInv
    PROVE  C!TimeoutsAgree
  <1>1. SUFFICES ASSUME C!Accepted PROVE C!TimeoutsAgree
    BY DEF C!TimeoutsAgree
  <1>2. PICK global : global = Global(file)
    OBVIOUS
  <1>3. global = C!OrElse(C!ParseDuration(file.timeout), 0, Default) /\ global # 0
    BY <1>2, DurationFacts DEF Global
  <1>4. DOMAIN file.agents = 1..Len(file.agents) /\ DOMAIN file.endpoints = 1..Len(file.endpoints)
    BY FileFacts
  <1>5. ASSUME NEW i \in DOMAIN file.endpoints
        PROVE  /\ svc.endpoints[i].timeout = C!OrElse(C!ParseDuration(file.endpoints[i].timeout), 0, global)
               /\ \A b \in C!BackendOf(svc.endpoints[i]) : b.timeout = svc.endpoints[i].timeout
    <2>1. svc.endpoints[i] \in C!EndpointOf
      BY <1>1, <1>4, AcceptedFacts DEF C!EndpointOf
    <2>2. QED
      BY <1>1, <1>2, <1>4, <2>1, BackendsOf, AcceptedFacts DEF Own, Bounded
  <1>6. ASSUME NEW i \in DOMAIN file.agents
        PROVE  /\ svc.agents[i].timeout = C!OrElse(C!ParseDuration(file.agents[i].timeout), 0, global)
               /\ \A b \in C!BackendOf(svc.agents[i]) : b.timeout = svc.agents[i].timeout
    <2>1. svc.agents[i] \in C!AgentOf
      BY <1>1, <1>4, AcceptedFacts DEF C!AgentOf
    <2>2. QED
      BY <1>1, <1>2, <1>4, <2>1, BackendsOf, AcceptedFacts DEF Own, Bounded
  <1>7. QED
    BY <1>3, <1>5, <1>6 DEF C!TimeoutsAgree

\* the hosts of backends,
LEMMA ConfigClean ==
    ASSUME C!WellFormed(file), WalkInv, BaseInv
    PROVE  C!HostsAreClean
  BY BackendsOf DEF C!HostsAreClean, Bounded, Kept

\* responses that are passed on,
LEMMA ConfigPassesOn ==
    ASSUME C!WellFormed(file), WalkInv, BaseInv
    PROVE  C!NoOpIsAlone
  <1>1. SUFFICES ASSUME C!Accepted, NEW i \in DOMAIN svc.endpoints, NEW e, e = svc.endpoints[i]
                 PROVE  /\ e.output = "no-op" =>
                            Len(e.backends) = 1 /\ \A b \in C!BackendOf(e) : b.encoding = "no-op"
                        /\ \A j \in DOMAIN e.backends : e.backends[j].decoder = "no-op" =>
                            e.output = "no-op" \/ ToLower[file.endpoints[i].backends[j].encoding] = "no-op"
    BY DEF C!NoOpIsAlone
  <1>2. PICK was : was = file.endpoints[i]
    OBVIOUS
  <1>3. /\ e.output = "no-op" => Len(e.backends) = 1
        /\ DOMAIN e.backends = 1..Len(was.backends)
        /\ \A j \in 1..Len(was.backends) : Mapped(was.backends[j], e, e.backends[j])
    BY <1>1, <1>2, AcceptedFacts
  <1>4. QED
    BY <1>1, <1>2, <1>3 DEF Mapped, C!BackendOf

\* the keys of URLs,
LEMMA ConfigKeys ==
    ASSUME C!WellFormed(file), WalkInv, BaseInv
    PROVE  C!KeysHaveAnOrigin
  <1>1. SUFFICES ASSUME C!Accepted, NEW e \in C!EndpointOf, NEW b \in C!BackendOf(e)
                 PROVE  b.keys \subseteq {Titled[n] : n \in e.inputs \cup Sequential}
    BY DEF C!KeysHaveAnOrigin
  <1>2. b.keys = C!URLKeys(b) /\ b.pattern \ Sequential \subseteq e.inputs
    BY <1>1, BackendsOf DEF Mapped
  <1>3. QED
    BY <1>2 DEF C!URLKeys

\* Where the value of a name goes, and whence a name has its value.
Goes(m) == IF m \in DOMAIN Alias THEN Alias[m] ELSE m
SourcesOf(t) == {n \in DOMAIN file.extra : Goes(n) = t}

\* and the namespaces of the extra configuration.
LEMMA ConfigRenamed ==
    ASSUME C!WellFormed(file), WalkInv, BaseInv
    PROVE  C!AliasesResolved
  <1>1. SUFFICES ASSUME C!Accepted,
                        \A m \in DOMAIN file.extra : ~(m \in DOMAIN Alias /\ Alias[m] \in DOMAIN Alias)
                 PROVE  /\ DOMAIN svc.extra = {Goes(m) : m \in DOMAIN file.extra}
                        /\ \A t \in DOMAIN svc.extra :
                            svc.extra[t] \in
                                {file.extra[m] : m \in
                                    IF SourcesOf(t) \cap DOMAIN Alias = {}
                                    THEN SourcesOf(t)
                                    ELSE SourcesOf(t) \cap DOMAIN Alias}
    BY Zenon DEF C!AliasesResolved, Goes, SourcesOf
  <1>2. PICK was, is : was = file.extra /\ is = svc.extra
    OBVIOUS
  <1>3. /\ DOMAIN is = (DOMAIN was \ Renamed(was, {})) \cup {Alias[m] : m \in Renamed(was, {})}
        /\ \A t \in DOMAIN is :
            IF Into(was, {}, t) = {} THEN is[t] = was[t]
            ELSE is[t] \in {was[m] : m \in Into(was, {}, t)}
    BY <1>1, <1>2, AcceptedFacts DEF Renaming
  <1>4. Renamed(was, {}) = DOMAIN was \cap DOMAIN Alias
    BY DEF Renamed
  <1>5. DOMAIN is = {Goes(m) : m \in DOMAIN was}
    BY <1>3, <1>4 DEF Goes
  <1>6. ASSUME NEW t \in DOMAIN is, NEW sources, NEW renamed,
               sources = {n \in DOMAIN was : Goes(n) = t},
               renamed = sources \cap DOMAIN Alias
        PROVE  is[t] \in {was[m] : m \in IF renamed = {} THEN sources ELSE renamed}
    <2>1. renamed = Into(was, {}, t)
      BY <1>4, <1>6 DEF Into, Goes
    <2>2. ASSUME renamed = {} PROVE t \in sources /\ is[t] = was[t]
      <3>1. is[t] = was[t]
        BY <1>3, <2>1, <2>2
      <3>2. PICK m \in DOMAIN was : Goes(m) = t
        BY <1>5
      <3>3. m \in sources
        BY <1>6, <3>2
      <3>4. m \notin DOMAIN Alias
        BY <1>6, <2>2, <3>3
      <3>5. QED
        BY <3>1, <3>2, <3>3, <3>4 DEF Goes
    <2>3. renamed # {} => is[t] \in {was[m] : m \in renamed}
      BY <1>3, <2>1
    <2>4. QED
      BY <2>2, <2>3
  <1>7. ASSUME NEW t \in DOMAIN svc.extra
        PROVE  svc.extra[t] \in
                 {file.extra[m] : m \in
                    IF SourcesOf(t) \cap DOMAIN Alias = {}
                    THEN SourcesOf(t)
                    ELSE SourcesOf(t) \cap DOMAIN Alias}
    <2>1. PICK sources : sources = SourcesOf(t)
      OBVIOUS
    <2>2. PICK renamed : renamed = sources \cap DOMAIN Alias
      OBVIOUS
    <2>3. is[t] \in {was[m] : m \in IF renamed = {} THEN sources ELSE renamed}
      BY <1>2, <1>6, <2>1, <2>2 DEF SourcesOf
    <2>4. svc.extra[t] \in {file.extra[m] : m \in IF renamed = {} THEN sources ELSE renamed}
      BY <1>2, <2>3
    <2>5. QED
      BY <2>1, <2>2, <2>4, Zenon
  <1>8. QED
    BY <1>2, <1>5, <1>7, Zenon

\* Together they are what Parse and Normalize leave.
LEMMA ConfigHolds ==
    ASSUME C!WellFormed(file), WalkInv, BaseInv
    PROVE  ConfigInv
  BY ConfigTyped, ConfigBounded, ConfigClean, ConfigPassesOn, ConfigKeys, ConfigRenamed, ErrorsLocated
     DEF ConfigInv, C!ConfigInv, BaseInv

-----------------------------------------------------------------------------
(* The handler                                                             *)

\* What a name wraps the handler in, and what it and the names behind it do.
Wrapper(n) == IF registry[n].kind = "ok" THEN <<registry[n]>> ELSE << >>
Behind(s, f, n) == IF n = 0 THEN << >> ELSE Wrapper(s[Len(s) - n + 1]) \o f[n - 1]

\* There is a function that gives the wrappers, of lists of any length.
LEMMA WrappingExists ==
    ASSUME NEW s \in Seq(Names)
    PROVE  \A m \in Nat : \E f : f = [n \in 0..m |-> Behind(s, f, n)]
  <1>1. PICK T : T = {m \in Nat : \E f : f = [n \in 0..m |-> Behind(s, f, n)]}
    OBVIOUS
  <1>2. 0 \in T
    <2>1. PICK f : f = [n \in 0..0 |-> << >>]
      OBVIOUS
    <2>2. f = [n \in 0..0 |-> Behind(s, f, n)]
      BY <2>1 DEF Behind
    <2>3. QED
      BY <1>1, <2>2
  <1>3. ASSUME NEW m \in Nat, m \in T PROVE m + 1 \in T
    <2>1. PICK f : f = [n \in 0..m |-> Behind(s, f, n)]
      BY <1>1, <1>3
    <2>2. PICK g : g = [n \in 0..m + 1 |-> IF n <= m THEN f[n] ELSE Behind(s, f, n)]
      OBVIOUS
    <2>3. \A n \in 0..m + 1 : g[n] = Behind(s, g, n)
      <3>1. TAKE n \in 0..m + 1
      <3>2. n = 0 \/ (n - 1 \in 0..m /\ g[n - 1] = f[n - 1])
        BY <2>2
      <3>3. Behind(s, g, n) = Behind(s, f, n)
        BY <3>2 DEF Behind
      <3>4. n \in 0..m => f[n] = Behind(s, f, n)
        BY <2>1
      <3>5. QED
        BY <2>2, <3>3, <3>4
    <2>4. g = [n \in 0..m + 1 |-> g[n]]
      BY <2>2
    <2>5. g = [n \in 0..m + 1 |-> Behind(s, g, n)]
      BY <2>3, <2>4
    <2>6. QED
      BY <1>1, <2>5
  <1>4. Nat \subseteq T
    BY <1>2, <1>3, SetInduction
  <1>5. QED
    BY <1>1, <1>4

\* Wrapping is one: each name adds its own to what those behind it do.
LEMMA WrappingFacts ==
    ASSUME NEW s \in Seq(Names)
    PROVE  \A n \in 0..Len(s) : P!Wrapping(s)[n] = Behind(s, P!Wrapping(s), n)
  <1>1. PICK g : g = [n \in 0..Len(s) |-> Behind(s, g, n)]
    BY WrappingExists
  <1>2. g = [n \in 0..Len(s) |->
                IF n = 0 THEN << >>
                ELSE (IF registry[s[Len(s) - n + 1]].kind = "ok" THEN <<registry[s[Len(s) - n + 1]]>> ELSE << >>)
                       \o g[n - 1]]
    BY <1>1 DEF Behind, Wrapper
  <1>3. P!Wrapping(s) = [n \in 0..Len(s) |->
                IF n = 0 THEN << >>
                ELSE (IF registry[s[Len(s) - n + 1]].kind = "ok" THEN <<registry[s[Len(s) - n + 1]]>> ELSE << >>)
                       \o P!Wrapping(s)[n - 1]]
    BY <1>2, Zenon DEF P!Wrapping
  <1>4. QED
    BY <1>3 DEF Behind, Wrapper

\* It is a list of factories.
LEMMA WrappingTyped ==
    ASSUME P!TypeOK, NEW s \in Seq(Names)
    PROVE  \A n \in 0..Len(s) : P!Wrapping(s)[n] \in Seq(P!Factory)
  <1>1. PICK w : w = P!Wrapping(s)
    OBVIOUS
  <1>2. PICK T : T = {n \in Nat : n <= Len(s) => w[n] \in Seq(P!Factory)}
    OBVIOUS
  <1>3. \A n \in Names : Wrapper(n) \in Seq(P!Factory)
    <2>1. TAKE n \in Names
    <2>2. registry[n].kind = "ok" => registry[n] \in P!Factory
      BY DEF P!TypeOK, P!None
    <2>3. QED
      BY <2>2 DEF Wrapper
  <1>4. 0 \in T
    <2>1. 0 \in 0..Len(s)
      OBVIOUS
    <2>2. w[0] = Behind(s, w, 0)
      BY <1>1, <2>1, WrappingFacts
    <2>3. w[0] = << >>
      BY <2>2 DEF Behind
    <2>4. << >> \in Seq(P!Factory)
      OBVIOUS
    <2>5. QED
      BY <1>2, <2>3, <2>4
  <1>5. ASSUME NEW n \in Nat, n \in T PROVE n + 1 \in T
    <2>1. SUFFICES ASSUME n + 1 <= Len(s) PROVE w[n + 1] \in Seq(P!Factory)
      BY <1>2
    <2>2. w[n] \in Seq(P!Factory)
      BY <1>2, <1>5, <2>1
    <2>3. w[n + 1] = Wrapper(s[Len(s) - n]) \o w[n]
      <3>1. n + 1 \in 0..Len(s) /\ n + 1 # 0 /\ (n + 1) - 1 = n /\ Len(s) - (n + 1) + 1 = Len(s) - n
        BY <2>1
      <3>2. QED
        BY <1>1, <3>1, WrappingFacts DEF Behind
    <2>4. s[Len(s) - n] \in Names
      BY <2>1
    <2>5. QED
      BY <1>3, <2>2, <2>3, <2>4
  <1>6. Nat \subseteq T
    BY <1>4, <1>5, SetInduction
  <1>7. QED
    BY <1>1, <1>2, <1>6

\* The first name comes before what the rest of the list wraps.
LEMMA WrappingOfTail ==
    ASSUME NEW s \in Seq(Names), s # << >>
    PROVE  P!Wrapping(s)[Len(s)] = Wrapper(Head(s)) \o P!Wrapping(Tail(s))[Len(Tail(s))]
  <1>1. PICK t : t = Tail(s)
    OBVIOUS
  <1>2. /\ t \in Seq(Names) /\ Len(t) \in Nat /\ Len(s) = Len(t) + 1
        /\ \A i \in 1..Len(t) : t[i] = s[i + 1]
    BY <1>1
  <1>3. PICK w : w = P!Wrapping(s)
    OBVIOUS
  <1>4. PICK v : v = P!Wrapping(t)
    OBVIOUS
  <1>5. PICK T : T = {n \in Nat : n <= Len(t) => w[n] = v[n]}
    OBVIOUS
  <1>6. 0 \in T
    BY <1>2, <1>3, <1>4, <1>5, WrappingFacts DEF Behind
  <1>7. ASSUME NEW n \in Nat, n \in T PROVE n + 1 \in T
    <2>1. SUFFICES ASSUME n + 1 <= Len(t) PROVE w[n + 1] = v[n + 1]
      BY <1>5
    <2>2. w[n] = v[n]
      BY <1>5, <1>7, <2>1
    <2>3. /\ n + 1 # 0 /\ (n + 1) - 1 = n /\ n + 1 \in 0..Len(s) /\ n + 1 \in 0..Len(t)
          /\ s[Len(s) - (n + 1) + 1] = t[Len(t) - (n + 1) + 1]
      <3>1. PICK i \in 1..Len(t) : i = Len(t) - n
        <4>1. Len(t) - n \in 1..Len(t)
          BY <1>2, <2>1
        <4>2. QED
          BY <4>1
      <3>2. Len(s) - (n + 1) + 1 = i + 1 /\ Len(t) - (n + 1) + 1 = i
        BY <1>2, <3>1
      <3>3. QED
        BY <1>2, <2>1, <3>1, <3>2
    <2>4. w[n + 1] = Wrapper(s[Len(s) - (n + 1) + 1]) \o w[n]
      BY <1>3, <2>3, WrappingFacts DEF Behind
    <2>5. v[n + 1] = Wrapper(t[Len(t) - (n + 1) + 1]) \o v[n]
      BY <1>2, <1>4, <2>3, WrappingFacts DEF Behind
    <2>6. QED
      BY <2>2, <2>3, <2>4, <2>5
  <1>8. Nat \subseteq T
    BY <1>6, <1>7, SetInduction
  <1>9. w[Len(t)] = v[Len(t)]
    BY <1>2, <1>5, <1>8
  <1>10. /\ Len(s) # 0 /\ Len(s) \in 0..Len(s) /\ Len(s) - 1 = Len(t)
         /\ s[Len(s) - Len(s) + 1] = Head(s)
    BY <1>2
  <1>11. w[Len(s)] = Wrapper(Head(s)) \o w[Len(t)]
    BY <1>3, <1>10, WrappingFacts DEF Behind
  <1>12. QED
    BY <1>1, <1>3, <1>4, <1>9, <1>11

\* Appending a factory, or none, is the same before or after.
LEMMA AppendsWrapper ==
    ASSUME NEW F, NEW h \in Seq(F), NEW r \in Seq(F), NEW x \in F
    PROVE  Append(h, x) \o r = h \o (<<x>> \o r) /\ h \o (<< >> \o r) = h \o r
  OBVIOUS

\* Once the plugins are loaded, every step wraps by the first name or keeps all.
LEMMA StepWrapsInOrder ==
    ASSUME P!TypeOK, fifo \in Seq(Names), [Next]_vars
    PROVE  \/ handler' \o P!Wrapping(fifo')[Len(fifo')] = handler \o P!Wrapping(fifo)[Len(fifo)]
           \/ stage = "load"
  <1>1. CASE P!WrapHandler
    <2>1. PICK s, t : s = fifo /\ t = Tail(s)
      OBVIOUS
    <2>2. s \in Seq(Names) /\ s # << >> /\ t \in Seq(Names) /\ Len(t) \in 0..Len(t) /\ fifo' = t
      BY <1>1, <2>1 DEF P!WrapHandler
    <2>3. P!Wrapping(s)[Len(s)] = Wrapper(Head(s)) \o P!Wrapping(t)[Len(t)]
      BY <2>1, <2>2, WrappingOfTail
    <2>4. PICK r : r = P!Wrapping(t)[Len(t)]
      OBVIOUS
    <2>5. r \in Seq(P!Factory)
      BY <2>2, <2>4, WrappingTyped
    <2>6. handler \in Seq(P!Factory)
      BY DEF P!TypeOK
    <2>7. CASE registry[Head(s)].kind = "ok"
      <3>1. registry[Head(s)] \in P!Factory
        BY <2>2, <2>7 DEF P!TypeOK, P!None
      <3>2. handler' = Append(handler, registry[Head(s)]) /\ Wrapper(Head(s)) = <<registry[Head(s)]>>
        BY <1>1, <2>1, <2>7 DEF P!WrapHandler, Wrapper
      <3>3. handler' \o r = handler \o P!Wrapping(s)[Len(s)]
        <4>1. PICK h, x, q : h = handler /\ x = registry[Head(s)] /\ q = P!Wrapping(s)[Len(s)]
          OBVIOUS
        <4>2. PICK F : F = P!Factory
          OBVIOUS
        <4>3. h \in Seq(F) /\ x \in F /\ r \in Seq(F)
          BY <2>5, <2>6, <3>1, <4>1, <4>2
        <4>4. Append(h, x) \o r = h \o (<<x>> \o r)
          BY <4>3, AppendsWrapper
        <4>5. q = <<x>> \o r
          BY <2>3, <2>4, <3>2, <4>1
        <4>6. QED
          BY <3>2, <4>1, <4>4, <4>5
      <3>4. QED
        BY <2>1, <2>2, <2>4, <3>3
    <2>8. CASE registry[Head(s)].kind # "ok"
      <3>1. handler' = handler /\ Wrapper(Head(s)) = << >>
        BY <1>1, <2>1, <2>8 DEF P!WrapHandler, Wrapper
      <3>2. << >> \o r = r
        BY <2>5
      <3>3. QED
        BY <2>1, <2>2, <2>3, <2>4, <3>1, <3>2
    <2>9. QED
      BY <2>7, <2>8
  <1>2. CASE handler' = handler /\ fifo' = fifo
    BY <1>2
  <1>3. QED
    <2>1. ASSUME NEW n \in Names, P!BuildExecutor(n) PROVE handler' = handler /\ fifo' = fifo
      BY <2>1 DEF P!BuildExecutor
    <2>2. CASE P!HandlerReady
      BY <1>2, <2>2 DEF P!HandlerReady
    <2>3. QED
      BY <1>1, <1>2, <2>1, <2>2, LoaderSteps DEF pluginVars, P!Open, P!RegisterOne, P!OpenReturns, P!LoadReturns

-----------------------------------------------------------------------------
(* What is registered                                                      *)

\* A route, its path one of an endpoint, or of the service, or none.
RouteType ==
    [path : STRING \cup R!OwnPaths \cup {""}, methods : SUBSET R!Any,
     kind : {"debug", "echo", "health", "pipe", "failed", "options"}, i : Nat]
Patterns == [debug |-> R!DebugPattern, echo |-> R!EchoPattern, health |-> R!HealthPath]

\* Whence a route is: from the service, from one of the first n endpoints, or
\* from the catalog.
Method(eps, i) == R!ToTitle(eps[i].method)
Registers(s, eps, i) == Method(eps, i) \in R!Supported /\ (s.build[i] = "ok" \/ s.router = "gin")
OfService(r, s, pt) ==
    /\ r.i = 0
    /\ \/ r.kind = "debug" /\ s.debug /\ r.path = pt.debug /\ R!Supported \subseteq r.methods
       \/ r.kind = "echo" /\ s.echo /\ r.path = pt.echo /\ R!Supported \subseteq r.methods
       \/ r.kind = "health" /\ pt.health # "off" /\ r.path = pt.health /\ r.methods = {"GET"}
OfEndpoint(r, s, eps, n) ==
    /\ r.i \in 1..n /\ Registers(s, eps, r.i)
    /\ r.kind = (IF s.build[r.i] = "ok" THEN "pipe" ELSE "failed")
    /\ r.path = eps[r.i].path /\ r.methods = {Method(eps, r.i)}
OfOptions(r, s, cat) ==
    /\ r.i = 0 /\ r.kind = "options" /\ r.methods = {"OPTIONS"} /\ s.router = "gin"
    /\ \E pm \in cat : pm[1] = r.path
Whence(r, s, pt, eps, n, cat) == OfService(r, s, pt) \/ OfEndpoint(r, s, eps, n) \/ OfOptions(r, s, cat)

\* What is still to register, each thing once, or was registered.
Left(td, what) == \E j \in DOMAIN td : td[j] = what
There(rts, what) == \E a \in DOMAIN rts : rts[a].kind = what
Once(s, td, rts) ==
    /\ \A a, b \in DOMAIN td : a # b => td[a] # td[b]
    /\ \A a \in DOMAIN rts : rts[a].kind \in {"debug", "echo", "health"} => ~Left(td, rts[a].kind)
    /\ s.router = "gin" /\ td # << >> => td[Len(td)] = "options"
    /\ s.router = "chi" => ~Left(td, "echo")
    /\ Left(td, "options") => s.router = "gin"
Present(s, pt, eps, td, n, rts, cat) ==
    /\ s.debug => Left(td, "debug") \/ There(rts, "debug")
    /\ s.echo /\ s.router # "chi" => Left(td, "echo") \/ There(rts, "echo")
    /\ pt.health # "off" => Left(td, "health") \/ There(rts, "health")
    /\ \A i \in 1..n : Registers(s, eps, i) => \E a \in DOMAIN rts : rts[a].i = i
    /\ s.router = "gin" /\ s.auto =>
        \/ Left(td, "options")
        \/ \A pm \in cat : \E a \in DOMAIN rts : rts[a].kind = "options" /\ rts[a].path = pm[1]

Entry(eps, i) == <<eps[i].path, Method(eps, i)>>
Catalogued(s, eps, n, cat) ==
    cat = {Entry(eps, i) : i \in {j \in 1..n : Registers(s, eps, j)}}
Meet(r, q) == r.path = q.path /\ r.methods \cap q.methods # {}
Apart(s, rts) ==
    s.router \in {"gin", "httptreemux"} => \A a, b \in DOMAIN rts : a # b => ~Meet(rts[a], rts[b])
Conflict(s, rts, r) ==
    (s.router \in {"gin", "httptreemux"} /\ \E a \in DOMAIN rts : Meet(rts[a], r)) \/ r.path = ""
Reason(s, eps) ==
    \/ s.router = "httptreemux" /\ s.echo
    \/ \E i, j \in DOMAIN eps :
        i # j /\ eps[i].path = eps[j].path /\ Method(eps, i) = Method(eps, j)
    \/ \E i \in DOMAIN eps : s.router = "gin" /\ eps[i].path = s.health

Routed(s, pt, eps, td, n, rts, cat, pn) ==
    /\ rts \in Seq(RouteType) /\ td \in Seq(Steps) /\ n \in Nat /\ n <= Len(eps) /\ pn \in BOOLEAN
    /\ \A a \in DOMAIN rts : Whence(rts[a], s, pt, eps, n, cat)
    /\ Catalogued(s, eps, n, cat) /\ Once(s, td, rts) /\ Apart(s, rts)
    /\ pn => Reason(s, eps)
    /\ ~pn => Present(s, pt, eps, td, n, rts, cat)

\* What is known of the site, and of the endpoints of an accepted configuration.
PatternsTyped(s, pt) ==
    /\ pt.debug \in {"/__debug/*param", "/__debug/", "/__debug/{params}"}
    /\ pt.echo \in {"/__echo/*param", "/__echo/", "/__echo/{params}", ""}
    /\ pt.echo = "" => s.router \in {"chi", "httptreemux"}
    /\ pt.health \in STRING \ (R!OwnPaths \cup {""}) \/ pt.health = "/__health"
    /\ IF s.router = "gin" THEN pt.health = s.health ELSE pt.health = "/__health"
EndpointsTyped(eps) ==
    /\ Len(eps) \in Nat /\ DOMAIN eps = 1..Len(eps)
    /\ \A i \in DOMAIN eps : eps[i].path \in STRING \ (R!OwnPaths \cup {""})

\* What is left after the first thing: the same without it.
LEMMA TailFacts ==
    ASSUME NEW s \in Seq(Steps), s # << >>
    PROVE  /\ Tail(s) \in Seq(Steps)
           /\ \A w : Left(Tail(s), w) => Left(s, w)
           /\ \A w : Left(s, w) /\ w # Head(s) => Left(Tail(s), w)
           /\ (\A a, b \in DOMAIN s : a # b => s[a] # s[b]) =>
                /\ \A a, b \in DOMAIN Tail(s) : a # b => Tail(s)[a] # Tail(s)[b]
                /\ ~Left(Tail(s), Head(s))
           /\ Tail(s) # << >> => Tail(s)[Len(Tail(s))] = s[Len(s)]
  <1>1. /\ Tail(s) \in Seq(Steps) /\ Len(Tail(s)) = Len(s) - 1 /\ Len(s) \in Nat /\ Len(s) >= 1
        /\ DOMAIN s = 1..Len(s) /\ DOMAIN Tail(s) = 1..Len(s) - 1 /\ Head(s) = s[1]
    OBVIOUS
  <1>2. \A j \in 1..Len(s) - 1 : Tail(s)[j] = s[j + 1]
    OBVIOUS
  <1>3. \A w : Left(Tail(s), w) => Left(s, w)
    BY <1>1, <1>2 DEF Left
  <1>4. \A w : Left(s, w) /\ w # Head(s) => Left(Tail(s), w)
    BY TailKeeps DEF Left
  <1>5. ASSUME \A a, b \in DOMAIN s : a # b => s[a] # s[b]
        PROVE  /\ \A a, b \in DOMAIN Tail(s) : a # b => Tail(s)[a] # Tail(s)[b]
               /\ ~Left(Tail(s), Head(s))
    BY <1>1, <1>2, <1>5 DEF Left
  <1>6. Tail(s) # << >> => Tail(s)[Len(Tail(s))] = s[Len(s)]
    BY <1>1, <1>2
  <1>7. QED
    BY <1>1, <1>3, <1>4, <1>5, <1>6

\* A route more keeps its place behind the others.
LEMMA AppendFacts ==
    ASSUME NEW rts \in Seq(RouteType), NEW r \in RouteType, NEW rts2, rts2 = Append(rts, r)
    PROVE  /\ rts2 \in Seq(RouteType) /\ DOMAIN rts2 = DOMAIN rts \cup {Len(rts) + 1}
           /\ Len(rts) + 1 \notin DOMAIN rts /\ rts2[Len(rts) + 1] = r
           /\ \A a \in DOMAIN rts : rts2[a] = rts[a]
  OBVIOUS

\* Whence a route is stays true while more is considered and catalogued.
LEMMA WhenceGrows ==
    ASSUME NEW r, NEW s, NEW pt, NEW eps, NEW n \in Nat, NEW n2 \in Nat, n <= n2, NEW cat, NEW cat2, cat \subseteq cat2,
           Whence(r, s, pt, eps, n, cat)
    PROVE  Whence(r, s, pt, eps, n2, cat2)
  <1>1. \A i \in 1..n : i \in 1..n2
    OBVIOUS
  <1>2. CASE OfService(r, s, pt)
    BY <1>2 DEF Whence
  <1>3. CASE OfEndpoint(r, s, eps, n)
    BY <1>1, <1>3 DEF Whence, OfEndpoint
  <1>4. CASE OfOptions(r, s, cat)
    BY <1>4 DEF Whence, OfOptions
  <1>5. QED
    BY <1>2, <1>3, <1>4 DEF Whence

\* A route that does not meet the others is one more of them.
LEMMA Grows ==
    ASSUME NEW rts \in Seq(RouteType), NEW r \in RouteType, NEW rts2, rts2 = Append(rts, r),
           NEW s, Apart(s, rts), ~Conflict(s, rts, r)
    PROVE  Apart(s, rts2) /\ \A w : There(rts2, w) <=> There(rts, w) \/ w = r.kind
  <1>1. /\ DOMAIN rts2 = DOMAIN rts \cup {Len(rts) + 1} /\ Len(rts) + 1 \notin DOMAIN rts
        /\ rts2[Len(rts) + 1] = r /\ \A a \in DOMAIN rts : rts2[a] = rts[a]
    BY AppendFacts
  <1>2. PICK last : last = Len(rts) + 1
    OBVIOUS
  <1>3. Apart(s, rts2)
    <2>1. SUFFICES ASSUME s.router \in {"gin", "httptreemux"}, NEW a \in DOMAIN rts2, NEW b \in DOMAIN rts2, a # b
                   PROVE  ~Meet(rts2[a], rts2[b])
      BY DEF Apart
    <2>2. \A x, y \in DOMAIN rts : x # y => ~Meet(rts[x], rts[y])
      BY <2>1 DEF Apart
    <2>3. \A x \in DOMAIN rts : ~Meet(rts[x], r)
      BY <2>1 DEF Conflict
    <2>4. \A x \in DOMAIN rts : ~Meet(r, rts[x])
      BY <2>3 DEF Meet
    <2>5. QED
      BY <1>1, <2>1, <2>2, <2>3, <2>4
  <1>4. \A w : There(rts2, w) <=> There(rts, w) \/ w = r.kind
    BY <1>1 DEF There
  <1>5. QED
    BY <1>3, <1>4

\* Nothing is left out of what is still to register but the first.
LEMMA OnceGoesOn ==
    ASSUME NEW s, NEW td \in Seq(Steps), td # << >>, NEW rts, NEW td2, td2 = Tail(td), Once(s, td, rts)
    PROVE  Once(s, td2, rts)
  <1>1. /\ \A w : Left(td2, w) => Left(td, w)
        /\ \A a, b \in DOMAIN td2 : a # b => td2[a] # td2[b]
        /\ td2 # << >> => td2[Len(td2)] = td[Len(td)]
    BY TailFacts DEF Once
  <1>2. QED
    BY <1>1 DEF Once

\* A step of Run that registers nothing: what it skips was not asked for.
LEMMA SkipRouted ==
    ASSUME NEW s, NEW pt, NEW eps, NEW td, NEW n, NEW rts, NEW cat, NEW td2,
           Len(eps) \in Nat, Routed(s, pt, eps, td, n, rts, cat, FALSE), td # << >>, td2 = Tail(td),
           Head(td) = "debug" => ~s.debug,
           Head(td) = "echo" => ~s.echo,
           Head(td) = "health" => pt.health = "off",
           Head(td) = "options" /\ s.auto =>
                \A pm \in cat : \E a \in DOMAIN rts : rts[a].kind = "options" /\ rts[a].path = pm[1]
    PROVE  Routed(s, pt, eps, td2, n, rts, cat, FALSE)
  <1>1. td \in Seq(Steps) /\ Once(s, td, rts) /\ Present(s, pt, eps, td, n, rts, cat)
    BY DEF Routed
  <1>2. td2 \in Seq(Steps) /\ \A w : Left(td, w) /\ w # Head(td) => Left(td2, w)
    BY <1>1, TailFacts
  <1>3. Once(s, td2, rts)
    BY <1>1, OnceGoesOn
  <1>4. Present(s, pt, eps, td2, n, rts, cat)
    BY <1>1, <1>2 DEF Present
  <1>5. QED
    BY <1>2, <1>3, <1>4 DEF Routed

\* The endpoints considered are endpoints.
LEMMA EndpointFacts ==
    ASSUME NEW eps, EndpointsTyped(eps), NEW n \in Nat, n <= Len(eps)
    PROVE  n \in Nat /\ \A i \in 1..n : i \in DOMAIN eps
  <1>1. PICK m : m = Len(eps)
    OBVIOUS
  <1>2. m \in Nat /\ DOMAIN eps = 1..m /\ n <= m
    BY <1>1 DEF EndpointsTyped
  <1>3. QED
    BY <1>2

\* A catalogued path is one of an endpoint.
LEMMA CatalogFacts ==
    ASSUME NEW s, NEW eps, NEW n \in Nat, n <= Len(eps), NEW cat, Catalogued(s, eps, n, cat), EndpointsTyped(eps),
           NEW pm \in cat
    PROVE  \E i \in 1..n : i \in DOMAIN eps /\ Registers(s, eps, i) /\ pm[1] = eps[i].path
  <1>1. PICK i \in 1..n : Registers(s, eps, i) /\ pm = Entry(eps, i)
    BY DEF Catalogued
  <1>2. i \in DOMAIN eps
    BY EndpointFacts
  <1>3. pm[1] = eps[i].path
    BY <1>1 DEF Entry
  <1>4. QED
    BY <1>1, <1>2, <1>3

\* The route of an endpoint meets another only for a reason.
LEMMA MeetsForAReason ==
    ASSUME NEW s, NEW pt, NEW eps, NEW n \in Nat, n <= Len(eps), NEW cat, PatternsTyped(s, pt), EndpointsTyped(eps),
           Catalogued(s, eps, n, cat), s.router \in {"gin", "httptreemux"},
           NEW q \in RouteType, Whence(q, s, pt, eps, n, cat)
    PROVE  /\ \A i \in DOMAIN eps : q.path = eps[i].path /\ OfService(q, s, pt) => Reason(s, eps)
           /\ q.path = pt.debug => OfService(q, s, pt) /\ q.kind = "debug"
           /\ q.path = pt.echo => OfService(q, s, pt) /\ q.kind = "echo"
           /\ q.path = pt.health => Reason(s, eps) \/ (OfService(q, s, pt) /\ q.kind = "health")
  <1>1. \A i \in DOMAIN eps : eps[i].path \in STRING \ (R!OwnPaths \cup {""})
    BY DEF EndpointsTyped
  <1>2. \A i \in DOMAIN eps : /\ eps[i].path # pt.debug /\ eps[i].path # pt.echo /\ eps[i].path # "/__health"
    BY <1>1 DEF PatternsTyped, R!OwnPaths
  <1>3. \A i \in DOMAIN eps : eps[i].path = pt.health => s.router = "gin" /\ eps[i].path = s.health
    BY <1>2 DEF PatternsTyped
  <1>4. \A i \in DOMAIN eps : eps[i].path = pt.health => Reason(s, eps)
    BY <1>3 DEF Reason
  <1>5. ~OfService(q, s, pt) => \E i \in DOMAIN eps : q.path = eps[i].path
    <2>1. CASE OfEndpoint(q, s, eps, n)
      <3>1. q.i \in DOMAIN eps
        BY <2>1, EndpointFacts DEF OfEndpoint
      <3>2. QED
        BY <2>1, <3>1 DEF OfEndpoint
    <2>2. CASE OfOptions(q, s, cat)
      <3>1. PICK pm \in cat : pm[1] = q.path
        BY <2>2 DEF OfOptions
      <3>2. PICK i \in DOMAIN eps : pm[1] = eps[i].path
        BY <3>1, CatalogFacts
      <3>3. QED
        BY <3>1, <3>2
    <2>3. QED
      BY <2>1, <2>2 DEF Whence
  <1>6. pt.debug # pt.echo /\ pt.debug # pt.health /\ pt.echo # pt.health
    <2>1. pt.health \in STRING \ (R!OwnPaths \cup {""}) \/ pt.health = "/__health"
      BY DEF PatternsTyped
    <2>2. QED
      BY <2>1 DEF PatternsTyped, R!OwnPaths
  <1>7. OfService(q, s, pt) => \/ q.kind = "debug" /\ q.path = pt.debug
                               \/ q.kind = "echo" /\ q.path = pt.echo
                               \/ q.kind = "health" /\ q.path = pt.health
    BY DEF OfService
  <1>8. QED
    BY <1>2, <1>4, <1>5, <1>6, <1>7

\* The conflict of a route of the service, of an endpoint, or of OPTIONS.
LEMMA OwnConflicts ==
    ASSUME NEW s, NEW pt, NEW eps, NEW td, NEW n, NEW rts, NEW cat, NEW r \in RouteType,
           PatternsTyped(s, pt), EndpointsTyped(eps), Routed(s, pt, eps, td, n, rts, cat, FALSE),
           OfService(r, s, pt), Left(td, r.kind), Conflict(s, rts, r)
    PROVE  Reason(s, eps)
  <1>1. /\ rts \in Seq(RouteType) /\ n \in Nat /\ n <= Len(eps) /\ Len(eps) \in Nat
        /\ \A a \in DOMAIN rts : Whence(rts[a], s, pt, eps, n, cat)
        /\ Catalogued(s, eps, n, cat) /\ Once(s, td, rts)
    BY DEF Routed, EndpointsTyped
  <1>2. CASE r.path = ""
    <2>1. r.kind = "echo" /\ s.echo /\ pt.echo = ""
      BY <1>2 DEF OfService, PatternsTyped
    <2>2. s.router = "httptreemux"
      BY <1>1, <2>1 DEF PatternsTyped, Once
    <2>3. QED
      BY <2>1, <2>2 DEF Reason
  <1>3. CASE s.router \in {"gin", "httptreemux"} /\ \E a \in DOMAIN rts : Meet(rts[a], r)
    <2>1. PICK a \in DOMAIN rts : Meet(rts[a], r)
      BY <1>3
    <2>2. PICK q : q = rts[a]
      OBVIOUS
    <2>3. q \in RouteType /\ Whence(q, s, pt, eps, n, cat) /\ q.path = r.path
      BY <1>1, <2>1, <2>2 DEF Meet
    <2>4. q.kind # r.kind
      BY <1>1, <2>2 DEF Once, OfService
    <2>5. /\ q.path = pt.debug => OfService(q, s, pt) /\ q.kind = "debug"
          /\ q.path = pt.echo => OfService(q, s, pt) /\ q.kind = "echo"
          /\ q.path = pt.health => Reason(s, eps) \/ (OfService(q, s, pt) /\ q.kind = "health")
      BY <1>1, <1>3, <2>3, MeetsForAReason
    <2>6. QED
      BY <2>3, <2>4, <2>5 DEF OfService
  <1>4. QED
    BY <1>2, <1>3 DEF Conflict

\* The route of an endpoint meets a route only if two endpoints, or an endpoint
\* and the health endpoint of gin, have one path and method.
LEMMA EndpointConflicts ==
    ASSUME NEW s, NEW pt, NEW eps, NEW td, NEW n, NEW rts, NEW cat, NEW r \in RouteType, NEW i \in DOMAIN eps, i = n + 1,
           PatternsTyped(s, pt), EndpointsTyped(eps), Routed(s, pt, eps, td, n, rts, cat, FALSE),
           r.path = eps[i].path, r.methods = {Method(eps, i)}, Registers(s, eps, i), Conflict(s, rts, r)
    PROVE  Reason(s, eps)
  <1>1. /\ rts \in Seq(RouteType) /\ n \in Nat /\ n <= Len(eps) /\ Len(eps) \in Nat
        /\ \A a \in DOMAIN rts : Whence(rts[a], s, pt, eps, n, cat)
        /\ Catalogued(s, eps, n, cat)
    BY DEF Routed, EndpointsTyped
  <1>2. r.path # ""
    BY DEF EndpointsTyped
  <1>3. s.router \in {"gin", "httptreemux"} /\ \E a \in DOMAIN rts : Meet(rts[a], r)
    BY <1>2 DEF Conflict
  <1>4. PICK a \in DOMAIN rts : Meet(rts[a], r)
    BY <1>3
  <1>5. PICK q : q = rts[a]
    OBVIOUS
  <1>6. q \in RouteType /\ Whence(q, s, pt, eps, n, cat) /\ q.path = eps[i].path /\ Method(eps, i) \in q.methods
    BY <1>1, <1>4, <1>5 DEF Meet
  <1>7. CASE OfService(q, s, pt)
    BY <1>1, <1>3, <1>6, <1>7, MeetsForAReason
  <1>8. CASE OfEndpoint(q, s, eps, n)
    <2>1. q.i \in DOMAIN eps /\ q.i # i
      BY <1>1, <1>8, EndpointFacts DEF OfEndpoint
    <2>2. eps[q.i].path = eps[i].path /\ Method(eps, q.i) = Method(eps, i)
      BY <1>6, <1>8 DEF OfEndpoint
    <2>3. QED
      BY <2>1, <2>2 DEF Reason
  <1>9. CASE OfOptions(q, s, cat)
    BY <1>6, <1>9 DEF OfOptions, Registers, R!Supported
  <1>10. QED
    BY <1>6, <1>7, <1>8, <1>9 DEF Whence

\* No route has the method OPTIONS of a path before it is registered.
LEMMA NoOptionConflicts ==
    ASSUME NEW s, NEW pt, NEW eps, NEW td, NEW n, NEW rts, NEW cat, NEW r \in RouteType, NEW pm \in cat,
           PatternsTyped(s, pt), EndpointsTyped(eps), Routed(s, pt, eps, td, n, rts, cat, FALSE),
           r.path = pm[1], r.methods = {"OPTIONS"},
           ~\E a \in DOMAIN rts : rts[a].path = pm[1] /\ rts[a].kind = "options"
    PROVE  ~Conflict(s, rts, r)
  <1>1. /\ rts \in Seq(RouteType) /\ n \in Nat /\ n <= Len(eps) /\ Len(eps) \in Nat
        /\ \A a \in DOMAIN rts : Whence(rts[a], s, pt, eps, n, cat)
        /\ Catalogued(s, eps, n, cat)
    BY DEF Routed, EndpointsTyped
  <1>2. PICK i \in DOMAIN eps : pm[1] = eps[i].path
    BY <1>1, CatalogFacts
  <1>3. r.path \in STRING \ (R!OwnPaths \cup {""})
    BY <1>2 DEF EndpointsTyped
  <1>4. ASSUME NEW a \in DOMAIN rts, Meet(rts[a], r) PROVE FALSE
    <2>1. PICK q : q = rts[a]
      OBVIOUS
    <2>2. Whence(q, s, pt, eps, n, cat) /\ q.path = r.path /\ "OPTIONS" \in q.methods /\ q.kind # "options"
      BY <1>1, <1>4, <2>1 DEF Meet
    <2>3. OfService(q, s, pt)
      BY <2>2 DEF Whence, OfEndpoint, OfOptions, Registers, R!Supported
    <2>4. r.path # pt.debug /\ r.path # pt.echo
      BY <1>3 DEF PatternsTyped, R!OwnPaths
    <2>5. QED
      BY <2>2, <2>3, <2>4 DEF OfService
  <1>5. QED
    BY <1>3, <1>4 DEF Conflict

\* The service registers one of its own routes.
LEMMA OwnRouted ==
    ASSUME NEW s, NEW pt, NEW eps, NEW td, NEW n, NEW rts, NEW cat, NEW r \in RouteType, NEW td2, NEW rts2, NEW pn2,
           PatternsTyped(s, pt), EndpointsTyped(eps), Routed(s, pt, eps, td, n, rts, cat, FALSE),
           td # << >>, td2 = Tail(td), OfService(r, s, pt), Head(td) = r.kind,
           IF Conflict(s, rts, r) THEN pn2 = TRUE /\ rts2 = rts ELSE rts2 = Append(rts, r) /\ pn2 = FALSE
    PROVE  Routed(s, pt, eps, td2, n, rts2, cat, pn2)
  <1>1. /\ td \in Seq(Steps) /\ rts \in Seq(RouteType) /\ Once(s, td, rts) /\ Present(s, pt, eps, td, n, rts, cat)
        /\ Catalogued(s, eps, n, cat) /\ Apart(s, rts) /\ n \in Nat /\ n <= Len(eps)
        /\ \A a \in DOMAIN rts : Whence(rts[a], s, pt, eps, n, cat)
    BY DEF Routed
  <1>2. /\ td2 \in Seq(Steps) /\ \A w : Left(td, w) /\ w # r.kind => Left(td2, w)
        /\ ~Left(td2, r.kind)
    BY <1>1, TailFacts DEF Once
  <1>3. Left(td, r.kind)
    BY <1>1 DEF Left
  <1>4. Once(s, td2, rts)
    BY <1>1, OnceGoesOn
  <1>5. CASE Conflict(s, rts, r)
    <2>1. Reason(s, eps)
      BY <1>3, <1>5, OwnConflicts
    <2>2. QED
      BY <1>1, <1>2, <1>4, <1>5, <2>1 DEF Routed
  <1>6. CASE ~Conflict(s, rts, r)
    <2>1. rts2 = Append(rts, r) /\ pn2 = FALSE
      BY <1>6
    <2>2. /\ rts2 \in Seq(RouteType) /\ DOMAIN rts2 = DOMAIN rts \cup {Len(rts) + 1}
          /\ rts2[Len(rts) + 1] = r /\ \A a \in DOMAIN rts : rts2[a] = rts[a]
      BY <1>1, <2>1, AppendFacts
    <2>3. Apart(s, rts2) /\ \A w : There(rts2, w) <=> There(rts, w) \/ w = r.kind
      BY <1>1, <1>6, <2>1, Grows
    <2>4. \A a \in DOMAIN rts2 : Whence(rts2[a], s, pt, eps, n, cat)
      BY <1>1, <2>2 DEF Whence
    <2>5. Once(s, td2, rts2)
      BY <1>2, <1>4, <2>2 DEF Once
    <2>6. Present(s, pt, eps, td2, n, rts2, cat)
      <3>1. /\ s.debug => Left(td2, "debug") \/ There(rts2, "debug")
            /\ s.echo /\ s.router # "chi" => Left(td2, "echo") \/ There(rts2, "echo")
            /\ pt.health # "off" => Left(td2, "health") \/ There(rts2, "health")
        BY <1>1, <1>2, <2>3 DEF Present
      <3>2. \A i \in 1..n : Registers(s, eps, i) => \E a \in DOMAIN rts2 : rts2[a].i = i
        BY <1>1, <2>2 DEF Present
      <3>3. r.kind # "options"
        BY DEF OfService
      <3>4. s.router = "gin" /\ s.auto =>
                \/ Left(td2, "options")
                \/ \A pm \in cat : \E a \in DOMAIN rts2 : rts2[a].kind = "options" /\ rts2[a].path = pm[1]
        BY <1>1, <1>2, <2>2, <3>3 DEF Present
      <3>5. QED
        BY <3>1, <3>2, <3>4 DEF Present
    <2>7. QED
      BY <1>1, <1>2, <2>1, <2>2, <2>3, <2>4, <2>5, <2>6 DEF Routed
  <1>7. QED
    BY <1>5, <1>6

\* The numbers up to the next one.
LEMMA NextOne ==
    ASSUME NEW n \in Nat, NEW m \in Nat, n < m, NEW i, i = n + 1
    PROVE  i \in Nat /\ n <= i /\ i <= m /\ i \in 1..i /\ 1..i = 1..n \cup {i}
  OBVIOUS

\* One endpoint more is considered, and registers nothing.
LEMMA LeftOutRouted ==
    ASSUME NEW s, NEW pt, NEW eps, NEW td, NEW n, NEW rts, NEW cat,
           EndpointsTyped(eps), Routed(s, pt, eps, td, n, rts, cat, FALSE),
           n < Len(eps), ~Registers(s, eps, n + 1)
    PROVE  Routed(s, pt, eps, td, n + 1, rts, cat, FALSE)
  <1>0. /\ n \in Nat /\ Len(eps) \in Nat
        /\ Catalogued(s, eps, n, cat) /\ Present(s, pt, eps, td, n, rts, cat)
        /\ \A a \in DOMAIN rts : Whence(rts[a], s, pt, eps, n, cat)
    BY DEF Routed, EndpointsTyped
  <1>1. n + 1 \in Nat /\ n <= n + 1 /\ n + 1 <= Len(eps) /\ 1..n + 1 = 1..n \cup {n + 1}
    BY <1>0, NextOne
  <1>2. \A a \in DOMAIN rts : Whence(rts[a], s, pt, eps, n + 1, cat)
    BY <1>0, <1>1, WhenceGrows
  <1>3. {j \in 1..n + 1 : Registers(s, eps, j)} = {j \in 1..n : Registers(s, eps, j)}
    BY <1>1
  <1>4. Catalogued(s, eps, n + 1, cat)
    BY <1>0, <1>1, <1>3 DEF Catalogued
  <1>5. Present(s, pt, eps, td, n + 1, rts, cat)
    BY <1>0, <1>1 DEF Present
  <1>6. QED
    BY <1>0, <1>1, <1>2, <1>4, <1>5 DEF Routed

\* What gin has still to do is never only what it did.
LEMMA OptionsLeft ==
    ASSUME NEW s, NEW td, NEW rts, td \in Seq(Steps), td # << >>, Once(s, td, rts), s.router = "gin"
    PROVE  Left(td, "options")
  <1>1. Len(td) \in DOMAIN td
    OBVIOUS
  <1>2. QED
    BY <1>1 DEF Left, Once

\* One endpoint more is considered, and registers a route.
LEMMA EndpointRouted ==
    ASSUME NEW s, NEW pt, NEW eps, NEW td, NEW n, NEW rts, NEW cat, NEW r \in RouteType, NEW i, NEW cat2, NEW rts2, NEW pn2,
           PatternsTyped(s, pt), EndpointsTyped(eps), Routed(s, pt, eps, td, n, rts, cat, FALSE),
           n < Len(eps), i = n + 1, td # << >>, Registers(s, eps, i), OfEndpoint(r, s, eps, i), r.i = i,
           cat2 = cat \cup {Entry(eps, i)},
           IF Conflict(s, rts, r) THEN pn2 = TRUE /\ rts2 = rts ELSE rts2 = Append(rts, r) /\ pn2 = FALSE
    PROVE  Routed(s, pt, eps, td, i, rts2, cat2, pn2)
  <1>0. i \in Nat /\ n <= i /\ i <= Len(eps) /\ 1..i = 1..n \cup {i} /\ i \in 1..i
    <2>1. n \in Nat /\ Len(eps) \in Nat
      BY DEF Routed, EndpointsTyped
    <2>2. QED
      BY <2>1, NextOne
  <1>1. /\ n \in Nat
        /\ td \in Seq(Steps) /\ rts \in Seq(RouteType) /\ Once(s, td, rts) /\ Present(s, pt, eps, td, n, rts, cat)
        /\ Catalogued(s, eps, n, cat) /\ Apart(s, rts)
        /\ \A a \in DOMAIN rts : Whence(rts[a], s, pt, eps, n, cat)
    BY DEF Routed, EndpointsTyped
  <1>2. i \in DOMAIN eps
    BY <1>0, <1>1, EndpointFacts
  <1>3. \A a \in DOMAIN rts : Whence(rts[a], s, pt, eps, i, cat2)
    BY <1>0, <1>1, WhenceGrows
  <1>4. Catalogued(s, eps, i, cat2)
    <2>1. {j \in 1..i : Registers(s, eps, j)} = {j \in 1..n : Registers(s, eps, j)} \cup {i}
      BY <1>0, <1>1
    <2>2. QED
      BY <1>0, <1>1, <2>1 DEF Catalogued
  <1>5. CASE Conflict(s, rts, r)
    <2>1. r.path = eps[i].path /\ r.methods = {Method(eps, i)}
      BY DEF OfEndpoint
    <2>2. Reason(s, eps)
      BY <1>2, <1>5, <2>1, EndpointConflicts
    <2>3. QED
      BY <1>0, <1>1, <1>3, <1>4, <1>5, <2>2 DEF Routed
  <1>6. CASE ~Conflict(s, rts, r)
    <2>1. rts2 = Append(rts, r) /\ pn2 = FALSE
      BY <1>6
    <2>2. /\ rts2 \in Seq(RouteType) /\ DOMAIN rts2 = DOMAIN rts \cup {Len(rts) + 1}
          /\ rts2[Len(rts) + 1] = r /\ \A a \in DOMAIN rts : rts2[a] = rts[a]
      BY <1>1, <2>1, AppendFacts
    <2>3. Apart(s, rts2) /\ \A w : There(rts2, w) <=> There(rts, w) \/ w = r.kind
      BY <1>1, <1>6, <2>1, Grows
    <2>4. \A a \in DOMAIN rts2 : Whence(rts2[a], s, pt, eps, i, cat2)
      BY <1>3, <2>2 DEF Whence
    <2>5. r.kind \in {"pipe", "failed"}
      BY DEF OfEndpoint
    <2>6. Once(s, td, rts2)
      BY <1>1, <2>2, <2>5 DEF Once
    <2>7. Present(s, pt, eps, td, i, rts2, cat2)
      <3>1. /\ s.debug => Left(td, "debug") \/ There(rts2, "debug")
            /\ s.echo /\ s.router # "chi" => Left(td, "echo") \/ There(rts2, "echo")
            /\ pt.health # "off" => Left(td, "health") \/ There(rts2, "health")
        BY <1>1, <2>3 DEF Present
      <3>2. \A j \in 1..i : Registers(s, eps, j) => \E a \in DOMAIN rts2 : rts2[a].i = j
        <4>1. \A j \in 1..n : Registers(s, eps, j) => \E a \in DOMAIN rts2 : rts2[a].i = j
          BY <1>1, <2>2 DEF Present
        <4>2. QED
          BY <1>0, <1>1, <2>2, <4>1
      <3>3. s.router = "gin" => Left(td, "options")
        BY <1>1, OptionsLeft
      <3>4. QED
        BY <3>1, <3>2, <3>3 DEF Present
    <2>8. QED
      BY <1>0, <1>1, <1>4, <2>1, <2>2, <2>3, <2>4, <2>6, <2>7 DEF Routed
  <1>7. QED
    BY <1>5, <1>6

\* OPTIONS of one path more.
LEMMA OptionRouted ==
    ASSUME NEW s, NEW pt, NEW eps, NEW td, NEW n, NEW rts, NEW cat, NEW r \in RouteType, NEW pm \in cat, NEW rts2,
           PatternsTyped(s, pt), EndpointsTyped(eps), Routed(s, pt, eps, td, n, rts, cat, FALSE),
           s.router = "gin", td # << >>, r.i = 0, r.kind = "options", r.path = pm[1], r.methods = {"OPTIONS"},
           ~\E a \in DOMAIN rts : rts[a].path = pm[1] /\ rts[a].kind = "options",
           rts2 = Append(rts, r)
    PROVE  ~Conflict(s, rts, r) /\ Routed(s, pt, eps, td, n, rts2, cat, FALSE)
  <1>1. /\ td \in Seq(Steps) /\ rts \in Seq(RouteType) /\ Once(s, td, rts) /\ Present(s, pt, eps, td, n, rts, cat)
        /\ Apart(s, rts) /\ \A a \in DOMAIN rts : Whence(rts[a], s, pt, eps, n, cat)
    BY DEF Routed
  <1>2. ~Conflict(s, rts, r)
    BY NoOptionConflicts
  <1>3. /\ rts2 \in Seq(RouteType) /\ DOMAIN rts2 = DOMAIN rts \cup {Len(rts) + 1}
        /\ rts2[Len(rts) + 1] = r /\ \A a \in DOMAIN rts : rts2[a] = rts[a]
    BY <1>1, AppendFacts
  <1>4. Apart(s, rts2) /\ \A w : There(rts2, w) <=> There(rts, w) \/ w = r.kind
    BY <1>1, <1>2, Grows
  <1>5. Whence(r, s, pt, eps, n, cat)
    BY DEF Whence, OfOptions
  <1>6. Once(s, td, rts2)
    BY <1>1, <1>3 DEF Once
  <1>7. Present(s, pt, eps, td, n, rts2, cat)
    <2>1. Left(td, "options")
      BY <1>1, OptionsLeft
    <2>2. \A j \in 1..n : Registers(s, eps, j) => \E a \in DOMAIN rts2 : rts2[a].i = j
      BY <1>1, <1>3 DEF Present
    <2>3. QED
      BY <1>1, <1>4, <2>1, <2>2 DEF Present
  <1>8. QED
    BY <1>1, <1>2, <1>3, <1>4, <1>5, <1>6, <1>7 DEF Routed

\* Before Run nothing is registered, and everything is left.
LEMMA BeginRouted ==
    ASSUME R!Begin, NEW eps, Len(eps) \in Nat, NEW pt
    PROVE  Routed(site, pt, eps, todo, seen, routes, catalog, panicked)
  <1>1. PICK s, td : s = site /\ td = todo
    OBVIOUS
  <1>2. td \in Seq(Steps) /\ td # << >>
    BY <1>1, OrderFacts DEF R!Begin
  <1>3. td = CASE s.router = "gin" -> <<"health", "transport", "debug", "echo", "endpoints", "options">>
               [] s.router = "chi" -> <<"debug", "health", "transport", "endpoints">>
               [] OTHER -> <<"debug", "echo", "health", "transport", "endpoints">>
    BY <1>1 DEF R!Begin, R!Order
  <1>4. /\ Left(td, "debug") /\ Left(td, "health")
        /\ IF s.router = "chi" THEN ~Left(td, "echo") ELSE Left(td, "echo")
        /\ IF s.router = "gin" THEN Left(td, "options") /\ td[Len(td)] = "options" ELSE ~Left(td, "options")
        /\ \A a, b \in DOMAIN td : a # b => td[a] # td[b]
    <2>1. CASE s.router = "gin"
      <3>1. Len(td) = 6 /\ DOMAIN td = 1..6 /\ td[1] = "health" /\ td[2] = "transport" /\ td[3] = "debug"
            /\ td[4] = "echo" /\ td[5] = "endpoints" /\ td[6] = "options"
        BY <1>3, <2>1
      <3>2. QED
        BY <2>1, <3>1 DEF Left
    <2>2. CASE s.router = "chi"
      <3>1. Len(td) = 4 /\ DOMAIN td = 1..4 /\ td[1] = "debug" /\ td[2] = "health" /\ td[3] = "transport"
            /\ td[4] = "endpoints"
        BY <1>3, <2>2
      <3>2. QED
        BY <2>2, <3>1 DEF Left
    <2>3. CASE s.router # "gin" /\ s.router # "chi"
      <3>1. Len(td) = 5 /\ DOMAIN td = 1..5 /\ td[1] = "debug" /\ td[2] = "echo" /\ td[3] = "health"
            /\ td[4] = "transport" /\ td[5] = "endpoints"
        BY <1>3, <2>3
      <3>2. QED
        BY <2>3, <3>1 DEF Left
    <2>4. QED
      BY <2>1, <2>2, <2>3
  <1>5. seen = 0 /\ routes = << >> /\ catalog = {} /\ panicked = FALSE
    BY DEF R!Begin
  <1>6. << >> \in Seq(RouteType) /\ DOMAIN << >> = {}
    OBVIOUS
  <1>7. Once(s, td, << >>)
    BY <1>4, <1>6 DEF Once
  <1>8. Present(s, pt, eps, td, 0, << >>, {})
    BY <1>4 DEF Present
  <1>9. Catalogued(s, eps, 0, {}) /\ Apart(s, << >>)
    BY <1>6 DEF Catalogued, Apart
  <1>10. Routed(s, pt, eps, td, 0, << >>, {}, FALSE)
    BY <1>2, <1>6, <1>7, <1>8, <1>9 DEF Routed
  <1>11. QED
    BY <1>1, <1>5, <1>10

\* The patterns of the engine.
LEMMA PatternFacts ==
    ASSUME R!WellFormed(site)
    PROVE  PatternsTyped(site, Patterns)
  <1>1. /\ site.router \in R!Routers
        /\ site.health \in STRING \ (R!OwnPaths \cup {""}) \/ site.health = "/__health"
    BY DEF R!WellFormed
  <1>2. /\ Patterns.debug = R!DebugPattern /\ Patterns.echo = R!EchoPattern /\ Patterns.health = R!HealthPath
    BY DEF Patterns
  <1>3. R!DebugPattern \in {"/__debug/*param", "/__debug/", "/__debug/{params}"}
    BY DEF R!DebugPattern
  <1>4. /\ R!EchoPattern \in {"/__echo/*param", "/__echo/", "/__echo/{params}", ""}
        /\ R!EchoPattern = "" => site.router \in {"chi", "httptreemux"}
    BY <1>1 DEF R!EchoPattern, R!Routers
  <1>5. /\ R!HealthPath \in STRING \ (R!OwnPaths \cup {""}) \/ R!HealthPath = "/__health"
        /\ IF site.router = "gin" THEN R!HealthPath = site.health ELSE R!HealthPath = "/__health"
    BY <1>1 DEF R!HealthPath
  <1>6. QED
    BY <1>2, <1>3, <1>4, <1>5 DEF PatternsTyped

\* Handle appends a route, or panics when it conflicts.
LEMMA HandleFacts ==
    ASSUME NEW r, R!Handle(r), panicked = FALSE
    PROVE  IF Conflict(site, routes, r) THEN panicked' = TRUE /\ routes' = routes
           ELSE routes' = Append(routes, r) /\ panicked' = FALSE
  <1>1. R!Panics(r) <=> Conflict(site, routes, r)
    BY DEF R!Panics, Conflict, Meet
  <1>2. QED
    BY <1>1 DEF R!Handle

\* A step of Run keeps what is known of the routes.
LEMMA RouteStep ==
    ASSUME R!WellFormed(site), EndpointsTyped(svc.endpoints), transport \in BOOLEAN, R!Run,
           Routed(site, Patterns, svc.endpoints, todo, seen, routes, catalog, panicked)
    PROVE  /\ Routed(site, Patterns, svc.endpoints, todo', seen', routes', catalog', panicked')
           /\ site' = site /\ transport' \in BOOLEAN
  <1>1. PICK s, pt, eps, td, n, rts, cat :
            s = site /\ pt = Patterns /\ eps = svc.endpoints /\ td = todo /\ n = seen /\ rts = routes /\ cat = catalog
    OBVIOUS
  <1>2. panicked = FALSE /\ td # << >>
    BY <1>1 DEF Routed, R!Run, R!RegisterDebug, R!RegisterEcho, R!RegisterHealth, R!InitTransport,
           R!RegisterEndpoint, R!EndpointsRegistered, R!RegisterOptions, R!Registering
  <1>3. /\ Routed(s, pt, eps, td, n, rts, cat, FALSE) /\ EndpointsTyped(eps) /\ PatternsTyped(s, pt)
        /\ Len(eps) \in Nat /\ n \in Nat /\ n <= Len(eps)
    BY <1>1, <1>2, PatternFacts DEF EndpointsTyped, Routed
  <1>4. pt.debug = R!DebugPattern /\ pt.echo = R!EchoPattern /\ pt.health = R!HealthPath
    BY <1>1 DEF Patterns
  <1>5. \A x \in {pt.debug, pt.echo, pt.health} : x \in STRING \cup R!OwnPaths \cup {""}
    BY <1>3 DEF PatternsTyped, R!OwnPaths
  <1>6. site' = site /\ transport' \in BOOLEAN
    BY DEF R!Run, R!RegisterDebug, R!RegisterEcho, R!RegisterHealth, R!InitTransport,
           R!RegisterEndpoint, R!EndpointsRegistered, R!RegisterOptions
  <1>7. R!Supported \subseteq R!Any /\ {"GET"} \subseteq R!Any /\ {"OPTIONS"} \subseteq R!Any
    BY DEF R!Any, R!Supported
  <1>8. CASE R!RegisterDebug
    <2>1. /\ Head(td) = "debug" /\ todo' = Tail(td) /\ seen' = n /\ catalog' = cat
      BY <1>1, <1>8 DEF R!RegisterDebug, R!Registering
    <2>2. CASE ~s.debug
      <3>1. routes' = rts /\ panicked' = FALSE
        BY <1>1, <1>2, <1>8, <2>2 DEF R!RegisterDebug
      <3>2. QED
        BY <1>1, <1>2, <1>3, <1>6, <2>1, <2>2, <3>1, SkipRouted
    <2>3. CASE s.debug
      <3>1. PICK r : r = R!Route(R!DebugPattern, IF site.router = "chi" THEN R!Supported ELSE R!Any, "debug", 0)
        OBVIOUS
      <3>2. R!Handle(r)
        BY <1>1, <1>8, <2>3, <3>1 DEF R!RegisterDebug
      <3>3. /\ r.path = pt.debug /\ r.kind = "debug" /\ r.i = 0 /\ R!Supported \subseteq r.methods
            /\ r.methods \subseteq R!Any
        BY <1>4, <1>7, <3>1 DEF R!Route
      <3>4. r \in RouteType
        BY <1>4, <1>5, <1>7, <3>1 DEF R!Route, RouteType
      <3>5. OfService(r, s, pt)
        BY <2>3, <3>3 DEF OfService
      <3>6. IF Conflict(s, rts, r) THEN panicked' = TRUE /\ routes' = rts
            ELSE routes' = Append(rts, r) /\ panicked' = FALSE
        BY <1>1, <1>2, <3>2, HandleFacts
      <3>7. Routed(s, pt, eps, todo', n, routes', cat, panicked')
        BY <1>2, <1>3, <2>1, <3>3, <3>4, <3>5, <3>6, OwnRouted
      <3>8. QED
        BY <1>1, <1>6, <2>1, <3>7
    <2>4. QED
      BY <2>2, <2>3
  <1>9. CASE R!RegisterEcho
    <2>1. /\ Head(td) = "echo" /\ todo' = Tail(td) /\ seen' = n /\ catalog' = cat
      BY <1>1, <1>9 DEF R!RegisterEcho, R!Registering
    <2>2. CASE ~s.echo
      <3>1. routes' = rts /\ panicked' = FALSE
        BY <1>1, <1>2, <1>9, <2>2 DEF R!RegisterEcho
      <3>2. QED
        BY <1>1, <1>2, <1>3, <1>6, <2>1, <2>2, <3>1, SkipRouted
    <2>3. CASE s.echo
      <3>1. PICK r : r = R!Route(R!EchoPattern, R!Any, "echo", 0)
        OBVIOUS
      <3>2. R!Handle(r)
        BY <1>1, <1>9, <2>3, <3>1 DEF R!RegisterEcho
      <3>3. r.path = pt.echo /\ r.kind = "echo" /\ r.i = 0 /\ R!Supported \subseteq r.methods
        BY <1>4, <1>7, <3>1 DEF R!Route
      <3>4. r \in RouteType
        BY <1>4, <1>5, <1>7, <3>1 DEF R!Route, RouteType
      <3>5. OfService(r, s, pt)
        BY <2>3, <3>3 DEF OfService
      <3>6. IF Conflict(s, rts, r) THEN panicked' = TRUE /\ routes' = rts
            ELSE routes' = Append(rts, r) /\ panicked' = FALSE
        BY <1>1, <1>2, <3>2, HandleFacts
      <3>7. Routed(s, pt, eps, todo', n, routes', cat, panicked')
        BY <1>2, <1>3, <2>1, <3>3, <3>4, <3>5, <3>6, OwnRouted
      <3>8. QED
        BY <1>1, <1>6, <2>1, <3>7
    <2>4. QED
      BY <2>2, <2>3
  <1>10. CASE R!RegisterHealth
    <2>1. /\ Head(td) = "health" /\ todo' = Tail(td) /\ seen' = n /\ catalog' = cat
      BY <1>1, <1>10 DEF R!RegisterHealth, R!Registering
    <2>2. CASE pt.health = "off"
      <3>1. routes' = rts /\ panicked' = FALSE
        BY <1>1, <1>2, <1>4, <1>10, <2>2 DEF R!RegisterHealth
      <3>2. QED
        BY <1>1, <1>2, <1>3, <1>6, <2>1, <2>2, <3>1, SkipRouted
    <2>3. CASE pt.health # "off"
      <3>1. PICK r : r = R!Route(R!HealthPath, {"GET"}, "health", 0)
        OBVIOUS
      <3>2. R!Handle(r)
        BY <1>1, <1>4, <1>10, <2>3, <3>1 DEF R!RegisterHealth
      <3>3. r.path = pt.health /\ r.kind = "health" /\ r.i = 0 /\ r.methods = {"GET"}
        BY <1>4, <3>1 DEF R!Route
      <3>4. r \in RouteType
        BY <1>4, <1>5, <1>7, <3>1 DEF R!Route, RouteType
      <3>5. OfService(r, s, pt)
        BY <2>3, <3>3 DEF OfService
      <3>6. IF Conflict(s, rts, r) THEN panicked' = TRUE /\ routes' = rts
            ELSE routes' = Append(rts, r) /\ panicked' = FALSE
        BY <1>1, <1>2, <3>2, HandleFacts
      <3>7. Routed(s, pt, eps, todo', n, routes', cat, panicked')
        BY <1>2, <1>3, <2>1, <3>3, <3>4, <3>5, <3>6, OwnRouted
      <3>8. QED
        BY <1>1, <1>6, <2>1, <3>7
    <2>4. QED
      BY <2>2, <2>3
  <1>11. CASE R!InitTransport \/ R!EndpointsRegistered
    <2>1. /\ Head(td) \in {"transport", "endpoints"} /\ todo' = Tail(td) /\ seen' = n /\ catalog' = cat
          /\ routes' = rts /\ panicked' = FALSE
      BY <1>1, <1>2, <1>11 DEF R!InitTransport, R!EndpointsRegistered, R!Registering
    <2>2. QED
      BY <1>1, <1>2, <1>3, <1>6, <2>1, SkipRouted
  <1>12. CASE R!RegisterEndpoint
    <2>1. PICK i : i = n + 1
      OBVIOUS
    <2>2. /\ n < Len(eps) /\ todo' = td /\ seen' = i
      BY <1>1, <1>12, <2>1 DEF R!RegisterEndpoint
    <2>3. /\ Method(eps, i) = R!ToTitle(eps[i].method)
          /\ Registers(s, eps, i) <=> ~(R!ToTitle(eps[i].method) \notin R!Supported \/ (~R!Built(i) /\ site.router # "gin"))
      BY <1>1 DEF Method, Registers, R!Built
    <2>4. CASE ~Registers(s, eps, i)
      <3>1. catalog' = cat /\ routes' = rts /\ panicked' = FALSE
        BY <1>1, <1>2, <1>12, <2>1, <2>3, <2>4 DEF R!RegisterEndpoint
      <3>2. Routed(s, pt, eps, td, i, rts, cat, FALSE)
        BY <1>3, <2>1, <2>2, <2>4, LeftOutRouted
      <3>3. QED
        BY <1>1, <1>6, <2>2, <3>1, <3>2
    <2>5. CASE Registers(s, eps, i)
      <3>1. PICK r : r = R!Route(eps[i].path, {R!ToTitle(eps[i].method)}, IF R!Built(i) THEN "pipe" ELSE "failed", i)
        OBVIOUS
      <3>2. R!Handle(r) /\ catalog' = cat \cup {<<eps[i].path, R!ToTitle(eps[i].method)>>}
        BY <1>1, <1>12, <2>1, <2>3, <2>5, <3>1 DEF R!RegisterEndpoint
      <3>3. catalog' = cat \cup {Entry(eps, i)}
        BY <2>3, <3>2 DEF Entry
      <3>4. i \in DOMAIN eps /\ i \in 1..i /\ i \in Nat
        <4>1. i \in Nat /\ i \in 1..i /\ i <= Len(eps)
          BY <1>3, <2>1, <2>2, NextOne
        <4>2. QED
          BY <1>3, <4>1, EndpointFacts
      <3>5. /\ r.path = eps[i].path /\ r.methods = {Method(eps, i)} /\ r.i = i
            /\ r.kind = (IF s.build[i] = "ok" THEN "pipe" ELSE "failed")
        BY <1>1, <2>3, <3>1 DEF R!Route, R!Built
      <3>6. OfEndpoint(r, s, eps, i)
        BY <2>5, <3>4, <3>5 DEF OfEndpoint
      <3>7. r \in RouteType
        <4>1. eps[i].path \in STRING /\ {R!ToTitle(eps[i].method)} \subseteq R!Any
          BY <1>3, <1>7, <2>3, <2>5, <3>4 DEF EndpointsTyped, Registers
        <4>2. QED
          BY <3>1, <3>4, <4>1 DEF R!Route, RouteType
      <3>8. IF Conflict(s, rts, r) THEN panicked' = TRUE /\ routes' = rts
            ELSE routes' = Append(rts, r) /\ panicked' = FALSE
        BY <1>1, <1>2, <3>2, HandleFacts
      <3>9. Routed(s, pt, eps, td, i, routes', catalog', panicked')
        BY <1>2, <1>3, <2>1, <2>2, <2>5, <3>3, <3>5, <3>6, <3>7, <3>8, EndpointRouted
      <3>10. QED
        BY <1>1, <1>6, <2>2, <3>9
    <2>6. QED
      BY <2>4, <2>5
  <1>13. CASE R!RegisterOptions
    <2>1. PICK left : left = {p \in {pm[1] : pm \in cat} :
                                ~\E j \in DOMAIN rts : rts[j].path = p /\ rts[j].kind = "options"}
      OBVIOUS
    <2>2. /\ Head(td) = "options" /\ seen' = n /\ catalog' = cat
          /\ IF s.auto /\ left # {}
             THEN (\E p \in left : R!Handle(R!Route(p, {"OPTIONS"}, "options", 0))) /\ todo' = td
             ELSE todo' = Tail(td) /\ routes' = rts /\ panicked' = FALSE
      BY <1>1, <1>2, <1>13, <2>1 DEF R!RegisterOptions, R!Registering
    <2>3. CASE s.auto /\ left # {}
      <3>1. PICK p \in left : R!Handle(R!Route(p, {"OPTIONS"}, "options", 0))
        BY <2>2, <2>3
      <3>2. PICK r : r = R!Route(p, {"OPTIONS"}, "options", 0)
        OBVIOUS
      <3>3. PICK pm \in cat : pm[1] = p
        BY <2>1
      <3>4. /\ r.path = pm[1] /\ r.kind = "options" /\ r.i = 0 /\ r.methods = {"OPTIONS"}
            /\ ~\E a \in DOMAIN rts : rts[a].path = pm[1] /\ rts[a].kind = "options"
        BY <2>1, <3>2, <3>3 DEF R!Route
      <3>5. p \in STRING
        <4>1. Catalogued(s, eps, n, cat)
          BY <1>3 DEF Routed
        <4>2. PICK i \in DOMAIN eps : pm[1] = eps[i].path
          BY <1>3, <4>1, CatalogFacts
        <4>3. QED
          BY <1>3, <3>3, <4>2 DEF EndpointsTyped
      <3>6. r \in RouteType
        BY <1>7, <3>2, <3>5 DEF R!Route, RouteType
      <3>7. s.router = "gin"
        <4>1. Left(td, "options")
          BY <1>2, <1>3, <2>2 DEF Left, Routed
        <4>2. QED
          BY <1>3, <4>1 DEF Routed, Once
      <3>8. ~Conflict(s, rts, r) /\ Routed(s, pt, eps, td, n, Append(rts, r), cat, FALSE)
        BY <1>2, <1>3, <3>4, <3>6, <3>7, OptionRouted
      <3>9. routes' = Append(rts, r) /\ panicked' = FALSE
        BY <1>1, <1>2, <3>1, <3>2, <3>8, HandleFacts
      <3>10. QED
        BY <1>1, <1>6, <2>2, <2>3, <3>8, <3>9
    <2>4. CASE ~(s.auto /\ left # {})
      <3>1. s.auto => \A pm \in cat : \E a \in DOMAIN rts : rts[a].kind = "options" /\ rts[a].path = pm[1]
        BY <2>1, <2>4
      <3>2. Routed(s, pt, eps, Tail(td), n, rts, cat, FALSE)
        BY <1>2, <1>3, <2>2, <3>1, SkipRouted
      <3>3. QED
        BY <1>1, <1>6, <2>2, <2>4, <3>2
    <2>5. QED
      BY <2>3, <2>4
  <1>14. QED
    BY <1>8, <1>9, <1>10, <1>11, <1>12, <1>13 DEF R!Run

-----------------------------------------------------------------------------
(* Requests                                                                *)

\* Everything is registered.
Finished ==
    /\ R!WellFormed(site) /\ EndpointsTyped(svc.endpoints)
    /\ Routed(site, Patterns, svc.endpoints, << >>, Len(svc.endpoints), routes, catalog, FALSE)
Able(path, method) == {a \in R!Candidates(path) : R!Serves(routes[a], method)}
Suits(a) == routes[a].i # 0 => R!Fits(svc.endpoints[routes[a].i])
Answers(a, path, method) == a \in DOMAIN routes /\ routes[a].path = path /\ R!Serves(routes[a], method)
Given(a, method) ==
    IF R!Refuses(routes[a], method) THEN R!Status("405") ELSE [kind |-> routes[a].kind, i |-> routes[a].i]

\* When Run is through, everything is registered that was asked for.
LEMMA FinishedFacts ==
    ASSUME Finished
    PROVE  /\ site.router \in R!Routers /\ PatternsTyped(site, Patterns) /\ EndpointsTyped(svc.endpoints)
           /\ Len(routes) \in Nat /\ DOMAIN routes = 1..Len(routes) /\ Len(svc.endpoints) \in Nat
           /\ DOMAIN svc.endpoints = 1..Len(svc.endpoints)
           /\ \A a \in DOMAIN routes :
                Whence(routes[a], site, Patterns, svc.endpoints, Len(svc.endpoints), catalog)
           /\ Catalogued(site, svc.endpoints, Len(svc.endpoints), catalog) /\ Apart(site, routes)
           /\ site.debug => There(routes, "debug")
           /\ site.echo /\ site.router # "chi" => There(routes, "echo")
           /\ Patterns.health # "off" => There(routes, "health")
           /\ \A i \in DOMAIN svc.endpoints : Registers(site, svc.endpoints, i) => \E a \in DOMAIN routes : routes[a].i = i
           /\ site.router = "gin" /\ site.auto =>
                \A pm \in catalog : \E a \in DOMAIN routes : routes[a].kind = "options" /\ routes[a].path = pm[1]
  <1>1. /\ site.router \in R!Routers /\ PatternsTyped(site, Patterns) /\ EndpointsTyped(svc.endpoints)
        /\ DOMAIN svc.endpoints = 1..Len(svc.endpoints) /\ Len(svc.endpoints) \in Nat
    BY PatternFacts DEF Finished, R!WellFormed, EndpointsTyped
  <1>2. /\ routes \in Seq(RouteType)
        /\ \A a \in DOMAIN routes :
                Whence(routes[a], site, Patterns, svc.endpoints, Len(svc.endpoints), catalog)
        /\ Catalogued(site, svc.endpoints, Len(svc.endpoints), catalog) /\ Apart(site, routes)
        /\ Present(site, Patterns, svc.endpoints, << >>, Len(svc.endpoints), routes, catalog)
    BY DEF Finished, Routed
  <1>3. \A w : ~Left(<< >>, w)
    BY DEF Left
  <1>4. Len(routes) \in Nat /\ DOMAIN routes = 1..Len(routes)
    BY <1>2
  <1>5. QED
    BY <1>1, <1>2, <1>3, <1>4 DEF Present

\* Of the routes that reach, the first or the last is one.
LEMMA OneOf ==
    ASSUME NEW m \in Nat, NEW Q, Q \subseteq 1..m, Q # {}
    PROVE  R!Max(Q) \in Q /\ R!Min(Q) \in Q
  <1>1. \E x \in Q : \A y \in Q : x <= y
    <2>1. Q \subseteq Nat
      OBVIOUS
    <2>2. QED
      BY <2>1, NatMin
  <1>2. \E x \in Q : \A y \in Q : x >= y
    <2>1. PICK T : T = {m - x : x \in Q}
      OBVIOUS
    <2>2. T \subseteq Nat /\ T # {}
      <3>1. \A x \in Q : m - x \in Nat
        OBVIOUS
      <3>2. QED
        BY <2>1, <3>1
    <2>3. PICK z \in T : \A y \in T : z <= y
      BY <2>2, NatMin
    <2>4. PICK x \in Q : z = m - x
      BY <2>1, <2>3
    <2>5. \A y \in Q : m - x <= m - y
      BY <2>1, <2>3, <2>4
    <2>6. QED
      BY <2>5
  <1>3. QED
    BY <1>1, <1>2 DEF R!Max, R!Min

\* A request is answered by one of the routes able to, if there is one.
LEMMA AnswerFacts ==
    ASSUME Finished, NEW path, NEW method
    PROVE  /\ Able(path, method) = {} =>
                R!Answer(path, method).i = 0 /\ R!Answer(path, method).kind \in {"404", "405"}
           /\ Able(path, method) # {} => \E a \in Able(path, method) : R!Answer(path, method) = Given(a, method)
  <1>1. Len(routes) \in Nat /\ DOMAIN routes = 1..Len(routes)
    BY FinishedFacts
  <1>2. R!Candidates(path) \subseteq DOMAIN routes
    BY DEF R!Candidates
  <1>3. PICK able : able = Able(path, method)
    OBVIOUS
  <1>4. able = {a \in R!Candidates(path) : R!Serves(routes[a], method)}
    BY <1>3 DEF Able
  <1>5. ASSUME able = {} PROVE R!Answer(path, method) \in {R!Status("404"), R!Status("405")}
    BY <1>4, <1>5 DEF R!Answer
  <1>6. ASSUME able # {} PROVE \E a \in able : R!Answer(path, method) = Given(a, method)
    <2>1. able \subseteq 1..Len(routes) /\ R!Candidates(path) # {}
      BY <1>1, <1>2, <1>4, <1>6
    <2>2. PICK a : a = IF site.router = "gorilla" THEN R!Min(able) ELSE R!Max(able)
      OBVIOUS
    <2>3. a \in able
      BY <1>1, <1>6, <2>1, <2>2, OneOf
    <2>4. R!Answer(path, method) = Given(a, method)
      BY <1>4, <1>6, <2>1, <2>2 DEF R!Answer, Given
    <2>5. QED
      BY <2>3, <2>4
  <1>7. QED
    BY <1>3, <1>5, <1>6 DEF R!Status

\* What reaches a path, and what the longest pattern leaves of it.
LEMMA Reach ==
    ASSUME NEW path
    PROVE  /\ \A a \in R!Candidates(path) : a \in DOMAIN routes /\ R!Covers(routes[a], path)
           /\ \A a \in DOMAIN routes : R!Covers(routes[a], path) /\ (routes[a].path # "/" \/ path = "/") =>
                /\ a \in R!Candidates(path)
                /\ \A b \in R!Candidates(path) : routes[b].path # "/" \/ path = "/"
  BY DEF R!Candidates

\* The route of a path that is taken by nothing but a pattern like it.
LEMMA CoversFacts ==
    ASSUME NEW r, NEW path, R!Covers(r, path),
           path # "/__debug/x", path # "/__echo/x"
    PROVE  (r.path = path /\ (r.i # 0 => R!Fits(svc.endpoints[r.i]))) \/ (r.path = "/" /\ site.router = "mux")
  BY DEF R!Covers

\* The path of an endpoint is not one of the service's.
LEMMA EndpointPaths ==
    ASSUME Finished, NEW i \in DOMAIN svc.endpoints, NEW path, path = svc.endpoints[i].path
    PROVE  /\ path \notin {"/__debug/x", "/__echo/x", "/__health", "", Patterns.debug, Patterns.echo}
           /\ path = Patterns.health => site.router = "gin" /\ path = site.health
  <1>1. path \notin R!OwnPaths \cup {""} /\ PatternsTyped(site, Patterns)
    BY FinishedFacts DEF EndpointsTyped
  <1>2. path \notin {"/__debug/x", "/__echo/x", "/__health", "", Patterns.debug, Patterns.echo}
    BY <1>1 DEF PatternsTyped, R!OwnPaths
  <1>3. QED
    BY <1>1, <1>2 DEF PatternsTyped

\* Once one route has a path, only routes of the path answer its requests.
LEMMA AbleFacts ==
    ASSUME Finished, NEW path, NEW method, path # "/__debug/x", path # "/__echo/x",
           NEW a, Answers(a, path, method), Suits(a)
    PROVE  a \in Able(path, method) /\ \A b \in Able(path, method) : Answers(b, path, method)
  <1>1. a \in DOMAIN routes /\ R!Covers(routes[a], path) /\ R!Serves(routes[a], method) /\ routes[a].path = path
    BY DEF R!Covers, Answers, Suits
  <1>2. /\ a \in R!Candidates(path)
        /\ \A b \in R!Candidates(path) : routes[b].path # "/" \/ path = "/"
    BY <1>1, Reach
  <1>3. ASSUME NEW b \in R!Candidates(path) PROVE b \in DOMAIN routes /\ routes[b].path = path
    <2>1. b \in DOMAIN routes /\ R!Covers(routes[b], path)
      BY Reach
    <2>2. PICK r : r = routes[b]
      OBVIOUS
    <2>3. (r.path = path /\ (r.i # 0 => R!Fits(svc.endpoints[r.i]))) \/ (r.path = "/" /\ site.router = "mux")
      BY <2>1, <2>2, CoversFacts
    <2>4. QED
      BY <1>2, <2>1, <2>2, <2>3
  <1>4. QED
    BY <1>1, <1>2, <1>3 DEF Able, Answers

\* An endpoint that was built has one route, which answers (EachHasItsRequests).
LEMMA EachHolds ==
    ASSUME Finished
    PROVE  R!EachHasItsRequests
  <1>1. SUFFICES ASSUME NEW i \in DOMAIN svc.endpoints, R!Built(i), R!Known(i), R!Fits(svc.endpoints[i]),
                        \A j \in DOMAIN svc.endpoints \ {i} : ~R!SameRoute(i, j)
                 PROVE  R!Answer(svc.endpoints[i].path, R!ToTitle(svc.endpoints[i].method)) = [kind |-> "pipe", i |-> i]
    BY DEF R!EachHasItsRequests
  <1>2. PICK path, method : path = svc.endpoints[i].path /\ method = R!ToTitle(svc.endpoints[i].method)
    OBVIOUS
  <1>3. method = Method(svc.endpoints, i) /\ method \in R!Supported /\ Registers(site, svc.endpoints, i)
    BY <1>1, <1>2 DEF Method, Registers, R!Known, R!Built
  <1>4. PICK a \in DOMAIN routes : routes[a].i = i
    BY <1>3, FinishedFacts
  <1>5. \A b \in DOMAIN routes : Whence(routes[b], site, Patterns, svc.endpoints, Len(svc.endpoints), catalog)
    BY FinishedFacts
  <1>6. i # 0
    BY FinishedFacts
  <1>7. OfEndpoint(routes[a], site, svc.endpoints, Len(svc.endpoints))
    BY <1>4, <1>5, <1>6 DEF Whence, OfService, OfOptions
  <1>8. routes[a].path = path /\ routes[a].methods = {method}
    BY <1>2, <1>3, <1>4, <1>7 DEF OfEndpoint
  <1>9. R!Serves(routes[a], method)
    BY <1>8 DEF R!Serves
  <1>10. /\ path \notin {"/__debug/x", "/__echo/x", "/__health", "", Patterns.debug, Patterns.echo}
         /\ path = Patterns.health => site.router = "gin" /\ path = site.health
    BY <1>2, EndpointPaths
  <1>11. /\ a \in Able(path, method)
         /\ \A b \in Able(path, method) : Answers(b, path, method)
    <2>1. Answers(a, path, method) /\ Suits(a)
      BY <1>1, <1>4, <1>8, <1>9 DEF Answers, Suits
    <2>2. QED
      BY <1>10, <2>1, AbleFacts
  <1>12. ASSUME NEW b \in Able(path, method) PROVE Given(b, method) = [kind |-> "pipe", i |-> i]
    <2>1. b \in DOMAIN routes /\ routes[b].path = path /\ R!Serves(routes[b], method)
      BY <1>11 DEF Answers
    <2>2. PICK r : r = routes[b]
      OBVIOUS
    <2>3. method \in r.methods
      BY <1>3, <2>1, <2>2 DEF R!Serves, R!Supported
    <2>4. ~OfService(r, site, Patterns)
      <3>1. SUFFICES ASSUME OfService(r, site, Patterns) PROVE FALSE
        OBVIOUS
      <3>2. r.kind = "health" /\ site.router = "gin" /\ r.i = 0
        BY <1>10, <2>1, <2>2, <3>1 DEF OfService
      <3>3. a # b
        BY <1>4, <1>6, <2>2, <3>2
      <3>4. Meet(routes[a], routes[b])
        BY <1>8, <2>1, <2>2, <2>3 DEF Meet
      <3>5. Apart(site, routes)
        BY FinishedFacts
      <3>6. QED
        BY <2>1, <3>2, <3>3, <3>4, <3>5 DEF Apart
    <2>5. ~OfOptions(r, site, catalog)
      BY <1>3, <2>3 DEF OfOptions, R!Supported
    <2>6. OfEndpoint(r, site, svc.endpoints, Len(svc.endpoints))
      BY <1>5, <2>1, <2>2, <2>4, <2>5 DEF Whence
    <2>7. /\ r.i \in DOMAIN svc.endpoints /\ svc.endpoints[r.i].path = path
          /\ R!ToTitle(svc.endpoints[r.i].method) = method
      <3>1. r.i \in DOMAIN svc.endpoints
        BY <2>6, FinishedFacts DEF OfEndpoint, EndpointsTyped
      <3>2. QED
        BY <2>1, <2>2, <2>3, <2>6, <3>1 DEF OfEndpoint, Method
    <2>8. r.i = i
      BY <1>1, <1>2, <2>7 DEF R!SameRoute
    <2>9. r.kind = "pipe" /\ ~R!Refuses(r, method)
      BY <1>1, <1>2, <2>6, <2>8 DEF OfEndpoint, R!Built, R!Refuses
    <2>10. QED
      BY <2>2, <2>8, <2>9 DEF Given
  <1>13. QED
    BY <1>2, <1>11, <1>12, AnswerFacts

\* Whatever answers is of the path and the method (NoneHasAnothers).
LEMMA NoneHolds ==
    ASSUME Finished
    PROVE  R!NoneHasAnothers
  <1>1. SUFFICES ASSUME NEW path \in {svc.endpoints[i].path : i \in DOMAIN svc.endpoints} \cup {"/other", "/__health"},
                        NEW method \in R!Any, R!Answer(path, method).i # 0
                 PROVE  /\ R!ToTitle(svc.endpoints[R!Answer(path, method).i].method) = method
                        /\ \/ svc.endpoints[R!Answer(path, method).i].path = path
                           \/ svc.endpoints[R!Answer(path, method).i].path = "/" /\ site.router = "mux"
    BY DEF R!NoneHasAnothers
  <1>2. PICK a \in Able(path, method) : R!Answer(path, method) = Given(a, method)
    BY <1>1, AnswerFacts
  <1>3. PICK r : r = routes[a]
    OBVIOUS
  <1>4. a \in DOMAIN routes /\ R!Covers(r, path) /\ R!Serves(r, method)
    BY <1>3, Reach DEF Able
  <1>5. ~R!Refuses(r, method) /\ R!Answer(path, method).i = r.i /\ r.i # 0
    BY <1>1, <1>2, <1>3 DEF Given, R!Status
  <1>6. Whence(r, site, Patterns, svc.endpoints, Len(svc.endpoints), catalog)
    BY <1>3, <1>4, FinishedFacts
  <1>7. OfEndpoint(r, site, svc.endpoints, Len(svc.endpoints))
    BY <1>5, <1>6 DEF Whence, OfService, OfOptions
  <1>8. r.kind \in {"pipe", "failed"} /\ (site.router # "gin" => r.kind = "pipe")
    BY <1>7 DEF OfEndpoint, Registers
  <1>9. r.methods = {R!ToTitle(svc.endpoints[r.i].method)} /\ svc.endpoints[r.i].path = r.path
    BY <1>7 DEF OfEndpoint, Method
  <1>10. R!ToTitle(svc.endpoints[r.i].method) = method
    <2>1. CASE method \in r.methods
      BY <1>9, <2>1
    <2>2. CASE site.router = "httptreemux"
      BY <1>5, <1>8, <2>2 DEF R!Refuses
    <2>3. QED
      BY <1>4, <2>1, <2>2 DEF R!Serves
  <1>11. r.path = path \/ (r.path = "/" /\ site.router = "mux")
    BY <1>4, <1>8 DEF R!Covers
  <1>12. QED
    BY <1>5, <1>9, <1>10, <1>11

\* What is asked of the debug and of the echo endpoint gets there.
LEMMA OwnAnswers ==
    ASSUME Finished, NEW path, NEW method, NEW kind, NEW a \in DOMAIN routes, routes[a].kind = kind,
           site.router \notin {"chi", "httptreemux"}, method \in {"GET", "POST"},
           \/ kind = "debug" /\ path = "/__debug/x"
           \/ kind = "echo" /\ path = "/__echo/x"
    PROVE  R!Answer(path, method).kind = kind
  <1>1. PICK r : r = routes[a]
    OBVIOUS
  <1>2. /\ \A b \in DOMAIN routes : Whence(routes[b], site, Patterns, svc.endpoints, Len(svc.endpoints), catalog)
        /\ PatternsTyped(site, Patterns) /\ EndpointsTyped(svc.endpoints) /\ site.router \in {"gin", "mux", "gorilla"}
        /\ Len(svc.endpoints) \in Nat /\ DOMAIN svc.endpoints = 1..Len(svc.endpoints)
        /\ Catalogued(site, svc.endpoints, Len(svc.endpoints), catalog)
    BY FinishedFacts DEF R!Routers
  <1>3. OfService(r, site, Patterns)
    BY <1>1, <1>2 DEF Whence, OfEndpoint, OfOptions
  <1>4. method \in r.methods /\ r.path # "/"
    <2>1. R!Supported \subseteq r.methods /\ r.path \in {Patterns.debug, Patterns.echo}
      BY <1>1, <1>3 DEF OfService
    <2>2. method \in R!Supported
      BY DEF R!Supported
    <2>3. Patterns.debug # "/" /\ Patterns.echo # "/"
      BY <1>2 DEF PatternsTyped
    <2>4. QED
      BY <2>1, <2>2, <2>3
  <1>5. R!Covers(routes[a], path)
    BY <1>1, <1>2 DEF R!Covers
  <1>6. /\ a \in Able(path, method)
        /\ \A b \in R!Candidates(path) : routes[b].path # "/"
    <2>1. R!Serves(routes[a], method)
      BY <1>1, <1>4 DEF R!Serves
    <2>2. path # "/"
      OBVIOUS
    <2>3. QED
      BY <1>1, <1>4, <1>5, <2>1, <2>2, Reach DEF Able
  <1>7. ASSUME NEW b \in Able(path, method) PROVE Given(b, method).kind = kind
    <2>1. PICK q : q = routes[b]
      OBVIOUS
    <2>2. b \in DOMAIN routes /\ R!Covers(q, path) /\ q.path # "/"
      BY <1>6, <2>1, Reach DEF Able
    <2>3. Whence(q, site, Patterns, svc.endpoints, Len(svc.endpoints), catalog)
      BY <1>2, <2>1, <2>2
    <2>4. q.path # path
      <3>1. CASE OfService(q, site, Patterns)
        <4>1. q.path \in {Patterns.debug, Patterns.echo, Patterns.health}
          BY <3>1 DEF OfService
        <4>2. path \in R!OwnPaths /\ path # "/__health" /\ path # Patterns.debug /\ path # Patterns.echo
          BY <1>2 DEF PatternsTyped, R!OwnPaths
        <4>3. QED
          BY <1>2, <4>1, <4>2 DEF PatternsTyped
      <3>2. CASE OfEndpoint(q, site, svc.endpoints, Len(svc.endpoints))
        <4>1. q.i \in DOMAIN svc.endpoints /\ q.path = svc.endpoints[q.i].path
          BY <1>2, <3>2 DEF OfEndpoint
        <4>2. QED
          BY <4>1, EndpointPaths
      <3>3. CASE OfOptions(q, site, catalog)
        <4>1. PICK pm \in catalog : pm[1] = q.path
          BY <3>3 DEF OfOptions
        <4>2. PICK j \in DOMAIN svc.endpoints : pm[1] = svc.endpoints[j].path
          BY <1>2, CatalogFacts
        <4>3. QED
          BY <4>1, <4>2, EndpointPaths
      <3>4. QED
        BY <2>3, <3>1, <3>2, <3>3 DEF Whence
    <2>5. q.kind = kind
      BY <2>2, <2>4 DEF R!Covers
    <2>6. ~R!Refuses(q, method)
      BY <2>5 DEF R!Refuses
    <2>7. QED
      BY <2>1, <2>5, <2>6 DEF Given
  <1>8. QED
    BY <1>6, <1>7, AnswerFacts

\* The health endpoint answers, at the path it was given.
LEMMA HealthAnswers ==
    ASSUME Finished, Patterns.health # "off"
    PROVE  R!Answer(Patterns.health, "GET").kind = "health"
  <1>1. /\ \A b \in DOMAIN routes : Whence(routes[b], site, Patterns, svc.endpoints, Len(svc.endpoints), catalog)
        /\ PatternsTyped(site, Patterns) /\ Apart(site, routes) /\ There(routes, "health")
        /\ Len(svc.endpoints) \in Nat /\ DOMAIN svc.endpoints = 1..Len(svc.endpoints)
    BY FinishedFacts
  <1>2. PICK path : path = Patterns.health
    OBVIOUS
  <1>3. PICK a \in DOMAIN routes : routes[a].kind = "health"
    BY <1>1 DEF There
  <1>4. OfService(routes[a], site, Patterns)
    BY <1>1, <1>3 DEF Whence, OfEndpoint, OfOptions
  <1>5. routes[a].path = path /\ routes[a].methods = {"GET"} /\ routes[a].i = 0
    BY <1>2, <1>3, <1>4 DEF OfService
  <1>6. path \notin {"/__debug/x", "/__echo/x", Patterns.debug, Patterns.echo}
    <2>1. path \in STRING \ (R!OwnPaths \cup {""}) \/ path = "/__health"
      BY <1>1, <1>2 DEF PatternsTyped
    <2>2. QED
      BY <1>1, <2>1 DEF PatternsTyped, R!OwnPaths
  <1>7. Answers(a, path, "GET") /\ Suits(a)
    BY <1>3, <1>5 DEF Answers, Suits, R!Serves
  <1>8. a \in Able(path, "GET") /\ \A b \in Able(path, "GET") : Answers(b, path, "GET")
    BY <1>6, <1>7, AbleFacts
  <1>9. ASSUME NEW b \in Able(path, "GET") PROVE Given(b, "GET").kind = "health"
    <2>1. PICK q : q = routes[b]
      OBVIOUS
    <2>2. b \in DOMAIN routes /\ q.path = path /\ "GET" \in q.methods
      BY <1>8, <2>1 DEF Answers, R!Serves
    <2>3. Whence(q, site, Patterns, svc.endpoints, Len(svc.endpoints), catalog)
      BY <1>1, <2>1, <2>2
    <2>4. ~OfEndpoint(q, site, svc.endpoints, Len(svc.endpoints))
      <3>1. SUFFICES ASSUME OfEndpoint(q, site, svc.endpoints, Len(svc.endpoints)) PROVE FALSE
        OBVIOUS
      <3>2. q.i \in DOMAIN svc.endpoints /\ q.path = svc.endpoints[q.i].path
        BY <1>1, <3>1 DEF OfEndpoint
      <3>3. site.router = "gin"
        BY <1>2, <2>2, <3>2, EndpointPaths
      <3>4. a # b
        BY <1>1, <1>5, <2>1, <3>2
      <3>5. Meet(routes[a], routes[b])
        BY <1>5, <2>1, <2>2 DEF Meet
      <3>6. QED
        BY <1>1, <2>2, <3>3, <3>4, <3>5 DEF Apart
    <2>5. ~OfOptions(q, site, catalog)
      BY <2>2 DEF OfOptions
    <2>6. q.kind = "health"
      BY <1>6, <2>2, <2>3, <2>4, <2>5 DEF Whence, OfService
    <2>7. ~R!Refuses(q, "GET")
      BY <2>6 DEF R!Refuses
    <2>8. QED
      BY <2>1, <2>6, <2>7 DEF Given
  <1>10. QED
    BY <1>2, <1>8, <1>9, AnswerFacts

\* The endpoints of the service answer (ServiceKeepsItsPaths).
LEMMA ServiceHolds ==
    ASSUME Finished
    PROVE  R!ServiceKeepsItsPaths
  <1>1. R!HealthPath # "off" => R!Answer(R!HealthPath, "GET").kind = "health"
    BY HealthAnswers DEF Patterns
  <1>2. ASSUME site.debug, site.router \notin {"chi", "httptreemux"}
        PROVE  R!Answer("/__debug/x", "POST").kind = "debug"
    <2>1. PICK a \in DOMAIN routes : routes[a].kind = "debug"
      BY <1>2, FinishedFacts DEF There
    <2>2. QED
      BY <1>2, <2>1, OwnAnswers
  <1>3. ASSUME site.echo, site.router \notin {"chi", "httptreemux"}
        PROVE  R!Answer("/__echo/x", "GET").kind = "echo"
    <2>1. PICK a \in DOMAIN routes : routes[a].kind = "echo"
      BY <1>3, FinishedFacts DEF There
    <2>2. QED
      BY <1>3, <2>1, OwnAnswers
  <1>4. QED
    BY <1>1, <1>2, <1>3 DEF R!ServiceKeepsItsPaths

\* gin: of a path and a method there is one route, which answers.
LEMMA OneAnswers ==
    ASSUME Finished, site.router = "gin", NEW path, path # "/__debug/x", path # "/__echo/x", NEW method,
           NEW a \in DOMAIN routes, routes[a].path = path, method \in routes[a].methods, Suits(a)
    PROVE  R!Answer(path, method) = [kind |-> routes[a].kind, i |-> routes[a].i]
  <1>1. Apart(site, routes)
    BY FinishedFacts
  <1>2. Answers(a, path, method)
    BY DEF Answers, R!Serves
  <1>3. a \in Able(path, method) /\ \A b \in Able(path, method) : Answers(b, path, method)
    BY <1>2, AbleFacts
  <1>4. ASSUME NEW b \in Able(path, method) PROVE b = a
    <2>1. b \in DOMAIN routes /\ routes[b].path = path /\ method \in routes[b].methods
      BY <1>3 DEF Answers, R!Serves
    <2>2. Meet(routes[a], routes[b])
      BY <2>1 DEF Meet
    <2>3. QED
      BY <1>1, <2>1, <2>2 DEF Apart
  <1>5. R!Answer(path, method) = Given(a, method)
    BY <1>3, <1>4, AnswerFacts
  <1>6. QED
    BY <1>5 DEF Given, R!Refuses

\* The methods of the catalog are those answered (AllowIsWhatIsServed).
LEMMA AllowHolds ==
    ASSUME Finished,
           \A i, j \in DOMAIN svc.endpoints :
                svc.endpoints[i].path = svc.endpoints[j].path => svc.endpoints[i].inputs = svc.endpoints[j].inputs
    PROVE  R!AllowIsWhatIsServed
  <1>1. SUFFICES ASSUME site.router = "gin", site.auto, NEW i \in DOMAIN svc.endpoints, R!Known(i),
                        R!Fits(svc.endpoints[i])
                 PROVE  /\ R!Answer(svc.endpoints[i].path, "OPTIONS").kind = "options"
                        /\ R!Allow(svc.endpoints[i].path) =
                             {m \in R!Supported : R!Answer(svc.endpoints[i].path, m).kind \in {"pipe", "failed"}}
    BY DEF R!AllowIsWhatIsServed
  <1>2. PICK path : path = svc.endpoints[i].path
    OBVIOUS
  <1>3. /\ \A b \in DOMAIN routes : Whence(routes[b], site, Patterns, svc.endpoints, Len(svc.endpoints), catalog)
        /\ Catalogued(site, svc.endpoints, Len(svc.endpoints), catalog)
        /\ Len(svc.endpoints) \in Nat /\ DOMAIN svc.endpoints = 1..Len(svc.endpoints)
    BY FinishedFacts
  <1>4. path # "/__debug/x" /\ path # "/__echo/x"
    BY <1>2, EndpointPaths
  <1>5. Registers(site, svc.endpoints, i)
    BY <1>1 DEF Registers, R!Known, Method
  <1>6. R!Answer(path, "OPTIONS").kind = "options"
    <2>1. Entry(svc.endpoints, i) \in catalog
      BY <1>1, <1>3, <1>5 DEF Catalogued
    <2>2. Entry(svc.endpoints, i)[1] = path
      BY <1>2 DEF Entry
    <2>3. PICK a \in DOMAIN routes : routes[a].kind = "options" /\ routes[a].path = path
      BY <1>1, <2>1, <2>2, FinishedFacts
    <2>4. OfOptions(routes[a], site, catalog)
      BY <1>3, <2>3 DEF Whence, OfService, OfEndpoint
    <2>5. Suits(a) /\ "OPTIONS" \in routes[a].methods
      BY <2>4 DEF Suits, OfOptions
    <2>6. QED
      BY <1>1, <1>4, <2>3, <2>5, OneAnswers
  <1>7. ASSUME NEW m \in R!Supported, <<path, m>> \in catalog
        PROVE  R!Answer(path, m).kind \in {"pipe", "failed"}
    <2>1. PICK j \in 1..Len(svc.endpoints) : Registers(site, svc.endpoints, j) /\ <<path, m>> = Entry(svc.endpoints, j)
      BY <1>3, <1>7 DEF Catalogued
    <2>2. svc.endpoints[j].path = path /\ Method(svc.endpoints, j) = m
      BY <2>1 DEF Entry
    <2>3. R!Fits(svc.endpoints[j])
      BY <1>1, <1>2, <1>3, <2>1, <2>2 DEF R!Fits
    <2>4. PICK a \in DOMAIN routes : routes[a].i = j
      BY <1>3, <2>1, FinishedFacts
    <2>5. OfEndpoint(routes[a], site, svc.endpoints, Len(svc.endpoints))
      BY <1>3, <2>1, <2>4 DEF Whence, OfService, OfOptions
    <2>6. /\ routes[a].path = path /\ m \in routes[a].methods /\ routes[a].kind \in {"pipe", "failed"} /\ Suits(a)
      BY <2>2, <2>3, <2>4, <2>5 DEF OfEndpoint, Suits
    <2>7. R!Answer(path, m) = [kind |-> routes[a].kind, i |-> routes[a].i]
      BY <1>1, <1>4, <2>6, OneAnswers
    <2>8. QED
      BY <2>6, <2>7
  <1>8. ASSUME NEW m \in R!Supported, R!Answer(path, m).kind \in {"pipe", "failed"}
        PROVE  <<path, m>> \in catalog
    <2>1. PICK a \in Able(path, m) : R!Answer(path, m) = Given(a, m)
      BY <1>8, AnswerFacts
    <2>2. PICK q : q = routes[a]
      OBVIOUS
    <2>3. q.kind \in {"pipe", "failed"}
      BY <1>8, <2>1, <2>2 DEF Given, R!Status
    <2>4. a \in DOMAIN routes /\ R!Covers(q, path) /\ m \in q.methods
      BY <1>1, <2>2, Reach DEF Able, R!Serves
    <2>5. OfEndpoint(q, site, svc.endpoints, Len(svc.endpoints))
      BY <1>3, <2>2, <2>3, <2>4 DEF Whence, OfService, OfOptions
    <2>6. q.path = path
      BY <1>1, <2>3, <2>4 DEF R!Covers
    <2>7. q.i \in 1..Len(svc.endpoints) /\ Registers(site, svc.endpoints, q.i) /\ <<path, m>> = Entry(svc.endpoints, q.i)
      BY <2>4, <2>5, <2>6 DEF OfEndpoint, Entry
    <2>8. QED
      BY <1>3, <2>7 DEF Catalogued
  <1>9. R!Allow(path) = {m \in R!Supported : R!Answer(path, m).kind \in {"pipe", "failed"}}
    BY <1>7, <1>8 DEF R!Allow
  <1>10. QED
    BY <1>2, <1>6, <1>9

\* A panic has one of its reasons (PanicsForAReason).
LEMMA PanicHolds ==
    ASSUME panicked => Reason(site, svc.endpoints)
    PROVE  R!PanicsForAReason
  BY DEF Reason, Method, R!PanicsForAReason, R!SameRoute

\* What is known of the routes gives their types.
LEMMA RouteTypes ==
    ASSUME R!WellFormed(site), transport \in BOOLEAN, Len(svc.endpoints) \in Nat,
           Routed(site, Patterns, svc.endpoints, todo, seen, routes, catalog, panicked)
    PROVE  R!TypeOK
  <1>1. /\ routes \in Seq(RouteType) /\ todo \in Seq(Steps) /\ seen \in Nat /\ seen <= Len(svc.endpoints)
        /\ panicked \in BOOLEAN
        /\ \A a \in DOMAIN routes : Whence(routes[a], site, Patterns, svc.endpoints, seen, catalog)
    BY DEF Routed
  <1>2. seen \in 0..Len(svc.endpoints)
    BY <1>1
  <1>3. ASSUME NEW a \in DOMAIN routes
        PROVE  /\ routes[a].methods \subseteq R!Any /\ routes[a].i \in 0..seen
               /\ routes[a].kind \in {"debug", "echo", "health", "pipe", "failed", "options"}
    <2>1. routes[a] \in RouteType
      BY <1>1
    <2>2. PICK r : r = routes[a]
      OBVIOUS
    <2>3. r.i = 0 \/ r.i \in 1..seen
      BY <1>1, <2>2 DEF Whence, OfService, OfEndpoint, OfOptions
    <2>4. r.i \in 0..seen
      BY <1>1, <2>3
    <2>5. QED
      BY <2>1, <2>2, <2>4 DEF RouteType
  <1>4. QED
    BY <1>1, <1>2, <1>3 DEF R!TypeOK, R!WellFormed, Steps

\* What an accepted configuration says of its endpoints.
LEMMA AcceptedEndpoints ==
    ASSUME C!WellFormed(file), WalkInv, BaseInv, C!Accepted
    PROVE  /\ EndpointsTyped(svc.endpoints)
           /\ \A i, j \in DOMAIN svc.endpoints :
                svc.endpoints[i].path = svc.endpoints[j].path => svc.endpoints[i].inputs = svc.endpoints[j].inputs
           /\ \A i \in DOMAIN svc.endpoints :
                /\ svc.endpoints[i].output = "no-op" => Len(svc.endpoints[i].backends) = 1
                /\ DOMAIN svc.endpoints[i].backends = 1..Len(svc.endpoints[i].backends)
                /\ \A j \in DOMAIN svc.endpoints[i].backends :
                     LET e == svc.endpoints[i]  b == e.backends[j] IN
                     /\ b.keys = C!URLKeys(b) /\ b.pattern \ Sequential \subseteq e.inputs
                     /\ e.output = "no-op" => b.encoding = "no-op"
  <1>1. /\ DOMAIN svc.endpoints = 1..Len(file.endpoints) /\ Len(file.endpoints) \in Nat
        /\ IsTuple(svc.endpoints, Len(file.endpoints))
    BY AcceptedFacts DEF C!Accepted, WalkInv, ServiceWalked
  <1>2. Len(svc.endpoints) = Len(file.endpoints)
    BY <1>1, TupleFacts
  <1>3. ASSUME NEW i \in DOMAIN svc.endpoints
        PROVE  /\ svc.endpoints[i].path = file.endpoints[i].path /\ svc.endpoints[i].inputs = file.endpoints[i].inputs
               /\ file.endpoints[i].path \notin Reserved
               /\ Len(svc.endpoints[i].backends) = Len(file.endpoints[i].backends)
               /\ svc.endpoints[i].output = "no-op" => Len(file.endpoints[i].backends) = 1
               /\ DOMAIN svc.endpoints[i].backends = 1..Len(file.endpoints[i].backends)
               /\ \A j \in 1..Len(file.endpoints[i].backends) :
                    Mapped(file.endpoints[i].backends[j], svc.endpoints[i], svc.endpoints[i].backends[j])
    BY <1>1, <1>3, AcceptedFacts
  <1>4. file.endpoints \in Seq(C!FileEndpoint)
    BY DEF C!WellFormed
  <1>5. ASSUME NEW i \in DOMAIN svc.endpoints PROVE svc.endpoints[i].path \in STRING \ (R!OwnPaths \cup {""})
    <2>1. file.endpoints[i] \in C!FileEndpoint
      BY <1>1, <1>4, <1>5
    <2>2. file.endpoints[i].path \in STRING \ {""}
      BY <2>1 DEF C!FileEndpoint
    <2>3. QED
      BY <1>3, <1>5, <2>2, ConfigAssumption
  <1>6. EndpointsTyped(svc.endpoints)
    BY <1>1, <1>2, <1>5 DEF EndpointsTyped
  <1>7. \A i, j \in DOMAIN svc.endpoints :
            svc.endpoints[i].path = svc.endpoints[j].path => svc.endpoints[i].inputs = svc.endpoints[j].inputs
    <2>1. DOMAIN file.endpoints = DOMAIN svc.endpoints
      BY <1>1, FileFacts
    <2>2. \A i, j \in DOMAIN file.endpoints :
            file.endpoints[j].path = file.endpoints[i].path => file.endpoints[j].inputs = file.endpoints[i].inputs
      BY DEF C!WellFormed
    <2>3. QED
      BY <1>3, <2>1, <2>2
  <1>8. ASSUME NEW i \in DOMAIN svc.endpoints, NEW j \in DOMAIN svc.endpoints[i].backends,
               NEW e, e = svc.endpoints[i], NEW b, b = e.backends[j]
        PROVE  /\ b.keys = C!URLKeys(b) /\ b.pattern \ Sequential \subseteq e.inputs
               /\ e.output = "no-op" => b.encoding = "no-op"
    BY <1>3, <1>8 DEF Mapped
  <1>9. QED
    BY <1>3, <1>6, <1>7, <1>8

\* The keys of the parameters are those of the URLs (ParamsArrive).
LEMMA ParamsHold ==
    ASSUME R!WellFormed(site),
           \A i \in DOMAIN svc.endpoints :
               \A j \in DOMAIN svc.endpoints[i].backends :
                   LET e == svc.endpoints[i]  b == e.backends[j] IN
                   b.keys = C!URLKeys(b) /\ b.pattern \ Sequential \subseteq e.inputs
    PROVE  R!ParamsArrive
  <1>1. SUFFICES ASSUME NEW i \in DOMAIN svc.endpoints, NEW j \in DOMAIN svc.endpoints[i].backends,
                        NEW n \in svc.endpoints[i].backends[j].pattern \ Sequential
                 PROVE  \/ /\ R!Values(svc.endpoints[i], Titled[n]) = {n}
                           /\ Titled[n] \in svc.endpoints[i].backends[j].keys
                        \/ site.router = "mux"
                        \/ site.router \in {"gorilla", "httptreemux"} /\ TitleWord[n] # Titled[n]
                        \/ \E m \in svc.endpoints[i].inputs \ {n} : R!ParamKey(m) = R!ParamKey(n)
    BY DEF R!ParamsArrive
  <1>2. PICK e, b : e = svc.endpoints[i] /\ b = svc.endpoints[i].backends[j]
    OBVIOUS
  <1>3. n \in e.inputs /\ Titled[n] \in b.keys
    BY <1>1, <1>2 DEF C!URLKeys
  <1>4. ASSUME site.router # "mux", ~(site.router \in {"gorilla", "httptreemux"} /\ TitleWord[n] # Titled[n]),
               \A m \in e.inputs \ {n} : R!ParamKey(m) # R!ParamKey(n)
        PROVE  R!Values(e, Titled[n]) = {n}
    <2>1. R!ParamKey(n) = Titled[n]
      BY <1>4 DEF R!ParamKey, R!WellFormed, R!Routers
    <2>2. QED
      BY <1>3, <1>4, <2>1 DEF R!Values
  <1>5. QED
    BY <1>2, <1>3, <1>4

\* A response is passed on from its only backend (PassesOnWhatIsRaw).
LEMMA RawHolds ==
    ASSUME \A i \in DOMAIN svc.endpoints :
                /\ svc.endpoints[i].output = "no-op" => Len(svc.endpoints[i].backends) = 1
                /\ DOMAIN svc.endpoints[i].backends = 1..Len(svc.endpoints[i].backends)
                /\ \A j \in DOMAIN svc.endpoints[i].backends :
                     svc.endpoints[i].output = "no-op" => svc.endpoints[i].backends[j].encoding = "no-op"
    PROVE  R!PassesOnWhatIsRaw
  <1>1. SUFFICES ASSUME NEW i \in DOMAIN svc.endpoints, R!RenderOf(svc.endpoints[i]) = "no-op"
                 PROVE  Len(svc.endpoints[i].backends) = 1 /\ svc.endpoints[i].backends[1].encoding = "no-op"
    BY DEF R!PassesOnWhatIsRaw
  <1>2. PICK e : e = svc.endpoints[i]
    OBVIOUS
  <1>3. CASE e.output = "no-op"
    <2>1. Len(e.backends) = 1 /\ DOMAIN e.backends = 1..1
      BY <1>1, <1>2, <1>3
    <2>2. QED
      BY <1>1, <1>2, <1>3, <2>1
  <1>4. CASE e.output # "no-op"
    BY <1>1, <1>2, <1>4 DEF R!RenderOf, R!GetWithFallback
  <1>5. QED
    BY <1>3, <1>4

-----------------------------------------------------------------------------
(* The invariants of the parts                                             *)

\* What a deployment is does not change.
DeploymentTyped ==
    FilesTyped /\ fifo \in Seq(Names) /\ A!WellFormed(crew) /\ S!WellFormed(cfg)

\* A deployment begins with the types SetupsAssumption gives it.
LEMMA InitTyped ==
    ASSUME Init
    PROVE  DeploymentTyped /\ user \in {"server", "client"}
  BY SetupsAssumption DEF Init, DeploymentTyped, FilesTyped

\* The configurations of the agents and of the server are never written.
LEMMA StepTyped ==
    ASSUME A!WellFormed(crew), S!WellFormed(cfg), [Next]_vars
    PROVE  A!WellFormed(crew)' /\ S!WellFormed(cfg)'
  <1>1. crew' = crew
    <2>1. ASSUME NEW a \in A!Agents, AgentStep(a) PROVE crew' = crew
      BY <2>1 DEF AgentStep, A!Connect, A!ConnectFails, A!BackoffOver, A!ConnectionLost, A!Stop,
                  A!Move, A!Test, A!Wrap, A!Read, A!Quiet
    <2>2. QED
      BY <2>1, AgentSteps
         DEF agentVars, A!NoAgents, A!BuildFails, A!Offer, A!Started, A!Wait, SignalStep
  <1>2. cfg' = cfg
    BY ServerSteps DEF serverVars, S!PlainHTTP, S!CollectKeys, S!LoadKey, S!KeysLoaded, S!ServerFailed,
       S!BeginShutdown, S!Drained, S!ShutdownTimeout, S!Listen, S!ListenerClosed, S!ListenerBroken,
       S!Cancel, S!Arrive, S!Answer, S!Stream
  <1>3. QED
    BY <1>1, <1>2 DEF A!WellFormed, S!WellFormed

\* The server has not begun, and nothing asked it anything.
LEMMA ServerBegins ==
    ASSUME Init
    PROVE  ServerInv
  <1>1. S!Begin
    BY DEF Init
  <1>2. S!TypeOK
    <2>1. << >> \in Seq(S!Outcome)
      OBVIOUS
    <2>2. req \in [Requests -> {"away", "open", "answered", "refused"}]
      BY <1>1 DEF S!Begin
    <2>3. QED
      BY <1>1, <2>1, <2>2 DEF S!Begin, S!TypeOK
  <1>3. S!StartedInOrder /\ S!AdmittedOnly /\ S!CleanEndLosesNothing /\ S!FirstKeyErrorReturned
        /\ S!LeftWaitingOnlyByShutdown /\ S!ClientsAreAdmitted
    BY <1>1 DEF S!Begin, S!StartedInOrder, S!AdmittedOnly, S!CleanEndLosesNothing,
       S!FirstKeyErrorReturned, S!LeftWaitingOnlyByShutdown, S!ClientsAreAdmitted
  <1>4. QED
    BY <1>2, <1>3 DEF ServerInv, S!ServerInv

\* Every step of the gateway keeps the invariant of the server.
LEMMA ServerStep ==
    ASSUME DeploymentTyped, ServerInv, [Next]_vars
    PROVE  ServerInv'
  <1>1. S!WellFormed(cfg) /\ A!WellFormed(crew)
    BY DEF DeploymentTyped
  <1>2. S!TypeOK /\ S!StartedInOrder /\ S!AdmittedOnly /\ S!CleanEndLosesNothing
        /\ S!FirstKeyErrorReturned /\ S!LeftWaitingOnlyByShutdown
    BY DEF ServerInv, S!ServerInv
  <1>3. S!TypeOK'
    BY <1>1, <1>2, ServerStepTypeOK
  <1>4. S!StartedInOrder'
    BY <1>1, <1>2, ServerStepStartedInOrder
  <1>5. S!AdmittedOnly'
    BY <1>1, <1>2, ServerStepAdmittedOnly
  <1>6. S!CleanEndLosesNothing'
    BY <1>1, <1>2, ServerStepCleanEnd
  <1>7. S!FirstKeyErrorReturned'
    BY <1>1, <1>2, ServerStepFirstKeyError
  <1>8. S!LeftWaitingOnlyByShutdown'
    BY <1>1, <1>2, ServerStepLeftWaiting
  <1>9. S!WellFormed(cfg)'
    BY <1>1, StepTyped
  <1>10. S!WellFormed(cfg)' /\ S!AdmittedOnly' => S!ClientsAreAdmitted'
    BY AdmittedClients, PTL
  <1>11. QED
    BY <1>3, <1>4, <1>5, <1>6, <1>7, <1>8, <1>9, <1>5, <1>10 DEF ServerInv, S!ServerInv

\* No agent was offered to a factory.
LEMMA AgentsBegin ==
    ASSUME Init
    PROVE  AgentsInv
  <1>1. A!Begin /\ A!WellFormed(crew)
    BY InitTyped DEF Init, DeploymentTyped
  <1>2. /\ A!Agents = 1..Len(crew.agents) /\ Len(crew.agents) \in Nat /\ crew.factories \in Nat
        /\ crew.tap \in 0..(RngLen - 1) /\ RngLen \in Nat /\ MaxAttempts \in Nat
    BY <1>1, CrewFacts, BoundsAssumption DEF A!WellFormed
  <1>3. A!TypeOK
    <2>1. offered \in [A!Agents -> Seq(1..crew.factories)]
      <3>1. << >> \in Seq(1..crew.factories)
        OBVIOUS
      <3>2. QED
        BY <1>1, <3>1 DEF A!Begin
    <2>2. agent \in [A!Agents -> A!Working \cup {"none", "connected", "failed", "stopped", "crashed"}]
      BY <1>1 DEF A!Begin
    <2>3. attempt \in [A!Agents -> 0..MaxAttempts]
      BY <1>1, <1>2 DEF A!Begin
    <2>4. agentAt \in 1..(Len(crew.agents) + 1) /\ index \in Int
      BY <1>1, <1>2 DEF A!Begin
    <2>5. QED
      BY <1>1, <2>1, <2>2, <2>3, <2>4 DEF A!Begin, A!TypeOK
  <1>4. A!OfferedSoFar /\ A!OfferedInTurn
    <2>1. \A a \in A!Agents : /\ agent[a] = "none" /\ offered[a] = << >> /\ a >= 1
      BY <1>1, <1>2 DEF A!Begin
    <2>2. << >> = [k0 \in 1..0 |-> k0]
      OBVIOUS
    <2>3. agentAt = 1 /\ factoryAt = 1 /\ start = "running"
      BY <1>1 DEF A!Begin
    <2>4. \A a \in A!Agents : /\ ~(a < agentAt)
                              /\ 1..(IF a = agentAt THEN factoryAt - 1 ELSE 0) = 1..0
      BY <1>2, <2>3
    <2>5. QED
      BY <1>2, <2>1, <2>2, <2>3, <2>4 DEF A!OfferedSoFar, A!OfferedInTurn
  <1>5. A!RetriesLeft /\ A!GivesUpOnItsOwn
    BY <1>1, <1>2, CrewFacts DEF A!Begin, A!RetriesLeft, A!GivesUpOnItsOwn
  <1>6. A!DrawsAlone /\ A!JitterSafeAlone
    BY <1>1, <1>2 DEF A!Begin, A!DrawsAlone, A!JitterSafeAlone, A!Alive
  <1>7. QED
    BY <1>3, <1>4, <1>5, <1>6 DEF AgentsInv, A!AgentsInv

\* When Start is behind the last agent, all were offered.
LEMMA AllOffered ==
    ASSUME A!WellFormed(crew), A!TypeOK, A!OfferedSoFar
    PROVE  A!OfferedInTurn
  <1>1. SUFFICES ASSUME start \in {"wait", "returned"}, NEW a \in A!Agents PROVE A!OfferedToOne(a)
    BY DEF A!OfferedInTurn
  <1>2. agentAt > Len(crew.agents) /\ \A b \in A!Agents : b < agentAt => A!OfferedToOne(b)
    BY <1>1 DEF A!OfferedSoFar
  <1>3. a < agentAt
    BY <1>2, CrewFacts DEF A!TypeOK
  <1>4. QED
    BY <1>2, <1>3

\* Every step of the gateway keeps the invariant of the agents.
LEMMA AgentsStep ==
    ASSUME DeploymentTyped, AgentsInv, [Next]_vars
    PROVE  AgentsInv'
  <1>1. /\ A!WellFormed(crew) /\ A!TypeOK /\ A!OfferedSoFar /\ A!RetriesLeft /\ A!DrawsAlone
        /\ A!GivesUpOnItsOwn /\ A!JitterSafeAlone
    BY DEF DeploymentTyped, AgentsInv, A!AgentsInv
  <1>2. A!TypeOK'
    BY <1>1, AgentsStepTypeOK
  <1>3. A!OfferedSoFar'
    BY <1>1, AgentsStepOfferedSoFar
  <1>4. A!RetriesLeft' /\ A!GivesUpOnItsOwn'
    BY <1>1, AgentsStepRetries
  <1>5. A!DrawsAlone' /\ A!JitterSafeAlone'
    BY <1>1, AgentsStepDrawsAlone
  <1>6. A!OfferedInTurn'
    <2>1. A!WellFormed(crew)' /\ A!TypeOK' /\ A!OfferedSoFar' => A!OfferedInTurn'
      BY AllOffered, PTL
    <2>2. QED
      BY <1>1, <1>2, <1>3, <2>1, StepTyped DEF DeploymentTyped
  <1>7. QED
    BY <1>2, <1>3, <1>4, <1>5, <1>6 DEF AgentsInv, A!AgentsInv

\* No file of the folder was opened.
LEMMA LoaderBegins ==
    ASSUME Init
    PROVE  LoaderInv
  <1>1. P!Begin /\ FilesTyped /\ user \in {"server", "client"}
    BY InitTyped DEF Init, DeploymentTyped
  <1>2. DOMAIN files = 1..Len(files) /\ Len(files) \in Nat /\ MaxFiles \in Nat
    BY <1>1, FilesFacts
  <1>3. P!TypeOK
    BY <1>1, <1>2 DEF P!Begin, P!TypeOK, P!None
  <1>4. P!EveryFileAccounted
    BY <1>1, <1>2 DEF P!Begin, P!EveryFileAccounted, P!ToSet
  <1>5. P!LastSoFar
    <2>1. k = 1 /\ step = 0 /\ \A n \in Names : registry[n].from = 0
      BY <1>1 DEF P!Begin, P!None
    <2>2. \A j \in DOMAIN files, n \in Names : n \notin P!RegisteredBy(j)
      BY <1>1, <1>2, <2>1, RegisteredFacts, FilesFacts
    <2>3. k <= Len(files) => Len(files[k].registers) \in Nat
      BY <1>1, <1>2, <2>1, FilesFacts
    <2>4. QED
      BY <2>1, <2>2, <2>3 DEF P!LastSoFar
  <1>6. QED
    BY <1>1, <1>3, <1>4, <1>5, LastOfAll DEF LoaderInv, P!LoaderInv

\* Every step of the gateway keeps the invariant of the loader.
LEMMA LoaderStep ==
    ASSUME DeploymentTyped, LoaderInv, [Next]_vars
    PROVE  LoaderInv' /\ FilesTyped' /\ (fifo \in Seq(Names))'
  <1>1. /\ FilesTyped /\ fifo \in Seq(Names)
        /\ P!TypeOK /\ P!EveryFileAccounted /\ P!LastSoFar
    BY DEF DeploymentTyped, LoaderInv, P!LoaderInv
  <1>2. P!TypeOK' /\ FilesTyped' /\ (fifo \in Seq(Names))'
    BY <1>1, LoaderStepTypeOK
  <1>3. P!EveryFileAccounted' /\ P!LastSoFar'
    BY <1>1, LoaderStepEveryFile, LoaderStepLast
  <1>4. FilesTyped' /\ P!TypeOK' /\ P!EveryFileAccounted' /\ P!LastSoFar' => P!LastRegistrationWins'
    BY LastOfAll, PTL
  <1>5. QED
    BY <1>2, <1>3, <1>4 DEF LoaderInv, P!LoaderInv

\* The program begins with the plugins, and everything left to register.
LEMMA OrderBegins ==
    ASSUME Init
    PROVE  OrderInv
  <1>1. /\ P!Begin /\ R!Begin /\ S!Begin
    BY DEF Init
  <1>2. stage = "load" /\ todo = R!Order /\ serve = "none"
    BY <1>1 DEF P!Begin, R!Begin, S!Begin
  <1>3. StillToDo
    BY <1>2, OrderFacts DEF StillToDo
  <1>4. QED
    BY <1>2, <1>3 DEF OrderInv

\* The file is never written, and only Parse writes the configuration.
ConfigWalked == C!WellFormed(file) /\ WalkInv /\ BaseInv

\* No configuration was read.
LEMMA ConfigWalkBegins ==
    ASSUME Init
    PROVE  ConfigWalked
  <1>1. C!WellFormed(file) /\ C!Begin
    BY SetupsAssumption DEF Init
  <1>2. QED
    BY <1>1, ConfigBegins DEF ConfigWalked

\* Every step of the gateway keeps what is known of the configuration.
LEMMA ConfigWalkStep ==
    ASSUME ConfigWalked, [Next]_vars
    PROVE  ConfigWalked'
  <1>1. CASE Parse
    <2>1. WalkInv' /\ BaseInv' /\ file' = file
      BY <1>1, ConfigStep DEF ConfigWalked, Parse
    <2>2. QED
      BY <2>1 DEF ConfigWalked, C!WellFormed
  <1>2. CASE UNCHANGED configVars
    <2>1. UNCHANGED <<file, svc, at, pending, err>>
      BY <1>2 DEF configVars
    <2>2. WalkInv'
      BY <2>1 DEF ConfigWalked, WalkInv, PlaceTyped, ServiceWalked, AgentsWalked, EndpointsWalked
    <2>3. BaseInv'
      BY <2>1 DEF ConfigWalked, BaseInv, C!RefusedForAReason, C!EndpointOf
    <2>4. QED
      BY <2>1, <2>2, <2>3 DEF ConfigWalked, C!WellFormed
  <1>3. Parse \/ UNCHANGED configVars
    BY DEF Next, Main, LoadPlugins, StartAgents, BuildExecutors, RegisterEndpoints, WrapHandlers, RunServer,
           Serve, Request, RunAgent, AgentSettles, Signal, vars
  <1>4. QED
    BY <1>1, <1>2, <1>3

\* Routes are registered for an accepted configuration, which stays as it is.
RouteInv ==
    /\ R!WellFormed(site) /\ transport \in BOOLEAN
    /\ stage = "load" => R!Begin
    /\ stage # "load" => Routed(site, Patterns, svc.endpoints, todo, seen, routes, catalog, panicked)

\* The router is not running.
LEMMA RoutesBegin ==
    ASSUME Init
    PROVE  RouteInv
  BY SetupsAssumption DEF Init, RouteInv, P!Begin, R!Begin

\* Every step of the gateway keeps what is known of the routes.
LEMMA RoutesStep ==
    ASSUME RouteInv, ConfigWalked, OrderInv, [Next]_vars
    PROVE  RouteInv'
  <1>1. ASSUME UNCHANGED routerVars
        PROVE  R!WellFormed(site)' /\ transport' \in BOOLEAN /\ (R!Begin' <=> R!Begin) /\ Patterns' = Patterns
    <2>1. UNCHANGED <<site, todo, seen, routes, catalog, transport, panicked>>
      BY <1>1 DEF routerVars
    <2>2. R!Begin' <=> R!Begin
      BY <2>1 DEF R!Begin, R!Order
    <2>3. Patterns' = Patterns
      BY <2>1 DEF Patterns, R!DebugPattern, R!EchoPattern, R!HealthPath
    <2>4. QED
      BY <2>1, <2>2, <2>3 DEF RouteInv, R!WellFormed
  <1>2. CASE Parse
    <2>1. ~C!Accepted /\ UNCHANGED routerVars /\ stage' = stage
      BY <1>2, ParseEnds DEF Parse, pluginVars
    <2>2. stage = "load"
      BY <2>1 DEF OrderInv
    <2>3. QED
      BY <1>1, <2>1, <2>2 DEF RouteInv
  <1>3. CASE UNCHANGED <<svc, routerVars>> /\ (stage = "load" => stage' = "load" \/ C!Accepted)
             /\ (stage # "load" => stage' # "load")
    <2>1. stage # "load" \/ stage' # "load" =>
            Routed(site, Patterns, svc.endpoints, todo, seen, routes, catalog, panicked)
      BY <1>3, BeginRouted DEF RouteInv, ConfigWalked, BaseInv
    <2>2. UNCHANGED <<svc, site, todo, seen, routes, catalog, panicked>> /\ Patterns' = Patterns
      BY <1>1, <1>3 DEF routerVars
    <2>3. QED
      BY <1>1, <1>3, <2>1, <2>2 DEF RouteInv
  <1>4. CASE RegisterEndpoints
    <2>1. R!Run /\ stage # "load" /\ UNCHANGED <<svc, stage>>
      BY <1>4 DEF RegisterEndpoints, configVars, pluginVars
    <2>2. C!Accepted
      BY <2>1 DEF OrderInv
    <2>3. EndpointsTyped(svc.endpoints)
      BY <2>2, AcceptedEndpoints DEF ConfigWalked
    <2>4. /\ Routed(site, Patterns, svc.endpoints, todo', seen', routes', catalog', panicked')
          /\ site' = site /\ transport' \in BOOLEAN
      BY <2>1, <2>3, RouteStep DEF RouteInv
    <2>5. Patterns' = Patterns /\ R!WellFormed(site)'
      BY <2>4 DEF Patterns, R!DebugPattern, R!EchoPattern, R!HealthPath, RouteInv, R!WellFormed
    <2>6. QED
      BY <2>1, <2>4, <2>5 DEF RouteInv
  <1>5. \/ Parse \/ RegisterEndpoints
        \/ UNCHANGED <<svc, routerVars>> /\ (stage = "load" => stage' = "load" \/ C!Accepted)
             /\ (stage # "load" => stage' # "load")
    <2>1. CASE LoadPlugins \/ WrapHandlers
      BY <2>1 DEF LoadPlugins, WrapHandlers, P!Open, P!RegisterOne, P!OpenReturns, P!LoadReturns, P!WrapHandler,
             P!HandlerReady, configVars
    <2>2. CASE UNCHANGED vars
      BY <2>2 DEF vars, configVars, pluginVars
    <2>3. CASE \/ StartAgents \/ BuildExecutors \/ RunServer \/ Serve \/ Signal
               \/ \E r \in Requests : Request(r)
               \/ \E a \in 1..MaxAgents : RunAgent(a) \/ AgentSettles(a)
      BY <2>3 DEF StartAgents, BuildExecutors, P!BuildExecutor, RunServer, Serve, Signal, Request, RunAgent, AgentSettles,
             configVars, pluginVars
    <2>4. QED
      BY <2>1, <2>2, <2>3 DEF Next, Main
  <1>6. QED
    BY <1>2, <1>3, <1>4, <1>5

\* RoutingInv follows, from the routes and the accepted configuration.
LEMMA RoutesHold ==
    ASSUME RouteInv, ConfigWalked, OrderInv
    PROVE  RoutingInv
  <1>1. R!WellFormed(site) /\ transport \in BOOLEAN /\ Len(svc.endpoints) \in Nat
    BY DEF RouteInv, ConfigWalked, BaseInv
  <1>2. Routed(site, Patterns, svc.endpoints, todo, seen, routes, catalog, panicked)
    BY <1>1, BeginRouted DEF RouteInv
  <1>3. R!TypeOK
    BY <1>1, <1>2, RouteTypes
  <1>4. R!PanicsForAReason
    BY <1>2, PanicHolds DEF Routed
  <1>5. CASE ~R!Done
    BY <1>3, <1>4, <1>5
       DEF RoutingInv, R!RoutingInv, R!EachHasItsRequests, R!NoneHasAnothers, R!ServiceKeepsItsPaths,
           R!AllowIsWhatIsServed, R!ParamsArrive, R!PassesOnWhatIsRaw
  <1>6. CASE R!Done
    <2>1. todo = << >> /\ panicked = FALSE
      BY <1>2, <1>6 DEF R!Done, Routed
    <2>2. stage # "load"
      BY <2>1, OrderFacts DEF OrderInv
    <2>3. C!Accepted /\ seen = Len(svc.endpoints)
      BY <2>1, <2>2 DEF OrderInv, StillToDo
    <2>4. C!WellFormed(file) /\ WalkInv /\ BaseInv
      BY DEF ConfigWalked
    <2>5. Finished
      BY <1>1, <1>2, <2>1, <2>3, <2>4, AcceptedEndpoints DEF Finished
    <2>6. R!EachHasItsRequests /\ R!NoneHasAnothers /\ R!ServiceKeepsItsPaths
      BY <2>5, EachHolds, NoneHolds, ServiceHolds
    <2>7. R!AllowIsWhatIsServed
      BY <2>3, <2>4, <2>5, AcceptedEndpoints, AllowHolds
    <2>8. R!ParamsArrive
      BY <1>1, <2>3, <2>4, AcceptedEndpoints, ParamsHold
    <2>9. R!PassesOnWhatIsRaw
      BY <2>3, <2>4, AcceptedEndpoints, RawHolds
    <2>10. QED
      BY <1>3, <1>4, <2>6, <2>7, <2>8, <2>9 DEF RoutingInv, R!RoutingInv
  <1>7. QED
    BY <1>5, <1>6

\* The parts keep their invariants together.
PartsInv ==
    DeploymentTyped /\ ConfigWalked /\ LoaderInv /\ AgentsInv /\ ServerInv /\ OrderInv /\ RouteInv

\* The invariants of all parts hold in every state.
LEMMA Inductive ==
    Spec => []PartsInv
  <1>1. Init => PartsInv
    BY InitTyped, ConfigWalkBegins, LoaderBegins, AgentsBegin, ServerBegins, OrderBegins, RoutesBegin
       DEF PartsInv
  <1>2. ASSUME PartsInv, [Next]_vars PROVE PartsInv'
    <2>1. DeploymentTyped /\ ConfigWalked /\ LoaderInv /\ AgentsInv /\ ServerInv /\ OrderInv /\ RouteInv
      BY <1>2 DEF PartsInv
    <2>2. LoaderInv' /\ FilesTyped' /\ (fifo \in Seq(Names))'
      BY <1>2, <2>1, LoaderStep
    <2>3. AgentsInv'
      BY <1>2, <2>1, AgentsStep
    <2>4. ServerInv'
      BY <1>2, <2>1, ServerStep
    <2>5. A!WellFormed(crew)' /\ S!WellFormed(cfg)'
      BY <1>2, <2>1, StepTyped DEF DeploymentTyped
    <2>6. OrderInv'
      BY <1>2, <2>1, OrderStep DEF LoaderInv, P!LoaderInv, P!TypeOK
    <2>7. ConfigWalked'
      BY <1>2, <2>1, ConfigWalkStep
    <2>8. RouteInv'
      BY <1>2, <2>1, RoutesStep
    <2>9. QED
      BY <2>2, <2>3, <2>4, <2>5, <2>6, <2>7, <2>8 DEF PartsInv, DeploymentTyped
  <1>3. QED
    BY <1>1, <1>2, PTL DEF Spec

(***************************************************************************)
(* Parse, Init and Normalize, for any file, aliases and durations: what is *)
(* accepted has its calls bounded by the duration written closest to them, *)
(* clean hosts, keys that are known and one source for what is passed on,  *)
(* lost nothing when namespaces were renamed, in any order of the map, and *)
(* nothing is refused for its placeholders without an unknown one.         *)
(***************************************************************************)
THEOREM ConfigCorrect == Spec => []ConfigInv
  <1>1. PartsInv => ConfigInv
    BY ConfigHolds DEF PartsInv, ConfigWalked
  <1>2. QED
    BY <1>1, Inductive, PTL

(***************************************************************************)
(* Router.Run of every router, for any accepted configuration: requests get*)
(* to the endpoint of their path and method and to no other, the service   *)
(* keeps its own paths, OPTIONS lists what there is, a panic has a reason, *)
(* the backends get their parameters, and what is raw is rendered raw.     *)
(***************************************************************************)
THEOREM RoutingCorrect == Spec => []RoutingInv
  <1>1. PartsInv => RoutingInv
    BY RoutesHold DEF PartsInv
  <1>2. QED
    BY <1>1, Inductive, PTL

(***************************************************************************)
(* RunServer in every deployment and whatever the rest of the gateway      *)
(* does: no request it let in is lost without an error, but over hijacked  *)
(* connections, the first wrong key pair is reported, a goroutine is left  *)
(* behind only by a shutdown, and the clients let in are those of the      *)
(* configuration.                                                          *)
(***************************************************************************)
THEOREM ServerCorrect == Spec => []ServerInv
  <1>1. PartsInv => ServerInv
    BY DEF PartsInv
  <1>2. QED
    BY <1>1, Inductive, PTL

(***************************************************************************)
(* AgentStarter.Start and the agents it started: each agent is offered to  *)
(* the factories up to the first taker, gives up only after its own        *)
(* retries, and panics in its jitter only if another draws jitter too.     *)
(***************************************************************************)
THEOREM AgentsCorrect == Spec => []AgentsInv
  <1>1. PartsInv => AgentsInv
    BY DEF PartsInv
  <1>2. QED
    BY <1>1, Inductive, PTL

(***************************************************************************)
(* The loader of plugins, for any folder: every file is counted or has its *)
(* error, in order, and a name resolves to the last plugin that registered *)
(* it, even if that one panicked afterwards.                               *)
(***************************************************************************)
THEOREM LoaderCorrect == Spec => []LoaderInv
  <1>1. PartsInv => LoaderInv
    BY DEF PartsInv
  <1>2. QED
    BY <1>1, Inductive, PTL

\* A request that is let in: the server listens and does not stop, or the connection was
\* hijacked before, when the server had been started.
LEMMA LetIn ==
    ASSUME PartsInv, [Next]_vars, NEW r \in Requests, req[r] # "open", req'[r] = "open"
    PROVE  /\ serve # "none"
           /\ (serve = "listening" /\ ~stopping) \/ (req[r] = "answered" /\ S!Hijacked(r))
  <1>1. req \in [Requests -> {"away", "open", "answered", "refused"}]
    BY DEF PartsInv, ServerInv, S!ServerInv, S!TypeOK
  <1>2. PICK d \in Requests : Request(d)
    BY DEF Next, vars, Main, Parse, LoadPlugins, StartAgents, BuildExecutors, RegisterEndpoints,
           WrapHandlers, RunServer, Serve, RunAgent, AgentSettles, Signal, serverVars,
           S!PlainHTTP, S!CollectKeys, S!LoadKey, S!KeysLoaded, S!ServerFailed,
           S!BeginShutdown, S!Drained, S!ShutdownTimeout, S!Listen, S!ListenerClosed, S!ListenerBroken, S!Cancel
  <1>3. serve # "none" /\ (S!Arrive(d) \/ S!Answer(d) \/ S!Stream(d))
    BY <1>2 DEF Request
  <1>4. CASE S!Arrive(d)
    BY <1>1, <1>3, <1>4 DEF S!Arrive
  <1>5. CASE S!Answer(d)
    BY <1>1, <1>5 DEF S!Answer
  <1>6. CASE S!Stream(d)
    <2>1. d = r
      BY <1>1, <1>6 DEF S!Stream
    <2>2. QED
      BY <1>3, <1>6, <2>1 DEF S!Stream
  <1>7. QED
    BY <1>3, <1>4, <1>5, <1>6

(***************************************************************************)
(* The order of the start, of any deployment: a request is let in only     *)
(* when the configuration was accepted, every plugin was tried, each       *)
(* endpoint was considered, the transport of the backends is the           *)
(* configured one, the handler is wrapped in the factories the             *)
(* configuration lists that work, in their order, and the certificates are *)
(* loaded, and while the server stops only over a connection hijacked      *)
(* before; no agent is offered before the configuration was accepted.      *)
(***************************************************************************)
THEOREM StartsInOrderCorrect == Spec => StartsInOrder
  <1>1. ASSUME PartsInv, [Next]_vars, NEW r \in Requests, req[r] # "open", req'[r] = "open"
        PROVE  /\ S!Secure => cfg.keys \o cfg.legacy # << >>
                                /\ \A i \in DOMAIN (cfg.keys \o cfg.legacy) : (cfg.keys \o cfg.legacy)[i] = "ok"
               /\ pc = "select" \/ (req[r] = "answered" /\ S!Hijacked(r))
               /\ C!Accepted
               /\ R!Done /\ seen = Len(svc.endpoints) /\ transport
               /\ loaded + Len(errors) = Len(files)
               /\ user = "server" => fifo = << >> /\ stage = "serving"
    <2>1. /\ serve # "none"
          /\ (serve = "listening" /\ ~stopping) \/ (req[r] = "answered" /\ S!Hijacked(r))
      BY <1>1, LetIn
    <2>2. S!TypeOK /\ S!StartedInOrder /\ S!LeftWaitingOnlyByShutdown
      BY <1>1 DEF PartsInv, ServerInv, S!ServerInv
    <2>3. S!Secure => S!AllGood
      BY <2>1, <2>2 DEF S!StartedInOrder
    <2>4. pc = "select" \/ (req[r] = "answered" /\ S!Hijacked(r))
      BY <2>1, <2>2 DEF S!TypeOK, S!StartedInOrder, S!LeftWaitingOnlyByShutdown
    <2>5. R!Done /\ stage \in {"client", "serving"} /\ C!Accepted
      BY <1>1, <2>1 DEF PartsInv, OrderInv
    <2>6. todo = << >> /\ StillToDo
      BY <1>1, <2>5 DEF R!Done, PartsInv, OrderInv
    <2>7. seen = Len(svc.endpoints) /\ transport
      BY <2>6 DEF StillToDo
    <2>8. FilesTyped /\ loaded + Len(errors) = k - 1 /\ k = Len(files) + 1
      BY <1>1, <2>5 DEF PartsInv, DeploymentTyped, LoaderInv, P!LoaderInv, P!EveryFileAccounted
    <2>9. loaded + Len(errors) = Len(files)
      BY <2>8, FilesFacts
    <2>10. user = "server" => fifo = << >> /\ stage = "serving"
      BY <1>1, <2>5 DEF PartsInv, OrderInv
    <2>11. QED
      BY <2>3, <2>4, <2>5, <2>7, <2>9, <2>10 DEF S!AllGood, S!AllKeys
  <1>2. ASSUME PartsInv, [Next]_vars, offered' # offered PROVE C!Accepted
    <2>1. A!Offer
      <3>1. ASSUME NEW a \in A!Agents, AgentStep(a) PROVE offered' = offered
        BY <3>1 DEF AgentStep, A!Connect, A!ConnectFails, A!BackoffOver, A!ConnectionLost, A!Stop,
                    A!Move, A!Test, A!Wrap, A!Read, A!Quiet
      <3>2. QED
        BY <1>2, <3>1, AgentSteps DEF agentVars, A!NoAgents, A!BuildFails, A!Started, A!Wait, SignalStep
    <2>2. StartAgents
      BY <1>2, <2>1
         DEF Next, vars, agentVars, Main, Parse, LoadPlugins, BuildExecutors, RegisterEndpoints, WrapHandlers,
             RunServer, Serve, Request, Signal, RunAgent, AgentSettles, A!Jitter, A!Connect, A!ConnectFails,
             A!BackoffOver, A!ConnectionLost, A!Stop, A!Move, A!Test, A!Wrap, A!Read, A!Quiet
    <2>3. QED
      BY <1>2, <2>2 DEF StartAgents, PartsInv, OrderInv
  <1>3. PartsInv /\ [Next]_vars =>
          /\ [\A r \in Requests : (req[r] # "open" /\ req'[r] = "open") =>
                /\ S!Secure => cfg.keys \o cfg.legacy # << >>
                                /\ \A i \in DOMAIN (cfg.keys \o cfg.legacy) : (cfg.keys \o cfg.legacy)[i] = "ok"
                /\ pc = "select" \/ (req[r] = "answered" /\ S!Hijacked(r))]_(S!vars)
          /\ [\A r \in Requests : (req[r] # "open" /\ req'[r] = "open") =>
                /\ C!Accepted
                /\ R!Done /\ seen = Len(svc.endpoints) /\ transport
                /\ loaded + Len(errors) = Len(files)
                /\ user = "server" => fifo = << >> /\ stage = "serving"]_vars
          /\ [offered' # offered => C!Accepted]_vars
          /\ [\/ handler' \o P!Wrapping(fifo')[Len(fifo')] = handler \o P!Wrapping(fifo)[Len(fifo)]
              \/ stage = "load"]_(P!vars)
    BY <1>1, <1>2, StepWrapsInOrder DEF PartsInv, LoaderInv, P!LoaderInv, DeploymentTyped
  <1>4. Spec => S!ServesWhenReady
    BY <1>3, Inductive, PTL DEF Spec, S!ServesWhenReady, S!vars
  <1>5. Spec => RequestsEnterReady
    BY <1>3, Inductive, PTL DEF Spec, RequestsEnterReady
  <1>6. Spec => AgentsWaitForConfig
    BY <1>3, Inductive, PTL DEF Spec, AgentsWaitForConfig
  <1>7. Spec => P!WrappedInOrder
    BY <1>3, Inductive, PTL DEF Spec, P!WrappedInOrder, P!vars
  <1>8. QED
    BY <1>4, <1>5, <1>6, <1>7 DEF StartsInOrder

=============================================================================
