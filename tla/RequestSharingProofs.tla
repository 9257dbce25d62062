------------------------ MODULE RequestSharingProofs ------------------------
(***************************************************************************)
(* Theorems about the two halves of handing a request to the backends: who *)
(* shares what of it (RequestSharing), for every endpoint configuration,   *)
(* and which pipe asks which backends for how long (ShadowRequest), for    *)
(* every set of endpoints and requests.                                    *)
(*                                                                         *)
(* The first rests on who owns the objects a request points to: a stack,   *)
(* or a call that is not the last of its stack, has its own; the last call *)
(* has those of its stack, which does nothing but wait by then; what came  *)
(* in is left to the only backend there is, or to all if the endpoint is   *)
(* not cloned deeply.  The second rests on the largest timeout of an       *)
(* endpoint, which a finite set of integers has.                           *)
(*                                                                         *)
(* What the request then says is up to functions: what the filters, the    *)
(* choice of a merger and the GraphQL middleware make of it is proved for  *)
(* every list, extra configuration, set of placeholders and response.      *)
(***************************************************************************)
EXTENDS MCRequestSharing, ShadowRequest, FiniteSetTheorems, TLAPS

-----------------------------------------------------------------------------
(* The endpoint                                                            *)

Last == Cardinality(Regular)
Calls(b) == cfg.backends[b].calls

\* The backends that are merged come first; the shadow is the one behind them.
LEMMA CfgFacts ==
    ASSUME cfg \in Configs
    PROVE  /\ Len(cfg.backends) \in 1..MaxB /\ DOMAIN cfg.backends = 1..Len(cfg.backends)
           /\ \A b \in DOMAIN cfg.backends : cfg.backends[b] \in Stack
           /\ Last \in Nat /\ Last >= 1 /\ Regular = 1..Last
           /\ Shadow = IF cfg.shadow THEN Last + 1 ELSE Last
           /\ cfg.shadow \in BOOLEAN /\ cfg.force \in BOOLEAN /\ cfg.body \in BOOLEAN /\ cfg.modifier \in BOOLEAN
           /\ cfg.merge \in {"single", "parallel", "sequential"} /\ (cfg.merge = "single" <=> Last = 1)
  <1>1. cfg \in Config /\ Merged(cfg) >= 1 /\ (cfg.merge = "single" <=> Merged(cfg) = 1)
    BY ConfigsAssumption
  <1>2. PICK n \in 1..MaxB : cfg.backends \in [1..n -> Stack]
    BY <1>1 DEF Config
  <1>3. n \in Nat /\ DOMAIN cfg.backends = 1..n /\ Len(cfg.backends) = n
    BY <1>2, BoundsAssumption
  <1>4. PICK m \in Nat : m = Merged(cfg) /\ m >= 1
    BY <1>1, <1>3 DEF Merged, Config
  <1>5. Regular = 1..m
    BY <1>1, <1>3, <1>4 DEF Regular, Merged, Config
  <1>6. Last = m
    BY <1>4, <1>5, FS_Interval DEF Last
  <1>7. QED
    BY <1>1, <1>2, <1>3, <1>4, <1>5, <1>6 DEF Merged, Config, Shadow

-----------------------------------------------------------------------------
(* The stages                                                              *)

\* Where the stack of a backend, and its calls, may be.
Staging(g) ==
    /\ g[1] \in DOMAIN cfg.backends
    /\ g[2] = 0 => pc[g] \in {"query", "build", "done", "failed"} \cup
                     (IF Calls(g[1]) > 1 THEN {"clone", "wait"} ELSE {"balance", "headers", "graphql", "send"})
    /\ g[2] # 0 =>
        /\ pc[g] \in {"balance", "headers", "graphql", "send", "done", "failed"}
        /\ g[2] <= Calls(g[1]) /\ Calls(g[1]) > 1
        /\ pc[<<g[1], 0>>] \in {"clone", "wait", "done", "failed"}
        /\ g[2] = Calls(g[1]) => pc[<<g[1], 0>>] # "clone"
    /\ pc[g] = "graphql" => cfg.backends[g[1]].graphql # "none"

\* The endpoint starts them in order, the sequential merger one after the other.
InOrder ==
    /\ \A b \in Regular : pc[<<b, 0>>] = "idle" <=> main <= b
    /\ main = 0 => cfg.shadow /\ pc[<<Shadow, 0>>] = "idle"
    /\ cfg.merge = "sequential" => \A b \in Regular : b + 1 < main => pc[<<b, 0>>] = "done"

Staged == InOrder /\ \A g \in Goroutine : pc[g] # "idle" => Staging(g)

-----------------------------------------------------------------------------
(* Types                                                                   *)

\* Each pointer points to an object of its kind.
Aimed(r) == r \in Request /\ \A k \in Pointer : r[k][1] = k
Types == TypeOK /\ \A g \in Goroutine : Aimed(req[g])

\* The objects of a request that is aimed.
LEMMA AimedFacts ==
    ASSUME NEW r, Aimed(r)
    PROVE  /\ \A k \in Pointer : \E o \in Owner : r[k] = <<k, o>>
           /\ \A k \in Kind : r[k] \in Object
           /\ \A k \in Pointer, o \in Owner : Aimed([r EXCEPT ![k] = <<k, o>>])
  BY DEF Aimed, Request, Object, Pointer

\* Each pointer of what came in points to an object of its kind.
LEMMA IncomingAimed == Aimed(Incoming)
  BY DEF Aimed, Incoming, Request, Owner

\* A clone has objects of its own, of the same kinds, but for the query strings.
LEMMA CloneTyped ==
    ASSUME Types, NEW g \in Goroutine, NEW r, Aimed(r), CloneRequest(g, r)
    PROVE  /\ req' \in [Goroutine -> Request] /\ heap' \in [Object -> SUBSET Mark]
           /\ \A h \in Goroutine : Aimed(req'[h])
           /\ \A h \in Goroutine \ {g} : req'[h] = req[h]
           /\ \A k \in Pointer : req'[g][k] = IF k = "query" THEN r[k] ELSE <<k, g>>
           /\ \A o \in Object : heap'[o] = IF o[2] = g /\ o[1] # "query" THEN heap[r[o[1]]] ELSE heap[o]
  <1>1. PICK q : q = [k \in Pointer |-> IF k = "query" THEN r[k] ELSE <<k, g>>]
    OBVIOUS
  <1>2. Aimed(q)
    BY <1>1 DEF Aimed, Request, Owner
  <1>3. req' = [req EXCEPT ![g] = q]
    BY <1>1 DEF CloneRequest
  <1>4. req \in [Goroutine -> Request] /\ \A h \in Goroutine : Aimed(req[h])
    BY DEF Types, TypeOK
  <1>5. req' \in [Goroutine -> Request] /\ \A h \in Goroutine : Aimed(req'[h])
    BY <1>2, <1>3, <1>4 DEF Aimed
  <1>6. /\ \A h \in Goroutine \ {g} : req'[h] = req[h]
        /\ \A k \in Pointer : req'[g][k] = IF k = "query" THEN r[k] ELSE <<k, g>>
    BY <1>1, <1>3, <1>4
  <1>7. ASSUME NEW o \in Object PROVE heap[r[o[1]]] \in SUBSET Mark /\ heap[o] \in SUBSET Mark
    <2>1. o[1] \in Kind
      BY DEF Object
    <2>2. r[o[1]] \in Object
      BY <2>1, AimedFacts
    <2>3. QED
      BY <2>2 DEF Types, TypeOK
  <1>8. heap' = [o \in Object |-> IF o[2] = g /\ o[1] # "query" THEN heap[r[o[1]]] ELSE heap[o]]
    BY DEF CloneRequest
  <1>9. /\ heap' \in [Object -> SUBSET Mark]
        /\ \A o \in Object : heap'[o] = IF o[2] = g /\ o[1] # "query" THEN heap[r[o[1]]] ELSE heap[o]
    BY <1>7, <1>8
  <1>10. QED
    BY <1>5, <1>6, <1>9

\* A request that is passed on is the request of another goroutine, or shares all but the struct.
LEMMA PassTyped ==
    ASSUME Types, NEW g \in Goroutine, NEW r, Aimed(r), Pass(g, r)
    PROVE  /\ req' \in [Goroutine -> Request] /\ heap' = heap
           /\ \A h \in Goroutine : Aimed(req'[h])
           /\ \A h \in Goroutine \ {g} : req'[h] = req[h]
           /\ req'[g] = r
  BY DEF Pass, Types, TypeOK, Aimed

\* A shallow copy shares all but the struct.
LEMMA ShareTyped ==
    ASSUME Types, NEW g \in Goroutine, NEW r, Aimed(r), Share(g, r)
    PROVE  /\ req' \in [Goroutine -> Request] /\ heap' = heap
           /\ \A h \in Goroutine : Aimed(req'[h])
           /\ \A h \in Goroutine \ {g} : req'[h] = req[h]
           /\ \A k \in Pointer : req'[g][k] = IF k = "struct" THEN <<k, g>> ELSE r[k]
  <1>1. PICK q : q = [r EXCEPT !["struct"] = <<"struct", g>>]
    OBVIOUS
  <1>2. Aimed(q) /\ \A k \in Pointer : q[k] = IF k = "struct" THEN <<k, g>> ELSE r[k]
    BY <1>1 DEF Aimed, Request, Owner, Pointer
  <1>3. Pass(g, q)
    BY <1>1 DEF Share
  <1>4. QED
    BY <1>2, <1>3, PassTyped

\* A filter gives the request a map and a struct of its own.
LEMMA FilteredTyped ==
    ASSUME Types, NEW g \in Goroutine, NEW kind \in {"query", "headers"}, Filtered(g, kind)
    PROVE  /\ req' \in [Goroutine -> Request] /\ heap' \in [Object -> SUBSET Mark]
           /\ \A h \in Goroutine : Aimed(req'[h])
           /\ \A h \in Goroutine \ {g} : req'[h] = req[h]
           /\ \A k \in Pointer : req'[g][k] = IF k \in {kind, "struct"} THEN <<k, g>> ELSE req[g][k]
           /\ \A o \in Object : heap'[o] = IF o = <<kind, g>> THEN heap[req[g][kind]] ELSE heap[o]
  <1>1. PICK q : q = [req[g] EXCEPT ![kind] = <<kind, g>>, !["struct"] = <<"struct", g>>]
    OBVIOUS
  <1>2. Aimed(req[g]) /\ req \in [Goroutine -> Request]
    BY DEF Types, TypeOK
  <1>3. Aimed(q) /\ \A k \in Pointer : q[k] = IF k \in {kind, "struct"} THEN <<k, g>> ELSE req[g][k]
    BY <1>1, <1>2 DEF Aimed, Request, Owner, Pointer, Kind
  <1>4. req' = [req EXCEPT ![g] = q]
    BY <1>1, <1>2 DEF Filtered, Aimed
  <1>5. /\ \A h \in Goroutine : Aimed(req'[h])
        /\ \A h \in Goroutine \ {g} : req'[h] = req[h]
        /\ req'[g] = q /\ req' \in [Goroutine -> Request]
    BY <1>2, <1>3, <1>4 DEF Types, Aimed
  <1>6. req[g][kind] \in Object /\ <<kind, g>> \in Object
    BY <1>2, AimedFacts DEF Kind, Object, Owner
  <1>7. heap \in [Object -> SUBSET Mark]
    BY DEF Types, TypeOK
  <1>8. /\ heap' \in [Object -> SUBSET Mark]
        /\ \A o \in Object : heap'[o] = IF o = <<kind, g>> THEN heap[req[g][kind]] ELSE heap[o]
    BY <1>6, <1>7 DEF Filtered
  <1>9. QED
    BY <1>3, <1>5, <1>8

Stages == Over \cup {"query", "build", "clone", "wait", "balance", "headers", "graphql", "send"}

\* Of the goroutines of a backend only the first h needs are named.
LEMMA GoroutineFacts ==
    /\ \A g \in Goroutine : /\ g[1] \in 1..MaxB /\ g[2] \in 0..MaxCalls /\ g = <<g[1], g[2]>>
                            /\ <<g[1], 0>> \in Goroutine
    /\ \A b \in 1..MaxB, c \in 0..MaxCalls : <<b, c>> \in Goroutine /\ <<b, c>>[1] = b /\ <<b, c>>[2] = c
  BY BoundsAssumption DEF Goroutine

\* The GraphQL middleware writes a body of its own, and into the other objects of the request.
LEMMA GraphQLTyped ==
    ASSUME Types, NEW g \in Goroutine, GraphQL(g)
    PROVE  /\ req' \in [Goroutine -> Request] /\ heap' \in [Object -> SUBSET Mark]
           /\ \A h \in Goroutine : Aimed(req'[h])
           /\ \A h \in Goroutine \ {g} : req'[h] = req[h]
           /\ \A k \in Pointer \ {"body"} : req'[g][k] = req[g][k]
           /\ req'[g]["body"] \in {req[g]["body"], <<"body", g>>}
           /\ \A o \in Object \ {<<"body", g>>, req[g]["body"], req[g]["headers"], req[g]["query"]} :
                heap'[o] = heap[o]
           /\ \/ /\ pc' = [pc EXCEPT ![g] = "send"] /\ req'[g]["body"] = <<"body", g>>
                 /\ heap'[<<"body", g>>] = IF cfg.backends[g[1]].get THEN {} ELSE {"graphql"}
                 /\ "graphql" \in heap'[req[g]["headers"]]
              \/ /\ pc' = [pc EXCEPT ![g] = "failed"] /\ heap'[req[g]["headers"]] = heap[req[g]["headers"]]
  <1>1. Aimed(req[g]) /\ req \in [Goroutine -> Request] /\ heap \in [Object -> SUBSET Mark]
    BY DEF Types, TypeOK
  <1>2. PICK r, q : r = req[g] /\ q = [r EXCEPT !["body"] = <<"body", g>>]
    OBVIOUS
  <1>3. /\ Aimed(r) /\ r \in Request
        /\ r["body"] \in Object /\ r["headers"] \in Object /\ r["query"] \in Object /\ <<"body", g>> \in Object
        /\ r["body"][1] = "body" /\ r["headers"][1] = "headers" /\ r["query"][1] = "query"
    BY <1>1, <1>2, AimedFacts DEF Kind, Object, Owner, Aimed, Pointer
  <1>4. Aimed(q) /\ \A k \in Pointer : q[k] = IF k = "body" THEN <<k, g>> ELSE r[k]
    BY <1>2, <1>3 DEF Aimed, Request, Owner, Pointer, Kind
  <1>5. PICK get, used, touched :
            /\ get = cfg.backends[g[1]].get
            /\ used = IF cfg.backends[g[1]].graphql = "mutation" THEN {r["body"]} ELSE {}
            /\ touched = {r["headers"]} \cup (IF get THEN {r["query"]} ELSE {})
    OBVIOUS
  <1>6. \/ /\ req' = [req EXCEPT ![g]["body"] = <<"body", g>>]
           /\ heap' = [o \in Object |->
                         CASE o = <<"body", g>> -> IF get THEN {} ELSE {"graphql"}
                           [] o \in touched -> heap[o] \cup {"graphql"}
                           [] o \in used \ {<<"body", g>>} -> {}
                           [] OTHER -> heap[o]]
           /\ pc' = [pc EXCEPT ![g] = "send"]
        \/ /\ heap' = [o \in Object |-> IF o \in used THEN {} ELSE heap[o]]
           /\ pc' = [pc EXCEPT ![g] = "failed"]
           /\ req' = req
    BY <1>2, <1>5 DEF GraphQL, GoTo
  <1>7. CASE /\ req' = [req EXCEPT ![g]["body"] = <<"body", g>>]
             /\ heap' = [o \in Object |->
                           CASE o = <<"body", g>> -> IF get THEN {} ELSE {"graphql"}
                             [] o \in touched -> heap[o] \cup {"graphql"}
                             [] o \in used \ {<<"body", g>>} -> {}
                             [] OTHER -> heap[o]]
             /\ pc' = [pc EXCEPT ![g] = "send"]
    <2>1. req' = [req EXCEPT ![g] = q]
      BY <1>1, <1>2, <1>7
    <2>2. /\ req' \in [Goroutine -> Request] /\ \A h \in Goroutine : Aimed(req'[h])
          /\ \A h \in Goroutine \ {g} : req'[h] = req[h]
          /\ req'[g] = q
      BY <1>1, <1>4, <2>1 DEF Types, Aimed
    <2>3. heap' \in [Object -> SUBSET Mark]
      <3>1. ASSUME NEW o \in Object PROVE heap'[o] \in SUBSET Mark
        <4>1. heap[o] \subseteq Mark /\ "graphql" \in Mark
          BY <1>1 DEF Mark
        <4>2. heap'[o] \in {{}, {"graphql"}, heap[o] \cup {"graphql"}, heap[o]}
          BY <1>7
        <4>3. QED
          BY <4>1, <4>2
      <3>2. heap' = [o \in Object |-> heap'[o]]
        BY <1>7
      <3>3. QED
        BY <3>1, <3>2
    <2>4. heap'[<<"body", g>>] = IF get THEN {} ELSE {"graphql"}
      <3>0. <<"body", g>> \in Object
        BY <1>3
      <3>1. PICK o : o = <<"body", g>>
        OBVIOUS
      <3>2. o \in Object /\ o \notin touched
        BY <1>3, <1>5, <3>0, <3>1
      <3>3. heap'[o] = IF get THEN {} ELSE {"graphql"}
        BY <1>7, <3>1, <3>2
      <3>4. QED
        BY <3>1, <3>3
    <2>5. "graphql" \in heap'[r["headers"]]
      BY <1>3, <1>5, <1>7
    <2>6. \A o \in Object \ {<<"body", g>>, r["body"], r["headers"], r["query"]} : heap'[o] = heap[o]
      BY <1>5, <1>7
    <2>7. QED
      BY <1>2, <1>4, <1>5, <1>7, <2>2, <2>3, <2>4, <2>5, <2>6 DEF Pointer, Kind
  <1>8. CASE /\ heap' = [o \in Object |-> IF o \in used THEN {} ELSE heap[o]]
             /\ pc' = [pc EXCEPT ![g] = "failed"]
             /\ req' = req
    <2>1. heap' \in [Object -> SUBSET Mark]
      BY <1>1, <1>8
    <2>2. heap'[r["headers"]] = heap[r["headers"]]
      BY <1>3, <1>5, <1>8
    <2>3. \A o \in Object \ {<<"body", g>>, r["body"], r["headers"], r["query"]} : heap'[o] = heap[o]
      BY <1>5, <1>8
    <2>4. QED
      BY <1>1, <1>2, <1>8, <2>1, <2>2, <2>3 DEF Types
  <1>9. QED
    BY <1>6, <1>7, <1>8

\* Sending takes the body away.
LEMMA SendTyped ==
    ASSUME Types, NEW g \in Goroutine, Send(g)
    PROVE  /\ req' = req /\ heap' \in [Object -> SUBSET Mark]
           /\ \A o \in Object \ {req[g]["body"]} : heap'[o] = heap[o]
           /\ \E s \in {"done", "failed"} : pc' = [pc EXCEPT ![g] = s]
           /\ sent' = [sent EXCEPT ![g] = [headers |-> heap[req[g]["headers"]],
                                           body |-> heap[req[g]["body"]], url |-> url[g]]]
           /\ sent' \in [Goroutine -> [headers : SUBSET Mark, body : SUBSET Mark, url : SUBSET Mark]]
  <1>1. /\ heap \in [Object -> SUBSET Mark] /\ url \in [Goroutine -> SUBSET Mark]
        /\ sent \in [Goroutine -> [headers : SUBSET Mark, body : SUBSET Mark, url : SUBSET Mark]]
    BY DEF Types, TypeOK
  <1>2. req[g]["body"] \in Object /\ req[g]["headers"] \in Object
    BY AimedFacts DEF Types, Kind
  <1>3. /\ heap' = [heap EXCEPT ![req[g]["body"]] = {}] /\ req' = req
        /\ sent' = [sent EXCEPT ![g] = [headers |-> heap[req[g]["headers"]],
                                        body |-> heap[req[g]["body"]], url |-> url[g]]]
        /\ \E s \in {"done", "failed"} : pc' = [pc EXCEPT ![g] = s]
    BY DEF Send, GoTo
  <1>4. heap' \in [Object -> SUBSET Mark] /\ \A o \in Object \ {req[g]["body"]} : heap'[o] = heap[o]
    BY <1>1, <1>2, <1>3
  <1>5. sent' \in [Goroutine -> [headers : SUBSET Mark, body : SUBSET Mark, url : SUBSET Mark]]
    BY <1>1, <1>2, <1>3
  <1>6. QED
    BY <1>3, <1>4, <1>5

\* The other stages change what is in no object but the map a filter makes.
LEMMA StageTyped ==
    ASSUME Types, NEW g \in Goroutine,
           Build(g) \/ Wait(g) \/ Balance(g)
    PROVE  req' = req /\ heap' = heap
  BY DEF Build, Wait, Balance

\* The copy a backend is handed.
LEMMA StartTyped ==
    ASSUME Types, NEW b \in 1..MaxB,
           \/ CloneRequest(<<b, 0>>, Incoming) \/ Share(<<b, 0>>, Incoming) \/ Pass(<<b, 0>>, Incoming)
    PROVE  /\ req' \in [Goroutine -> Request] /\ heap' \in [Object -> SUBSET Mark]
           /\ \A h \in Goroutine : Aimed(req'[h])
  BY GoroutineFacts, IncomingAimed, CloneTyped, ShareTyped, PassTyped, BoundsAssumption DEF Types, TypeOK

\* What a call is handed.
LEMMA SpawnFacts ==
    ASSUME Types, NEW g \in Goroutine, Spawn(g), g[1] \in DOMAIN cfg.backends
    PROVE  \E h \in Goroutine :
             /\ h[1] = g[1] /\ h[2] \in 1..Calls(g[1]) /\ pc[h] = "idle"
             /\ \A d \in 1..MaxCalls : pc[<<g[1], d>>] = "idle" <=> d >= h[2]
             /\ IF h[2] < Calls(g[1]) THEN CloneRequest(h, req[g]) /\ pc' = [pc EXCEPT ![h] = "balance"]
                ELSE Pass(h, req[g]) /\ pc' = [pc EXCEPT ![h] = "balance", ![g] = "wait"]
  <1>1. PICK c \in 1..Calls(g[1]) :
           /\ \A d \in 1..MaxCalls : pc[<<g[1], d>>] = "idle" <=> d >= c
           /\ IF c < Calls(g[1])
              THEN CloneRequest(<<g[1], c>>, req[g]) /\ pc' = [pc EXCEPT ![<<g[1], c>>] = "balance"]
              ELSE Pass(<<g[1], c>>, req[g]) /\ pc' = [pc EXCEPT ![<<g[1], c>>] = "balance", ![g] = "wait"]
    BY DEF Spawn, Calls
  <1>2. Calls(g[1]) \in 1..MaxCalls
    BY CfgFacts DEF Calls, Types, TypeOK, Stack
  <1>3. c \in 1..MaxCalls /\ c \in 0..MaxCalls /\ c >= c
    BY <1>2, BoundsAssumption
  <1>4. PICK h \in Goroutine : h = <<g[1], c>> /\ h[1] = g[1] /\ h[2] = c
    BY <1>3, GoroutineFacts
  <1>5. pc[h] = "idle"
    BY <1>1, <1>3, <1>4
  <1>6. QED
    BY <1>1, <1>4, <1>5

\* A stage moves its own goroutine on, the one that spawns also the call it starts.
Leads(g, s) ==
    CASE pc[g] = "query"   -> s = "build"
      [] pc[g] = "build"   -> s = AfterBuild(g[1])
      [] pc[g] = "wait"    -> s \in {"done", "failed"}
      [] pc[g] = "balance" -> s \in {AfterBalance(g[1]), "failed"}
      [] pc[g] = "headers" -> s = AfterHeaders(g[1])
      [] pc[g] = "graphql" -> s \in {"send", "failed"}
      [] pc[g] = "send"    -> s \in {"done", "failed"}
      [] OTHER -> FALSE

\* A stage that is no spawning leads its own goroutine to the next one.
LEMMA StageKinds ==
    ASSUME NEW g \in Goroutine, Stage(g)
    PROVE  \/ Spawn(g)
           \/ \E s \in Stages : pc' = [pc EXCEPT ![g] = s] /\ Leads(g, s)
  <1>1. CASE FilterQuery(g)
    BY <1>1 DEF FilterQuery, GoTo, Leads, Stages
  <1>2. CASE Build(g)
    BY <1>2 DEF Build, GoTo, Leads, Stages, AfterBuild
  <1>3. CASE Wait(g)
    BY <1>3 DEF Wait, GoTo, Leads, Stages, Over
  <1>4. CASE Balance(g)
    BY <1>4 DEF Balance, GoTo, Leads, Stages, Over, AfterBalance, AfterHeaders
  <1>5. CASE FilterHeaders(g)
    BY <1>5 DEF FilterHeaders, GoTo, Leads, Stages, AfterHeaders
  <1>6. CASE GraphQL(g)
    BY <1>6 DEF GraphQL, GoTo, Leads, Stages, Over
  <1>7. CASE Send(g)
    BY <1>7 DEF Send, GoTo, Leads, Stages, Over
  <1>8. QED
    BY <1>1, <1>2, <1>3, <1>4, <1>5, <1>6, <1>7 DEF Stage

\* A step keeps the types of everything.
LEMMA StepTypes ==
    ASSUME Types, Staged, [Next]_vars
    PROVE  Types' /\ cfg' = cfg
  <1>1. cfg' = cfg
    BY DEF Next, vars, StartShadow, Dispatch, ResponseModifiers, Terminated, Stage, FilterQuery, Build, Spawn, Wait,
           Balance, FilterHeaders, GraphQL, Send
  <1>2. Last' = Last /\ Regular' = Regular /\ Shadow' = Shadow
    BY <1>1 DEF Last, Regular, Shadow
  <1>3. /\ pc \in [Goroutine -> Stages] /\ url \in [Goroutine -> SUBSET Mark]
        /\ sent \in [Goroutine -> [headers : SUBSET Mark, body : SUBSET Mark, url : SUBSET Mark]]
        /\ heap \in [Object -> SUBSET Mark] /\ req \in [Goroutine -> Request]
        /\ \A g \in Goroutine : Aimed(req[g])
        /\ main \in 0..(Last + 2)
    BY DEF Types, TypeOK, Stages, Last
  <1>4. /\ main' \in 0..(Last + 2) /\ pc' \in [Goroutine -> Stages]
        /\ url' \in [Goroutine -> SUBSET Mark]
        /\ sent' \in [Goroutine -> [headers : SUBSET Mark, body : SUBSET Mark, url : SUBSET Mark]]
        /\ req' \in [Goroutine -> Request] /\ heap' \in [Object -> SUBSET Mark]
        /\ \A g \in Goroutine : Aimed(req'[g])
    <2>1. CASE StartShadow
      <3>1. main' = 1 /\ main' \in 0..(Last + 2)
        BY <2>1, CfgFacts DEF StartShadow, Types, TypeOK
      <3>2. Shadow \in 1..MaxB
        BY CfgFacts DEF Types, TypeOK, Shadow
      <3>3. pc' \in [Goroutine -> Stages]
        BY <1>3, <2>1 DEF StartShadow, Start, First, Stages
      <3>4. QED
        BY <1>3, <2>1, <3>1, <3>2, <3>3, StartTyped DEF StartShadow, Start
    <2>2. CASE Dispatch
      <3>0. /\ Last \in Nat /\ Regular = 1..Last /\ Len(cfg.backends) \in 1..MaxB
            /\ Last <= Len(cfg.backends) /\ MaxB \in Nat
        BY CfgFacts, BoundsAssumption DEF Types, TypeOK, Shadow
      <3>1. main \in 1..Last /\ main \in 1..MaxB /\ main' = main + 1
        <4>1. main \in Regular /\ main' = main + 1
          BY <2>2 DEF Dispatch, Ready
        <4>2. QED
          BY <3>0, <4>1
      <3>2. main' \in 0..(Last + 2)
        BY <3>1, CfgFacts DEF Types, TypeOK
      <3>3. pc' \in [Goroutine -> Stages]
        BY <1>3, <2>2 DEF Dispatch, Start, First, Stages
      <3>4. QED
        BY <1>3, <2>2, <3>1, <3>2, <3>3, StartTyped DEF Dispatch, Start
    <2>3. CASE ResponseModifiers
      <3>1. main = Last + 1 /\ main' = main + 1
        BY <2>3 DEF ResponseModifiers, Returned, Last
      <3>2. QED
        BY <1>3, <2>3, <3>1, CfgFacts DEF ResponseModifiers, Types, TypeOK
    <2>4. ASSUME NEW g \in Goroutine, Stage(g)
          PROVE  /\ main' \in 0..(Last + 2) /\ pc' \in [Goroutine -> Stages]
                 /\ url' \in [Goroutine -> SUBSET Mark]
                 /\ sent' \in [Goroutine -> [headers : SUBSET Mark, body : SUBSET Mark, url : SUBSET Mark]]
                 /\ req' \in [Goroutine -> Request] /\ heap' \in [Object -> SUBSET Mark]
                 /\ \A h \in Goroutine : Aimed(req'[h])
      <3>1. main' = main
        BY <2>4 DEF Stage, FilterQuery, Build, Spawn, Wait, Balance, FilterHeaders, GraphQL, Send
      <3>2. CASE Spawn(g)
        <4>1. g[1] \in DOMAIN cfg.backends
          BY <3>2 DEF Spawn, Staged, Staging
        <4>2. PICK h \in Goroutine :
                 IF h[2] < Calls(g[1]) THEN CloneRequest(h, req[g]) /\ pc' = [pc EXCEPT ![h] = "balance"]
                 ELSE Pass(h, req[g]) /\ pc' = [pc EXCEPT ![h] = "balance", ![g] = "wait"]
          BY <3>2, <4>1, SpawnFacts
        <4>3. pc' \in [Goroutine -> Stages]
          BY <1>3, <4>2 DEF Stages
        <4>4. req' \in [Goroutine -> Request] /\ heap' \in [Object -> SUBSET Mark]
              /\ \A q \in Goroutine : Aimed(req'[q])
          BY <1>3, <4>2, CloneTyped, PassTyped
        <4>5. QED
          BY <1>3, <3>1, <3>2, <4>3, <4>4 DEF Spawn
      <3>3. CASE ~Spawn(g)
        <4>1. pc' \in [Goroutine -> Stages]
          BY <1>3, <2>4, <3>3, StageKinds
        <4>2. req' \in [Goroutine -> Request] /\ heap' \in [Object -> SUBSET Mark]
              /\ \A q \in Goroutine : Aimed(req'[q])
          <5>1. CASE FilterQuery(g) \/ FilterHeaders(g)
            BY <1>3, <5>1, FilteredTyped DEF FilterQuery, FilterHeaders
          <5>2. CASE GraphQL(g)
            BY <5>2, GraphQLTyped
          <5>3. CASE Send(g)
            BY <1>3, <5>3, SendTyped
          <5>4. CASE Build(g) \/ Wait(g) \/ Balance(g)
            BY <1>3, <5>4, StageTyped
          <5>5. QED
            BY <2>4, <3>3, <5>1, <5>2, <5>3, <5>4 DEF Stage
        <4>3. sent' \in [Goroutine -> [headers : SUBSET Mark, body : SUBSET Mark, url : SUBSET Mark]]
          <5>1. CASE Send(g)
            BY <5>1, SendTyped
          <5>2. CASE ~Send(g)
            BY <1>3, <2>4, <5>2 DEF Stage, FilterQuery, Build, Spawn, Wait, Balance, FilterHeaders, GraphQL
          <5>3. QED
            BY <5>1, <5>2
        <4>4. url' \in [Goroutine -> SUBSET Mark]
          <5>1. CASE Balance(g)
            <6>1. req[g]["query"] \in Object
              BY <1>3, AimedFacts DEF Kind
            <6>2. heap[req[g]["query"]] \in SUBSET Mark
              BY <1>3, <6>1
            <6>3. QED
              BY <1>3, <5>1, <6>2 DEF Balance
          <5>2. CASE ~Balance(g)
            BY <1>3, <2>4, <5>2 DEF Stage, FilterQuery, Build, Spawn, Wait, Send, FilterHeaders, GraphQL
          <5>3. QED
            BY <5>1, <5>2
        <4>5. QED
          BY <1>3, <3>1, <4>1, <4>2, <4>3, <4>4
      <3>4. QED
        BY <3>2, <3>3
    <2>5. CASE UNCHANGED vars
      BY <1>3, <2>5 DEF vars
    <2>6. QED
      BY <2>1, <2>2, <2>3, <2>4, <2>5 DEF Next, Terminated
  <1>5. TypeOK'
    BY <1>1, <1>2, <1>4 DEF Types, TypeOK, Stages, Last
  <1>6. QED
    BY <1>1, <1>4, <1>5 DEF Types, Aimed

\* A goroutine that is started was idle, with all the calls of its backend.
LEMMA StartStaged ==
    ASSUME Types, Staged, cfg' = cfg, NEW b \in DOMAIN cfg.backends, pc[<<b, 0>>] = "idle",
           pc' = [pc EXCEPT ![<<b, 0>>] = First(b)]
    PROVE  /\ \A h \in Goroutine : pc'[h] # "idle" => Staging(h)'
           /\ pc'[<<b, 0>>] # "idle"
           /\ \A h \in Goroutine : h # <<b, 0>> => pc'[h] = pc[h]
  <1>1. pc \in [Goroutine -> Stages] /\ b \in 1..MaxB
    BY CfgFacts, BoundsAssumption DEF Types, TypeOK, Stages
  <1>2. PICK g \in Goroutine : g = <<b, 0>> /\ g[1] = b /\ g[2] = 0
    BY <1>1, GoroutineFacts, BoundsAssumption
  <1>3. pc' = [pc EXCEPT ![g] = First(b)] /\ pc[g] = "idle"
    BY <1>2
  <1>4. pc'[g] \in {"query", "build"} /\ \A h \in Goroutine \ {g} : pc'[h] = pc[h]
    BY <1>1, <1>3 DEF First
  <1>5. Staging(g)'
    BY <1>2, <1>4 DEF Staging, Calls
  <1>6. ASSUME NEW h \in Goroutine \ {g}, pc[h] # "idle" PROVE Staging(h)'
    <2>1. Staging(h)
      BY <1>6 DEF Staged
    <2>2. PICK z \in Goroutine : z = <<h[1], 0>>
      BY GoroutineFacts
    <2>3. h[2] # 0 => pc[z] # "idle"
      BY <2>1, <2>2 DEF Staging
    <2>4. h[2] # 0 => pc'[z] = pc[z]
      BY <1>3, <1>4, <2>2, <2>3
    <2>5. QED
      BY <1>4, <2>1, <2>2, <2>4 DEF Staging, Calls
  <1>7. QED
    BY <1>2, <1>4, <1>5, <1>6

\* A step keeps everybody where it may be.
LEMMA StepStaged ==
    ASSUME Types, Staged, [Next]_vars
    PROVE  Staged'
  <1>1. cfg' = cfg /\ Types'
    BY StepTypes
  <1>2. /\ Regular' = Regular /\ Shadow' = Shadow /\ Last \in Nat /\ Regular = 1..Last
        /\ DOMAIN cfg.backends = 1..Len(cfg.backends) /\ Last <= Len(cfg.backends)
        /\ cfg.shadow => Shadow = Last + 1 /\ Len(cfg.backends) = Last + 1
        /\ Len(cfg.backends) \in 1..MaxB /\ MaxB \in Nat
        /\ \A b \in Regular : b \in DOMAIN cfg.backends /\ <<b, 0>> \in Goroutine
        /\ main \in Nat /\ pc \in [Goroutine -> Stages]
    <2>1. cfg \in Configs
      BY DEF Types, TypeOK
    <2>2. /\ Last \in Nat /\ Regular = 1..Last /\ Len(cfg.backends) \in 1..MaxB
          /\ DOMAIN cfg.backends = 1..Len(cfg.backends) /\ MaxB \in Nat
          /\ Len(cfg.backends) = IF cfg.shadow THEN Last + 1 ELSE Last
      BY <2>1, CfgFacts, BoundsAssumption DEF Shadow
    <2>3. main \in Nat /\ pc \in [Goroutine -> Stages]
      BY <2>2 DEF Types, TypeOK, Last, Stages
    <2>4. \A b \in Regular : b \in DOMAIN cfg.backends /\ <<b, 0>> \in Goroutine
      BY <2>2, GoroutineFacts, BoundsAssumption
    <2>5. QED
      BY <1>1, <2>2, <2>3, <2>4 DEF Regular, Shadow
  <1>3. CASE StartShadow
    <2>1. /\ main = 0 /\ main' = 1 /\ cfg.shadow /\ pc[<<Shadow, 0>>] = "idle"
          /\ pc' = [pc EXCEPT ![<<Shadow, 0>>] = First(Shadow)] /\ Shadow \in DOMAIN cfg.backends
      BY <1>2, <1>3 DEF StartShadow, Start, Staged, InOrder
    <2>2. /\ \A h \in Goroutine : pc'[h] # "idle" => Staging(h)'
          /\ \A h \in Goroutine : h # <<Shadow, 0>> => pc'[h] = pc[h]
      BY <1>1, <2>1, StartStaged
    <2>3. ASSUME NEW b \in Regular PROVE pc'[<<b, 0>>] = pc[<<b, 0>>] /\ b \in 1..Last
      <3>1. b \in 1..Last /\ b # Shadow
        BY <1>2, <2>1
      <3>2. <<b, 0>> # <<Shadow, 0>>
        BY <3>1
      <3>3. QED
        BY <1>2, <2>2, <3>1, <3>2
    <2>4. \A b \in Regular : pc[<<b, 0>>] = "idle" <=> main <= b
      BY DEF Staged, InOrder
    <2>5. InOrder'
      BY <1>1, <1>2, <2>1, <2>3, <2>4 DEF InOrder
    <2>6. QED
      BY <2>2, <2>5 DEF Staged
  <1>4. CASE Dispatch
    <2>1. /\ main \in Regular /\ main' = main + 1
          /\ cfg.merge = "sequential" /\ main > 1 => pc[<<main - 1, 0>>] = "done"
          /\ pc' = [pc EXCEPT ![<<main, 0>>] = First(main)]
      BY <1>4 DEF Dispatch, Ready, Start
    <2>2. /\ \A b \in Regular : pc[<<b, 0>>] = "idle" <=> main <= b
          /\ cfg.merge = "sequential" => \A b \in Regular : b + 1 < main => pc[<<b, 0>>] = "done"
      BY DEF Staged, InOrder
    <2>3. pc[<<main, 0>>] = "idle"
      BY <1>2, <2>1, <2>2
    <2>4. /\ \A h \in Goroutine : pc'[h] # "idle" => Staging(h)'
          /\ pc'[<<main, 0>>] # "idle"
          /\ \A h \in Goroutine : h # <<main, 0>> => pc'[h] = pc[h]
      BY <1>1, <1>2, <2>1, <2>3, StartStaged
    <2>5. ASSUME NEW b \in Regular \ {main} PROVE pc'[<<b, 0>>] = pc[<<b, 0>>]
      <3>1. <<b, 0>> # <<main, 0>> /\ <<b, 0>> \in Goroutine
        BY <1>2
      <3>2. QED
        BY <2>4, <3>1, Zenon
    <2>6. ASSUME NEW b \in Regular PROVE pc'[<<b, 0>>] = "idle" <=> main' <= b
      <3>1. CASE b = main
        BY <1>2, <2>1, <2>4, <3>1
      <3>2. CASE b # main
        <4>1. main <= b <=> main + 1 <= b
          BY <1>2, <2>1, <3>2
        <4>2. pc'[<<b, 0>>] = pc[<<b, 0>>] /\ (pc[<<b, 0>>] = "idle" <=> main <= b)
          BY <2>2, <2>5, <3>2
        <4>3. QED
          BY <2>1, <4>1, <4>2
      <3>3. QED
        BY <3>1, <3>2
    <2>7. cfg.merge = "sequential" => \A b \in Regular : b + 1 < main' => pc'[<<b, 0>>] = "done"
      <3>1. SUFFICES ASSUME cfg.merge = "sequential", NEW b \in Regular, b + 1 < main + 1
                     PROVE  pc[<<b, 0>>] = "done" /\ b # main
        BY <2>1, <2>5
      <3>2. b + 1 < main \/ (b = main - 1 /\ main > 1)
        BY <1>2, <3>1
      <3>3. QED
        BY <1>2, <2>1, <2>2, <3>1, <3>2
    <2>8. QED
      BY <1>1, <1>2, <2>1, <2>4, <2>6, <2>7 DEF Staged, InOrder
  <1>5. CASE ResponseModifiers
    <2>1. main = Last + 1 /\ main' = main + 1 /\ pc' = pc /\ \A b \in Regular : pc[<<b, 0>>] = "done"
      BY <1>5 DEF ResponseModifiers, Returned, Last
    <2>2. InOrder'
      BY <1>1, <1>2, <2>1 DEF InOrder
    <2>3. QED
      BY <1>1, <2>1, <2>2 DEF Staged, Staging, Calls
  <1>6. ASSUME NEW g \in Goroutine, Stage(g) PROVE Staged'
    <2>1. main' = main
      BY <1>6 DEF Stage, FilterQuery, Build, Spawn, Wait, Balance, FilterHeaders, GraphQL, Send
    <2>2. ASSUME \A b \in Regular : /\ pc'[<<b, 0>>] = "idle" <=> pc[<<b, 0>>] = "idle"
                                    /\ pc[<<b, 0>>] = "done" => pc'[<<b, 0>>] = "done",
                 main = 0 /\ cfg.shadow => pc'[<<Shadow, 0>>] = pc[<<Shadow, 0>>]
          PROVE  InOrder'
      BY <1>1, <1>2, <2>1, <2>2 DEF Staged, InOrder
    <2>3. CASE Spawn(g)
      <3>1. pc[g] = "clone" /\ Staging(g)
        BY <2>3 DEF Spawn, Staged
      <3>2. g[2] = 0 /\ g[1] \in DOMAIN cfg.backends /\ Calls(g[1]) > 1
        BY <3>1 DEF Staging
      <3>3. PICK h \in Goroutine :
              /\ h[1] = g[1] /\ h[2] \in 1..Calls(g[1]) /\ pc[h] = "idle"
              /\ IF h[2] < Calls(g[1]) THEN pc' = [pc EXCEPT ![h] = "balance"]
                 ELSE pc' = [pc EXCEPT ![h] = "balance", ![g] = "wait"]
        BY <2>3, <3>2, SpawnFacts
      <3>4. g = <<g[1], 0>> /\ g # h /\ h[2] # 0 /\ Calls(g[1]) \in Nat
        <4>1. Calls(g[1]) \in 1..MaxCalls
          BY <3>2, CfgFacts DEF Types, TypeOK, Stack, Calls
        <4>2. QED
          <5>1. Calls(g[1]) \in Nat /\ h[2] # 0
            BY <3>3, <4>1, BoundsAssumption
          <5>2. g = <<g[1], 0>>
            BY <3>2, GoroutineFacts
          <5>3. QED
            BY <3>2, <5>1, <5>2
      <3>5. /\ pc'[h] = "balance" /\ \A q \in Goroutine \ {g, h} : pc'[q] = pc[q]
            /\ pc'[g] = IF h[2] < Calls(g[1]) THEN "clone" ELSE "wait"
        BY <1>2, <3>1, <3>3, <3>4
      <3>6. ASSUME NEW q \in Goroutine, pc'[q] # "idle" PROVE Staging(q)'
        <4>1. CASE q = g
          BY <1>1, <3>1, <3>2, <3>5, <4>1 DEF Staging, Calls
        <4>2. CASE q = h
          BY <1>1, <3>2, <3>3, <3>4, <3>5, <4>2 DEF Staging, Calls
        <4>3. CASE q \notin {g, h}
          <5>1. Staging(q) /\ pc'[q] = pc[q]
            BY <3>5, <3>6, <4>3 DEF Staged
          <5>2. PICK z \in Goroutine : z = <<q[1], 0>> /\ z[2] = 0
            BY GoroutineFacts, BoundsAssumption
          <5>3. z # h
            BY <3>4, <5>2
          <5>4. pc'[z] = pc[z] \/ z = g
            BY <3>5, <5>3
          <5>5. CASE z = g /\ q[2] # 0
            <6>1. q[1] = g[1] /\ q[2] \in Nat
              BY <5>2, <5>5, GoroutineFacts, BoundsAssumption
            <6>2. q[2] # Calls(q[1])
              BY <3>1, <5>1, <5>2, <5>5 DEF Staging
            <6>3. QED
              BY <1>1, <3>5, <5>1, <5>2, <5>5, <6>2 DEF Staging, Calls
          <5>6. CASE q[2] = 0 \/ pc'[z] = pc[z]
            BY <1>1, <5>1, <5>2, <5>6 DEF Staging, Calls
          <5>7. QED
            BY <5>4, <5>5, <5>6
        <4>4. QED
          BY <4>1, <4>2, <4>3
      <3>7. InOrder'
        <4>1. ASSUME NEW b \in Regular PROVE <<b, 0>> \in Goroutine /\ <<b, 0>> # h
          <5>1. <<b, 0>>[2] = 0
            OBVIOUS
          <5>2. QED
            BY <1>2, <3>4, <5>1
        <4>2. main = 0 /\ cfg.shadow => <<Shadow, 0>> \in Goroutine /\ <<Shadow, 0>> # h /\ <<Shadow, 0>> # g
          BY <1>2, <3>1, <3>4, GoroutineFacts, BoundsAssumption DEF Staged, InOrder
        <4>3. QED
          BY <2>2, <3>1, <3>5, <4>1, <4>2
      <3>8. QED
        BY <3>6, <3>7 DEF Staged
    <2>4. CASE ~Spawn(g)
      <3>1. PICK s \in Stages : pc' = [pc EXCEPT ![g] = s] /\ Leads(g, s)
        BY <1>6, <2>4, StageKinds
      <3>2. /\ pc[g] \notin {"idle", "done", "failed"} /\ s # "idle"
            /\ pc[g] = "wait" => s \in {"done", "failed"}
            /\ pc[g] # "clone"
        BY <3>1 DEF Leads, AfterBalance, AfterHeaders, AfterBuild
      <3>3. Staging(g)
        BY <3>2 DEF Staged
      <3>4. pc'[g] = s /\ \A q \in Goroutine \ {g} : pc'[q] = pc[q]
        BY <1>2, <3>1
      <3>5. g[1] \in DOMAIN cfg.backends /\ Calls(g[1]) \in Nat
        <4>1. g[1] \in DOMAIN cfg.backends
          BY <3>3 DEF Staging
        <4>2. QED
          BY <4>1, CfgFacts, BoundsAssumption DEF Types, TypeOK, Stack, Calls
      <3>6. ASSUME NEW q \in Goroutine, pc'[q] # "idle" PROVE Staging(q)'
        <4>1. PICK z \in Goroutine : z = <<q[1], 0>> /\ z[2] = 0
          BY GoroutineFacts, BoundsAssumption
        <4>2. CASE q = g
          <5>1. g[2] = 0 => pc'[g] \in {"query", "build", "done", "failed"} \cup
                     (IF Calls(g[1]) > 1 THEN {"clone", "wait"} ELSE {"balance", "headers", "graphql", "send"})
            BY <3>1, <3>3, <3>4, <3>5 DEF Staging, Leads, AfterBuild, AfterBalance, AfterHeaders, Calls
          <5>2. g[2] # 0 => pc'[g] \in {"balance", "headers", "graphql", "send", "done", "failed"}
            BY <3>1, <3>3, <3>4 DEF Staging, Leads, AfterBalance, AfterHeaders
          <5>3. pc'[g] = "graphql" => cfg.backends[g[1]].graphql # "none"
            BY <3>1, <3>4 DEF Leads, AfterBuild, AfterBalance, AfterHeaders
          <5>4. g[2] # 0 => pc'[z] = pc[z]
            BY <3>4, <4>1, <4>2
          <5>5. QED
            BY <1>1, <3>3, <4>1, <4>2, <5>1, <5>2, <5>3, <5>4 DEF Staging, Calls
        <4>3. CASE q # g
          <5>1. Staging(q) /\ pc'[q] = pc[q]
            BY <3>4, <3>6, <4>3 DEF Staged
          <5>2. q[2] # 0 /\ z = g => pc'[z] \in {"done", "failed"}
            BY <3>2, <3>4, <4>1, <5>1 DEF Staging
          <5>3. z # g => pc'[z] = pc[z]
            BY <3>4
          <5>4. QED
            BY <1>1, <4>1, <5>1, <5>2, <5>3 DEF Staging, Calls
        <4>4. QED
          BY <4>2, <4>3
      <3>7. InOrder'
        <4>1. main = 0 /\ cfg.shadow => <<Shadow, 0>> \in Goroutine /\ <<Shadow, 0>> # g
          BY <1>2, <3>2, GoroutineFacts, BoundsAssumption DEF Staged, InOrder
        <4>2. QED
          BY <1>2, <2>2, <3>2, <3>4, <4>1
      <3>8. QED
        BY <3>6, <3>7 DEF Staged
    <2>5. QED
      BY <2>3, <2>4
  <1>7. CASE UNCHANGED vars
    BY <1>1, <1>2, <1>7 DEF vars, Staged, InOrder, Staging, Calls
  <1>8. QED
    BY <1>3, <1>4, <1>5, <1>6, <1>7 DEF Next, Terminated

-----------------------------------------------------------------------------
(* Who made the objects a request points to                                *)

\* Only the one regular backend, or a stack handed a shallow copy, points to what came in.
FromOrigin(b, k) ==
    /\ ~(cfg.shadow /\ b = Shadow)
    /\ cfg.merge = "single" \/ (~Deep /\ k # "struct")

\* A call that is not the last has a request of its own; the last has that of its stack.
Owners(g, k) ==
    IF g[2] # 0 /\ g[2] < Calls(g[1]) THEN {g}
    ELSE {g, <<g[1], 0>>} \cup (IF FromOrigin(g[1], k) THEN {Origin} ELSE {})

Points ==
    \A g \in Goroutine : pc[g] # "idle" =>
        \A k \in Pointer \ {"query"} : req[g][k] \in {<<k, o>> : o \in Owners(g, k)}

\* The goroutines whose next step touches a request.
Active(g) == pc[g] \notin Over \cup {"wait"}

\* A goroutine may always point to objects of its own.
LEMMA OwnersFacts ==
    /\ \A g \in Goroutine, k \in Pointer : Owners(g, k) \subseteq Owner /\ g \in Owners(g, k)
    /\ cfg' = cfg => \A g \in Goroutine, k \in Pointer : Owners(g, k)' = Owners(g, k)
  <1>1. ASSUME NEW g \in Goroutine, NEW k \in Pointer
        PROVE  Owners(g, k) \subseteq Owner /\ g \in Owners(g, k)
    BY GoroutineFacts DEF Owners, Owner
  <1>2. ASSUME cfg' = cfg, NEW g \in Goroutine, NEW k \in Pointer
        PROVE  Owners(g, k)' = Owners(g, k)
    BY <1>2 DEF Owners, Calls, FromOrigin, Shadow, Deep, Regular
  <1>3. QED
    BY <1>1, <1>2

\* One goroutine gets a request, with objects that are its own or those of another it may point to.
LEMMA PointsKept ==
    ASSUME Points, cfg' = cfg, NEW g \in Goroutine,
           \A h \in Goroutine : pc'[h] # "idle" => pc[h] # "idle" \/ h = g,
           \A h \in Goroutine \ {g} : req'[h] = req[h],
           pc'[g] # "idle" => \A k \in Pointer \ {"query"} : req'[g][k] \in {<<k, o>> : o \in Owners(g, k)}
    PROVE  Points'
  <1>1. ASSUME NEW h \in Goroutine, pc'[h] # "idle", NEW k \in Pointer \ {"query"}
        PROVE  req'[h][k] \in {<<k, o>> : o \in Owners(h, k)}
    BY <1>1 DEF Points
  <1>2. \A h \in Goroutine, k \in Pointer : Owners(h, k)' = Owners(h, k)
    BY OwnersFacts
  <1>3. QED
    BY <1>1, <1>2 DEF Points

\* A step keeps who points to whose objects.
LEMMA StepPoints ==
    ASSUME Types, Staged, Points, [Next]_vars
    PROVE  Points'
  <1>1. cfg' = cfg /\ Types'
    BY StepTypes
  <1>2. /\ \A b \in Regular : b \in 1..MaxB /\ b \in DOMAIN cfg.backends /\ ~(cfg.shadow /\ b = Shadow)
        /\ Shadow \in 1..MaxB
        /\ pc \in [Goroutine -> Stages]
    <2>1. cfg \in Configs
      BY DEF Types, TypeOK
    <2>2. QED
      BY <2>1, CfgFacts, BoundsAssumption DEF Regular, Shadow, Types, TypeOK, Stages
  <1>3. CASE StartShadow
    <2>0. <<Shadow, 0>> \in Goroutine
      BY <1>2, BoundsAssumption DEF Goroutine
    <2>1. PICK g \in Goroutine : g = <<Shadow, 0>> /\ g[2] = 0
      BY <2>0
    <2>2. CloneRequest(g, Incoming) /\ pc' = [pc EXCEPT ![g] = First(Shadow)]
      BY <1>3, <2>1 DEF StartShadow, Start
    <2>3. /\ \A h \in Goroutine \ {g} : req'[h] = req[h]
          /\ \A k \in Pointer \ {"query"} : req'[g][k] = <<k, g>>
      BY <2>2, CloneTyped, IncomingAimed
    <2>4. \A h \in Goroutine \ {g} : pc'[h] = pc[h]
      BY <1>2, <2>2
    <2>5. QED
      BY <1>1, <2>3, <2>4, OwnersFacts, PointsKept
  <1>4. CASE Dispatch
    <2>1. main \in Regular
      BY <1>4 DEF Dispatch, Ready
    <2>0. <<main, 0>> \in Goroutine
      BY <1>2, <2>1, BoundsAssumption DEF Goroutine
    <2>2. PICK g \in Goroutine : g = <<main, 0>> /\ g[2] = 0 /\ g[1] = main
      BY <2>0
    <2>3. /\ pc' = [pc EXCEPT ![g] = First(main)]
          /\ IF cfg.merge # "single" /\ Deep THEN CloneRequest(g, Incoming)
             ELSE IF cfg.merge # "single" THEN Share(g, Incoming) ELSE Pass(g, Incoming)
      BY <1>4, <2>2 DEF Dispatch, Start
    <2>4. \A h \in Goroutine \ {g} : pc'[h] = pc[h]
      BY <1>2, <2>3
    <2>5. /\ \A h \in Goroutine \ {g} : req'[h] = req[h]
          /\ \A k \in Pointer \ {"query"} :
               req'[g][k] = <<k, g>> \/ (req'[g][k] = <<k, Origin>> /\ FromOrigin(main, k))
      <3>1. CASE cfg.merge # "single" /\ Deep
        BY <2>3, <3>1, CloneTyped, IncomingAimed
      <3>2. CASE cfg.merge # "single" /\ ~Deep
        <4>1. Share(g, Incoming)
          BY <2>3, <3>2
        <4>2. /\ \A h \in Goroutine \ {g} : req'[h] = req[h]
              /\ \A k \in Pointer : req'[g][k] = IF k = "struct" THEN <<k, g>> ELSE Incoming[k]
          BY <4>1, ShareTyped, IncomingAimed
        <4>3. \A k \in Pointer : Incoming[k] = <<k, Origin>>
          BY DEF Incoming
        <4>4. \A k \in Pointer \ {"struct"} : FromOrigin(main, k)
          BY <1>2, <2>1, <3>2 DEF FromOrigin
        <4>5. QED
          BY <4>2, <4>3, <4>4
      <3>3. CASE cfg.merge = "single"
        <4>1. Pass(g, Incoming)
          BY <2>3, <3>3
        <4>2. /\ \A h \in Goroutine \ {g} : req'[h] = req[h]
              /\ req'[g] = Incoming
          BY <4>1, PassTyped, IncomingAimed
        <4>3. \A k \in Pointer : Incoming[k] = <<k, Origin>>
          BY DEF Incoming
        <4>4. \A k \in Pointer : FromOrigin(main, k)
          BY <1>2, <2>1, <3>3 DEF FromOrigin
        <4>5. QED
          BY <4>2, <4>3, <4>4
      <3>4. QED
        BY <3>1, <3>2, <3>3
    <2>6. ASSUME NEW k \in Pointer \ {"query"} PROVE req'[g][k] \in {<<k, o>> : o \in Owners(g, k)}
      BY <2>2, <2>5 DEF Owners
    <2>7. QED
      BY <1>1, <2>4, <2>5, <2>6, PointsKept
  <1>5. ASSUME NEW g \in Goroutine, Stage(g) PROVE Points'
    <2>1. CASE Spawn(g)
      <3>1. pc[g] = "clone" /\ Staging(g)
        BY <2>1 DEF Spawn, Staged
      <3>2. g[2] = 0 /\ g[1] \in DOMAIN cfg.backends
        BY <3>1 DEF Staging
      <3>3. PICK h \in Goroutine :
              /\ h[1] = g[1] /\ h[2] \in 1..Calls(g[1]) /\ pc[h] = "idle"
              /\ IF h[2] < Calls(g[1]) THEN CloneRequest(h, req[g]) /\ pc' = [pc EXCEPT ![h] = "balance"]
                 ELSE Pass(h, req[g]) /\ pc' = [pc EXCEPT ![h] = "balance", ![g] = "wait"]
        BY <2>1, <3>2, SpawnFacts
      <3>4. g = <<g[1], 0>> /\ g # h
        BY <3>1, <3>2, <3>3, GoroutineFacts
      <3>5. \A q \in Goroutine : pc'[q] # "idle" => pc[q] # "idle" \/ q = h
        BY <1>2, <3>1, <3>3, <3>4
      <3>6. Aimed(req[g])
        BY DEF Types
      <3>7. \A q \in Goroutine \ {h} : req'[q] = req[q]
        BY <3>3, <3>6, CloneTyped, PassTyped
      <3>8. ASSUME NEW k \in Pointer \ {"query"} PROVE req'[h][k] \in {<<k, o>> : o \in Owners(h, k)}
        <4>1. CASE h[2] < Calls(g[1])
          <5>1. req'[h][k] = <<k, h>>
            BY <3>3, <3>6, <4>1, CloneTyped
          <5>2. QED
            BY <5>1, OwnersFacts
        <4>2. CASE ~(h[2] < Calls(g[1]))
          <5>1. req'[h] = req[g]
            BY <3>3, <3>6, <4>2, PassTyped
          <5>2. req[g][k] \in {<<k, o>> : o \in Owners(g, k)}
            BY <3>1 DEF Points
          <5>3. Owners(g, k) \subseteq Owners(h, k)
            BY <3>2, <3>3, <3>4, <4>2 DEF Owners
          <5>4. QED
            BY <5>1, <5>2, <5>3
        <4>3. QED
          BY <4>1, <4>2
      <3>9. QED
        BY <1>1, <3>5, <3>7, <3>8, PointsKept
    <2>2. CASE ~Spawn(g)
      <3>1. PICK s \in Stages : pc' = [pc EXCEPT ![g] = s] /\ Leads(g, s)
        BY <1>5, <2>2, StageKinds
      <3>2. pc[g] # "idle" /\ \A q \in Goroutine : pc'[q] # "idle" => pc[q] # "idle" \/ q = g
        BY <1>2, <3>1 DEF Leads
      <3>3. \A k \in Pointer \ {"query"} : req[g][k] \in {<<k, o>> : o \in Owners(g, k)}
        BY <3>2 DEF Points
      <3>4. /\ \A q \in Goroutine \ {g} : req'[q] = req[q]
            /\ \A k \in Pointer \ {"query"} : req'[g][k] \in {req[g][k], <<k, g>>}
        <4>1. CASE FilterQuery(g)
          <5>1. CASE Filtered(g, "query")
            BY <5>1, FilteredTyped DEF Pointer
          <5>2. CASE UNCHANGED <<req, heap>>
            BY <5>2
          <5>3. QED
            BY <4>1, <5>1, <5>2 DEF FilterQuery
        <4>2. CASE FilterHeaders(g)
          <5>1. CASE Filtered(g, "headers")
            BY <5>1, FilteredTyped DEF Pointer
          <5>2. CASE UNCHANGED <<req, heap>>
            BY <5>2
          <5>3. QED
            BY <4>2, <5>1, <5>2 DEF FilterHeaders
        <4>3. CASE GraphQL(g)
          BY <4>3, GraphQLTyped DEF Pointer
        <4>4. CASE Send(g)
          BY <4>4, SendTyped
        <4>5. CASE Build(g) \/ Wait(g) \/ Balance(g)
          BY <4>5, StageTyped
        <4>6. QED
          BY <1>5, <2>2, <4>1, <4>2, <4>3, <4>4, <4>5 DEF Stage
      <3>5. ASSUME NEW k \in Pointer \ {"query"} PROVE req'[g][k] \in {<<k, o>> : o \in Owners(g, k)}
        BY <3>3, <3>4, OwnersFacts
      <3>6. QED
        BY <1>1, <3>2, <3>4, <3>5, PointsKept
    <2>3. QED
      BY <2>1, <2>2
  <1>6. CASE UNCHANGED <<req, pc>>
    BY <1>1, <1>6, OwnersFacts DEF Points
  <1>7. QED
    BY <1>3, <1>4, <1>5, <1>6 DEF Next, Terminated, ResponseModifiers, vars

-----------------------------------------------------------------------------
(* Who may race                                                            *)

\* The numbers of the calls of a backend that runs.
LEMMA CountFacts ==
    ASSUME Types, NEW g \in Goroutine, Staging(g)
    PROVE  g[2] \in Nat /\ Calls(g[1]) \in Nat
  <1>1. g[1] \in DOMAIN cfg.backends
    BY DEF Staging
  <1>2. Calls(g[1]) \in 1..MaxCalls
    <2>1. cfg.backends[g[1]] \in Stack
      BY <1>1, CfgFacts DEF Types, TypeOK
    <2>2. QED
      BY <2>1 DEF Stack, Calls
  <1>3. g[2] \in 0..MaxCalls
    BY GoroutineFacts
  <1>4. QED
    BY <1>2, <1>3, BoundsAssumption

\* Another goroutine points to an object of g only if it is the last call of the stack g,
\* and the stack is waiting for its calls by then.
LEMMA Own ==
    ASSUME Types, Staged, Points, NEW g \in Goroutine, NEW h \in Goroutine, g # h, pc[h] # "idle",
           NEW k \in Pointer \ {"query"}, req[h][k] = <<k, g>>
    PROVE  /\ g = <<h[1], 0>> /\ h[2] # 0 /\ h[2] = Calls(h[1])
           /\ pc[g] \in {"wait", "done", "failed"}
  <1>1. PICK o \in Owners(h, k) : req[h][k] = <<k, o>>
    BY DEF Points
  <1>2. o = g
    BY <1>1
  <1>3. g # Origin
    BY GoroutineFacts, BoundsAssumption DEF Origin
  <1>4. g = <<h[1], 0>> /\ ~(h[2] # 0 /\ h[2] < Calls(h[1]))
    BY <1>1, <1>2, <1>3 DEF Owners
  <1>5. h[2] # 0
    BY <1>4, GoroutineFacts
  <1>6. Staging(h)
    BY DEF Staged
  <1>7. h[2] \in Nat /\ Calls(h[1]) \in Nat
    BY <1>6, CountFacts
  <1>8. h[2] = Calls(h[1])
    BY <1>4, <1>5, <1>6, <1>7 DEF Staging
  <1>9. QED
    BY <1>4, <1>5, <1>6, <1>8 DEF Staging

\* A goroutine that points to what came in runs for a regular backend, the only one if none is merged.
LEMMA Held ==
    ASSUME Types, Staged, Points, NEW g \in Goroutine, pc[g] # "idle",
           NEW k \in Pointer \ {"query"}, req[g][k] = <<k, Origin>>
    PROVE  /\ FromOrigin(g[1], k) /\ g[1] \in Regular
           /\ cfg.merge = "single" => g[1] = 1 /\ Last = 1
           /\ g[2] = 0 \/ g[2] = Calls(g[1])
  <1>1. PICK o \in Owners(g, k) : req[g][k] = <<k, o>>
    BY DEF Points
  <1>2. o = Origin
    BY <1>1
  <1>3. g # Origin /\ <<g[1], 0>> # Origin
    BY GoroutineFacts, BoundsAssumption DEF Origin
  <1>4. FromOrigin(g[1], k) /\ ~(g[2] # 0 /\ g[2] < Calls(g[1]))
    BY <1>1, <1>2, <1>3 DEF Owners
  <1>5. Staging(g)
    BY DEF Staged
  <1>6. g[1] \in Regular
    BY <1>4, <1>5, CfgFacts DEF Staging, FromOrigin, Regular, Shadow, Types, TypeOK
  <1>7. cfg.merge = "single" => g[1] = 1 /\ Last = 1
    BY <1>6, CfgFacts DEF Types, TypeOK
  <1>8. g[2] \in Nat /\ Calls(g[1]) \in Nat
    BY <1>5, CountFacts
  <1>9. g[2] = 0 \/ g[2] = Calls(g[1])
    BY <1>4, <1>5, <1>8 DEF Staging
  <1>10. QED
    BY <1>4, <1>6, <1>7, <1>9

\* Goroutines that run share an object only if it came in and the endpoint is not cloned deeply.
LEMMA Apart ==
    ASSUME Types, Staged, Points, NEW g \in Goroutine, NEW h \in Goroutine, g # h, Active(g), Active(h),
           NEW k \in Pointer \ {"query"}, req[g][k] = req[h][k]
    PROVE  ~Isolated /\ k # "struct"
  <1>1. PICK o \in Owners(g, k) : req[g][k] = <<k, o>>
    BY DEF Points, Active, Over
  <1>2. PICK p \in Owners(h, k) : req[h][k] = <<k, p>>
    BY DEF Points, Active, Over
  <1>3. o = p
    <2>1. <<k, o>>[2] = <<k, p>>[2]
      BY <1>1, <1>2
    <2>2. QED
      BY <2>1
  <1>4. pc[g] # "idle" /\ pc[h] # "idle" /\ Staging(g) /\ Staging(h)
    BY DEF Active, Over, Staged
  <1>5. o # g
    BY <1>1, <1>4, Own DEF Active, Over
  <1>6. o # h
    BY <1>2, <1>3, <1>4, Own DEF Active, Over
  <1>7. o \notin Goroutine
    <2>1. ASSUME o \in Goroutine PROVE FALSE
      <3>1. g[2] = Calls(g[1]) /\ o = <<g[1], 0>>
        BY <1>1, <1>4, <1>5, <2>1, Own
      <3>2. h[2] = Calls(h[1]) /\ o = <<h[1], 0>>
        BY <1>2, <1>3, <1>4, <1>6, <2>1, Own
      <3>3. g[1] = h[1] /\ g[2] = h[2]
        BY <3>1, <3>2
      <3>4. QED
        BY <3>3, GoroutineFacts
    <2>2. QED
      BY <2>1
  <1>8. o = Origin
    BY <1>1, <1>7, OwnersFacts DEF Owner
  <1>9. /\ FromOrigin(g[1], k) /\ (cfg.merge = "single" => g[1] = h[1])
        /\ g[2] = 0 \/ g[2] = Calls(g[1])
        /\ h[2] = 0 \/ h[2] = Calls(h[1])
    BY <1>1, <1>2, <1>3, <1>4, <1>8, Held
  <1>10. cfg.merge # "single"
    <2>1. ASSUME cfg.merge = "single" PROVE FALSE
      <3>0. g = <<g[1], g[2]>> /\ h = <<h[1], h[2]>>
        BY GoroutineFacts
      <3>1. g[1] = h[1] /\ g[2] # h[2]
        BY <1>9, <2>1, <3>0
      <3>2. PICK z \in Goroutine : z = <<g[1], 0>>
        BY GoroutineFacts
      <3>3. (g = z /\ h[2] # 0) \/ (h = z /\ g[2] # 0)
        BY <1>9, <3>1, <3>2, GoroutineFacts
      <3>4. pc[z] \in {"wait", "done", "failed"}
        BY <1>4, <1>9, <3>1, <3>2, <3>3 DEF Staging
      <3>5. QED
        BY <3>3, <3>4 DEF Active, Over
    <2>2. QED
      BY <2>1
  <1>11. QED
    BY <1>9, <1>10 DEF FromOrigin, Isolated

\* What a stage touches is an object of its request.
LEMMA TouchFacts ==
    ASSUME Types, Staged, NEW g \in Goroutine, NEW y \in Touches(g)
    PROVE  /\ Active(g)
           /\ \E k \in Pointer :
                /\ y[1] = req[g][k] /\ y[1][1] = k
                /\ k = "headers" /\ y[2] = "write" => WithGraphQL # {}
                /\ k = "params" =>
                     /\ y[2] = "read" /\ pc[g] \in {"build", "clone", "graphql"}
                     /\ pc[g] = "graphql" => WithGraphQL # {}
                /\ k = "body" => cfg.body
                /\ k = "query" /\ y[2] = "write" => \E s \in WithGraphQL : s.get
  <1>1. pc[g] \in {"query", "build", "clone", "balance", "headers", "graphql", "send"}
    BY DEF Touches
  <1>2. \A k \in Pointer : req[g][k][1] = k
    BY DEF Types, Aimed
  <1>3. ASSUME NEW kinds \in SUBSET Pointer
        PROVE  /\ \A x \in Reads(req[g], kinds) : \E k \in kinds : x[1] = req[g][k] /\ x[2] = "read"
               /\ \A x \in Writes(req[g], kinds) : \E k \in kinds : x[1] = req[g][k] /\ x[2] = "write"
    BY DEF Reads, Writes
  <1>4. \A x \in Body(req[g]) : x[1] = req[g]["body"] /\ cfg.body
    BY DEF Body, Writes
  <1>5. PICK k \in Pointer :
          /\ y[1] = req[g][k] /\ y[2] \in {"read", "write"}
          /\ k = "headers" /\ y[2] = "write" => pc[g] = "graphql"
          /\ k = "params" => y[2] = "read" /\ pc[g] \in {"build", "clone", "graphql"}
          /\ k = "body" => cfg.body
          /\ k = "query" /\ y[2] = "write" => pc[g] = "graphql" /\ cfg.backends[g[1]].get
    <2>1. CASE pc[g] = "query"
      <3>1. y \in Reads(req[g], {"struct", "query"})
        BY <2>1 DEF Touches
      <3>2. QED
        BY <1>3, <3>1 DEF Pointer, Kind
    <2>2. CASE pc[g] = "build"
      <3>1. y \in Reads(req[g], {"params"}) \/ y \in Writes(req[g], {"struct"})
        BY <2>2 DEF Touches
      <3>2. QED
        BY <1>3, <2>2, <3>1 DEF Pointer, Kind
    <2>3. CASE pc[g] = "clone"
      <3>1. \/ y \in Reads(req[g], {"headers", "params"}) \/ y \in Writes(req[g], {"struct"})
            \/ y \in Body(req[g])
        BY <2>3 DEF Touches, Cloning
      <3>2. CASE y \in Body(req[g])
        BY <1>4, <3>2 DEF Pointer, Kind, Body, Writes
      <3>3. QED
        BY <1>3, <2>3, <3>1, <3>2 DEF Pointer, Kind
    <2>4. CASE pc[g] = "balance"
      <3>1. y \in Reads(req[g], {"query"}) \/ y \in Writes(req[g], {"struct"})
        BY <2>4 DEF Touches
      <3>2. QED
        BY <1>3, <3>1 DEF Pointer, Kind
    <2>5. CASE pc[g] = "headers"
      <3>1. y \in Reads(req[g], {"struct", "headers"})
        BY <2>5 DEF Touches
      <3>2. QED
        BY <1>3, <3>1 DEF Pointer, Kind
    <2>6. CASE pc[g] = "graphql"
      <3>1. \/ y \in Reads(req[g], {"params"}) \/ y \in Body(req[g])
            \/ y \in Writes(req[g], {"struct", "headers"})
            \/ y \in Writes(req[g], {"query"}) /\ cfg.backends[g[1]].get
        <4>1. \/ y \in Reads(req[g], {"params"}) \/ y \in Body(req[g])
              \/ y \in Writes(req[g], {"struct", "headers"} \cup (IF cfg.backends[g[1]].get THEN {"query"} ELSE {}))
          BY <2>6 DEF Touches, GraphQLTouches
        <4>2. QED
          BY <4>1 DEF Writes
      <3>2. CASE y \in Body(req[g])
        BY <1>4, <3>2 DEF Pointer, Kind, Body, Writes
      <3>3. QED
        BY <1>3, <2>6, <3>1, <3>2 DEF Pointer, Kind
    <2>7. CASE pc[g] = "send"
      <3>1. y \in Reads(req[g], {"struct", "headers"}) \/ y \in Body(req[g])
        BY <2>7 DEF Touches
      <3>2. CASE y \in Body(req[g])
        BY <1>4, <3>2 DEF Pointer, Kind, Body, Writes
      <3>3. QED
        BY <1>3, <3>1, <3>2 DEF Pointer, Kind
    <2>8. QED
      BY <1>1, <2>1, <2>2, <2>3, <2>4, <2>5, <2>6, <2>7
  <1>6. pc[g] = "graphql" => cfg.backends[g[1]] \in WithGraphQL
    BY DEF Staged, Staging, WithGraphQL, Stacks
  <1>7. QED
    BY <1>1, <1>2, <1>5, <1>6 DEF Active, Over

\* The goroutine of the endpoint is about to clone what came in.
Copying == main = 0 \/ (Ready /\ cfg.merge # "single" /\ Deep)

\* All it touches is what came in.
LEMMA MainTouchFacts ==
    ASSUME NEW y \in MainTouches
    PROVE  \E k \in Pointer \ {"query"} :
             /\ y[1] = <<k, Origin>>
             /\ \/ Copying
                \/ k = "struct" /\ y[2] = "read" /\ (Returned \/ Ready)
                \/ k = "params" /\ Ready /\ cfg.merge = "sequential" /\ main > 1
             /\ k = "body" => cfg.body
             /\ y[2] = "write" => k # "headers"
  <1>1. ASSUME NEW kinds \in SUBSET Pointer
        PROVE  /\ \A x \in Reads(Incoming, kinds) : \E k \in kinds : x[1] = <<k, Origin>> /\ x[2] = "read"
               /\ \A x \in Writes(Incoming, kinds) : \E k \in kinds : x[1] = <<k, Origin>> /\ x[2] = "write"
    <2>1. \A k \in kinds : Incoming[k] = <<k, Origin>>
      BY DEF Incoming
    <2>2. QED
      BY <2>1 DEF Reads, Writes
  <1>2. \A x \in Body(Incoming) : x[1] = <<"body", Origin>> /\ cfg.body
    BY DEF Body, Writes, Incoming, Pointer, Kind
  <1>3. CASE y \in Cloning(Incoming) /\ Copying
    <2>1. \/ y \in Reads(Incoming, {"headers", "params"}) \/ y \in Writes(Incoming, {"struct"})
          \/ y \in Body(Incoming)
      BY <1>3 DEF Cloning
    <2>2. CASE y \in Body(Incoming)
      BY <1>2, <1>3, <2>2 DEF Pointer, Kind
    <2>3. QED
      BY <1>1, <1>3, <2>1, <2>2 DEF Pointer, Kind
  <1>4. CASE y \in Reads(Incoming, {"struct"}) /\ (Returned \/ Ready)
    BY <1>1, <1>4 DEF Pointer, Kind
  <1>5. CASE y \in Writes(Incoming, {"params"}) /\ Ready /\ cfg.merge = "sequential" /\ main > 1
    BY <1>1, <1>5 DEF Pointer, Kind
  <1>6. QED
    BY <1>3, <1>4, <1>5 DEF MainTouches, Copying

\* No stack runs yet that points to what came in while that is being copied.
LEMMA NotCopied ==
    ASSUME Types, Staged, Points, NEW g \in Goroutine, Active(g), NEW k \in Pointer \ {"query"},
           req[g][k] = <<k, Origin>>
    PROVE  /\ ~Copying
           /\ Ready => cfg.merge # "single"
           /\ Ready /\ cfg.merge = "sequential" /\ main > 1 => g[2] # 0
           /\ Returned /\ cfg.merge = "single" => g[2] # 0
  <1>1. pc[g] # "idle" /\ Staging(g) /\ pc[g] # "done"
    BY DEF Active, Over, Staged
  <1>2. /\ FromOrigin(g[1], k) /\ g[1] \in Regular
        /\ cfg.merge = "single" => g[1] = 1 /\ Last = 1
        /\ g[2] = 0 \/ g[2] = Calls(g[1])
    BY <1>1, Held
  <1>3. Last \in Nat /\ Regular = 1..Last
    BY CfgFacts DEF Types, TypeOK
  <1>4. main \in Nat
    BY <1>3 DEF Types, TypeOK, Last
  <1>5. PICK z \in Goroutine : z = <<g[1], 0>> /\ (g[2] = 0 => g = z)
    BY GoroutineFacts
  <1>6. pc[z] # "idle"
    BY <1>1, <1>5 DEF Staging
  <1>7. \A b \in Regular : pc[<<b, 0>>] = "idle" <=> main <= b
    BY DEF Staged, InOrder
  <1>8. ~(main <= g[1])
    BY <1>2, <1>5, <1>6, <1>7
  <1>9. main # 0 /\ (Ready => cfg.merge # "single")
    BY <1>2, <1>3, <1>4, <1>8 DEF Ready
  <1>10. ~Copying
    BY <1>2, <1>9 DEF Copying, FromOrigin
  <1>11. ASSUME Ready, cfg.merge = "sequential", main > 1, g[2] = 0 PROVE FALSE
    <2>1. main \in Regular /\ pc[<<main - 1, 0>>] = "done"
      BY <1>11 DEF Ready
    <2>2. g[1] = main - 1 \/ g[1] + 1 < main
      BY <1>2, <1>3, <1>4, <1>8
    <2>3. \A b \in Regular : b + 1 < main => pc[<<b, 0>>] = "done"
      BY <1>11 DEF Staged, InOrder
    <2>4. pc[z] = "done"
      BY <1>2, <1>5, <2>1, <2>2, <2>3
    <2>5. QED
      BY <1>1, <1>5, <1>11, <2>4
  <1>12. ASSUME Returned, g[2] = 0 PROVE FALSE
    BY <1>1, <1>2, <1>5, <1>12 DEF Returned
  <1>13. QED
    BY <1>9, <1>10, <1>11, <1>12

\* Two goroutines that conflict touch one object, and one of them writes.
LEMMA ConflictFacts ==
    ASSUME NEW s, NEW t, NEW o \in Conflicts(s, t)
    PROVE  \E y \in s, z \in t : o = y[1] /\ o = z[1] /\ (y[2] = "write" \/ z[2] = "write")
  BY DEF Conflicts

\* What is raced for is an object of two goroutines, or of one and of that of the endpoint.
LEMMA RacedFacts ==
    ASSUME NEW o \in Raced
    PROVE  \E g \in Goroutine :
             \/ o \in Conflicts(Touches(g), MainTouches)
             \/ \E h \in Goroutine : g # h /\ o \in Conflicts(Touches(g), Touches(h))
  <1> DEFINE alive == {g \in Goroutine : pc[g] \notin Over}
             touch == [g \in alive |-> Touches(g)]
             pairs == {q \in alive \X alive : q[1] # q[2]}
  <1>1. \/ o \in UNION {Conflicts(touch[g], MainTouches) : g \in alive}
        \/ o \in UNION {Conflicts(touch[p[1]], touch[p[2]]) : p \in pairs}
    BY DEF Raced
  <1>2. \A g \in alive : touch[g] = Touches(g) /\ g \in Goroutine
    OBVIOUS
  <1> HIDE DEF alive, touch
  <1>3. CASE o \in UNION {Conflicts(touch[g], MainTouches) : g \in alive}
    BY <1>2, <1>3
  <1>4. CASE o \in UNION {Conflicts(touch[p[1]], touch[p[2]]) : p \in pairs}
    <2>1. PICK p \in pairs : o \in Conflicts(touch[p[1]], touch[p[2]])
      BY <1>4
    <2>2. p[1] \in alive /\ p[2] \in alive /\ p[1] # p[2]
      OBVIOUS
    <2>3. QED
      BY <1>2, <2>1, <2>2
  <1>5. QED
    BY <1>1, <1>3, <1>4

\* The races there may be.
LEMMA RacesAre ==
    ASSUME Types, Staged, Points
    PROVE  RacesExplained
  <1>1. SUFFICES ASSUME NEW o \in Raced
                 PROVE  \/ o[1] = "struct" /\ cfg.merge = "single" /\ cfg.modifier
                           /\ \E b \in Regular : cfg.backends[b].calls > 1
                        \/ o[1] = "headers" /\ ~Isolated /\ WithGraphQL # {}
                        \/ o[1] = "params" /\ ~Isolated /\ cfg.merge = "sequential" /\ WithGraphQL # {}
                        \/ o[1] = "body" /\ ~Isolated /\ cfg.body
                        \/ o[1] = "query" /\ \E s \in WithGraphQL : s.get
    BY DEF RacesExplained
  <1>2. PICK g \in Goroutine :
             \/ o \in Conflicts(Touches(g), MainTouches)
             \/ \E h \in Goroutine : g # h /\ o \in Conflicts(Touches(g), Touches(h))
    BY RacedFacts
  <1>3. CASE o \in Conflicts(Touches(g), MainTouches)
    <2>1. PICK y \in Touches(g), z \in MainTouches :
             o = y[1] /\ o = z[1] /\ (y[2] = "write" \/ z[2] = "write")
      BY <1>3, ConflictFacts
    <2>2. PICK k \in Pointer :
                /\ y[1] = req[g][k] /\ y[1][1] = k
                /\ k = "headers" /\ y[2] = "write" => WithGraphQL # {}
                /\ k = "params" =>
                     /\ y[2] = "read" /\ pc[g] \in {"build", "clone", "graphql"}
                     /\ pc[g] = "graphql" => WithGraphQL # {}
      BY TouchFacts
    <2>3. Active(g)
      BY TouchFacts
    <2>4. PICK m \in Pointer \ {"query"} :
             /\ z[1] = <<m, Origin>>
             /\ \/ Copying
                \/ m = "struct" /\ z[2] = "read" /\ (Returned \/ Ready)
                \/ m = "params" /\ Ready /\ cfg.merge = "sequential" /\ main > 1
      BY MainTouchFacts
    <2>5. o[1] = k /\ m = k /\ req[g][k] = <<k, Origin>>
      <3>1. o = req[g][k] /\ o = <<m, Origin>> /\ o[1] = k
        BY <2>1, <2>2, <2>4
      <3>2. <<m, Origin>>[1] = m
        OBVIOUS
      <3>3. QED
        BY <3>1, <3>2
    <2>6. /\ ~Copying
          /\ Ready => cfg.merge # "single"
          /\ Ready /\ cfg.merge = "sequential" /\ main > 1 => g[2] # 0
          /\ Returned /\ cfg.merge = "single" => g[2] # 0
      BY <2>3, <2>4, <2>5, NotCopied
    <2>7. pc[g] # "idle" /\ Staging(g)
      BY <2>3 DEF Active, Over, Staged
    <2>8. FromOrigin(g[1], k) /\ g[1] \in Regular /\ g[2] \in {0, Calls(g[1])}
      BY <2>4, <2>5, <2>7, Held
    <2>9. CASE k = "struct" /\ (Returned \/ Ready)
      <3>1. cfg.merge = "single" /\ Returned /\ g[2] # 0
        BY <2>6, <2>8, <2>9 DEF FromOrigin
      <3>2. Calls(g[1]) > 1
        BY <2>7, <3>1 DEF Staging
      <3>3. QED
        BY <2>5, <2>8, <2>9, <3>1, <3>2 DEF Returned, Calls
    <2>10. CASE k = "params" /\ Ready /\ cfg.merge = "sequential" /\ main > 1
      <3>1. ~Isolated
        BY <2>8, <2>10 DEF FromOrigin, Isolated
      <3>2. pc[g] = "graphql"
        BY <2>2, <2>6, <2>7, <2>10 DEF Staging
      <3>3. QED
        BY <2>2, <2>5, <2>10, <3>1, <3>2
    <2>11. QED
      BY <2>4, <2>5, <2>6, <2>9, <2>10
  <1>4. ASSUME NEW h \in Goroutine, g # h, o \in Conflicts(Touches(g), Touches(h))
        PROVE  \/ o[1] = "headers" /\ ~Isolated /\ WithGraphQL # {}
               \/ o[1] = "body" /\ ~Isolated /\ cfg.body
               \/ o[1] = "query" /\ \E s \in WithGraphQL : s.get
    <2>1. PICK y \in Touches(g), z \in Touches(h) :
             o = y[1] /\ o = z[1] /\ (y[2] = "write" \/ z[2] = "write")
      BY <1>4, ConflictFacts
    <2>2. PICK k \in Pointer :
                /\ y[1] = req[g][k] /\ y[1][1] = k
                /\ k = "headers" /\ y[2] = "write" => WithGraphQL # {}
                /\ k = "params" => y[2] = "read"
                /\ k = "body" => cfg.body
                /\ k = "query" /\ y[2] = "write" => \E s \in WithGraphQL : s.get
      BY TouchFacts
    <2>3. PICK m \in Pointer :
                /\ z[1] = req[h][m] /\ z[1][1] = m
                /\ m = "headers" /\ z[2] = "write" => WithGraphQL # {}
                /\ m = "params" => z[2] = "read"
                /\ m = "query" /\ z[2] = "write" => \E s \in WithGraphQL : s.get
      BY TouchFacts
    <2>4. Active(g) /\ Active(h) /\ o[1] = k /\ m = k /\ req[g][k] = req[h][k]
      <3>1. Active(g) /\ Active(h)
        BY TouchFacts
      <3>2. o = req[g][k] /\ o = req[h][m]
        BY <2>1, <2>2, <2>3
      <3>3. o[1] = k /\ o[1] = m
        BY <2>1, <2>2, <2>3
      <3>4. QED
        BY <3>1, <3>2, <3>3
    <2>5. k # "query" => ~Isolated /\ k # "struct"
      BY <1>4, <2>4, Apart
    <2>6. k # "params"
      BY <2>1, <2>2, <2>3, <2>4
    <2>7. QED
      BY <2>1, <2>2, <2>3, <2>4, <2>5, <2>6 DEF Pointer, Kind
  <1>5. QED
    BY <1>2, <1>3, <1>4

-----------------------------------------------------------------------------
(* What is in the objects                                                  *)

Whole == IF cfg.body THEN {"client"} ELSE {}

\* The body a backend is to be sent.
Final(b) ==
    IF cfg.backends[b].graphql # "none" THEN IF cfg.backends[b].get THEN {} ELSE {"graphql"} ELSE Whole

\* Until GraphQL or Send, a request has the body and the headers of the client.
Content(g) ==
    /\ Active(g) /\ pc[g] # "send" =>
         heap[req[g]["body"]] = Whole /\ "graphql" \notin heap[req[g]["headers"]]
    /\ pc[g] = "send" =>
         /\ heap[req[g]["body"]] = Final(g[1])
         /\ "graphql" \in heap[req[g]["headers"]] <=> cfg.backends[g[1]].graphql # "none"
    /\ sent[g] # NotSent =>
         /\ pc[g] \in {"done", "failed"} /\ sent[g].body = Final(g[1])
         /\ "graphql" \in sent[g].headers <=> cfg.backends[g[1]].graphql # "none"

\* What came in stays as it is, as long as it is still to be copied.
Contents ==
    Isolated =>
        /\ \A g \in Goroutine : Content(g)
        /\ cfg.merge = "single" => (main <= 1 =>
              heap[<<"body", Origin>>] = Whole /\ "graphql" \notin heap[<<"headers", Origin>>])
        /\ cfg.merge # "single" =>
              heap[<<"body", Origin>>] = Whole /\ "graphql" \notin heap[<<"headers", Origin>>]

\* A goroutine is not disturbed by what happens to objects that are not its own.
LEMMA ContentKept ==
    ASSUME NEW h \in Goroutine, Content(h), cfg' = cfg, pc'[h] = pc[h], sent'[h] = sent[h], req'[h] = req[h],
           Active(h) => /\ heap'[req[h]["body"]] = heap[req[h]["body"]]
                        /\ heap'[req[h]["headers"]] = heap[req[h]["headers"]]
    PROVE  Content(h)'
  <1>1. Whole' = Whole /\ Final(h[1])' = Final(h[1]) /\ Active(h)' = Active(h)
    BY DEF Whole, Final, Active
  <1>2. pc[h] = "send" => Active(h)
    BY DEF Active, Over
  <1>3. QED
    BY <1>1, <1>2 DEF Content

\* A stage writes to the objects of its own request only, or to new ones.
LEMMA StageFrame ==
    ASSUME Types, NEW g \in Goroutine, Stage(g), ~Spawn(g)
    PROVE  /\ cfg' = cfg /\ main' = main
           /\ \A h \in Goroutine \ {g} : req'[h] = req[h] /\ sent'[h] = sent[h] /\ pc'[h] = pc[h]
           /\ \A o \in Object : o[2] # g /\ (\A k \in Kind : o # req[g][k]) => heap'[o] = heap[o]
           /\ ~Active(g) => heap' = heap
  <1>1. /\ cfg' = cfg /\ main' = main
        /\ \A h \in Goroutine \ {g} : pc'[h] = pc[h]
    <2>1. PICK s \in Stages : pc' = [pc EXCEPT ![g] = s] /\ Leads(g, s)
      BY StageKinds
    <2>2. cfg' = cfg /\ main' = main
      BY DEF Stage, FilterQuery, Build, Spawn, Wait, Balance, FilterHeaders, GraphQL, Send
    <2>3. QED
      BY <2>1, <2>2 DEF Types, TypeOK
  <1>2. CASE FilterQuery(g) \/ FilterHeaders(g)
    <2>1. PICK kind \in {"query", "headers"} : Filtered(g, kind) \/ UNCHANGED <<req, heap>>
      BY <1>2 DEF FilterQuery, FilterHeaders
    <2>2. sent' = sent /\ Active(g)
      BY <1>2 DEF FilterQuery, FilterHeaders, Active, Over
    <2>3. CASE Filtered(g, kind)
      <3>1. \A o \in Object : o[2] # g => o # <<kind, g>>
        OBVIOUS
      <3>2. QED
        BY <1>1, <2>2, <2>3, <3>1, FilteredTyped
    <2>4. QED
      BY <1>1, <2>1, <2>2, <2>3
  <1>3. CASE GraphQL(g)
    <2>1. sent' = sent /\ Active(g)
      BY <1>3 DEF GraphQL, Active, Over
    <2>2. /\ \A h \in Goroutine \ {g} : req'[h] = req[h]
          /\ \A o \in Object \ {<<"body", g>>, req[g]["body"], req[g]["headers"], req[g]["query"]} :
               heap'[o] = heap[o]
      BY <1>3, GraphQLTyped
    <2>3. \A o \in Object : o[2] # g => o # <<"body", g>>
      OBVIOUS
    <2>4. QED
      BY <1>1, <2>1, <2>2, <2>3 DEF Kind
  <1>4. CASE Send(g)
    <2>1. Active(g)
      BY <1>4 DEF Send, Active, Over
    <2>2. /\ req' = req /\ \A o \in Object \ {req[g]["body"]} : heap'[o] = heap[o]
          /\ \A h \in Goroutine \ {g} : sent'[h] = sent[h]
      BY <1>4, SendTyped DEF Types, TypeOK
    <2>3. QED
      BY <1>1, <2>1, <2>2 DEF Kind
  <1>5. CASE Build(g) \/ Wait(g) \/ Balance(g)
    BY <1>1, <1>5 DEF Build, Wait, Balance
  <1>6. QED
    BY <1>2, <1>3, <1>4, <1>5 DEF Stage

\* The objects of another request, where requests are cloned.
LEMMA Disjoint ==
    ASSUME Types, Staged, Points, Isolated, NEW g \in Goroutine, NEW h \in Goroutine, g # h, Active(g), Active(h),
           NEW k \in {"body", "headers"}
    PROVE  req[h][k] \in Object /\ req[h][k][2] # g /\ \A m \in Kind : req[h][k] # req[g][m]
  <1>1. k \in Pointer \ {"query"} /\ k \in Kind
    BY DEF Pointer, Kind
  <1>2. PICK o \in Owner : req[h][k] = <<k, o>>
    BY <1>1, AimedFacts DEF Types
  <1>3. o # g
    <2>1. o = g => pc[g] \in {"wait", "done", "failed"}
      BY <1>1, <1>2, Own DEF Active, Over
    <2>2. QED
      BY <2>1 DEF Active, Over
  <1>4. req[h][k][2] = o
    BY <1>2
  <1>5. req[h][k] # req[g][k]
    BY <1>1, Apart
  <1>6. ASSUME NEW m \in Kind \ {k} PROVE req[h][k] # req[g][m]
    <2>1. req[h][k][1] = k /\ req[g][m][1] = m
      BY <1>1 DEF Types, Aimed, Pointer
    <2>2. QED
      BY <2>1
  <1>7. req[h][k] \in Object
    BY <1>1, AimedFacts DEF Types
  <1>8. QED
    BY <1>3, <1>4, <1>5, <1>6, <1>7

\* What came in is no object of a request that is worked on, while it is still to be copied.
LEMMA OriginKept ==
    ASSUME Types, Staged, Points, Isolated, cfg.merge = "single" => main <= 1,
           NEW g \in Goroutine, Active(g), NEW k \in {"body", "headers"}
    PROVE  /\ <<k, Origin>> \in Object /\ <<k, Origin>>[2] # g
           /\ \A m \in Kind : <<k, Origin>> # req[g][m]
  <1>1. k \in Pointer \ {"query"} /\ k \in Kind
    BY DEF Pointer, Kind
  <1>2. Origin # g /\ <<k, Origin>> \in Object
    BY <1>1, GoroutineFacts, BoundsAssumption DEF Origin, Object, Owner
  <1>3. pc[g] # "idle" /\ Staging(g)
    BY DEF Active, Over, Staged
  <1>4. ASSUME req[g][k] = <<k, Origin>> PROVE FALSE
    <2>1. /\ FromOrigin(g[1], k) /\ g[1] \in Regular
          /\ cfg.merge = "single" => g[1] = 1
      BY <1>1, <1>3, <1>4, Held
    <2>2. cfg.merge = "single" /\ g[1] = 1 /\ main <= 1
      BY <2>1 DEF FromOrigin, Isolated
    <2>3. PICK z \in Goroutine : z = <<g[1], 0>> /\ (g[2] = 0 => g = z)
      BY GoroutineFacts
    <2>4. pc[z] = "idle"
      BY <2>1, <2>2, <2>3 DEF Staged, InOrder
    <2>5. QED
      BY <1>3, <2>3, <2>4 DEF Staging
  <1>5. ASSUME NEW m \in Kind \ {k} PROVE <<k, Origin>> # req[g][m]
    <2>1. req[g][m][1] = m /\ <<k, Origin>>[1] = k
      BY DEF Types, Aimed, Pointer
    <2>2. QED
      BY <2>1
  <1>6. QED
    BY <1>2, <1>4, <1>5

\* What a stage leaves to the next one.
LEMMA StageContent ==
    ASSUME Types, Staged, NEW g \in Goroutine, Content(g), Stage(g), ~Spawn(g)
    PROVE  Content(g)'
  <1>1. PICK s \in Stages : pc' = [pc EXCEPT ![g] = s] /\ Leads(g, s)
    BY StageKinds
  <1>2. cfg' = cfg /\ pc'[g] = s
    BY <1>1, StageFrame DEF Types, TypeOK
  <1>3. Whole' = Whole /\ Final(g[1])' = Final(g[1])
    BY <1>2 DEF Whole, Final
  <1>4. pc[g] \notin {"done", "failed"} /\ sent[g] = NotSent
    BY <1>1 DEF Content, Leads
  <1>5. PICK b, d : b = req[g]["body"] /\ d = req[g]["headers"]
    OBVIOUS
  <1>6. /\ b \in Object /\ b[1] = "body" /\ d \in Object /\ d[1] = "headers"
    BY <1>5, AimedFacts DEF Types, Aimed, Kind, Pointer
  <1>7. ASSUME Active(g), s # "send", sent'[g] = NotSent, req'[g]["body"] = b,
               heap'[b] = heap[b], "graphql" \in heap'[req'[g]["headers"]] <=> "graphql" \in heap[d],
               pc[g] # "send"
        PROVE  Content(g)'
    BY <1>2, <1>3, <1>5, <1>7 DEF Content
  <1>8. ASSUME Active(g), s = "send", pc[g] \notin {"graphql", "send"}, sent'[g] = NotSent, req'[g]["body"] = b,
               heap'[b] = heap[b], "graphql" \in heap'[req'[g]["headers"]] <=> "graphql" \in heap[d]
        PROVE  Content(g)'
    <2>1. cfg.backends[g[1]].graphql = "none"
      BY <1>1, <1>8 DEF Leads, AfterBuild, AfterBalance, AfterHeaders
    <2>2. Final(g[1]) = Whole
      BY <2>1 DEF Final
    <2>3. heap[b] = Whole /\ "graphql" \notin heap[d]
      BY <1>5, <1>8 DEF Content
    <2>4. QED
      BY <1>2, <1>3, <1>8, <2>1, <2>2, <2>3 DEF Content
  <1>9. CASE FilterQuery(g) \/ FilterHeaders(g)
    <2>1. PICK kind \in {"query", "headers"} : Filtered(g, kind) \/ UNCHANGED <<req, heap>>
      BY <1>9 DEF FilterQuery, FilterHeaders
    <2>2. sent' = sent /\ Active(g) /\ pc[g] \in {"query", "headers"}
      BY <1>9 DEF FilterQuery, FilterHeaders, Active, Over
    <2>3. /\ req'[g]["body"] = b /\ heap'[b] = heap[b]
          /\ heap'[req'[g]["headers"]] = heap[d]
      <3>1. CASE Filtered(g, kind)
        <4>1. /\ \A k \in Pointer : req'[g][k] = IF k \in {kind, "struct"} THEN <<k, g>> ELSE req[g][k]
              /\ \A o \in Object : heap'[o] = IF o = <<kind, g>> THEN heap[req[g][kind]] ELSE heap[o]
          BY <3>1, FilteredTyped
        <4>2. b # <<kind, g>> /\ <<kind, g>> \in Object
          BY <1>6 DEF Object, Kind, Owner
        <4>3. req'[g]["body"] = b /\ heap'[b] = heap[b]
          BY <1>5, <1>6, <4>1, <4>2 DEF Pointer, Kind
        <4>4. CASE kind = "headers"
          <5>1. req'[g]["headers"] = <<"headers", g>> /\ heap'[<<kind, g>>] = heap[req[g][kind]]
            BY <4>1, <4>2, <4>4 DEF Pointer, Kind
          <5>2. QED
            BY <1>5, <4>3, <4>4, <5>1
        <4>5. CASE kind = "query"
          <5>1. req'[g]["headers"] = d
            BY <1>5, <4>1, <4>5 DEF Pointer, Kind
          <5>2. d # <<kind, g>>
            BY <1>6, <4>5
          <5>3. QED
            BY <1>6, <4>1, <4>3, <5>1, <5>2
        <4>6. QED
          BY <4>4, <4>5
      <3>2. QED
        BY <1>5, <2>1, <3>1
    <2>4. QED
      BY <1>4, <1>7, <1>8, <2>2, <2>3
  <1>10. CASE Build(g) \/ Balance(g)
    <2>1. UNCHANGED <<req, heap, sent>> /\ Active(g) /\ pc[g] \notin {"graphql", "send"}
      BY <1>10 DEF Build, Balance, Active, Over
    <2>2. QED
      BY <1>4, <1>5, <1>7, <1>8, <2>1
  <1>11. CASE Wait(g)
    <2>1. pc'[g] \in {"done", "failed"} /\ sent' = sent
      BY <1>1, <1>2, <1>11 DEF Wait, Leads
    <2>2. QED
      BY <1>4, <2>1 DEF Content, Active, Over
  <1>12. CASE GraphQL(g)
    <2>1. sent' = sent /\ pc[g] = "graphql"
      BY <1>12 DEF GraphQL
    <2>2. cfg.backends[g[1]].graphql # "none"
      BY <2>1 DEF Staged, Staging
    <2>3. /\ \A k \in Pointer \ {"body"} : req'[g][k] = req[g][k]
          /\ \/ /\ pc' = [pc EXCEPT ![g] = "send"] /\ req'[g]["body"] = <<"body", g>>
                /\ heap'[<<"body", g>>] = IF cfg.backends[g[1]].get THEN {} ELSE {"graphql"}
                /\ "graphql" \in heap'[req[g]["headers"]]
             \/ pc' = [pc EXCEPT ![g] = "failed"]
      BY <1>12, GraphQLTyped
    <2>4. req'[g]["headers"] = d
      BY <1>5, <2>3 DEF Pointer, Kind
    <2>5. CASE pc' = [pc EXCEPT ![g] = "failed"]
      <3>1. pc'[g] = "failed"
        BY <2>5 DEF Types, TypeOK
      <3>2. QED
        BY <1>4, <2>1, <3>1 DEF Content, Active, Over
    <2>6. CASE /\ pc' = [pc EXCEPT ![g] = "send"] /\ req'[g]["body"] = <<"body", g>>
               /\ heap'[<<"body", g>>] = IF cfg.backends[g[1]].get THEN {} ELSE {"graphql"}
               /\ "graphql" \in heap'[req[g]["headers"]]
      <3>1. pc'[g] = "send"
        BY <2>6 DEF Types, TypeOK
      <3>2. heap'[req'[g]["body"]] = Final(g[1])
        BY <2>2, <2>6 DEF Final
      <3>3. QED
        BY <1>2, <1>3, <1>4, <1>5, <2>1, <2>2, <2>4, <2>6, <3>1, <3>2 DEF Content
    <2>7. QED
      BY <2>3, <2>5, <2>6
  <1>13. CASE Send(g)
    <2>1. /\ pc[g] = "send" /\ pc'[g] \in {"done", "failed"}
          /\ sent'[g] = [headers |-> heap[d], body |-> heap[b], url |-> url[g]]
      BY <1>1, <1>2, <1>5, <1>13, SendTyped DEF Send, Types, TypeOK, Leads
    <2>2. /\ heap[b] = Final(g[1])
          /\ "graphql" \in heap[d] <=> cfg.backends[g[1]].graphql # "none"
      BY <1>5, <2>1 DEF Content
    <2>3. sent'[g].headers = heap[d] /\ sent'[g].body = heap[b]
      BY <2>1
    <2>4. QED
      BY <1>2, <1>3, <2>1, <2>2, <2>3 DEF Content, Active, Over
  <1>14. QED
    BY <1>9, <1>10, <1>11, <1>12, <1>13 DEF Stage

\* A clone made for a goroutine that has not started yet, of a request with the contents of the client.
LEMMA CloneContents ==
    ASSUME Types, Staged, Points, \A h \in Goroutine : Content(h), cfg' = cfg, sent' = sent,
           NEW g \in Goroutine, pc[g] = "idle", NEW r, Aimed(r), CloneRequest(g, r),
           heap[r["body"]] = Whole, "graphql" \notin heap[r["headers"]],
           pc' = [pc EXCEPT ![g] = pc'[g]], pc'[g] \in {"query", "build", "balance"},
           pc'[g] = "balance" => g[2] # 0
    PROVE  /\ \A h \in Goroutine : Content(h)'
           /\ \A o \in Object : o[2] # g => heap'[o] = heap[o]
  <1>1. /\ \A h \in Goroutine \ {g} : req'[h] = req[h]
        /\ \A k \in Pointer : req'[g][k] = IF k = "query" THEN r[k] ELSE <<k, g>>
        /\ \A o \in Object : heap'[o] = IF o[2] = g /\ o[1] # "query" THEN heap[r[o[1]]] ELSE heap[o]
    BY CloneTyped
  <1>2. \A h \in Goroutine \ {g} : pc'[h] = pc[h]
    BY DEF Types, TypeOK
  <1>3. Content(g)'
    <2>1. sent'[g] = NotSent
      BY DEF Content
    <2>2. <<"body", g>> \in Object /\ <<"headers", g>> \in Object
      BY DEF Object, Kind, Owner
    <2>3. heap'[<<"body", g>>] = Whole /\ "graphql" \notin heap'[<<"headers", g>>]
      <3>1. PICK o \in Object : o = <<"body", g>> /\ o[1] = "body" /\ o[2] = g
        BY <2>2
      <3>2. PICK d \in Object : d = <<"headers", g>> /\ d[1] = "headers" /\ d[2] = g
        BY <2>2
      <3>3. heap'[o] = heap[r["body"]] /\ heap'[d] = heap[r["headers"]]
        BY <1>1, <3>1, <3>2
      <3>4. QED
        BY <3>1, <3>2, <3>3
    <2>4. req'[g]["body"] = <<"body", g>> /\ req'[g]["headers"] = <<"headers", g>>
      BY <1>1 DEF Pointer, Kind
    <2>5. Whole' = Whole
      BY DEF Whole
    <2>6. QED
      BY <2>1, <2>3, <2>4, <2>5 DEF Content
  <1>4. ASSUME NEW h \in Goroutine \ {g} PROVE Content(h)'
    <2>1. ASSUME Active(h), NEW k \in {"body", "headers"} PROVE heap'[req[h][k]] = heap[req[h][k]]
      <3>1. k \in Pointer \ {"query"} /\ k \in Kind
        BY DEF Pointer, Kind
      <3>2. PICK o \in Owner : req[h][k] = <<k, o>>
        BY <3>1, AimedFacts DEF Types
      <3>3. o # g
        <4>1. o = g => pc[g] \in {"wait", "done", "failed"}
          BY <2>1, <3>1, <3>2, Own DEF Active, Over
        <4>2. QED
          BY <4>1
      <3>4. req[h][k] \in Object /\ req[h][k][2] # g
        BY <3>1, <3>2, <3>3, AimedFacts DEF Types
      <3>5. QED
        BY <1>1, <3>4
    <2>2. QED
      BY <1>1, <1>2, <2>1, ContentKept
  <1>5. QED
    BY <1>1, <1>3, <1>4

\* A step keeps what is in the objects of the requests that are worked on.
LEMMA StepContents ==
    ASSUME Types, Staged, Points, Contents, [Next]_vars
    PROVE  Contents'
  <1>1. cfg' = cfg
    BY StepTypes
  <1>2. Isolated' = Isolated /\ Whole' = Whole
    BY <1>1 DEF Isolated, Whole, Deep, Regular
  <1>3. SUFFICES ASSUME Isolated PROVE Contents'
    BY <1>2 DEF Contents
  <1>4. /\ \A h \in Goroutine : Content(h)
        /\ (cfg.merge = "single" => main <= 1) =>
              heap[<<"body", Origin>>] = Whole /\ "graphql" \notin heap[<<"headers", Origin>>]
    BY <1>3 DEF Contents
  <1>5. SUFFICES /\ \A h \in Goroutine : Content(h)'
                 /\ (cfg.merge = "single" => main' <= 1) =>
                      heap'[<<"body", Origin>>] = Whole /\ "graphql" \notin heap'[<<"headers", Origin>>]
    BY <1>1, <1>2 DEF Contents
  <1>6. /\ \A b \in Regular : b \in 1..MaxB /\ <<b, 0>> \in Goroutine
        /\ Shadow \in 1..MaxB /\ <<Shadow, 0>> \in Goroutine
        /\ pc \in [Goroutine -> Stages] /\ main \in Nat
        /\ cfg.merge = "single" => Regular = {1}
    <2>1. cfg \in Configs
      BY DEF Types, TypeOK
    <2>2. /\ \A b \in Regular : b \in 1..MaxB
          /\ Shadow \in 1..MaxB /\ Last \in Nat
          /\ cfg.merge = "single" => Regular = {1}
      BY <2>1, CfgFacts, BoundsAssumption DEF Shadow
    <2>3. QED
      BY <2>2, GoroutineFacts, BoundsAssumption DEF Types, TypeOK, Stages, Last
  <1>7. /\ Aimed(Incoming) /\ Incoming["body"] = <<"body", Origin>>
        /\ Incoming["headers"] = <<"headers", Origin>>
    BY IncomingAimed DEF Incoming, Pointer, Kind
  <1>8. \A k \in {"body", "headers"} : <<k, Origin>> \in Object
    BY DEF Object, Kind, Owner
  <1>9. ASSUME NEW g \in Goroutine, g[2] = 0, pc[g] = "idle", CloneRequest(g, Incoming), sent' = sent,
               pc' = [pc EXCEPT ![g] = First(g[1])], cfg.merge = "single" => main <= 1
        PROVE  /\ \A h \in Goroutine : Content(h)'
               /\ heap'[<<"body", Origin>>] = Whole /\ "graphql" \notin heap'[<<"headers", Origin>>]
    <2>1. pc'[g] \in {"query", "build"} /\ pc' = [pc EXCEPT ![g] = pc'[g]]
      BY <1>6, <1>9 DEF First
    <2>2. /\ \A h \in Goroutine : Content(h)'
          /\ \A o \in Object : o[2] # g => heap'[o] = heap[o]
      BY <1>1, <1>4, <1>7, <1>9, <2>1, CloneContents
    <2>3. \A k \in {"body", "headers"} : <<k, Origin>>[2] # g
      BY GoroutineFacts, BoundsAssumption DEF Origin
    <2>4. QED
      BY <1>4, <1>8, <1>9, <2>2, <2>3
  <1>10. CASE StartShadow
    <2>1. /\ main = 0 /\ sent' = sent /\ cfg.shadow /\ pc[<<Shadow, 0>>] = "idle"
          /\ CloneRequest(<<Shadow, 0>>, Incoming) /\ pc' = [pc EXCEPT ![<<Shadow, 0>>] = First(Shadow)]
      BY <1>10 DEF StartShadow, Start, Staged, InOrder
    <2>2. PICK g \in Goroutine : g = <<Shadow, 0>> /\ g[2] = 0 /\ g[1] = Shadow
      BY <1>6
    <2>3. /\ pc[g] = "idle" /\ CloneRequest(g, Incoming)
          /\ pc' = [pc EXCEPT ![g] = First(g[1])]
      BY <2>1, <2>2
    <2>4. main <= 1
      BY <2>1
    <2>5. QED
      BY <1>9, <2>1, <2>2, <2>3, <2>4
  <1>11. CASE Dispatch
    <2>1. /\ main \in Regular /\ sent' = sent /\ main' = main + 1
          /\ pc' = [pc EXCEPT ![<<main, 0>>] = First(main)]
      BY <1>11 DEF Dispatch, Ready, Start
    <2>2. PICK g \in Goroutine : g = <<main, 0>> /\ g[2] = 0 /\ g[1] = main
      BY <1>6, <2>1
    <2>3. pc[g] = "idle"
      BY <1>6, <2>1, <2>2 DEF Staged, InOrder
    <2>4. CASE cfg.merge # "single"
      <3>1. CloneRequest(g, Incoming)
        BY <1>3, <1>11, <2>2, <2>4 DEF Dispatch, Start, Isolated
      <3>2. QED
        BY <1>9, <2>1, <2>2, <2>3, <2>4, <3>1
    <2>5. CASE cfg.merge = "single"
      <3>1. main = 1 /\ ~(main' <= 1)
        BY <1>6, <2>1, <2>5
      <3>2. Pass(g, Incoming)
        BY <1>11, <2>2, <2>5 DEF Dispatch, Start
      <3>3. heap' = heap /\ req'[g] = Incoming /\ \A h \in Goroutine \ {g} : req'[h] = req[h]
        BY <1>7, <3>2, PassTyped
      <3>4. pc'[g] \in {"query", "build"} /\ \A h \in Goroutine \ {g} : pc'[h] = pc[h]
        BY <1>6, <2>1, <2>2 DEF First
      <3>5. \A h \in Goroutine \ {g} : Content(h)'
        BY <1>1, <1>4, <2>1, <3>3, <3>4, ContentKept
      <3>6. sent[g] = NotSent
        BY <1>4, <2>3 DEF Content
      <3>7. Content(g)'
        BY <1>2, <1>4, <1>7, <2>1, <3>1, <3>3, <3>4, <3>6 DEF Content
      <3>8. QED
        BY <2>5, <3>1, <3>5, <3>7
    <2>6. QED
      BY <2>4, <2>5
  <1>12. CASE ResponseModifiers
    <2>1. UNCHANGED <<cfg, pc, req, heap, url, sent>> /\ main' = main + 1
      BY <1>12 DEF ResponseModifiers
    <2>2. \A h \in Goroutine : Content(h)'
      BY <1>4, <2>1, ContentKept
    <2>3. QED
      BY <1>4, <1>6, <2>1, <2>2
  <1>13. ASSUME NEW g \in Goroutine, Stage(g)
         PROVE  /\ \A h \in Goroutine : Content(h)'
                /\ (cfg.merge = "single" => main' <= 1) =>
                     heap'[<<"body", Origin>>] = Whole /\ "graphql" \notin heap'[<<"headers", Origin>>]
    <2>1. CASE Spawn(g)
      <3>1. pc[g] = "clone" /\ Staging(g) /\ Active(g) /\ main' = main /\ sent' = sent
        BY <2>1 DEF Spawn, Staged, Active, Over
      <3>2. g[2] = 0 /\ g[1] \in DOMAIN cfg.backends
        BY <3>1 DEF Staging
      <3>3. PICK h \in Goroutine :
              /\ h[1] = g[1] /\ h[2] \in 1..Calls(g[1]) /\ pc[h] = "idle"
              /\ IF h[2] < Calls(g[1]) THEN CloneRequest(h, req[g]) /\ pc' = [pc EXCEPT ![h] = "balance"]
                 ELSE Pass(h, req[g]) /\ pc' = [pc EXCEPT ![h] = "balance", ![g] = "wait"]
        BY <2>1, <3>2, SpawnFacts
      <3>4. g # h /\ h[2] # 0
        <4>1. Calls(g[1]) \in Nat
          BY <3>1, CountFacts
        <4>2. QED
          BY <3>1, <3>3, <4>1
      <3>5. Aimed(req[g]) /\ heap[req[g]["body"]] = Whole /\ "graphql" \notin heap[req[g]["headers"]]
        BY <1>4, <3>1 DEF Types, Content
      <3>6. CASE h[2] < Calls(g[1])
        <4>1. CloneRequest(h, req[g]) /\ pc' = [pc EXCEPT ![h] = "balance"] /\ pc'[h] = "balance"
          BY <1>6, <3>3, <3>6
        <4>2. /\ \A q \in Goroutine : Content(q)'
              /\ \A o \in Object : o[2] # h => heap'[o] = heap[o]
          BY <1>1, <1>4, <3>1, <3>3, <3>4, <3>5, <4>1, CloneContents
        <4>3. \A k \in {"body", "headers"} : <<k, Origin>>[2] # h
          BY GoroutineFacts, BoundsAssumption DEF Origin
        <4>4. QED
          BY <1>4, <1>8, <3>1, <4>2, <4>3
      <3>7. CASE ~(h[2] < Calls(g[1]))
        <4>1. Pass(h, req[g]) /\ pc' = [pc EXCEPT ![h] = "balance", ![g] = "wait"]
          BY <3>3, <3>7
        <4>2. heap' = heap /\ req'[h] = req[g] /\ \A q \in Goroutine \ {h} : req'[q] = req[q]
          BY <3>5, <4>1, PassTyped
        <4>3. pc'[h] = "balance" /\ pc'[g] = "wait" /\ \A q \in Goroutine \ {g, h} : pc'[q] = pc[q]
          BY <1>6, <3>4, <4>1
        <4>4. \A q \in Goroutine \ {g, h} : Content(q)'
          BY <1>1, <1>4, <3>1, <4>2, <4>3, ContentKept
        <4>5. sent[g] = NotSent /\ sent[h] = NotSent
          BY <1>4, <3>1, <3>3 DEF Content
        <4>6. Content(g)'
          BY <3>1, <4>3, <4>5 DEF Content, Active, Over
        <4>7. Content(h)'
          BY <1>2, <3>1, <3>5, <4>2, <4>3, <4>5 DEF Content
        <4>8. QED
          BY <1>4, <3>1, <4>2, <4>4, <4>6, <4>7
      <3>8. QED
        BY <3>6, <3>7
    <2>2. CASE ~Spawn(g)
      <3>1. Content(g)'
        BY <1>4, <1>13, <2>2, StageContent
      <3>2. /\ main' = main
            /\ \A h \in Goroutine \ {g} : req'[h] = req[h] /\ sent'[h] = sent[h] /\ pc'[h] = pc[h]
            /\ \A o \in Object : o[2] # g /\ (\A k \in Kind : o # req[g][k]) => heap'[o] = heap[o]
            /\ ~Active(g) => heap' = heap
        BY <1>13, <2>2, StageFrame
      <3>3. ASSUME NEW h \in Goroutine \ {g}, Active(h), NEW k \in {"body", "headers"}
            PROVE  heap'[req[h][k]] = heap[req[h][k]]
        <4>1. CASE Active(g)
          <5>1. req[h][k] \in Object /\ req[h][k][2] # g /\ \A m \in Kind : req[h][k] # req[g][m]
            BY <1>3, <3>3, <4>1, Disjoint
          <5>2. QED
            BY <3>2, <5>1
        <4>2. QED
          BY <3>2, <4>1
      <3>4. \A h \in Goroutine \ {g} : Content(h)'
        BY <1>1, <1>4, <3>2, <3>3, ContentKept
      <3>5. ASSUME cfg.merge = "single" => main <= 1, NEW k \in {"body", "headers"}
            PROVE  heap'[<<k, Origin>>] = heap[<<k, Origin>>]
        <4>1. CASE Active(g)
          <5>1. /\ <<k, Origin>> \in Object /\ <<k, Origin>>[2] # g
                /\ \A m \in Kind : <<k, Origin>> # req[g][m]
            BY <1>3, <3>5, <4>1, OriginKept
          <5>2. QED
            BY <3>2, <5>1
        <4>2. QED
          BY <3>2, <4>1
      <3>6. QED
        BY <1>4, <3>1, <3>2, <3>4, <3>5
    <2>3. QED
      BY <2>1, <2>2
  <1>14. CASE UNCHANGED vars
    <2>1. UNCHANGED <<cfg, main, pc, req, heap, url, sent>>
      BY <1>14 DEF vars
    <2>2. \A h \in Goroutine : Content(h)'
      BY <1>4, <2>1, ContentKept
    <2>3. QED
      BY <1>4, <2>1, <2>2
  <1>15. QED
    BY <1>10, <1>11, <1>12, <1>13, <1>14 DEF Next, Terminated

-----------------------------------------------------------------------------
(* The theorems                                                            *)

Inductive == Types /\ Staged /\ Points /\ Contents

\* At first nobody has started.
LEMMA InitHolds ==
    ASSUME Init
    PROVE  Inductive
  <1>1. /\ Last \in Nat /\ Regular = 1..Last /\ Last >= 1
        /\ Shadow = IF cfg.shadow THEN Last + 1 ELSE Last
    BY CfgFacts DEF Init
  <1>2. /\ pc = [g \in Goroutine |-> "idle"] /\ req = [g \in Goroutine |-> Incoming]
        /\ sent = [g \in Goroutine |-> NotSent] /\ url = [g \in Goroutine |-> {}]
        /\ main = (IF cfg.shadow THEN 0 ELSE 1) /\ cfg \in Configs
        /\ heap = [o \in Object |-> IF o[2] # Origin \/ (o[1] = "body" /\ ~cfg.body) THEN {} ELSE {"client"}]
    BY DEF Init
  <1>3. Types
    <2>1. main \in 0..(Last + 2)
      BY <1>1, <1>2
    <2>2. pc \in [Goroutine -> Stages]
      BY <1>2 DEF Stages, Over
    <2>3. req \in [Goroutine -> Request] /\ \A g \in Goroutine : Aimed(req[g])
      BY <1>2, IncomingAimed DEF Aimed
    <2>4. heap \in [Object -> SUBSET Mark] /\ url \in [Goroutine -> SUBSET Mark]
      BY <1>2 DEF Mark
    <2>5. sent \in [Goroutine -> [headers : SUBSET Mark, body : SUBSET Mark, url : SUBSET Mark]]
      BY <1>2 DEF NotSent
    <2>6. QED
      BY <1>2, <2>1, <2>2, <2>3, <2>4, <2>5 DEF Types, TypeOK, Stages, Last
  <1>4. Staged
    <2>1. ASSUME NEW b \in Regular PROVE <<b, 0>> \in Goroutine
      <3>1. b \in 1..MaxB
        BY <1>1, <1>2, CfgFacts, BoundsAssumption DEF Shadow
      <3>2. QED
        BY <3>1, GoroutineFacts, BoundsAssumption
    <2>2. <<Shadow, 0>> \in Goroutine
      <3>1. Shadow \in 1..MaxB
        BY <1>2, CfgFacts DEF Shadow
      <3>2. QED
        BY <3>1, GoroutineFacts, BoundsAssumption
    <2>3. QED
      BY <1>1, <1>2, <2>1, <2>2 DEF Staged, InOrder
  <1>5. Points
    BY <1>2 DEF Points
  <1>6. Contents
    <2>1. PICK b, d : b = <<"body", Origin>> /\ d = <<"headers", Origin>>
      OBVIOUS
    <2>2. b \in Object /\ b[1] = "body" /\ b[2] = Origin /\ d \in Object /\ d[1] = "headers" /\ d[2] = Origin
      BY <2>1 DEF Object, Kind, Owner
    <2>3. heap[b] = Whole /\ "graphql" \notin heap[d]
      BY <1>2, <2>2 DEF Whole
    <2>4. \A g \in Goroutine : Content(g)
      BY <1>2 DEF Content, Active, Over
    <2>5. QED
      BY <2>1, <2>3, <2>4 DEF Contents
  <1>7. QED
    BY <1>3, <1>4, <1>5, <1>6 DEF Inductive

\* The invariant all of the above is for.
LEMMA InductiveHolds == Spec => []Inductive
  <1>1. Init => Inductive
    BY InitHolds
  <1>2. Inductive /\ [Next]_vars => Inductive'
    BY StepTypes, StepStaged, StepPoints, StepContents DEF Inductive
  <1>3. QED
    BY <1>1, <1>2, PTL DEF Spec

(***************************************************************************)
(* Whatever the endpoint, everything keeps its type, and no backend of an  *)
(* endpoint that is cloned deeply, no concurrent call and no shadow is     *)
(* sent less than the body of the client or a header GraphQL set for       *)
(* another: proxy/request.go CloneRequest, proxy/merging.go, concurrent.go *)
(* and shadow.go together.                                                 *)
(***************************************************************************)
THEOREM SharingCorrect == Spec => []SharingInv
  <1>1. Inductive => SharingInv
    <2>1. SUFFICES ASSUME Inductive, Isolated, NEW g \in Goroutine, sent[g] # NotSent
                   PROVE  /\ sent[g].body = Final(g[1])
                          /\ "graphql" \in sent[g].headers <=> cfg.backends[g[1]].graphql # "none"
      BY DEF SharingInv, WholeBody, HeadersIsolated, Final, Whole, Inductive, Types
    <2>2. QED
      BY <2>1 DEF Inductive, Contents, Content
  <1>2. QED
    BY <1>1, InductiveHolds, PTL

(***************************************************************************)
(* Whatever the endpoint, two goroutines that handle one request can race  *)
(* only where RacesExplained says: stacks that were handed a deep clone    *)
(* share nothing but the query strings.                                    *)
(***************************************************************************)
THEOREM RacesExplainedCorrect == Spec => []RacesExplained
  <1>1. Inductive => RacesExplained
    BY RacesAre DEF Inductive
  <1>2. QED
    BY <1>1, InductiveHolds, PTL

-----------------------------------------------------------------------------
(* The largest timeout                                                     *)

\* The elements of S that are not below x.
UpFrom(x, S) == {y \in S : y >= x}

\* A finite set of integers has a largest element: one from which nothing more goes up.
LEMMA LargestOfFinite ==
    ASSUME NEW S \in SUBSET Int, IsFiniteSet(S), S # {}
    PROVE  \E x \in S : \A y \in S : x >= y
  <1> DEFINE T == {UpFrom(x, S) : x \in S}
  <1>1. T \subseteq FiniteSubsetsOf(S) /\ T # {}
    <2>1. FiniteSubsetsOf(S) = SUBSET S
      BY FS_FiniteSubsetsOfFinite
    <2>2. ASSUME NEW V \in T PROVE V \in SUBSET S
      BY DEF UpFrom
    <2>3. T # {}
      OBVIOUS
    <2> HIDE DEF T
    <2> QED
      BY <2>1, <2>2, <2>3
  <1>2. PICK U \in T : \A V \in T : <<V, U>> \notin StrictSubsetOrdering(S)
    <2>1. IsWellFoundedOn(StrictSubsetOrdering(S), FiniteSubsetsOf(S))
      BY FS_StrictSubsetOrderingWellFounded
    <2> HIDE DEF T
    <2> QED
      BY <1>1, <2>1, WFMin
  <1>3. PICK x \in S : U = UpFrom(x, S)
    OBVIOUS
  <1>4. ASSUME NEW y \in S, ~(x >= y)
        PROVE  FALSE
    <2>1. UpFrom(y, S) \subseteq UpFrom(x, S)
      <3>1. ASSUME NEW z \in S, z >= y PROVE z >= x
        <4>1. x \in Int /\ y \in Int /\ z \in Int
          OBVIOUS
        <4> QED
          BY <1>4, <3>1, <4>1
      <3> QED
        BY <3>1 DEF UpFrom
    <2>2. x \in UpFrom(x, S) /\ x \notin UpFrom(y, S)
      BY <1>4 DEF UpFrom
    <2>3. UpFrom(y, S) \in SUBSET S /\ UpFrom(x, S) \in SUBSET S
      BY DEF UpFrom
    <2>4. <<UpFrom(y, S), U>> \in StrictSubsetOrdering(S)
      BY <1>3, <2>1, <2>2, <2>3 DEF StrictSubsetOrdering
    <2> QED
      BY <1>2, <2>4
  <1> QED
    BY <1>4

\* The timeouts of an endpoint are integers, and the largest is at least the one of each
\* shadow backend.
LEMMA MaxTimeoutFacts ==
    ASSUME ShadowTypeOK
    PROVE  /\ MaxTimeout \in Int /\ MergeTimeout \in Int /\ CallTimeout \in Int
           /\ \A i \in ShadowBackends : Duration(backends[i]) \in Int
                                        /\ MaxTimeout >= Duration(backends[i])
  <1> DEFINE S == {0} \cup {Duration(backends[i]) : i \in ShadowBackends}
  <1>0. endpoint.timeout \in Int
    BY EndpointsAssumption DEF ShadowTypeOK
  <1> DEFINE R == [extra : {"none", "notBool", "false", "true"}, given : BOOLEAN, shadowTimeout : Int]
  <1>1. backends \in Seq(R) /\ \A b \in R : Duration(b) \in Int
    <2>1. endpoint.backends \in Seq(R)
      BY EndpointsAssumption, Zenon DEF ShadowTypeOK
    <2>2. \A b \in R : Duration(b) \in Int
      BY <1>0 DEF Duration
    <2> QED
      BY <2>1, <2>2 DEF backends
  <1> HIDE DEF R
  <1>2. PICK n \in Nat : DOMAIN backends = 1..n /\ \A i \in DOMAIN backends : Duration(backends[i]) \in Int
    BY <1>1
  <1>3. ShadowBackends \subseteq DOMAIN backends
    BY DEF ShadowBackends
  <1>4. IsFiniteSet(S)
    <2>1. IsFiniteSet(ShadowBackends)
      <3>1. IsFiniteSet(1..n)
        BY FS_Interval
      <3> QED
        BY <1>2, <1>3, <3>1, FS_Subset
    <2>2. IsFiniteSet({Duration(backends[i]) : i \in ShadowBackends})
      <3> DEFINE D == {Duration(backends[i]) : i \in ShadowBackends}
                 f == [i \in ShadowBackends |-> Duration(backends[i])]
      <3>1. f \in Surjection(ShadowBackends, D)
        BY DEF Surjection
      <3> HIDE DEF D, f
      <3>2. IsFiniteSet(D)
        BY <2>1, <3>1, FS_Surjection
      <3> QED
        BY <3>2 DEF D
    <2> QED
      BY <2>2, FS_Singleton, FS_Union
  <1>5. S \in SUBSET Int /\ S # {}
    BY <1>2, <1>3
  <1> HIDE DEF S
  <1>6. Max(S) \in S /\ \A y \in S : Max(S) >= y
    BY <1>4, <1>5, LargestOfFinite DEF Max
  <1>7. MaxTimeout = Max(S)
    BY DEF MaxTimeout, S
  <1>8. MergeTimeout \in Int /\ CallTimeout \in Int
    BY <1>0 DEF MergeTimeout, CallTimeout, Part
  <1> QED
    BY <1>2, <1>3, <1>5, <1>6, <1>7, <1>8 DEF S

-----------------------------------------------------------------------------
(* Every backend is asked once                                             *)

\* The middleware starts with no request there and nobody asked.
LEMMA InitShadowInv == ShadowInit => ShadowInv /\ ShadowHasItsTime
  <1> SUFFICES ASSUME ShadowInit PROVE ShadowInv /\ ShadowHasItsTime
    OBVIOUS
  <1>1. ShadowTypeOK
    BY MaxClockAssumption DEF ShadowInit, ShadowTypeOK
  <1>2. EachBackendOnce /\ ShadowStarted /\ AskedByTheirPipe
    BY DEF ShadowInit, EachBackendOnce, ShadowStarted, AskedByTheirPipe, ShadowBackends, RegularBackends
  <1>3. ContextsNest /\ ShadowHasItsTime
    BY DEF ShadowInit, ContextsNest, ShadowHasItsTime
  <1> QED
    BY <1>1, <1>2, <1>3 DEF ShadowInv

\* Asking some of the backends of a request adds one for each of them and touches no other.
LEMMA AskFacts ==
    ASSUME ShadowTypeOK, NEW r \in Requests, NEW who, Ask(r, who), endpoint' = endpoint
    PROVE  /\ got' \in [Requests -> [DOMAIN backends -> Nat]]
           /\ \A q \in Requests, i \in DOMAIN backends :
                got'[q][i] = IF q = r /\ i \in who THEN got[q][i] + 1 ELSE got[q][i]
  <1>1. \A q \in Requests : got[q] \in [DOMAIN backends -> Nat]
    BY DEF ShadowTypeOK
  <1>2. [i \in DOMAIN backends |-> IF i \in who THEN got[r][i] + 1 ELSE got[r][i]]
            \in [DOMAIN backends -> Nat]
    BY <1>1
  <1>3. got' = [got EXCEPT ![r] =
                  [i \in DOMAIN backends |-> IF i \in who THEN got[r][i] + 1 ELSE got[r][i]]]
    BY DEF Ask
  <1> QED
    BY <1>1, <1>2, <1>3 DEF ShadowTypeOK

\* What an endpoint is made of stays.
LEMMA EndpointStays ==
    ASSUME endpoint' = endpoint
    PROVE  /\ backends' = backends
           /\ ShadowBackends' = ShadowBackends /\ RegularBackends' = RegularBackends
           /\ ShadowsMerged' = ShadowsMerged /\ MaxTimeout' = MaxTimeout
           /\ MergeTimeout' = MergeTimeout /\ CallTimeout' = CallTimeout
           /\ \A i \in ShadowBackends : Duration(backends[i])' = Duration(backends[i])
  BY DEF backends, ShadowBackends, RegularBackends, ShadowsMerged, MaxTimeout, MergeTimeout, CallTimeout,
         Part, Duration

\* A step of the calls of the shadow pipe.
PipeStep(r) == \E i \in ShadowBackends : CallBackend(r, i) \/ BackendAnswers(r, i) \/ BackendCut(r, i)

\* Such a step moves one call, from one status to the next, and makes its time at most.
LEMMA PipeStepFacts ==
    ASSUME ShadowTypeOK, NEW r \in Requests, NEW i \in ShadowBackends,
           CallBackend(r, i) \/ BackendAnswers(r, i) \/ BackendCut(r, i)
    PROVE  /\ UNCHANGED <<endpoint, clock, client, caller, shadow, started, began, got, result>>
           /\ call' \in [Requests -> [ShadowBackends -> {"none", "running", "done", "failed", "cut"}]]
           /\ since' \in [Requests -> [ShadowBackends -> Nat]]
           /\ \A q \in Requests, j \in ShadowBackends : ~(q = r /\ j = i) =>
                call'[q][j] = call[q][j] /\ since'[q][j] = since[q][j]
           /\ \/ /\ shadow[r] = "running" /\ call'[r][i] = "running" /\ since'[r][i] = clock
              \/ /\ call[r][i] = "running" /\ since'[r][i] = since[r][i]
                 /\ call'[r][i] = "cut" => TimedOut(r, i)
  <1>1. clock \in Nat /\ call[r] \in [ShadowBackends -> {"none", "running", "done", "failed", "cut"}]
        /\ since[r] \in [ShadowBackends -> Nat]
    BY MaxClockAssumption DEF ShadowTypeOK
  <1>2. CASE CallBackend(r, i)
    BY <1>1, <1>2 DEF CallBackend, ShadowTypeOK
  <1>3. CASE BackendAnswers(r, i)
    BY <1>1, <1>3 DEF BackendAnswers, ShadowTypeOK
  <1>4. CASE BackendCut(r, i)
    BY <1>1, <1>4 DEF BackendCut, ShadowTypeOK
  <1> QED
    BY <1>2, <1>3, <1>4

\* A step keeps the types of everything.
LEMMA StepShadowTypeOK ==
    ASSUME ShadowTypeOK, [ShadowNext]_shadowVars
    PROVE  ShadowTypeOK' /\ endpoint' = endpoint
  <1>1. CASE Tick
    <2>1. endpoint' = endpoint
      BY <1>1 DEF Tick
    <2> QED
      BY <1>1, <2>1, EndpointStays, MaxClockAssumption DEF Tick, pipeVars, ShadowTypeOK
  <1>2. ASSUME NEW r \in Requests,
               Arrive(r) \/ Launch(r) \/ RegularAnswers(r) \/ Leave(r) \/ ShadowReturns(r)
        PROVE  ShadowTypeOK' /\ endpoint' = endpoint
    <2>1. CASE Arrive(r)
      <3>1. endpoint' = endpoint
        BY <2>1 DEF Arrive
      <3> QED
        BY <2>1, <3>1, EndpointStays DEF Arrive, pipeVars, ShadowTypeOK
    <2>2. CASE Launch(r)
      <3>1. endpoint' = endpoint
        BY <2>2 DEF Launch
      <3> QED
        BY <2>2, <3>1, EndpointStays, MaxClockAssumption DEF Launch, pipeVars, ShadowTypeOK
    <2>3. CASE RegularAnswers(r)
      <3>1. endpoint' = endpoint
        BY <2>3 DEF RegularAnswers
      <3> QED
        BY <2>3, <3>1, EndpointStays DEF RegularAnswers, pipeVars, ShadowTypeOK
    <2>4. CASE Leave(r) \/ ShadowReturns(r)
      <3>1. endpoint' = endpoint
        BY <2>4 DEF Leave, ShadowReturns
      <3> QED
        BY <2>4, <3>1, EndpointStays DEF Leave, ShadowReturns, pipeVars, ShadowTypeOK
    <2> QED
      BY <1>2, <2>1, <2>2, <2>3, <2>4
  <1>3. ASSUME NEW r \in Requests, CallRegular(r) \/ CallShadow(r)
        PROVE  ShadowTypeOK' /\ endpoint' = endpoint
    <2>1. got' \in [Requests -> [DOMAIN backends -> Nat]] /\ endpoint' = endpoint
      BY <1>3, AskFacts DEF CallRegular, CallShadow
    <2>2. DOMAIN backends' = DOMAIN backends /\ ShadowBackends' = ShadowBackends /\ clock \in Nat
      BY <2>1, EndpointStays, MaxClockAssumption DEF ShadowTypeOK
    <2>3. CASE CallRegular(r)
      BY <2>1, <2>2, <2>3 DEF CallRegular, pipeVars, ShadowTypeOK
    <2>4. CASE CallShadow(r)
      BY <2>1, <2>2, <2>4 DEF CallShadow, ShadowTypeOK
    <2> QED
      BY <1>3, <2>3, <2>4
  <1>4. ASSUME NEW r \in Requests, PipeStep(r)
        PROVE  ShadowTypeOK' /\ endpoint' = endpoint
    BY <1>4, PipeStepFacts, EndpointStays DEF PipeStep, ShadowTypeOK
  <1>5. CASE UNCHANGED shadowVars
    <2>1. endpoint' = endpoint
      BY <1>5 DEF shadowVars
    <2> QED
      BY <1>5, <2>1, EndpointStays DEF shadowVars, pipeVars, ShadowTypeOK
  <1> QED
    BY <1>1, <1>2, <1>3, <1>4, <1>5 DEF ShadowNext, Caller, PipeStep

\* The goroutine of the shadow is started before the regular pipe is called.
LEMMA StepShadowStarted ==
    ASSUME ShadowInv, [ShadowNext]_shadowVars
    PROVE  ShadowStarted'
  <1>0. ShadowTypeOK /\ ShadowStarted /\ endpoint' = endpoint
    BY StepShadowTypeOK DEF ShadowInv
  <1>1. ShadowBackends' = ShadowBackends
    BY <1>0, EndpointStays
  <1>2. ASSUME NEW r \in Requests, Arrive(r) \/ Launch(r) \/ CallRegular(r) \/ RegularAnswers(r)
        PROVE  ShadowStarted'
    BY <1>0, <1>1, <1>2 DEF Arrive, Launch, CallRegular, RegularAnswers, ShadowStarted, ShadowTypeOK
  <1>3. ASSUME NEW r \in Requests, CallShadow(r) \/ ShadowReturns(r)
        PROVE  ShadowStarted'
    BY <1>0, <1>1, <1>3 DEF CallShadow, ShadowReturns, ShadowStarted, ShadowTypeOK
  <1>4. ASSUME NEW r \in Requests, PipeStep(r)
        PROVE  caller' = caller /\ shadow' = shadow
    BY <1>0, <1>4, PipeStepFacts DEF PipeStep
  <1>5. CASE (\E r \in Requests : PipeStep(r)) \/ Tick \/ (\E r \in Requests : Leave(r)) \/ UNCHANGED shadowVars
    BY <1>0, <1>1, <1>4, <1>5 DEF Tick, Leave, shadowVars, ShadowStarted
  <1> QED
    BY <1>2, <1>3, <1>5 DEF ShadowNext, Caller, PipeStep

\* Each pipe asks its own backends, when it is called.
LEMMA StepAskedByTheirPipe ==
    ASSUME ShadowInv, [ShadowNext]_shadowVars
    PROVE  AskedByTheirPipe'
  <1>0. ShadowTypeOK /\ AskedByTheirPipe /\ ShadowStarted /\ endpoint' = endpoint
    BY StepShadowTypeOK DEF ShadowInv
  <1>1. /\ ShadowBackends' = ShadowBackends /\ RegularBackends' = RegularBackends
        /\ ShadowBackends \subseteq DOMAIN backends /\ RegularBackends \subseteq DOMAIN backends
        /\ ShadowBackends \cap RegularBackends = {}
    BY <1>0, EndpointStays DEF ShadowBackends, RegularBackends
  <1>2. ASSUME NEW r \in Requests, CallRegular(r)
        PROVE  AskedByTheirPipe'
    <2>1. /\ \A q \in Requests, i \in DOMAIN backends :
                got'[q][i] = IF q = r /\ i \in RegularBackends THEN got[q][i] + 1 ELSE got[q][i]
          /\ shadow' = shadow /\ caller[r] = "p1" /\ caller' = [caller EXCEPT ![r] = "waiting"]
      BY <1>0, <1>2, AskFacts DEF CallRegular
    <2>2. \A q \in Requests, i \in RegularBackends :
            got'[q][i] = IF caller'[q] \in {"waiting", "returned"} THEN 1 ELSE 0
      BY <1>0, <1>1, <2>1 DEF AskedByTheirPipe, ShadowTypeOK
    <2>3. \A q \in Requests, i \in ShadowBackends : got'[q][i] = got[q][i]
      BY <1>1, <2>1
    <2> QED
      BY <1>0, <1>1, <2>1, <2>2, <2>3 DEF AskedByTheirPipe
  <1>3. ASSUME NEW r \in Requests, CallShadow(r)
        PROVE  AskedByTheirPipe'
    <2>1. /\ \A q \in Requests, i \in DOMAIN backends :
                got'[q][i] = IF q = r /\ i \in ShadowBackends THEN got[q][i] + 1 ELSE got[q][i]
          /\ caller' = caller /\ shadow[r] = "asked" /\ shadow' = [shadow EXCEPT ![r] = "running"]
      BY <1>0, <1>3, AskFacts DEF CallShadow
    <2>2. \A q \in Requests, i \in ShadowBackends :
            got'[q][i] = IF shadow'[q] \in {"running", "done"} THEN 1 ELSE 0
      BY <1>0, <1>1, <2>1 DEF AskedByTheirPipe, ShadowTypeOK
    <2>3. \A q \in Requests, i \in RegularBackends : got'[q][i] = got[q][i]
      BY <1>1, <2>1
    <2> QED
      BY <1>0, <1>1, <2>1, <2>2, <2>3 DEF AskedByTheirPipe
  <1>4. ASSUME NEW r \in Requests, Arrive(r) \/ Launch(r) \/ RegularAnswers(r) \/ ShadowReturns(r)
        PROVE  AskedByTheirPipe'
    BY <1>0, <1>1, <1>4 DEF Arrive, Launch, RegularAnswers, ShadowReturns,
            AskedByTheirPipe, ShadowStarted, ShadowTypeOK
  <1>5. ASSUME NEW r \in Requests, PipeStep(r)
        PROVE  caller' = caller /\ shadow' = shadow /\ got' = got
    BY <1>0, <1>5, PipeStepFacts DEF PipeStep
  <1>6. CASE (\E r \in Requests : PipeStep(r)) \/ Tick \/ (\E r \in Requests : Leave(r)) \/ UNCHANGED shadowVars
    BY <1>0, <1>1, <1>5, <1>6 DEF Tick, Leave, shadowVars, AskedByTheirPipe
  <1> QED
    BY <1>2, <1>3, <1>4, <1>6 DEF ShadowNext, Caller, PipeStep

\* The contexts of a shadow are made in the order of its stages, and time goes on.
LEMMA StepContextsNest ==
    ASSUME ShadowInv, [ShadowNext]_shadowVars
    PROVE  ContextsNest'
  <1>0. ShadowTypeOK /\ ContextsNest /\ ShadowStarted /\ endpoint' = endpoint
    BY StepShadowTypeOK DEF ShadowInv
  <1>1. /\ ShadowBackends' = ShadowBackends
        /\ clock \in Nat /\ \A r \in Requests : started[r] \in Nat /\ began[r] \in Nat
        /\ \A r \in Requests, i \in ShadowBackends : since[r][i] \in Nat
    BY <1>0, EndpointStays, MaxClockAssumption DEF ShadowTypeOK
  <1>2. ASSUME NEW r \in Requests, Launch(r) \/ CallShadow(r) \/ ShadowReturns(r)
        PROVE  ContextsNest'
    BY <1>0, <1>1, <1>2 DEF Launch, CallShadow, ShadowReturns, pipeVars, ContextsNest, ShadowStarted, ShadowTypeOK
  <1>3. ASSUME NEW r \in Requests, PipeStep(r)
        PROVE  ContextsNest'
    <2>1. PICK i \in ShadowBackends : CallBackend(r, i) \/ BackendAnswers(r, i) \/ BackendCut(r, i)
      BY <1>3 DEF PipeStep
    <2>2. ASSUME NEW q \in Requests, NEW j \in ShadowBackends, call'[q][j] # "none"
          PROVE  /\ shadow[q] \in {"running", "done"}
                 /\ began[q] <= since'[q][j] /\ since'[q][j] <= clock
      BY <1>0, <1>1, <2>1, <2>2, PipeStepFacts DEF ContextsNest
    <2>3. shadow' = shadow /\ started' = started /\ began' = began /\ clock' = clock
      BY <1>0, <2>1, PipeStepFacts
    <2> QED
      BY <1>0, <1>1, <2>2, <2>3 DEF ContextsNest
  <1>4. ASSUME NEW r \in Requests, Arrive(r) \/ CallRegular(r) \/ RegularAnswers(r) \/ Leave(r)
        PROVE  ContextsNest'
    BY <1>0, <1>1, <1>4 DEF Arrive, CallRegular, RegularAnswers, Leave, pipeVars, ContextsNest
  <1>5. CASE Tick
    BY <1>0, <1>1, <1>5 DEF Tick, pipeVars, ContextsNest
  <1>6. CASE UNCHANGED shadowVars
    BY <1>0, <1>1, <1>6 DEF shadowVars, pipeVars, ContextsNest
  <1> QED
    BY <1>2, <1>3, <1>4, <1>5, <1>6 DEF ShadowNext, Caller, PipeStep

\* When both goroutines of a request are over, both pipes have asked, and together they
\* are all the backends.
LEMMA AllAsked ==
    ASSUME ShadowTypeOK, ShadowStarted, AskedByTheirPipe
    PROVE  EachBackendOnce
  <1> SUFFICES ASSUME NEW r \in Requests, NEW i \in DOMAIN backends
               PROVE  /\ got[r][i] <= 1
                      /\ (caller[r] = "returned" /\ shadow[r] \in {"none", "done"}) => got[r][i] = 1
    BY DEF EachBackendOnce
  <1>1. CASE i \in RegularBackends
    BY <1>1 DEF AskedByTheirPipe
  <1>2. CASE i \in ShadowBackends
    BY <1>2 DEF AskedByTheirPipe, ShadowStarted
  <1> QED
    BY <1>1, <1>2 DEF RegularBackends

\* The split asks every backend of the endpoint once and none twice, for any endpoint and
\* any number of requests.
THEOREM ShadowCorrect == ShadowSpec => []ShadowInv
  <1>1. ShadowInv /\ [ShadowNext]_shadowVars =>
            ShadowTypeOK' /\ ShadowStarted' /\ AskedByTheirPipe' /\ ContextsNest'
    BY StepShadowTypeOK, StepShadowStarted, StepAskedByTheirPipe, StepContextsNest DEF ShadowInv
  <1>2. ShadowTypeOK /\ ShadowStarted /\ AskedByTheirPipe /\ ContextsNest => ShadowInv
    BY AllAsked DEF ShadowInv
  <1> QED
    BY <1>1, <1>2, InitShadowInv, PTL DEF ShadowSpec

\* The times a shadow backend may be cut off at.
HadItsTime(r, i) ==
    \/ clock >= started[r] + Duration(backends[i])
    \/ ShadowsMerged /\ clock >= started[r] + MergeTimeout
    \/ endpoint.concurrent /\ clock >= started[r] + CallTimeout

\* A call whose context is over had one of the timeouts: the contexts are made after that of
\* the shadow, which has the largest timeout of all the shadow backends.
LEMMA TimedOutFacts ==
    ASSUME ShadowTypeOK, ContextsNest, NEW r \in Requests, NEW i \in ShadowBackends,
           call[r][i] = "running", TimedOut(r, i)
    PROVE  HadItsTime(r, i)
  <1>1. /\ clock \in Int /\ started[r] \in Int /\ began[r] \in Int /\ since[r][i] \in Int
        /\ started[r] <= began[r] /\ began[r] <= since[r][i]
    BY MaxClockAssumption DEF ShadowTypeOK, ContextsNest
  <1>2. PICK m \in Int, d \in Int, g \in Int, c \in Int :
            /\ m = MaxTimeout /\ d = Duration(backends[i]) /\ m >= d
            /\ g = MergeTimeout /\ c = CallTimeout
    BY MaxTimeoutFacts
  <1>3. CASE clock >= started[r] + MaxTimeout
    BY <1>1, <1>2, <1>3 DEF HadItsTime
  <1>4. CASE ShadowsMerged /\ clock >= began[r] + MergeTimeout
    BY <1>1, <1>2, <1>4 DEF HadItsTime
  <1>5. CASE endpoint.concurrent /\ clock >= since[r][i] + CallTimeout
    BY <1>1, <1>2, <1>5 DEF HadItsTime
  <1> QED
    BY <1>3, <1>4, <1>5 DEF TimedOut

\* As time goes on, and as long as its context stays, what had its time has had it.
LEMMA TimeGoesOn ==
    ASSUME ShadowTypeOK, NEW r \in Requests, NEW i \in ShadowBackends, HadItsTime(r, i),
           endpoint' = endpoint, started'[r] = started[r], clock' \in {clock, clock + 1}
    PROVE  HadItsTime(r, i)'
  <1>1. clock \in Int /\ started[r] \in Int
    BY MaxClockAssumption DEF ShadowTypeOK
  <1>2. PICK d \in Int, g \in Int, c \in Int :
            d = Duration(backends[i]) /\ g = MergeTimeout /\ c = CallTimeout
    BY MaxTimeoutFacts
  <1>3. d = Duration(backends[i])' /\ g = MergeTimeout' /\ c = CallTimeout' /\ ShadowsMerged' = ShadowsMerged
    BY <1>2, EndpointStays
  <1> QED
    BY <1>1, <1>2, <1>3 DEF HadItsTime

\* A step cuts off nobody too early.
LEMMA StepHasItsTime ==
    ASSUME ShadowInv, ShadowHasItsTime, [ShadowNext]_shadowVars
    PROVE  ShadowHasItsTime'
  <1>0. ShadowTypeOK /\ ContextsNest /\ ShadowStarted /\ endpoint' = endpoint
    BY StepShadowTypeOK DEF ShadowInv
  <1>1. SUFFICES ASSUME NEW r \in Requests, NEW i \in ShadowBackends, call'[r][i] = "cut"
                 PROVE  HadItsTime(r, i)'
    BY <1>0, EndpointStays DEF ShadowHasItsTime, HadItsTime
  <1>2. clock' \in {clock, clock + 1} /\ (shadow[r] # "none" => started'[r] = started[r])
    <2>1. ASSUME NEW q \in Requests, PipeStep(q) PROVE clock' = clock /\ started' = started
      BY <1>0, <2>1, PipeStepFacts DEF PipeStep
    <2>2. ASSUME NEW q \in Requests, Launch(q)
          PROVE  clock' = clock /\ (shadow[r] # "none" => started'[r] = started[r])
      BY <1>0, <2>2 DEF Launch, ShadowStarted, ShadowTypeOK
    <2>3. ASSUME NEW q \in Requests, Arrive(q) \/ CallRegular(q) \/ RegularAnswers(q) \/ Leave(q)
                                       \/ CallShadow(q) \/ ShadowReturns(q)
          PROVE  clock' = clock /\ started' = started
      BY <2>3 DEF Arrive, CallRegular, RegularAnswers, Leave, CallShadow, ShadowReturns
    <2>4. CASE Tick \/ UNCHANGED shadowVars
      BY <2>4 DEF Tick, shadowVars
    <2> QED
      BY <2>1, <2>2, <2>3, <2>4 DEF ShadowNext, Caller, PipeStep
  <1>3. CASE call[r][i] = "cut"
    <2>1. HadItsTime(r, i) /\ shadow[r] # "none"
      BY <1>0, <1>3 DEF ShadowHasItsTime, HadItsTime, ContextsNest
    <2> QED
      BY <1>0, <1>2, <2>1, TimeGoesOn
  <1>4. CASE call[r][i] # "cut"
    <2>1. PICK q \in Requests : PipeStep(q)
      <3>1. ASSUME NEW q \in Requests, Arrive(q) \/ Caller(q) \/ RegularAnswers(q) \/ Leave(q)
                                         \/ CallShadow(q) \/ ShadowReturns(q)
            PROVE  call' = call
        BY <3>1 DEF Arrive, Caller, Launch, CallRegular, RegularAnswers, Leave, CallShadow, ShadowReturns, pipeVars
      <3>2. CASE Tick \/ UNCHANGED shadowVars
        BY <1>1, <1>4, <3>2 DEF Tick, shadowVars, pipeVars
      <3> QED
        BY <1>1, <1>4, <3>1, <3>2 DEF ShadowNext, PipeStep
    <2>2. PICK j \in ShadowBackends : CallBackend(q, j) \/ BackendAnswers(q, j) \/ BackendCut(q, j)
      BY <2>1 DEF PipeStep
    <2>3. q = r /\ j = i
      BY <1>0, <1>1, <1>4, <2>2, PipeStepFacts
    <2>4. call[r][i] = "running" /\ TimedOut(r, i) /\ started' = started /\ clock' = clock
      BY <1>0, <1>1, <2>2, <2>3, PipeStepFacts
    <2>5. HadItsTime(r, i)
      BY <1>0, <2>4, TimedOutFacts
    <2> QED
      BY <1>0, <2>4, <2>5, TimeGoesOn
  <1> QED
    BY <1>3, <1>4

\* A shadow backend is cut off only when it had its own timeout, because the context of the
\* shadow is made with the largest, or that of the merge or of the concurrent calls it is part of.
THEOREM ShadowHasItsTimeCorrect == ShadowSpec => []ShadowHasItsTime
  <1>1. ShadowInv /\ ShadowHasItsTime /\ [ShadowNext]_shadowVars => ShadowHasItsTime'
    BY StepHasItsTime
  <1> QED
    BY <1>1, InitShadowInv, ShadowCorrect, PTL DEF ShadowSpec

-----------------------------------------------------------------------------
(* What a backend is sent of the headers and query strings                 *)

\* The number of names is that of the library.
LEMMA SameCardinality == \A names : Fwd!Cardinality(names) = Cardinality(names)
  BY Zenon DEF Fwd!Cardinality, Cardinality, Fwd!IsFiniteSet, IsFiniteSet

\* A filter counts the entries of its list that were sent: there are as many as
\* names sent only if all are listed, or if one is listed twice.
LEMMA FilterExact ==
    ASSUME NEW names, NEW list \in Seq(names), NEW given, IsFiniteSet(DOMAIN given)
    PROVE  Fwd!FilterIsExact(list, given)
  <1>1. PICK kept : kept = Fwd!Filtered(list, given)
    OBVIOUS
  <1>2. PICK passing : passing = {i \in DOMAIN list : list[i] \in DOMAIN given}
    OBVIOUS
  <1>3. CASE list = << >>
    <2>1. kept = given
      BY <1>1, <1>3 DEF Fwd!Filtered
    <2>2. DOMAIN kept = {n \in DOMAIN given : Fwd!Allows(list, n)}
      BY <1>3, <2>1 DEF Fwd!Allows
    <2>3. QED
      BY <1>1, <2>1, <2>2 DEF Fwd!FilterIsExact
  <1>4. CASE list # << >> /\ Cardinality(passing) # Cardinality(DOMAIN given)
    <2>1. kept = [n \in DOMAIN given \cap Fwd!Range(list) |-> given[n]]
      BY <1>1, <1>2, <1>4, SameCardinality DEF Fwd!Filtered, Fwd!Restrict
    <2>2. DOMAIN kept = {n \in DOMAIN given : Fwd!Allows(list, n)}
      BY <1>4, <2>1 DEF Fwd!Allows
    <2>3. QED
      BY <1>1, <2>1, <2>2 DEF Fwd!FilterIsExact
  <1>5. CASE list # << >> /\ Cardinality(passing) = Cardinality(DOMAIN given) /\ ~Fwd!IsInjective(list)
    <2>1. kept = given
      BY <1>1, <1>2, <1>5, SameCardinality DEF Fwd!Filtered
    <2>2. QED
      BY <1>1, <1>5, <2>1 DEF Fwd!FilterIsExact
  <1>6. CASE list # << >> /\ Cardinality(passing) = Cardinality(DOMAIN given) /\ Fwd!IsInjective(list)
    <2>1. kept = given
      BY <1>1, <1>2, <1>6, SameCardinality DEF Fwd!Filtered
    <2>2. PICK f : f = [i \in passing |-> list[i]]
      OBVIOUS
    <2>3. f \in Injection(passing, DOMAIN given)
      BY <1>2, <1>6, <2>2 DEF Injection, IsInjective, Fwd!IsInjective
    <2>4. f \in Surjection(passing, DOMAIN given)
      BY <1>6, <2>3, FS_Injection
    <2>5. \A n \in DOMAIN given : n \in Fwd!Range(list)
      BY <1>2, <2>2, <2>4 DEF Surjection, Fwd!Range
    <2>6. DOMAIN kept = {n \in DOMAIN given : Fwd!Allows(list, n)}
      BY <2>1, <2>5 DEF Fwd!Allows
    <2>7. QED
      BY <1>1, <2>1, <2>6 DEF Fwd!FilterIsExact
  <1>7. QED
    BY <1>3, <1>4, <1>5, <1>6

\* A filter keeps what its list allows, as it was sent, and adds nothing.
LEMMA FilterKeeps ==
    ASSUME NEW names, NEW list \in Seq(names), NEW given, IsFiniteSet(DOMAIN given),
           NEW kept, kept = Fwd!Filtered(list, given)
    PROVE  /\ DOMAIN kept \subseteq DOMAIN given
           /\ \A n \in DOMAIN kept : kept[n] = given[n]
           /\ \A n \in DOMAIN given : Fwd!Allows(list, n) => n \in DOMAIN kept
  BY FilterExact DEF Fwd!FilterIsExact

\* The headers the gateway writes.
OwnNames(picked) == {"X-Forwarded-For", "X-Forwarded-Host",
                     IF "User-Agent" \in picked THEN "X-Forwarded-Via" ELSE "User-Agent"}

\* What of the client's headers an endpoint passes on is among them, and all
\* others are written by the gateway.
HeadersSay(picked, own, named, given) ==
    /\ picked \subseteq named
    /\ DOMAIN given = own \cup picked /\ IsFiniteSet(DOMAIN given)
    /\ given["X-Forwarded-For"] \in {"X-Forwarded-For", "X-Real-Ip", "connection"}
    /\ \A h \in own \ {"X-Forwarded-For"} : given[h] = "gateway"
    /\ \A h \in picked \ own : given[h] = "client"

LEMMA HeadersFacts ==
    ASSUME NEW list, NEW named, IsFiniteSet(named)
    PROVE  HeadersSay(Fwd!Picked(list, named), OwnNames(Fwd!Picked(list, named)), named, Fwd!NewHeaders(list, named))
  <1>a. PICK picked : picked = Fwd!Picked(list, named)
    OBVIOUS
  <1>b. PICK own : own = OwnNames(picked)
    OBVIOUS
  <1>c. PICK given : given = Fwd!NewHeaders(list, named)
    OBVIOUS
  <1>1. picked \subseteq named
    BY <1>a DEF Fwd!Picked
  <1>2. PICK ours : ours = Fwd!OwnHeaders(picked, named)
    OBVIOUS
  <1>3. /\ DOMAIN ours = own
        /\ ours["X-Forwarded-For"] \in {"X-Forwarded-For", "X-Real-Ip", "connection"}
        /\ \A h \in own \ {"X-Forwarded-For"} : ours[h] = "gateway"
    <2>1. Fwd!ClientIP(named) \in {"X-Forwarded-For", "X-Real-Ip", "connection"}
      BY DEF Fwd!ClientIP
    <2>2. ours = [h \in own |-> IF h = "X-Forwarded-For" THEN Fwd!ClientIP(named) ELSE "gateway"]
      BY <1>2, <1>b DEF Fwd!OwnHeaders, OwnNames
    <2>3. QED
      BY <1>b, <2>1, <2>2 DEF OwnNames
  <1>4. given = [h \in own \cup picked |-> IF h \in own THEN ours[h] ELSE "client"]
    <2>1. PICK theirs : theirs = [n \in picked |-> "client"]
      OBVIOUS
    <2>2. given = Fwd!Over(ours, theirs)
      BY <1>2, <1>a, <1>c, <2>1 DEF Fwd!NewHeaders, Fwd!FromClient
    <2>3. QED
      BY <1>3, <2>1, <2>2 DEF Fwd!Over
  <1>5. IsFiniteSet(own \cup picked)
    <2>1. PICK third : own = ({"X-Forwarded-For"} \cup {"X-Forwarded-Host"}) \cup {third}
      BY <1>b DEF OwnNames
    <2>2. IsFiniteSet({"X-Forwarded-For"}) /\ IsFiniteSet({"X-Forwarded-Host"}) /\ IsFiniteSet({third})
      BY FS_Singleton
    <2>3. IsFiniteSet(own) /\ IsFiniteSet(picked)
      BY <1>1, <2>1, <2>2, FS_Union, FS_Subset
    <2>4. QED
      BY <2>3, FS_Union
  <1>6. QED
    <2>1. "X-Forwarded-For" \in own
      BY <1>b DEF OwnNames
    <2>2. HeadersSay(picked, own, named, given)
      BY <1>1, <1>3, <1>4, <1>5, <2>1 DEF HeadersSay
    <2>3. QED
      BY <1>a, <1>b, <1>c, <2>2

\* Whatever lists an endpoint and a backend have and whatever headers a client
\* sends, the backend is sent the listed ones and those of the gateway, and no
\* client can write the latter (Picked, NewHeaders, Filtered).
THEOREM HeadersExact ==
    ASSUME NEW names, NEW list \in Seq(names), NEW others, NEW backend \in Seq(others),
           NEW named, IsFiniteSet(named)
    PROVE  Fwd!HeadersAreExact(list, backend, named)
  <1>1. PICK picked : picked = Fwd!Picked(list, named)
    OBVIOUS
  <1>2. PICK given : given = Fwd!NewHeaders(list, named)
    OBVIOUS
  <1>3. PICK own : own = OwnNames(picked)
    OBVIOUS
  <1>4. HeadersSay(picked, own, named, given)
    BY <1>1, <1>2, <1>3, HeadersFacts
  <1>5. PICK received : received = Fwd!Filtered(backend, given)
    OBVIOUS
  <1>6. /\ DOMAIN received \subseteq DOMAIN given
        /\ \A n \in DOMAIN received : received[n] = given[n]
        /\ \A n \in DOMAIN given : Fwd!Allows(backend, n) => n \in DOMAIN received
    BY <1>4, <1>5, FilterKeeps DEF HeadersSay
  <1>7. \A h \in DOMAIN received :
           received[h] = "client" => h \in picked \ {"X-Forwarded-For", "X-Forwarded-Host"}
    BY <1>3, <1>4, <1>6 DEF OwnNames, HeadersSay
  <1>8. \A h \in picked : Fwd!Allows(backend, h) => h \in DOMAIN received
    BY <1>4, <1>6 DEF HeadersSay
  <1>9. \A h \in {"X-Forwarded-For", "X-Forwarded-Host"} \cup {"User-Agent"} :
           Fwd!Allows(backend, h) => h \in DOMAIN received
    <2>1. "User-Agent" \in DOMAIN given
      BY <1>3, <1>4 DEF OwnNames, HeadersSay
    <2>2. QED
      BY <1>3, <1>4, <1>6, <2>1 DEF OwnNames, HeadersSay
  <1>10. ASSUME "User-Agent" \in picked, "X-Forwarded-Via" \in picked, Fwd!Allows(backend, "X-Forwarded-Via")
         PROVE  received["X-Forwarded-Via"] = "gateway"
    BY <1>3, <1>4, <1>6, <1>10 DEF OwnNames, HeadersSay
  <1>11. Fwd!FilterIsExact(backend, given)
    BY <1>4, FilterExact DEF HeadersSay
  <1>12. QED
    BY <1>1, <1>2, <1>5, <1>7, <1>8, <1>9, <1>10, <1>11 DEF Fwd!HeadersAreExact

\* Whatever lists there are, a backend is sent only query strings that the
\* client sent and the endpoint lists (NewQuery, Filtered).
THEOREM QueryExact ==
    ASSUME NEW list, NEW others, NEW backend \in Seq(others), NEW named, IsFiniteSet(named)
    PROVE  Fwd!QueryIsExact(list, backend, named)
  <1>1. PICK given : given = Fwd!NewQuery(list, named)
    OBVIOUS
  <1>2. DOMAIN given = (IF Fwd!AllNames \in Fwd!Range(list) THEN named ELSE named \cap Fwd!Range(list))
    BY <1>1 DEF Fwd!NewQuery, Fwd!FromClient
  <1>3. DOMAIN given \subseteq named /\ IsFiniteSet(DOMAIN given)
    BY <1>2, FS_Subset
  <1>4. DOMAIN Fwd!Filtered(backend, given) \subseteq DOMAIN given
    BY <1>3, FilterKeeps
  <1>5. Fwd!FilterIsExact(backend, given)
    BY <1>3, FilterExact
  <1>6. QED
    BY <1>1, <1>2, <1>4, <1>5 DEF Fwd!QueryIsExact

-----------------------------------------------------------------------------
(* The merger of an endpoint, and nested names                             *)

\* Whatever the extra configuration of an endpoint says, its backends are merged
\* one after the other only if it asks for that (getMergerFactory).
THEOREM MergesConfigured ==
    ASSUME NEW extra \in Mrg!Extra
    PROVE  Mrg!MergesAsConfigured(extra)
  <1> DEFINE asked == /\ extra.object
                      /\ \/ extra.strategy = "sequential"
                         \/ extra.strategy = "none" /\ extra.sequential = "true"
  <1>1. PICK merge : merge = Mrg!Merge(extra)
    OBVIOUS
  <1>2. PICK strategy : strategy = Mrg!Strategy(extra)
    OBVIOUS
  <1>3. strategy \in {"parallel", "sequential", "custom"}
    BY <1>2 DEF Mrg!Strategy, Mrg!Mergers
  <1>4. strategy = "sequential" <=> asked
    <2>1. CASE extra.object /\ extra.strategy \in Mrg!Mergers
      BY <1>2, <2>1 DEF Mrg!Strategy, Mrg!Mergers
    <2>2. CASE extra.object /\ extra.strategy = "none" /\ extra.sequential = "true"
      BY <1>2, <2>2 DEF Mrg!Strategy, Mrg!Mergers
    <2>3. CASE ~(extra.object /\ extra.strategy \in Mrg!Mergers)
               /\ ~(extra.object /\ extra.strategy = "none" /\ extra.sequential = "true")
      <3>1. strategy = "parallel"
        BY <1>2, <2>3 DEF Mrg!Strategy
      <3>2. ~asked
        BY <2>3 DEF Mrg!Mergers
      <3>3. QED
        BY <3>1, <3>2
    <2>4. QED
      BY <2>1, <2>2, <2>3
  <1>5. CASE extra.object /\ extra.combiner = "no text"
    <2>1. merge.is = "panic"
      BY <1>1, <1>5 DEF Mrg!Merge
    <2>2. QED
      BY <1>1, <1>5, <2>1 DEF Mrg!MergesAsConfigured
  <1>6. CASE extra.object /\ extra.combiner # "no text" /\ strategy = "sequential" /\ extra.propagated = "others"
    <2>1. merge.is = "panic"
      BY <1>1, <1>2, <1>6 DEF Mrg!Merge
    <2>2. QED
      BY <1>1, <1>4, <1>6, <2>1 DEF Mrg!MergesAsConfigured
  <1>7. CASE /\ ~(extra.object /\ extra.combiner = "no text")
             /\ ~(extra.object /\ extra.combiner # "no text" /\ strategy = "sequential" /\ extra.propagated = "others")
    <2>1. merge = IF extra.filters = "failed" THEN [is |-> "fails"]
                  ELSE [is |-> strategy, combiner |-> Mrg!Combiner(extra)]
      BY <1>1, <1>2, <1>7 DEF Mrg!Merge
    <2>2. merge.is = IF extra.filters = "failed" THEN "fails" ELSE strategy
      BY <2>1
    <2>3. QED
      BY <1>1, <1>3, <1>4, <2>2 DEF Mrg!MergesAsConfigured
  <1>8. QED
    BY <1>5, <1>6, <1>7

\* The largest element of a finite set of natural numbers (Reached).
LEMMA LargestReached ==
    ASSUME NEW k \in Nat, NEW T \in SUBSET (0..k), T # {}
    PROVE  Mrg!Max(T) \in T /\ \A n \in T : Mrg!Max(T) >= n
  <1>1. IsFiniteSet(T) /\ T \in SUBSET Int
    <2>1. IsFiniteSet(0..k)
      BY FS_Interval
    <2>2. IsFiniteSet(T)
      BY <2>1, FS_Subset
    <2>3. QED
      BY <2>2
  <1>2. PICK x \in T : \A y \in T : x >= y
    BY <1>1, LargestOfFinite
  <1>3. QED
    BY <1>2, Zenon DEF Mrg!Max

\* A node of a response is reached through objects.
Rooted(t) ==
    \A p \in t.nodes : \A m \in 1..Len(p) - 1 : SubSeq(p, 1, m) \in t.nodes \ t.values

\* Whatever a response holds, a nested name finds the value it names if there is
\* one, and no value with another last name (the loop of sequentialMerge).
THEOREM FindsNamed ==
    ASSUME NEW names, NEW path \in Seq(names), path # << >>, NEW t, Rooted(t)
    PROVE  Mrg!FindsTheNamed(t, path)
  <1>1. PICK k \in Nat : k + 1 = Len(path)
    <2>1. Len(path) \in Nat /\ Len(path) # 0
      OBVIOUS
    <2>2. Len(path) - 1 \in Nat /\ (Len(path) - 1) + 1 = Len(path)
      BY <2>1
    <2>3. QED
      BY <2>2
  <1>2. PICK T : T = {n \in 0..k : \A m \in 1..n : SubSeq(path, 1, m) \in t.nodes \ t.values}
    OBVIOUS
  <1>3. PICK r : r = Mrg!Reached(t, path)
    OBVIOUS
  <1>4. r \in T /\ \A n \in T : r >= n
    <2>1. 0 \in T
      BY <1>1, <1>2
    <2>2. r = Mrg!Max(T)
      <3>1. Len(path) - 1 = k
        BY <1>1
      <3>2. QED
        BY <1>2, <1>3, <3>1 DEF Mrg!Reached
    <2>3. QED
      BY <1>2, <2>1, <2>2, LargestReached
  <1>5. r \in 0..k /\ \A m \in 1..r : SubSeq(path, 1, m) \in t.nodes \ t.values
    BY <1>2, <1>4
  <1>6. PICK found : found = Mrg!FoundAt(t, path)
    OBVIOUS
  <1>7. found = SubSeq(path, 1, r) \o <<path[k + 1]>>
    BY <1>1, <1>3, <1>6 DEF Mrg!FoundAt, Mrg!Last
  <1>8. /\ found \in Seq(names) /\ Len(found) = r + 1 /\ found[r + 1] = path[k + 1]
        /\ \A i \in 1..r : found[i] = path[i]
    BY <1>1, <1>5, <1>7
  <1>9. r = k => found = path
    BY <1>1, <1>8
  <1>10. path \in t.nodes => found = path
    <2>1. SUFFICES ASSUME path \in t.nodes PROVE r = k
      BY <1>9
    <2>2. \A m \in 1..k : SubSeq(path, 1, m) \in t.nodes \ t.values
      BY <1>1, <2>1 DEF Rooted
    <2>3. k \in T
      BY <1>2, <2>2
    <2>4. QED
      BY <1>4, <1>5, <2>3
  <1>11. ASSUME found \in t.nodes, path \notin t.nodes
         PROVE  /\ Len(found) < Len(path) /\ Mrg!Last(found) = Mrg!Last(path)
                /\ Mrg!IsPrefix(Mrg!Front(found), path)
    <2>1. r < k
      BY <1>5, <1>9, <1>11
    <2>2. Len(found) < Len(path)
      BY <1>1, <1>5, <1>8, <2>1
    <2>3. Mrg!Last(found) = Mrg!Last(path)
      BY <1>1, <1>8 DEF Mrg!Last
    <2>4. Mrg!Front(found) = SubSeq(path, 1, r)
      BY <1>1, <1>5, <1>8 DEF Mrg!Front
    <2>5. Mrg!IsPrefix(SubSeq(path, 1, r), path)
      BY <1>1, <1>5 DEF Mrg!IsPrefix
    <2>6. QED
      BY <2>2, <2>3, <2>4, <2>5
  <1>12. QED
    BY <1>6, <1>10, <1>11 DEF Mrg!FindsTheNamed, Mrg!Finds

-----------------------------------------------------------------------------
(* The variables of a GraphQL request                                      *)

\* Every GraphQL request carries the variables the options name: a query with
\* the parameters that their placeholders stand for, a mutation with what the
\* client says; and one fails only for its body (graphql.New, fromBody).
THEOREM GeneratesRight ==
    ASSUME NEW Placeholder, "" \notin DOMAIN Placeholder,
           NEW choices, NEW paramSets, NEW bodies
    PROVE  Gql(Placeholder)!GeneratesExactly(choices, paramSets, bodies)
  <1>1. SUFFICES ASSUME NEW raw \in Gql(Placeholder)!RawOptions(choices), Gql(Placeholder)!Built(raw) = "generates",
                        NEW params \in paramSets, NEW body \in bodies
                 PROVE  /\ Gql(Placeholder)!VariablesAreComplete(raw, params, body)
                        /\ Gql(Placeholder)!FailuresExplained(raw, params, body)
    BY DEF Gql!GeneratesExactly
  <1>2. PICK V : V = raw.variables
    OBVIOUS
  <1>3. raw.type \in {"query", "mutation"} /\ \A v \in DOMAIN V : V[v] \notin {"", "{}"}
    <2>1. raw.type \in {"query", "mutation", "unknown"}
      BY <1>1 DEF Gql!RawOptions
    <2>2. Gql(Placeholder)!Valid(raw) /\ ~Gql(Placeholder)!Panics(Gql(Placeholder)!Options(raw)) /\ raw.type # "unknown"
      BY <1>1 DEF Gql!Built
    <2>3. QED
      BY <1>2, <2>1, <2>2 DEF Gql!Panics, Gql!Options
  <1>4. PICK made : made = Gql(Placeholder)!Generated(raw, params, body)
    OBVIOUS
  <1>5. CASE raw.type = "query"
    <2>1. PICK R : R = {v \in DOMAIN V : V[v] \in DOMAIN Placeholder}
      OBVIOUS
    <2>2. made.is = "request"
      BY <1>4, <1>5 DEF Gql!Generated, Gql!FromParams, Gql!Request, Gql!Options
    <2>3. made.variables = [v \in R \cup DOMAIN V |->
             IF v \in R THEN IF Placeholder[V[v]] \in params THEN [of |-> "params", key |-> Placeholder[V[v]]]
                             ELSE [of |-> "options", key |-> ""]
             ELSE [of |-> "options", key |-> V[v]]]
      BY <1>2, <1>4, <1>5, <2>1 DEF Gql!Generated, Gql!FromParams, Gql!Request, Gql!Options, Gql!Over,
          Gql!Replacements, Gql!Defaults, Gql!Configured, Gql!Param
    <2>4. DOMAIN made.variables = DOMAIN V
      BY <2>1, <2>3
    <2>5. ASSUME NEW v \in DOMAIN V, made.variables[v].of = "options"
          PROVE  made.variables[v].key \notin DOMAIN Placeholder
      <3>1. PICK x : x = made.variables[v]
        OBVIOUS
      <3>2. CASE v \in R /\ Placeholder[V[v]] \in params
        <4>1. x = [of |-> "params", key |-> Placeholder[V[v]]]
          BY <2>3, <3>1, <3>2
        <4>2. x.of = "params"
          BY <4>1
        <4>3. QED
          BY <2>5, <3>1, <4>2
      <3>3. CASE v \in R /\ Placeholder[V[v]] \notin params
        <4>1. x = [of |-> "options", key |-> ""]
          BY <2>3, <3>1, <3>3
        <4>2. x.key = ""
          BY <4>1
        <4>3. QED
          BY <3>1, <4>2
      <3>4. CASE v \notin R
        <4>1. x = [of |-> "options", key |-> V[v]]
          BY <2>3, <3>1, <3>4
        <4>2. x.key = V[v]
          BY <4>1
        <4>3. QED
          BY <2>1, <3>1, <3>4, <4>2
      <3>5. QED
        BY <3>2, <3>3, <3>4
    <2>6. Gql(Placeholder)!VariablesAreComplete(raw, params, body)
      BY <1>2, <1>4, <1>5, <2>4, <2>5 DEF Gql!VariablesAreComplete
    <2>7. QED
      BY <1>4, <2>2, <2>6 DEF Gql!FailuresExplained
  <1>6. CASE raw.type = "mutation"
    <2>1. made = Gql(Placeholder)!FromBody(Gql(Placeholder)!Options(raw), body)
      BY <1>4, <1>6 DEF Gql!Generated, Gql!Options
    <2>2. Gql(Placeholder)!Options(raw).variables = V
      BY <1>2 DEF Gql!Options
    <2>3. CASE body.is = "no object"
      <3>1. made.is = "error"
        BY <2>1, <2>3 DEF Gql!FromBody, Gql!Fails
      <3>2. QED
        BY <1>4, <1>6, <2>3, <3>1 DEF Gql!VariablesAreComplete, Gql!FailuresExplained
    <2>4. CASE body.is = "null" /\ V # Gql(Placeholder)!Nothing
      <3>1. made.is = "panic"
        BY <2>1, <2>2, <2>4 DEF Gql!FromBody, Gql!Breaks
      <3>2. QED
        BY <1>2, <1>4, <1>6, <2>4, <3>1 DEF Gql!VariablesAreComplete, Gql!FailuresExplained
    <2>5. CASE body.is # "no object" /\ ~(body.is = "null" /\ V # Gql(Placeholder)!Nothing)
      <3>1. made = Gql(Placeholder)!Request(Gql(Placeholder)!Options(raw),
                     Gql(Placeholder)!Over(Gql(Placeholder)!Said(body), Gql(Placeholder)!Defaults(Gql(Placeholder)!Options(raw))))
        BY <2>1, <2>2, <2>5 DEF Gql!FromBody
      <3>2. made.is = "request" /\ made.variables = [v \in body.fields \cup DOMAIN V |->
               IF v \in body.fields THEN Gql(Placeholder)!InBody(v) ELSE Gql(Placeholder)!Configured(V[v])]
        BY <2>2, <3>1 DEF Gql!Request, Gql!Over, Gql!Said, Gql!Defaults
      <3>3. Gql(Placeholder)!VariablesAreComplete(raw, params, body)
        BY <1>2, <1>4, <1>6, <3>2 DEF Gql!VariablesAreComplete
      <3>4. QED
        BY <1>4, <3>2, <3>3 DEF Gql!FailuresExplained
    <2>6. QED
      BY <2>3, <2>4, <2>5
  <1>7. QED
    BY <1>3, <1>5, <1>6

-----------------------------------------------------------------------------
(* The requests of the runs                                                *)

\* The lists of a run are lists.
LEMMA ListsAre ==
    ASSUME NEW n \in Nat, NEW names, NEW list \in UpTo(n, names)
    PROVE  list \in Seq(names)
  <1>1. PICK k \in 0..n : list \in [1..k -> names]
    BY DEF UpTo
  <1>2. QED
    BY <1>1

\* The headers and query strings of a run are finitely many.
LEMMA FewNames ==
    /\ \A named \in SUBSET Sent : IsFiniteSet(named)
    /\ \A named \in SUBSET {"p", "q", "r"} : IsFiniteSet(named)
  <1>1. IsFiniteSet({"Content-Type"} \cup {"X-Real-Ip"} \cup {"User-Agent"} \cup {"X-Forwarded-For"} \cup {"X-Forwarded-Via"})
    <2>1. IsFiniteSet({"Content-Type"} \cup {"X-Real-Ip"})
      BY FS_Singleton, FS_AddElement
    <2>2. IsFiniteSet({"Content-Type"} \cup {"X-Real-Ip"} \cup {"User-Agent"})
      BY <2>1, FS_AddElement
    <2>3. IsFiniteSet({"Content-Type"} \cup {"X-Real-Ip"} \cup {"User-Agent"} \cup {"X-Forwarded-For"})
      BY <2>2, FS_AddElement
    <2>4. QED
      BY <2>3, FS_AddElement
  <1>2. IsFiniteSet({"p"} \cup {"q"} \cup {"r"})
    BY FS_Singleton, FS_AddElement
  <1>3. Sent = {"Content-Type"} \cup {"X-Real-Ip"} \cup {"User-Agent"} \cup {"X-Forwarded-For"} \cup {"X-Forwarded-Via"}
    BY DEF Sent
  <1>4. {"p", "q", "r"} = {"p"} \cup {"q"} \cup {"r"}
    OBVIOUS
  <1>5. QED
    BY <1>1, <1>2, <1>3, <1>4, FS_Subset

\* The responses of a run are trees.
LEMMA TreesAreRooted ==
    ASSUME NEW t \in Trees, IsTree(t)
    PROVE  Rooted(t)
  <1>1. SUFFICES ASSUME NEW p \in t.nodes, NEW m \in 1..Len(p) - 1
                 PROVE  SubSeq(p, 1, m) \in t.nodes \ t.values
    BY DEF Rooted
  <1>2. p \in Nodes
    BY DEF Trees
  <1>3. p \in Seq({"a", "b"}) /\ Len(p) \in {1, 2}
    <2>1. CASE p \in {<<n>> : n \in {"a", "b"}}
      <3>1. PICK n \in {"a", "b"} : p = <<n>>
        BY <2>1
      <3>2. QED
        BY <3>1
    <2>2. CASE p \in {<<n, k>> : n, k \in {"a", "b"}}
      <3>1. PICK n \in {"a", "b"}, k \in {"a", "b"} : p = <<n, k>>
        BY <2>2
      <3>2. QED
        BY <3>1
    <2>3. QED
      BY <1>2, <2>1, <2>2 DEF Nodes
  <1>4. Len(p) = 2 /\ m = 1
    <2>1. PICK k : k = Len(p)
      OBVIOUS
    <2>2. k \in {1, 2} /\ m \in 1..k - 1
      BY <1>3, <2>1
    <2>3. k = 2 /\ m = 1
      BY <2>2
    <2>4. QED
      BY <2>1, <2>3
  <1>5. SubSeq(p, 1, m) = <<p[1]>>
    <2>1. PICK q : q = SubSeq(p, 1, m)
      OBVIOUS
    <2>2. q \in Seq({"a", "b"}) /\ Len(q) = 1 /\ q[1] = p[1]
      BY <1>3, <1>4, <2>1
    <2>3. PICK r : r = <<p[1]>>
      OBVIOUS
    <2>4. r \in Seq({"a", "b"}) /\ Len(r) = 1 /\ r[1] = p[1]
      BY <1>3, <1>4, <2>3
    <2>5. q = r
      BY <2>2, <2>4
    <2>6. QED
      BY <2>1, <2>3, <2>5
  <1>6. QED
    BY <1>4, <1>5 DEF IsTree

\* The names of a run are lists of names.
LEMMA NamesAre ==
    ASSUME NEW path \in Names
    PROVE  path \in Seq({"a", "b"}) /\ path # << >>
  <1>1. CASE path \in {<<n>> : n \in {"a", "b"}}
    BY <1>1
  <1>2. CASE path \in {<<n, m>> : n, m \in {"a", "b"}}
    <2>1. PICK n \in {"a", "b"}, m \in {"a", "b"} : path = <<n, m>>
      BY <1>2
    <2>2. QED
      BY <2>1
  <1>3. CASE path \in {<<n, m, o>> : n, m, o \in {"a", "b"}}
    <2>1. PICK n \in {"a", "b"}, m \in {"a", "b"}, o \in {"a", "b"} : path = <<n, m, o>>
      BY <1>3
    <2>2. QED
      BY <2>1
  <1>4. QED
    BY <1>1, <1>2, <1>3 DEF Names, Nodes

\* What the filters, the mergers and the GraphQL middleware of a run make of a
\* request is what they make of every request.
LEMMA RequestsExact == RequestsAreExact
  <1>1. ASSUME NEW list \in UpTo(2, Sent \cup {"*"}), NEW backend \in UpTo(3, ListedByBackend), NEW named \in SUBSET Sent
        PROVE  Fwd!HeadersAreExact(list, backend, named)
    <2>1. list \in Seq(Sent \cup {"*"}) /\ backend \in Seq(ListedByBackend)
      BY ListsAre
    <2>2. IsFiniteSet(named)
      BY FewNames
    <2>3. QED
      BY <2>1, <2>2, HeadersExact
  <1>2. ASSUME NEW list \in UpTo(2, {"p", "q", "*"}), NEW backend \in UpTo(3, {"p", "q", "*"}), NEW named \in SUBSET {"p", "q", "r"}
        PROVE  Fwd!QueryIsExact(list, backend, named)
    <2>1. backend \in Seq({"p", "q", "*"})
      BY ListsAre
    <2>2. IsFiniteSet(named)
      BY FewNames
    <2>3. QED
      BY <2>1, <2>2, QueryExact
  <1>3. ASSUME NEW extra \in Mrg!Extra PROVE Mrg!MergesAsConfigured(extra)
    BY MergesConfigured
  <1>4. ASSUME NEW t \in {u \in Trees : IsTree(u)}, NEW path \in Names PROVE Mrg!FindsTheNamed(t, path)
    <2>1. Rooted(t)
      BY TreesAreRooted
    <2>2. path \in Seq({"a", "b"}) /\ path # << >>
      BY NamesAre
    <2>3. QED
      BY <2>1, <2>2, FindsNamed
  <1>5. Gql(MCPlaceholder)!GeneratesExactly(Variables, SUBSET {"User"}, Bodies)
    <2>1. "" \notin DOMAIN MCPlaceholder
      BY DEF MCPlaceholder
    <2>2. QED
      BY <2>1, GeneratesRight
  <1>6. QED
    BY <1>1, <1>2, <1>3, <1>4, <1>5 DEF RequestsAreExact

\* Every request is sent exactly what the lists and options of the endpoint and
\* of the backend say (the filters, NewMergeDataMiddleware, NewGraphQLMiddleware).
THEOREM RequestsAreExactCorrect == Spec => []RequestsAreExact
  BY RequestsExact, PTL

=============================================================================
