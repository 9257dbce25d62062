---------------------- MODULE NamespacedRegisterProofs ----------------------
(***************************************************************************)
(* One writer and any number of readers, namespaces, names and values: the *)
(* registers of registers behave as one map of maps.                       *)
(***************************************************************************)
EXTENDS NamespacedRegister, TLAPS

\* The fields an operation has.
LEMMA OperationFields ==
    ASSUME NEW o \in Operations
    PROVE  /\ o.kind \in {"Register", "AddNamespace", "Get"}
           /\ o.ns \in Namespaces
           /\ o.kind = "Register" => o.name \in Names /\ o.v \in Values
           /\ o.kind = "Get" => o.name \in Names
  BY DEF Operations

\* Returning is well typed, and leaves a client that is nowhere.
LEMMA ReturnFacts ==
    ASSUME IInv, NEW c \in Clients, Return(c)
    PROVE  /\ op' \in [Clients -> Operations \cup {NoOp}]
           /\ pc' \in [Clients -> {"idle", "look", "access", "publish"}]
           /\ held' \in [Clients -> Untyped \cup {NoRegister}]
           /\ pc'[c] = "idle" /\ op'[c] = NoOp
           /\ \A d \in Clients \ {c} : pc'[d] = pc[d] /\ op'[d] = op[d] /\ held'[d] = held[d]
  BY DEF IInv, TypeOK, Return

\* The register of a new namespace is well typed.
LEMMA FreshIsTyped ==
    ASSUME NEW o \in Operations
    PROVE  /\ NewUntyped \in [Names -> Values \cup {NoValue}]
           /\ o.kind = "Register" =>
                [NewUntyped EXCEPT ![o.name] = o.v] \in [Names -> Values \cup {NoValue}]
  BY OperationFields DEF NewUntyped

LEMMA InitIInv == Init => IInv
  BY ConstantsAssumption
  DEF Init, IInv, TypeOK, HandleIsLive, RegistersAreSeparate, PublishedAreAllocated,
      FreshIsPrivate, AccessHolds, NoOp, NewUntyped

-----------------------------------------------------------------------------
(* One lemma for each action that writes to the registers                  *)

LEMMA CallStep ==
    ASSUME IInv, NEW c \in Clients, Call(c)
    PROVE  IInv'
  <1>1. PICK o \in Operations : (o.kind = "Get" \/ c \in Writers) /\ op' = [op EXCEPT ![c] = o]
    BY DEF Call
  <1>2. /\ pc[c] = "idle" /\ pc' = [pc EXCEPT ![c] = "look"]
        /\ UNCHANGED <<published, stored, allocated, held>>
    BY DEF Call
  <1>3. /\ pc'[c] = "look" /\ op'[c] = o
        /\ \A d \in Clients \ {c} : pc'[d] = pc[d] /\ op'[d] = op[d]
    BY <1>1, <1>2 DEF IInv, TypeOK
  <1>4. TypeOK'
    BY <1>1, <1>2, <1>3, OperationFields DEF IInv, TypeOK
  <1>5. HandleIsLive' /\ RegistersAreSeparate' /\ PublishedAreAllocated'
    BY <1>2, <1>3 DEF IInv, HandleIsLive, RegistersAreSeparate, PublishedAreAllocated
  <1>6. FreshIsPrivate' /\ AccessHolds'
    BY <1>2, <1>3 DEF IInv, FreshIsPrivate, AccessHolds, NewUntyped
  <1> QED
    BY <1>4, <1>5, <1>6 DEF IInv

\* Steps that return without a write.
LEMMA ReturnStep ==
    ASSUME IInv, NEW c \in Clients, Return(c), UNCHANGED <<published, stored, allocated>>
    PROVE  IInv'
  <1>1. TypeOK'
    BY ReturnFacts DEF IInv, TypeOK, NoOp
  <1>2. HandleIsLive' /\ RegistersAreSeparate' /\ PublishedAreAllocated'
    BY ReturnFacts DEF IInv, HandleIsLive, RegistersAreSeparate, PublishedAreAllocated
  <1>3. AccessHolds'
    BY ReturnFacts DEF IInv, AccessHolds
  <1>4. FreshIsPrivate'
    <2>1. \A d \in Clients : pc'[d] = "publish" =>
            d # c /\ pc[d] = "publish" /\ op'[d] = op[d] /\ held'[d] = held[d]
      BY ReturnFacts
    <2>2. NewUntyped' = NewUntyped
      BY DEF NewUntyped
    <2> QED
      BY <2>1, <2>2 DEF IInv, FreshIsPrivate
  <1> QED
    BY <1>1, <1>2, <1>3, <1>4 DEF IInv

LEMMA LookFoundStep ==
    ASSUME IInv, NEW c \in Clients, LookFound(c)
    PROVE  IInv'
  <1>1. CASE op[c].kind = "AddNamespace"
    BY <1>1, ReturnStep DEF LookFound
  <1>2. CASE op[c].kind # "AddNamespace"
    <2>1. /\ pc[c] = "look" /\ published[op[c].ns] # NoRegister
          /\ pc' = [pc EXCEPT ![c] = "access"]
          /\ held' = [held EXCEPT ![c] = published[op[c].ns]]
          /\ UNCHANGED <<op, published, stored, allocated>>
      BY <1>2 DEF LookFound
    <2>2. op[c] \in Operations
      BY <2>1 DEF IInv, TypeOK
    <2>3. published[op[c].ns] \in allocated
      BY <2>1, <2>2, OperationFields DEF IInv, PublishedAreAllocated
    <2>4. /\ pc'[c] = "access" /\ held'[c] = published[op[c].ns]
          /\ \A d \in Clients \ {c} : pc'[d] = pc[d] /\ held'[d] = held[d]
      BY <2>1 DEF IInv, TypeOK
    <2>5. TypeOK'
      BY <2>1, <2>2, <2>3, <2>4 DEF IInv, TypeOK
    <2>6. HandleIsLive' /\ RegistersAreSeparate' /\ PublishedAreAllocated'
      BY <2>1, <2>4 DEF IInv, HandleIsLive, RegistersAreSeparate, PublishedAreAllocated
    <2>7. FreshIsPrivate'
      BY <2>1, <2>4 DEF IInv, FreshIsPrivate, NewUntyped
    <2>8. AccessHolds'
      BY <1>2, <2>1, <2>2, <2>3, <2>4, OperationFields DEF IInv, AccessHolds
    <2> QED
      BY <2>5, <2>6, <2>7, <2>8 DEF IInv
  <1> QED
    BY <1>1, <1>2

\* The only one that is about to publish is the writer.
LEMMA OneWriter ==
    ASSUME IInv, NEW c \in Clients, NEW d \in Clients,
           op[c].kind \in {"Register", "AddNamespace"}, op[d].kind \in {"Register", "AddNamespace"}
    PROVE  c = d
  BY ConstantsAssumption DEF IInv, TypeOK

LEMMA FreshStep ==
    ASSUME IInv, NEW c \in Clients, Fresh(c)
    PROVE  IInv'
  <1> DEFINE cell == IF op[c].kind = "Register"
                     THEN [NewUntyped EXCEPT ![op[c].name] = op[c].v] ELSE NewUntyped
  <1>1. /\ pc[c] = "look" /\ op[c].kind # "Get" /\ published[op[c].ns] = NoRegister
        /\ pc' = [pc EXCEPT ![c] = "publish"]
        /\ UNCHANGED <<published, op>>
    BY DEF Fresh
  <1>2. PICK u \in Untyped \ allocated :
            /\ allocated' = allocated \cup {u}
            /\ stored' = [stored EXCEPT ![u] = cell]
            /\ held' = [held EXCEPT ![c] = u]
    BY DEF Fresh
  <1>3. op[c] \in Operations /\ op[c].kind \in {"Register", "AddNamespace"}
    BY <1>1, OperationFields DEF IInv, TypeOK
  <1>4. cell \in [Names -> Values \cup {NoValue}]
    BY <1>3, FreshIsTyped
  <1>5. /\ pc'[c] = "publish" /\ held'[c] = u
        /\ \A d \in Clients \ {c} : pc'[d] = pc[d] /\ held'[d] = held[d]
    BY <1>1, <1>2 DEF IInv, TypeOK
  <1>6. stored'[u] = cell /\ \A t \in Untyped \ {u} : stored'[t] = stored[t]
    BY <1>2 DEF IInv, TypeOK
  <1>7. TypeOK'
    <2> HIDE DEF cell
    <2> QED
      BY <1>1, <1>2, <1>3, <1>4, <1>5 DEF IInv, TypeOK
  <1>8. HandleIsLive' /\ AccessHolds' /\ PublishedAreAllocated'
    BY <1>1, <1>2, <1>5 DEF IInv, HandleIsLive, AccessHolds, PublishedAreAllocated
  <1>9. \A ns \in Namespaces : published[ns] # u
    BY <1>2, ConstantsAssumption DEF IInv, PublishedAreAllocated
  <1>10. RegistersAreSeparate'
    BY <1>1, <1>5, <1>9 DEF IInv, RegistersAreSeparate
  <1>11. FreshIsPrivate'
    <2>1. \A d \in Clients : pc'[d] = "publish" => d = c
      BY <1>3, <1>5, OneWriter DEF IInv, FreshIsPrivate
    <2>2. /\ op'[c] = op[c] /\ published'[op[c].ns] = NoRegister /\ held'[c] = u
          /\ u \in allocated' /\ stored'[u] = cell
      BY <1>1, <1>2, <1>5, <1>6
    <2>3. NewUntyped' = NewUntyped
      BY DEF NewUntyped
    <2> QED
      BY <1>3, <2>1, <2>2, <2>3 DEF FreshIsPrivate
  <1> QED
    BY <1>7, <1>8, <1>10, <1>11 DEF IInv

LEMMA PublishStep ==
    ASSUME IInv, NEW c \in Clients, Publish(c)
    PROVE  IInv'
  <1>1. /\ pc[c] = "publish" /\ Return(c)
        /\ published' = [published EXCEPT ![op[c].ns] = held[c]]
        /\ UNCHANGED <<stored, allocated>>
    BY DEF Publish
  <1>2. /\ op[c] \in Operations /\ op[c].ns \in Namespaces
        /\ op[c].kind \in {"Register", "AddNamespace"}
        /\ held[c] \in allocated /\ published[op[c].ns] = NoRegister
    BY <1>1, OperationFields DEF IInv, TypeOK, FreshIsPrivate
  <1>3. /\ published'[op[c].ns] = held[c]
        /\ \A ns \in Namespaces \ {op[c].ns} : published'[ns] = published[ns]
    BY <1>1, <1>2 DEF IInv, TypeOK
  <1>4. TypeOK'
    BY <1>1, <1>2, ReturnFacts DEF IInv, TypeOK, NoOp
  <1>5. HandleIsLive'
    <2> SUFFICES ASSUME NEW d \in Clients, pc'[d] = "access"
                 PROVE  held'[d] = published'[op'[d].ns]
      BY DEF HandleIsLive
    <2>1. d # c /\ pc[d] = "access" /\ op'[d] = op[d] /\ held'[d] = held[d]
      BY <1>1, ReturnFacts
    <2>2. held[d] = published[op[d].ns] /\ held[d] # NoRegister /\ op[d].ns \in Namespaces
      BY <2>1, ConstantsAssumption, OperationFields
      DEF IInv, TypeOK, HandleIsLive, AccessHolds
    <2>3. op[d].ns # op[c].ns
      BY <1>2, <2>2
    <2> QED
      BY <1>3, <2>1, <2>2, <2>3
  <1>6. \A d \in Clients : pc'[d] # "publish"
    <2> SUFFICES ASSUME NEW d \in Clients, pc'[d] = "publish"
                 PROVE  FALSE
      OBVIOUS
    <2>1. d # c /\ pc[d] = "publish"
      BY <1>1, ReturnFacts
    <2> QED
      BY <1>2, <2>1, OneWriter DEF IInv, FreshIsPrivate
  <1>7. RegistersAreSeparate'
    <2> SUFFICES ASSUME NEW m \in Namespaces, NEW n \in Namespaces,
                        m # n, published'[m] # NoRegister
                 PROVE  published'[m] # published'[n]
      BY <1>6 DEF RegistersAreSeparate
    <2>1. \A ns \in Namespaces : published[ns] # held[c]
      BY <1>1 DEF IInv, RegistersAreSeparate
    <2> QED
      BY <1>3, <2>1 DEF IInv, RegistersAreSeparate
  <1>8. PublishedAreAllocated'
    BY <1>1, <1>2, <1>3 DEF IInv, PublishedAreAllocated
  <1>9. FreshIsPrivate' /\ AccessHolds'
    BY <1>1, <1>6, ReturnFacts DEF IInv, FreshIsPrivate, AccessHolds
  <1> QED
    BY <1>4, <1>5, <1>7, <1>8, <1>9 DEF IInv

LEMMA StoreStep ==
    ASSUME IInv, NEW c \in Clients, Store(c)
    PROVE  IInv'
  <1>1. /\ pc[c] = "access" /\ op[c].kind = "Register" /\ Return(c)
        /\ stored' = [stored EXCEPT ![held[c]][op[c].name] = op[c].v]
        /\ UNCHANGED <<published, allocated>>
    BY DEF Store
  <1>2. op[c] \in Operations
    BY <1>1 DEF IInv, TypeOK
  <1>3. TypeOK'
    BY <1>1, <1>2, OperationFields, ReturnFacts DEF IInv, TypeOK, NoOp
  <1>4. HandleIsLive' /\ PublishedAreAllocated' /\ AccessHolds'
    BY <1>1, ReturnFacts DEF IInv, HandleIsLive, PublishedAreAllocated, AccessHolds
  <1>5. \A d \in Clients : pc'[d] # "publish"
    <2> SUFFICES ASSUME NEW d \in Clients, pc'[d] = "publish"
                 PROVE  FALSE
      OBVIOUS
    <2>1. d # c /\ pc[d] = "publish"
      BY <1>1, ReturnFacts
    <2> QED
      BY <1>1, <2>1, OneWriter DEF IInv, FreshIsPrivate
  <1>6. RegistersAreSeparate' /\ FreshIsPrivate'
    BY <1>1, <1>5 DEF IInv, RegistersAreSeparate, FreshIsPrivate
  <1> QED
    BY <1>3, <1>4, <1>6 DEF IInv

LEMMA StepIInv == IInv /\ [Next]_vars => IInv'
  <1> SUFFICES ASSUME IInv, [Next]_vars
               PROVE  IInv'
    OBVIOUS
  <1>1. CASE UNCHANGED vars
    BY <1>1
    DEF vars, IInv, TypeOK, HandleIsLive, RegistersAreSeparate, PublishedAreAllocated,
        FreshIsPrivate, AccessHolds, NewUntyped
  <1>2. CASE Next
    <2>1. PICK c \in Clients :
            \/ Call(c) \/ LookFound(c) \/ LookMissed(c) \/ Fresh(c) \/ Publish(c)
            \/ Store(c) \/ Read(c)
      BY <1>2 DEF Next
    <2>2. CASE LookMissed(c) \/ Read(c)
      BY <2>2, ReturnStep DEF LookMissed, Read
    <2> QED
      BY <2>1, <2>2, CallStep, LookFoundStep, FreshStep, PublishStep, StoreStep
  <1> QED
    BY <1>1, <1>2

-----------------------------------------------------------------------------

(***************************************************************************)
(* The invariant that ties the outer map, the registers and what each      *)
(* client holds together.                                                  *)
(***************************************************************************)
THEOREM Inductive == Spec => []IInv
  BY InitIInv, StepIInv, PTL DEF Spec

(***************************************************************************)
(* A register in a client's hands is still the one of its namespace.       *)
(***************************************************************************)
THEOREM HandleIsLiveCorrect == Spec => []HandleIsLive
  <1>1. IInv => HandleIsLive
    BY DEF IInv
  <1> QED
    BY <1>1, Inductive, PTL

\* A step of the register is a step of the map, or none.
LEMMA StepMaps ==
    ASSUME IInv, [Next]_vars
    PROVE  [Map!Next]_<<Exists, Entry>>
  <1>1. CASE UNCHANGED vars
    BY <1>1 DEF vars, Exists, Entry, NewUntyped
  <1>2. ASSUME NEW c \in Clients, UNCHANGED <<published, stored>>
        PROVE  UNCHANGED <<Exists, Entry>>
    BY <1>2 DEF Exists, Entry, NewUntyped
  <1>3. ASSUME NEW c \in Clients, Fresh(c)
        PROVE  UNCHANGED <<Exists, Entry>>
    <2>1. PICK u \in Untyped \ allocated :
            UNCHANGED published /\ \A t \in Untyped \ {u} : stored'[t] = stored[t]
      BY <1>3 DEF Fresh, IInv, TypeOK
    <2>2. \A ns \in Namespaces : published[ns] # NoRegister =>
            published[ns] \in Untyped \ {u}
      BY <2>1 DEF IInv, TypeOK, PublishedAreAllocated
    <2> QED
      BY <2>1, <2>2 DEF Exists, Entry, NewUntyped
  <1>4. ASSUME NEW c \in Clients, Publish(c)
        PROVE  Map!Next
    <2>1. /\ op[c] \in Operations /\ op[c].ns \in Namespaces
          /\ op[c].kind \in {"Register", "AddNamespace"}
          /\ published[op[c].ns] = NoRegister
          /\ held[c] \in Untyped /\ held[c] # NoRegister
      BY <1>4, ConstantsAssumption, OperationFields
      DEF Publish, IInv, TypeOK, FreshIsPrivate
    <2>2. /\ published' = [published EXCEPT ![op[c].ns] = held[c]]
          /\ stored' = stored
      BY <1>4 DEF Publish
    <2>3. /\ published'[op[c].ns] = held[c]
          /\ \A ns \in Namespaces \ {op[c].ns} : published'[ns] = published[ns]
      BY <2>1, <2>2 DEF IInv, TypeOK
    <2>4. Exists' = Exists \cup {op[c].ns}
      BY <2>1, <2>3 DEF Exists
    <2>5. Entry' = [Entry EXCEPT ![op[c].ns] = stored[held[c]]]
      <3>1. Entry'[op[c].ns] = stored[held[c]]
        BY <2>1, <2>2, <2>3 DEF Entry
      <3>2. \A ns \in Namespaces \ {op[c].ns} : Entry'[ns] = Entry[ns]
        BY <2>2, <2>3 DEF Entry, NewUntyped
      <3> QED
        BY <3>1, <3>2 DEF Entry
    <2>6. Entry[op[c].ns] = NewUntyped
      BY <2>1 DEF Entry
    <2>7. CASE op[c].kind = "AddNamespace"
      <3>1. stored[held[c]] = Entry[op[c].ns]
        BY <1>4, <2>6, <2>7 DEF Publish, IInv, FreshIsPrivate
      <3>2. Entry' = Entry
        BY <2>1, <2>5, <3>1 DEF Entry
      <3> QED
        BY <2>1, <2>4, <3>2 DEF Map!Next, Map!AddNamespace
    <2>8. CASE op[c].kind = "Register"
      <3>1. stored[held[c]] = [Entry[op[c].ns] EXCEPT ![op[c].name] = op[c].v]
        BY <1>4, <2>6, <2>8 DEF Publish, IInv, FreshIsPrivate
      <3>2. Entry' = [Entry EXCEPT ![op[c].ns][op[c].name] = op[c].v]
        BY <2>5, <3>1
      <3>3. op[c].name \in Names /\ op[c].v \in Values
        BY <2>1, <2>8, OperationFields
      <3> QED
        BY <2>1, <2>4, <3>2, <3>3 DEF Map!Next, Map!Register
    <2> QED
      BY <2>1, <2>7, <2>8
  <1>5. ASSUME NEW c \in Clients, Store(c)
        PROVE  Map!Next
    <2> DEFINE ns == op[c].ns
    <2>1. /\ pc[c] = "access" /\ op[c].kind = "Register"
          /\ stored' = [stored EXCEPT ![held[c]][op[c].name] = op[c].v]
          /\ published' = published
      BY <1>5 DEF Store
    <2>2. /\ ns \in Namespaces /\ op[c].name \in Names /\ op[c].v \in Values
          /\ held[c] = published[ns] /\ held[c] \in Untyped /\ held[c] # NoRegister
      BY <2>1, ConstantsAssumption, OperationFields
      DEF IInv, TypeOK, HandleIsLive, AccessHolds
    <2>3. \A m \in Namespaces \ {ns} : published[m] # held[c]
      BY <2>2 DEF IInv, RegistersAreSeparate
    <2>4. /\ stored'[held[c]] = [stored[held[c]] EXCEPT ![op[c].name] = op[c].v]
          /\ \A t \in Untyped \ {held[c]} : stored'[t] = stored[t]
      BY <2>1, <2>2 DEF IInv, TypeOK
    <2>5. Exists' = Exists /\ ns \in Exists
      BY <2>1, <2>2 DEF Exists
    <2>6. \A m \in Namespaces \ {ns} : Entry'[m] = Entry[m]
      BY <2>1, <2>3, <2>4 DEF Entry, NewUntyped, IInv, TypeOK
    <2>7. Entry'[ns] = [Entry[ns] EXCEPT ![op[c].name] = op[c].v]
      BY <2>1, <2>2, <2>4 DEF Entry
    <2>8. Entry' = [Entry EXCEPT ![ns][op[c].name] = op[c].v]
      BY <2>2, <2>6, <2>7 DEF Entry
    <2> QED
      BY <2>2, <2>5, <2>8 DEF Map!Next, Map!Register
  <1> QED
    BY <1>1, <1>2, <1>3, <1>4, <1>5
    DEF Next, Call, LookFound, LookMissed, Read

(***************************************************************************)
(* The register of registers implements the map of maps: Register and      *)
(* AddNamespace take effect in one step, whoever looks on.                 *)
(***************************************************************************)
THEOREM ImplementsNamespaceMap == Spec => IsNamespaceMap
  <1>1. Init => Map!Init
    BY DEF Init, Map!Init, Exists, Entry, NewUntyped
  <1>2. IInv /\ [Next]_vars => [Map!Next]_<<Exists, Entry>>
    BY StepMaps
  <1> QED
    BY <1>1, <1>2, Inductive, PTL DEF Spec, IsNamespaceMap, Map!Spec

=============================================================================
