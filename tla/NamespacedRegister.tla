------------------------- MODULE NamespacedRegister -------------------------
(***************************************************************************)
(* register/register.go: a register of registers.  Each Untyped register   *)
(* guards its own map with a lock, so one access of one of them is a step; *)
(* an operation of the Namespaced one is made of several such steps and    *)
(* holds no lock between them.  The modifiers, client plugins and server   *)
(* plugins are kept in such registers: one goroutine loads them, while the *)
(* pipes and handlers are free to look them up.                            *)
(***************************************************************************)
EXTENDS Naturals

CONSTANTS
    Namespaces, Names, Values,
    NoValue,    \* what a name without an entry maps to
    Clients,    \* the goroutines that use the register
    Writers,    \* those of them that write to it
    Untyped,    \* the Untyped registers that can be allocated
    NoRegister  \* the nil register

ASSUME ConstantsAssumption ==
    /\ NoValue \notin Values
    /\ NoRegister \notin Untyped
    /\ Writers \subseteq Clients
    /\ \A c, d \in Writers : c = d   \* the plugins are loaded one after the other

VARIABLES
    published,  \* the outer map: the register of each namespace
    stored,     \* the map of each Untyped register
    allocated,  \* the registers created so far
    op,         \* what each client is doing
    pc,         \* where it is
    held        \* the register in its hands

vars == <<published, stored, allocated, op, pc, held>>

NoOp == [kind |-> "none"]

Operations ==
    [kind : {"Register"}, ns : Namespaces, name : Names, v : Values]
      \cup [kind : {"AddNamespace"}, ns : Namespaces]
      \cup [kind : {"Get"}, ns : Namespaces, name : Names]

NewUntyped == [n \in Names |-> NoValue]

-----------------------------------------------------------------------------

Init ==
    /\ published = [ns \in Namespaces |-> NoRegister]
    /\ stored = [u \in Untyped |-> NewUntyped]
    /\ allocated = {}
    /\ op = [c \in Clients |-> NoOp]
    /\ pc = [c \in Clients |-> "idle"]
    /\ held = [c \in Clients |-> NoRegister]

Call(c) ==
    /\ pc[c] = "idle"
    /\ \E o \in Operations :
        /\ o.kind = "Get" \/ c \in Writers
        /\ op' = [op EXCEPT ![c] = o]
    /\ pc' = [pc EXCEPT ![c] = "look"]
    /\ UNCHANGED <<published, stored, allocated, held>>

Return(c) ==
    /\ pc' = [pc EXCEPT ![c] = "idle"]
    /\ op' = [op EXCEPT ![c] = NoOp]
    /\ held' = [held EXCEPT ![c] = NoRegister]

\* if register, ok := n.Get(namespace); ok
LookFound(c) ==
    /\ pc[c] = "look"
    /\ published[op[c].ns] # NoRegister
    /\ IF op[c].kind = "AddNamespace" THEN Return(c)
       ELSE /\ pc' = [pc EXCEPT ![c] = "access"]
            /\ held' = [held EXCEPT ![c] = published[op[c].ns]]
            /\ UNCHANGED op
    /\ UNCHANGED <<published, stored, allocated>>

LookMissed(c) ==
    /\ pc[c] = "look" /\ op[c].kind = "Get"
    /\ published[op[c].ns] = NoRegister
    /\ Return(c)
    /\ UNCHANGED <<published, stored, allocated>>

\* A bug to guard against: the new register is filled after it is published.
FreshFilledLater(c) ==
    /\ pc[c] = "look" /\ op[c].kind # "Get"
    /\ published[op[c].ns] = NoRegister
    /\ \E u \in Untyped \ allocated :
        /\ allocated' = allocated \cup {u}
        /\ published' = [published EXCEPT ![op[c].ns] = u]
        /\ held' = [held EXCEPT ![c] = u]
    /\ pc' = [pc EXCEPT ![c] = IF op[c].kind = "Register" THEN "access" ELSE "publish"]
    /\ UNCHANGED <<stored, op>>

\* register := NewUntyped(); register.Register(name, v): nobody else sees it.
Fresh(c) ==
    /\ pc[c] = "look" /\ op[c].kind # "Get"
    /\ published[op[c].ns] = NoRegister
    /\ \E u \in Untyped \ allocated :
        /\ allocated' = allocated \cup {u}
        /\ stored' = [stored EXCEPT ![u] =
                        IF op[c].kind = "Register"
                        THEN [NewUntyped EXCEPT ![op[c].name] = op[c].v] ELSE NewUntyped]
        /\ held' = [held EXCEPT ![c] = u]
    /\ pc' = [pc EXCEPT ![c] = "publish"]
    /\ UNCHANGED <<published, op>>

\* n.data.Register(namespace, register)
Publish(c) ==
    /\ pc[c] = "publish"
    /\ published' = [published EXCEPT ![op[c].ns] = held[c]]
    /\ Return(c)
    /\ UNCHANGED <<stored, allocated>>

\* A bug to guard against: an entry that is there is not overwritten.
StoreOnce(c) ==
    /\ pc[c] = "access" /\ op[c].kind = "Register"
    /\ stored' = IF stored[held[c]][op[c].name] # NoValue THEN stored
                 ELSE [stored EXCEPT ![held[c]] = [NewUntyped EXCEPT ![op[c].name] = op[c].v]]
    /\ Return(c)
    /\ UNCHANGED <<published, allocated>>

\* Untyped.Register
Store(c) ==
    /\ pc[c] = "access" /\ op[c].kind = "Register"
    /\ stored' = [stored EXCEPT ![held[c]][op[c].name] = op[c].v]
    /\ Return(c)
    /\ UNCHANGED <<published, allocated>>

\* Untyped.Get
Read(c) ==
    /\ pc[c] = "access" /\ op[c].kind = "Get"
    /\ Return(c)
    /\ UNCHANGED <<published, stored, allocated>>

Next ==
    \E c \in Clients :
        \/ Call(c) \/ LookFound(c) \/ LookMissed(c) \/ Fresh(c) \/ Publish(c)
        \/ Store(c) \/ Read(c)

Spec == Init /\ [][Next]_vars

-----------------------------------------------------------------------------
(* Properties                                                              *)

TypeOK ==
    /\ published \in [Namespaces -> Untyped \cup {NoRegister}]
    /\ stored \in [Untyped -> [Names -> Values \cup {NoValue}]]
    /\ allocated \subseteq Untyped
    /\ op \in [Clients -> Operations \cup {NoOp}]
    /\ pc \in [Clients -> {"idle", "look", "access", "publish"}]
    /\ held \in [Clients -> Untyped \cup {NoRegister}]
    /\ \A c \in Clients : pc[c] # "idle" => op[c] \in Operations
    /\ \A c \in Clients : op[c].kind \in {"Register", "AddNamespace"} => c \in Writers

(***************************************************************************)
(* The register that a client got for a namespace is still the one of that *)
(* namespace when the client uses it: what a reader finds is current, and  *)
(* no entry is lost in a register that was replaced.                       *)
(***************************************************************************)
HandleIsLive ==
    \A c \in Clients : pc[c] = "access" => held[c] = published[op[c].ns]

(***************************************************************************)
(* Two namespaces never share a register, and one that is being filled is  *)
(* not reachable yet.                                                      *)
(***************************************************************************)
RegistersAreSeparate ==
    /\ \A m, n \in Namespaces :
        m # n /\ published[m] # NoRegister => published[m] # published[n]
    /\ \A c \in Clients, ns \in Namespaces :
        pc[c] = "publish" => held[c] # published[ns]

Exists == {ns \in Namespaces : published[ns] # NoRegister}

Entry ==
    [ns \in Namespaces |->
        IF published[ns] = NoRegister THEN NewUntyped ELSE stored[published[ns]]]

Map == INSTANCE NamespaceMap WITH exists <- Exists, entry <- Entry

(***************************************************************************)
(* Register and AddNamespace take effect at once, or not yet: the two      *)
(* levels of registers are a map of maps that changes in single steps.     *)
(***************************************************************************)
IsNamespaceMap == Map!Spec

PublishedAreAllocated ==
    \A ns \in Namespaces : published[ns] \in allocated \cup {NoRegister}

FreshIsPrivate ==
    \A c \in Clients : pc[c] = "publish" =>
        /\ op[c].kind \in {"Register", "AddNamespace"}
        /\ published[op[c].ns] = NoRegister
        /\ held[c] \in allocated
        /\ stored[held[c]] = IF op[c].kind = "Register"
                             THEN [NewUntyped EXCEPT ![op[c].name] = op[c].v] ELSE NewUntyped

AccessHolds ==
    \A c \in Clients : pc[c] = "access" =>
        op[c].kind \in {"Register", "Get"} /\ held[c] \in allocated

(***************************************************************************)
(* The strengthening that is inductive: with one writer no namespace is    *)
(* created between the look and the publication, and a fresh register is   *)
(* in that writer's hands only, with the one entry it is created for.      *)
(***************************************************************************)
IInv ==
    TypeOK /\ HandleIsLive /\ RegistersAreSeparate /\ PublishedAreAllocated /\ FreshIsPrivate
      /\ AccessHolds

=============================================================================
