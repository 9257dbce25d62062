---------------------------- MODULE NamespaceMap ----------------------------
(***************************************************************************)
(* What register/register.go promises: a map of maps.  A namespace comes   *)
(* into being with its first entry, or empty, and never goes; an entry is  *)
(* only ever overwritten by another one.                                   *)
(***************************************************************************)
CONSTANTS Namespaces, Names, Values,
          NoValue   \* what a name without an entry maps to

VARIABLES
    exists,  \* the namespaces
    entry    \* [Namespaces -> [Names -> Values \cup {NoValue}]]

Init ==
    /\ exists = {}
    /\ entry = [ns \in Namespaces |-> [n \in Names |-> NoValue]]

Register(ns, n, v) ==
    /\ exists' = exists \cup {ns}
    /\ entry' = [entry EXCEPT ![ns][n] = v]

AddNamespace(ns) ==
    /\ exists' = exists \cup {ns}
    /\ UNCHANGED entry

Next ==
    \E ns \in Namespaces :
        AddNamespace(ns) \/ \E n \in Names, v \in Values : Register(ns, n, v)

Spec == Init /\ [][Next]_<<exists, entry>>

=============================================================================
