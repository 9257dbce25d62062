---------------------------- MODULE MergePromise ----------------------------
(***************************************************************************)
(* What a merging middleware promises the endpoint, whatever the order in  *)
(* which it calls its backends: each backend is skipped by its filter or   *)
(* asked, at most once; the middleware answers only when nothing it asked  *)
(* for is outstanding, and leaves a backend unasked only because something *)
(* already went wrong; and its answer is a function of what the backends   *)
(* did.  Both parallelMerge and sequentialMerge of proxy/merging.go are    *)
(* shown to implement it.                                                  *)
(***************************************************************************)
CONSTANT Backend

VARIABLES
    skipped,   \* backends their BackendFilterer discarded
    asked,     \* backends called
    answer,    \* what became of the call, per backend
    result     \* what the caller got

vars == <<skipped, asked, answer, result>>

Answer == {"none", "full", "hollow", "partial", "error"}

With(a) == {b \in asked : answer[b] = a}

Kinds == {"pending", "nothing", "error", "partial", "complete"}

(***************************************************************************)
(* A complete answer needs every asked backend to answer completely and    *)
(* nothing left out.  A response without a Data map ("hollow") spoils the  *)
(* combination with any other response but not an answer of its own.       *)
(***************************************************************************)
Outcome ==
    LET good == With("full") \cup With("hollow") \cup With("partial") IN
    IF good = {} THEN IF With("error") = {} THEN "nothing" ELSE "error"
    ELSE IF /\ asked \cup skipped = Backend
            /\ With("error") \cup With("partial") = {}
            /\ With("hollow") # {} => \E b \in good : good = {b}
         THEN "complete"
         ELSE "partial"

Init ==
    /\ skipped = {}
    /\ asked = {}
    /\ answer = [b \in Backend |-> "none"]
    /\ result = "pending"

Skip(b) ==
    /\ result = "pending"
    /\ b \notin asked \cup skipped
    /\ skipped' = skipped \cup {b}
    /\ UNCHANGED <<asked, answer, result>>

Ask(b) ==
    /\ result = "pending"
    /\ b \notin asked \cup skipped
    /\ asked' = asked \cup {b}
    /\ UNCHANGED <<skipped, answer, result>>

Reply(b, a) ==
    /\ b \in asked
    /\ answer[b] = "none"
    /\ answer' = [answer EXCEPT ![b] = a]
    /\ UNCHANGED <<skipped, asked, result>>

Return ==
    /\ result = "pending"
    /\ With("none") = {}
    /\ asked \cup skipped = Backend \/ With("error") \cup With("partial") # {}
    /\ result' = Outcome
    /\ UNCHANGED <<skipped, asked, answer>>

Next ==
    \/ \E b \in Backend : Skip(b) \/ Ask(b)
    \/ \E b \in Backend, a \in Answer \ {"none"} : Reply(b, a)
    \/ Return

Spec == Init /\ [][Next]_vars

=============================================================================
