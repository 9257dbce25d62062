---------------------------- MODULE MergerConfig ----------------------------
(***************************************************************************)
(* What the extra configuration of an endpoint makes of the merge of its   *)
(* backends (NewMergeDataMiddleware of proxy/merging.go): the strategy,    *)
(* the combiner and the propagated parameters, each with what it falls     *)
(* back to; and which value of a response a nested name like Resp0_a.b     *)
(* finds (sequentialMerge).  SequentialMerge has names without dots only.  *)
(*                                                                         *)
(* A response is a tree: the paths of its nodes, and which of them are     *)
(* values and not objects.                                                 *)
(***************************************************************************)
EXTENDS Naturals, Sequences, SequencesExt, FiniteSetsExt

\* What is under the namespace of the proxy; custom ones have been registered.
Extra ==
    [object     : BOOLEAN,      \* there is something, and it is an object
     strategy   : {"none", "no text", "parallel", "sequential", "custom", "unknown"},
     sequential : {"none", "no boolean", "false", "true"},
     combiner   : {"none", "no text", "default", "custom", "unknown"},
     propagated : {"none", "no list", "texts", "others"},
     filters    : {"made", "failed"}]

Mergers == {"parallel", "sequential", "custom"}
Combiners == {"default", "custom"}

\* A bug to guard against: the old flag goes before the strategy.
StrategyFlagFirst(extra) ==
    CASE extra.object /\ extra.sequential = "true" -> "sequential"
      [] extra.object /\ extra.sequential # "true" /\ extra.strategy \in Mergers -> extra.strategy
      [] OTHER -> "parallel"

\* getMergerFactory
Strategy(extra) ==
    CASE extra.object /\ extra.strategy \in Mergers -> extra.strategy
      [] extra.object /\ extra.strategy = "none" /\ extra.sequential = "true" -> "sequential"
      [] OTHER -> "parallel"

\* getResponseCombinerName
Combiner(extra) ==
    IF extra.object /\ extra.combiner \in Combiners THEN extra.combiner ELSE "default"

\* NewMergeDataMiddleware: it panics over what it takes for texts, and a factory
\* of filters that fails leaves a proxy that does nothing else.
Merge(extra) ==
    CASE extra.object /\ extra.combiner = "no text" -> [is |-> "panic"]
      [] extra.object /\ extra.combiner # "no text"
           /\ Strategy(extra) = "sequential" /\ extra.propagated = "others" -> [is |-> "panic"]
      [] OTHER ->
           IF extra.filters = "failed" THEN [is |-> "fails"]
           ELSE [is |-> Strategy(extra), combiner |-> Combiner(extra)]

-----------------------------------------------------------------------------
(* Nested names                                                            *)

\* A bug to guard against: the last name is taken for an object, too.
ReachedTooFar(t, path) ==
    Max({n \in 0..Len(path) : \A m \in 1..n : SubSeq(path, 1, m) \in t.nodes \ t.values})

\* How many names the loop over r.source[:len(r.source)-1] follows.
Reached(t, path) ==
    Max({n \in 0..(Len(path) - 1) : \A m \in 1..n : SubSeq(path, 1, m) \in t.nodes \ t.values})

\* data[r.source[len(r.source)-1]]: the loop does not say if it got to the end.
FoundAt(t, path) == SubSeq(path, 1, Reached(t, path)) \o <<Last(path)>>
Finds(t, path) == FoundAt(t, path) \in t.nodes

-----------------------------------------------------------------------------
(* Properties                                                              *)

(***************************************************************************)
(* An endpoint is merged sequentially if it says so, and if only the old   *)
(* flag says so: any other strategy, even one that nobody registered,      *)
(* overrules the flag, and the backends run at the same time.  It cannot   *)
(* be built only if a text is something else that is used.                 *)
(***************************************************************************)
MergesAsConfigured(extra) ==
    LET merge == Merge(extra)
        asked == extra.object /\ (\/ extra.strategy = "sequential"
                                  \/ extra.strategy = "none" /\ extra.sequential = "true")
    IN /\ merge.is = "sequential" => asked
       /\ asked => merge.is \in {"sequential", "panic", "fails"}
       /\ merge.is = "panic" => \/ extra.combiner = "no text"
                                \/ asked /\ extra.propagated = "others"

(***************************************************************************)
(* A nested name finds the value it names if there is one.  If its path    *)
(* breaks off, it finds a value with the last name further up, or none.    *)
(***************************************************************************)
FindsTheNamed(t, path) ==
    /\ path \in t.nodes => FoundAt(t, path) = path
    /\ Finds(t, path) /\ path \notin t.nodes =>
         /\ Len(FoundAt(t, path)) < Len(path)
         /\ Last(FoundAt(t, path)) = Last(path)
         /\ IsPrefix(Front(FoundAt(t, path)), path)

=============================================================================
