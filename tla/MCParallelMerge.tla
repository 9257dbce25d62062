--------------------------- MODULE MCParallelMerge --------------------------
(* Small instances of ParallelMerge for TLC.                               *)
EXTENDS ParallelMerge

MCN == 3
MCSource == 1..3

\* One key: every response has it, lacks it, or has no Data map at all.
MCReplies ==
    {[isComplete |-> TRUE,  hasData |-> TRUE,  keys |-> Key],
     [isComplete |-> TRUE,  hasData |-> TRUE,  keys |-> {}],
     [isComplete |-> FALSE, hasData |-> TRUE,  keys |-> Key],
     [isComplete |-> TRUE,  hasData |-> FALSE, keys |-> {}]}

=============================================================================
