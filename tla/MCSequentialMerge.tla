-------------------------- MODULE MCSequentialMerge -------------------------
(* A small instance of SequentialMerge for TLC: four backends, of which    *)
(* the later ones refer to values of the ones before them.                 *)
EXTENDS SequentialMerge

CONSTANT k1

MCN == 4
MCSource == (1..4) \X BOOLEAN
MCKey == {k1}

\* /a/{{.Resp0_k1}} ; /b/{{.Resp0_k1}} ; /c/{{.Resp0_k1}} ; /d/{{.Resp1_k1}}/{{.Resp2_k1}}
MCUrlRefs == <<{<<1, k1>>}, {<<1, k1>>}, {<<1, k1>>}, {<<2, k1>>, <<3, k1>>}>>

\* /a ; /b ; /c/{{.Resp0_k1}} ; /d : Resp0_k1 is used for the first time by /c.
MCUrlRefsLate == <<{}, {}, {<<1, k1>>}, {}>>

\* resp0 and, out of range, resp7_k1
MCPropagated == {<<1, Body>>, <<8, k1>>}

MCReplies ==
    {[isComplete |-> TRUE, hasData |-> TRUE, keys |-> {k1}, blanks |-> b, io |-> io] :
        b \in {{}, {k1}}, io \in BOOLEAN}
    \cup {[isComplete |-> c, hasData |-> h, keys |-> {}, blanks |-> {}, io |-> FALSE] :
        c, h \in BOOLEAN}
    \cup {[isComplete |-> FALSE, hasData |-> TRUE, keys |-> {k1}, blanks |-> {}, io |-> FALSE]}

=============================================================================
