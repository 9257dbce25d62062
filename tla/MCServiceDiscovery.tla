------------------------- MODULE MCServiceDiscovery -------------------------
(***************************************************************************)
(* A small instance of ServiceDiscovery for TLC, and the comparison of     *)
(* SrvWeights, which computes the lists of instances, with what the        *)
(* balancers and operators rely on, over every small answer.               *)
(***************************************************************************)
EXTENDS ServiceDiscovery

Srv == INSTANCE SrvWeights

\* Host h, weight w, priority p.
Rec(h, w, p) == [priority |-> p, weight |-> w, host |-> h]

MCHost == {1, 2}

\* Two hosts; one host; nothing.
MCRecords == {<<Rec(2, 1, 1), Rec(1, 1, 1)>>, <<Rec(2, 1, 1)>>, << >>}
MCAnswer == {<<1, 2>>, <<2>>, << >>}

ASSUME MCAnswerAssumption == MCAnswer = {Srv!Instances(a, 100) : a \in MCRecords}

\* The weights tried together, and those of an answer with many records.
MCWeights == {0, 1, 6, 25, 100, 10000, 65535}
MCFewWeights == {0, 1, 2, 6, 65535}

\* The answers of up to three records: host i of an answer is 7 - i.
MCAnswers == UNION {[1..n -> MCWeights \X {1, 2}] : n \in 0..3}
RecordsOf(wps) == [i \in DOMAIN wps |-> Rec(7 - i, wps[i][1], wps[i][2])]

\* One state, to evaluate a property of SrvWeights in.
AtFirst ==
    kind = "nop" /\ dns = << >> /\ changes = 0 /\ \A c \in Client : pc[c] = "idle"

(***************************************************************************)
(* The list the balancers pick from does what the weights of the DNS       *)
(* records ask for: short, fair, irreducible, of the best priority only,   *)
(* and never empty for a service with a positive weight, whether the list  *)
(* is scaled down to 100 or there are more records than it is scaled to.   *)
(***************************************************************************)
InstancesAreFair == AtFirst =>
    /\ \A wps \in MCAnswers : Srv!InstancesOfBest(RecordsOf(wps), 100)
    /\ \A ws \in UNION {[1..n -> MCWeights] : n \in 1..3} :
            Srv!SharesAreFair(ws, 100) /\ Srv!Irreducible(ws, 100)
            /\ Srv!ListIsShort(ws, 100) /\ Srv!LargestIsListed(ws, 100)
    /\ \A ws \in [1..5 -> MCFewWeights] :
            Srv!ListIsShort(ws, 3) /\ Srv!LargestIsListed(ws, 3)

=============================================================================
