----------------------------- MODULE SrvWeights -----------------------------
(***************************************************************************)
(* sd/dnssrv/subscriber.go: how the answer to a DNS SRV query becomes the  *)
(* list of instances the balancers pick from.  A host is listed as often   *)
(* as its weight says, once the weights are scaled down to a short list    *)
(* (normalize) and divided by their greatest common divisor (compact).     *)
(*                                                                         *)
(* limit is how many instances a list is scaled down to: 100 in the code.  *)
(***************************************************************************)
EXTENDS Integers, SequencesExt

\* A weight is a uint16.
Weight == 0..65535

Total(ws) == FoldLeft(LAMBDA sum, w : sum + w, 0, ws)

\* A bug to guard against: a fixed scale, however many weights there are.
ScaleOfAlwaysLimit(ws, limit) == limit

\* scale := 100; if l := len(ws); l > scale { scale = l }
ScaleOf(ws, limit) == IF Len(ws) > limit THEN Len(ws) ELSE limit

\* A bug to guard against: what is left of the division is rounded up.
ShareRoundedUp(w, scale, sum) == (w * scale + sum - 1) \div sum

\* uint16(int64(w) * int64(scale) / sum)
Share(w, scale, sum) == (w * scale) \div sum

\* A bug to guard against: the weights of a short list are scaled as well.
NormalizeAlways(ws, limit) ==
    IF Total(ws) = 0 THEN ws
    ELSE [i \in DOMAIN ws |-> Share(ws[i], ScaleOf(ws, limit), Total(ws))]

Normalize(ws, limit) ==
    IF Total(ws) <= ScaleOf(ws, limit) THEN ws
    ELSE [i \in DOMAIN ws |-> Share(ws[i], ScaleOf(ws, limit), Total(ws))]

\* for b > 0 { a, b = b, a%b }
LocalGCD(x, y) ==
    LET gcd[z \in Nat \X Nat] == IF z[2] = 0 THEN z[1] ELSE gcd[<<z[2], z[1] % z[2]>>]
    IN gcd[<<x, y>>]

\* The fold starts with ws[0], and gcd(0, ws[0]) = ws[0].
Gcd(ws) == FoldLeft(LocalGCD, 0, ws)

\* A bug to guard against: the common divisor is not divided out.
CompactNot(ws, limit) == Normalize(ws, limit)

Compact(ws, limit) ==
    LET tmp == Normalize(ws, limit)
        div == Gcd(tmp)
    IN IF div < 2 THEN tmp ELSE [i \in DOMAIN tmp |-> tmp[i] \div div]

-----------------------------------------------------------------------------
(* resolve: an answer is a sequence of records with a priority, a weight   *)
(* and a host (target and port, as a number: they are only compared).      *)

\* The order of sort.Slice.
Before(r, s) ==
    \/ r.priority < s.priority
    \/ r.priority = s.priority /\ r.weight > s.weight
    \/ r.priority = s.priority /\ r.weight = s.weight /\ r.host < s.host

\* An answer in any order, and the one sort.Slice leaves it in.
Orders(answer) ==
    {[i \in DOMAIN answer |-> answer[p[i]]] : p \in Bijection(DOMAIN answer, DOMAIN answer)}
Sorted(answer) ==
    CHOOSE s \in Orders(answer) : \A i, j \in DOMAIN answer : i < j => ~Before(s[j], s[i])

\* A bug to guard against: records of every priority are used.
BestOfAll(answer) == Sorted(answer)

\* if a.Priority > srvs[0].Priority { break }
Best(answer) ==
    LET sorted == Sorted(answer)
        as == {n \in 0..Len(answer) : \A m \in 1..n : sorted[m].priority <= sorted[1].priority}
    IN SubSeq(sorted, 1, Max(as))

Instances(answer, limit) ==
    LET best  == Best(answer)
        times == Compact([i \in DOMAIN best |-> best[i].weight], limit)
    IN FlattenSeq([i \in DOMAIN best |-> [j \in 1..times[i] |-> best[i].host]])

-----------------------------------------------------------------------------
(* What the balancers and the operators rely on                            *)

\* How often a host is listed.
Listed(list, host) == Cardinality({n \in DOMAIN list : list[n] = host})

(***************************************************************************)
(* A list of instances stays short: at most limit of them, or one for each *)
(* weight if there are more weights than that.                             *)
(***************************************************************************)
ListIsShort(ws, limit) ==
    Total(Compact(ws, limit)) <= IF Len(ws) > limit THEN Len(ws) ELSE limit

(***************************************************************************)
(* A service with a positive weight keeps an instance: the scaling never   *)
(* rounds every weight down to zero, and the one with the largest weight   *)
(* is always listed.                                                       *)
(***************************************************************************)
LargestIsListed(ws, limit) ==
    \A i \in DOMAIN ws :
        (ws[i] > 0 /\ \A j \in DOMAIN ws : ws[j] <= ws[i]) => Compact(ws, limit)[i] > 0

(***************************************************************************)
(* The shares are fair: a host with a larger weight has no fewer instances *)
(* than another, and weights that need no scaling keep their proportions   *)
(* exactly.                                                                *)
(***************************************************************************)
SharesAreFair(ws, limit) ==
    LET times == Compact(ws, limit) IN
    \A i, j \in DOMAIN ws :
        /\ ws[i] >= ws[j] => times[i] >= times[j]
        /\ Total(ws) <= limit => times[i] * ws[j] = times[j] * ws[i]

(***************************************************************************)
(* The list is as short as its proportions allow: no number above 1        *)
(* divides how often each host is listed.                                  *)
(***************************************************************************)
Irreducible(ws, limit) ==
    LET times == Compact(ws, limit) IN
    \A d \in 2..limit : (\A i \in DOMAIN ws : times[i] % d = 0) =>
        \A i \in DOMAIN ws : times[i] = 0

(***************************************************************************)
(* The instances are those of the best priority only, a host is listed no  *)
(* more often than one of a larger weight, and the order in which the      *)
(* server listed its records makes no difference.                          *)
(***************************************************************************)
InstancesOfBest(answer, limit) ==
    LET best == {i \in DOMAIN answer :
                    \A j \in DOMAIN answer : answer[i].priority <= answer[j].priority}
        list == Instances(answer, limit)
        n(i) == Listed(list, answer[i].host)
    IN /\ \A i \in DOMAIN answer : n(i) > 0 => i \in best
       /\ \A i, j \in best : answer[i].weight >= answer[j].weight => n(i) >= n(j)
       /\ Instances(Reverse(answer), limit) = list

=============================================================================
