-------------------------- MODULE EntityFormatter ---------------------------
(***************************************************************************)
(* proxy/formatter.go: what a backend's response is reduced to before it   *)
(* is merged.  A target is extracted, the fields are filtered by a list of *)
(* allowed or of denied paths, top level fields are renamed in the order   *)
(* in which Go iterates over a map (any), and the rest is put in a group.  *)
(*                                                                         *)
(* A JSON object is a tree: the paths of its nodes, and which of them are  *)
(* values and not objects.  The two filters compile their lists to trees   *)
(* of the same kind and walk both trees together.                          *)
(***************************************************************************)
EXTENDS SequencesExt

CONSTANT GroupKey     \* the name of a group

-----------------------------------------------------------------------------
(* Trees                                                                   *)

Empty == [nodes |-> {}, values |-> {}]

Keys(t) == {p[1] : p \in t.nodes}
IsObject(t, k) == <<k>> \in t.nodes \ t.values

Below(paths, k) == {Tail(p) : p \in {q \in paths : Len(q) > 1 /\ q[1] = k}}
Sub(t, k) == [nodes |-> Below(t.nodes, k), values |-> Below(t.values, k)]

Without(t, ks) ==
    [nodes |-> {p \in t.nodes : p[1] \notin ks}, values |-> {p \in t.values : p[1] \notin ks}]

Joined(t, u) == [nodes |-> t.nodes \cup u.nodes, values |-> t.values \cup u.values]

\* The object with the single field k, of what s says.
Single(k, s) ==
    [nodes |-> {<<k>>} \cup {<<k>> \o p : p \in s.nodes}, values |-> {<<k>> \o p : p \in s.values}]

\* The object with the single field k, of what field f of t is.
Renamed(t, f, k) ==
    [nodes |-> {<<k>> \o Tail(p) : p \in {q \in t.nodes : q[1] = f}},
     values |-> {<<k>> \o Tail(p) : p \in {q \in t.values : q[1] = f}}]

\* What is left of t when the fields at the given paths are deleted from it.
Delete(t, paths) ==
    LET gone == {p \in t.nodes : \E q \in paths : IsPrefix(q, p)}
    IN [nodes |-> t.nodes \ gone, values |-> t.values \ gone]

-----------------------------------------------------------------------------
(* The lists as trees                                                      *)

PathsTo(p) == Prefixes(p) \ {<< >>}

\* d := buildDictPath(wlDict, wlFields[:len-1]); d[last] = true
Mark(t, path) ==
    [nodes |-> {p \in t.nodes : ~IsPrefix(path, p)} \cup PathsTo(path),
     values |-> {p \in t.values : ~IsPrefix(path, p) /\ ~IsPrefix(p, path)} \cup {path}]

\* A bug to guard against: a path below a denied one replaces it.
BuildDenyTreeReplaces(t, path) == Mark(t, path)

\* buildDenyTree: nothing to add below a node that is deleted as a whole.
BuildDenyTree(t, path) ==
    IF \E p \in t.values : IsPrefix(p, path) THEN t ELSE Mark(t, path)

AllowTree(list) ==
    LET tree[i \in 0..Len(list)] == IF i = 0 THEN Empty ELSE Mark(tree[i - 1], list[i])
    IN tree[Len(list)]

DenyTree(list) ==
    LET tree[i \in 0..Len(list)] == IF i = 0 THEN Empty ELSE BuildDenyTree(tree[i - 1], list[i])
    IN tree[Len(list)]

-----------------------------------------------------------------------------
(* The filters.  A walk is at p when it looks at the last key of p.        *)

\* AllowlistPrune: deleteSibling.  Below an allowed path it does not walk.
AllowlistPrune(wl, in) ==
    LET deleted[p \in in.nodes] ==
            /\ p \notin wl.values
            /\ ~ /\ p \in wl.nodes /\ p \notin in.values
                 /\ \E q \in in.nodes : Front(q) = p /\ ~deleted[q]
    IN Delete(in, {p \in in.nodes : deleted[p] /\ ~\E w \in wl.values : IsPrefix(w, p)})

\* recDelete: it walks where both trees lead, and not below what it deletes.
RecDelete(ref, m) ==
    LET walked[p \in m.nodes] ==
            /\ p \in ref.nodes
            /\ Len(p) > 1 => walked[Front(p)] /\ Front(p) \notin ref.values
    IN Delete(m, {p \in ref.values \cap m.nodes : walked[p]})

\* extractTarget
Extract(t, target) ==
    LET data[i \in 0..Len(target)] ==
            IF i = 0 THEN t
            ELSE IF IsObject(data[i - 1], target[i]) THEN Sub(data[i - 1], target[i])
            ELSE Empty
    IN data[Len(target)]

-----------------------------------------------------------------------------
(* Format                                                                  *)

\* A formatter: [target, allow, deny, mapping, group].
Received(fmt, data) == Extract(data, fmt.target)

\* NewEntityFormatter: the denied paths count only if none is allowed.
Filtered(fmt, in) ==
    IF in = Empty THEN Empty
    ELSE IF fmt.allow # << >> THEN AllowlistPrune(AllowTree(fmt.allow), in)
    ELSE RecDelete(DenyTree(fmt.deny), in)

\* entity.Data[newKey] = v; delete(entity.Data, formerKey)
MapOne(d, former, new) ==
    IF former \notin Keys(d) THEN d
    ELSE Without(Joined(Without(d, {new}), Renamed(d, former, new)), {former})

\* The mapping, in an order Go may iterate in.
MapInOrder(mapping, order, in) ==
    LET data[i \in 0..Len(order)] ==
            IF i = 0 THEN in ELSE MapOne(data[i - 1], order[i], mapping[order[i]])
    IN data[Len(order)]

Mapped(fmt, in) ==
    IF in = Empty THEN {in}
    ELSE {MapInOrder(fmt.mapping, order, in) : order \in SetToSeqs(DOMAIN fmt.mapping)}

Grouped(fmt, d) == IF fmt.group THEN Single(GroupKey, d) ELSE d

Format(fmt, data) == {Grouped(fmt, d) : d \in Mapped(fmt, Filtered(fmt, Received(fmt, data)))}

-----------------------------------------------------------------------------
(* What a formatter is configured for                                      *)

IsTree(t) ==
    /\ \A p \in t.nodes : PathsTo(p) \subseteq t.nodes
    /\ t.values \subseteq t.nodes
    /\ \A p \in t.values, q \in t.nodes : IsPrefix(p, q) => p = q

\* A path of the list is replaced by a later one that leads to it or through it.
Effective(list) ==
    {list[i] : i \in {j \in DOMAIN list :
        \A k \in DOMAIN list : k > j => ~IsPrefix(list[j], list[k]) /\ ~IsPrefix(list[k], list[j])}}

(***************************************************************************)
(* The walk of the allowed tree leaves exactly the allowed paths: what is  *)
(* at or below one of them, and the objects that lead there.  Objects that *)
(* the walk emptied are gone.                                              *)
(***************************************************************************)
AllowedExactly(fmt, in) ==
    fmt.allow # << >> =>
        Filtered(fmt, in).nodes =
            {p \in in.nodes : \E w \in Effective(fmt.allow) :
                IsPrefix(w, p) \/ (IsPrefix(p, w) /\ w \in in.nodes)}

(***************************************************************************)
(* The walk of the denied tree removes exactly the denied paths and what   *)
(* is below them, in whatever order and however nested they are listed.    *)
(***************************************************************************)
DeniedExactly(fmt, in) ==
    fmt.allow = << >> =>
        Filtered(fmt, in).nodes = {p \in in.nodes : ~\E w \in ToSet(fmt.deny) : IsPrefix(w, p)}

\* The new names are all different, and none is a field of the response.
PlainMapping(fmt, in) ==
    /\ \A f, g \in DOMAIN fmt.mapping : fmt.mapping[f] = fmt.mapping[g] => f = g
    /\ \A f \in DOMAIN fmt.mapping : fmt.mapping[f] \notin Keys(in) \cup DOMAIN fmt.mapping

(***************************************************************************)
(* The order in which Go iterates over the mapping makes no difference if  *)
(* the new names are no fields of the response: every field is renamed, no *)
(* other is touched, and none is lost.                                     *)
(***************************************************************************)
MappingRenames(fmt, in) ==
    PlainMapping(fmt, in) =>
        LET New(k) == IF k \in DOMAIN fmt.mapping THEN fmt.mapping[k] ELSE k IN
        \A d \in Mapped(fmt, in) : d.nodes = {<<New(p[1])>> \o Tail(p) : p \in in.nodes}

(***************************************************************************)
(* Whatever the names of the mapping are, a field of the result is one the *)
(* filter passed, as a whole: the mapping mixes no two of them.            *)
(***************************************************************************)
NothingInvented(fmt, in, out) ==
    LET fields == IF fmt.group THEN Sub(out, GroupKey) ELSE out IN
    \A k \in Keys(fields) : \E f \in Keys(in) : Renamed(fields, k, k) = Renamed(in, f, k)

(***************************************************************************)
(* Every formatter does to every response what its configuration says.     *)
(***************************************************************************)
AllFormatsExact(formatters, datas) ==
    \A fmt \in formatters, data \in datas :
        LET in == Received(fmt, data)  left == Filtered(fmt, in) IN
        /\ AllowedExactly(fmt, in) /\ DeniedExactly(fmt, in) /\ MappingRenames(fmt, left)
        /\ \A out \in Format(fmt, data) : IsTree(out) /\ NothingInvented(fmt, left, out)

=============================================================================
