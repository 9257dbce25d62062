-------------------------- MODULE MCRequestSharing --------------------------
(***************************************************************************)
(* The endpoint configurations TLC looks at: pairs of five backends, as   *)
(* an endpoint merged either way, or as a backend and its shadow.  What    *)
(* the filters and the GraphQL middleware make of a request, functions, is *)
(* compared with what they are configured for: lists of up to two names    *)
(* for an endpoint and three for a backend, two GraphQL variables; and so  *)
(* are the choice of a merger and the look up of nested names.             *)
(***************************************************************************)
EXTENDS RequestSharing

Plain == [method |-> "GET", filterQuery |-> FALSE, filterHeaders |-> FALSE, calls |-> 1,
          graphql |-> "none", get |-> FALSE, replaced |-> FALSE]

Kinds == {
    Plain,
    [Plain EXCEPT !.method = "POST", !.filterHeaders = TRUE, !.replaced = TRUE],
    [Plain EXCEPT !.graphql = "query", !.calls = 2, !.replaced = TRUE],
    [Plain EXCEPT !.graphql = "query", !.get = TRUE, !.filterQuery = TRUE],
    [Plain EXCEPT !.graphql = "mutation", !.method = "POST"]}

Endpoint(merge, shadow) ==
    {[merge |-> merge, force |-> f, body |-> b, modifier |-> f, shadow |-> shadow, backends |-> <<k1, k2>>] :
        f \in BOOLEAN, b \in BOOLEAN, k1 \in Kinds, k2 \in Kinds}

MCConfigs == Endpoint("parallel", FALSE) \cup Endpoint("sequential", FALSE)
             \cup {c \in Endpoint("single", TRUE) : c.body /\ c.force}

-----------------------------------------------------------------------------
Mrg == INSTANCE MergerConfig
Fwd == INSTANCE Forwarding
Gql(Placeholder) == INSTANCE GraphQLRequest

MCPlaceholder == [p \in {"{user}", "{User}"} |-> "User"]

UpTo(n, names) == UNION {[1..k -> names] : k \in 0..n}

Sent == {"Content-Type", "X-Real-Ip", "User-Agent", "X-Forwarded-For", "X-Forwarded-Via"}
ListedByBackend == {"Content-Type", "User-Agent", "X-Forwarded-For", "X-Forwarded-Via"}

Variables == UNION {[vs -> Gql(MCPlaceholder)!Value] : vs \in SUBSET {"a", "b"}}
Bodies == {Gql(MCPlaceholder)!NoObject, Gql(MCPlaceholder)!Null} \cup {Gql(MCPlaceholder)!Object(f) : f \in SUBSET {"a", "c"}}

\* Responses of two levels; what has nothing below it may be a value or not.
Nodes == {<<n>> : n \in {"a", "b"}} \cup {<<n, m>> : n, m \in {"a", "b"}}
Trees == {[nodes |-> s, values |-> v] : s \in SUBSET Nodes, v \in SUBSET Nodes}
IsTree(t) ==
    /\ t.values \subseteq t.nodes
    /\ \A p \in t.nodes : Len(p) = 2 => p \in t.values /\ <<p[1]>> \in t.nodes \ t.values
Names == Nodes \cup {<<n, m, o>> : n, m, o \in {"a", "b"}}

\* One state: what is said of the functions does not depend on it.
AtFirst ==
    /\ main = 1 /\ cfg.merge = "parallel" /\ ~cfg.force /\ ~cfg.body
    /\ cfg.backends = <<Plain, Plain>>
    /\ \A g \in Goroutine : pc[g] = "idle"

(***************************************************************************)
(* Whatever lists and GraphQL options there are, a backend is sent the     *)
(* headers, query strings and variables these say, and no others; and the  *)
(* backends are called in the way, and with the values, the endpoint says. *)
(***************************************************************************)
RequestsAreExact ==
    AtFirst =>
        /\ \A list \in UpTo(2, Sent \cup {"*"}), backend \in UpTo(3, ListedByBackend), client \in SUBSET Sent :
             Fwd!HeadersAreExact(list, backend, client)
        /\ \A list \in UpTo(2, {"p", "q", "*"}), backend \in UpTo(3, {"p", "q", "*"}), client \in SUBSET {"p", "q", "r"} :
             Fwd!QueryIsExact(list, backend, client)
        /\ \A extra \in Mrg!Extra : Mrg!MergesAsConfigured(extra)
        /\ \A t \in {u \in Trees : IsTree(u)}, path \in Names : Mrg!FindsTheNamed(t, path)
        /\ Gql(MCPlaceholder)!GeneratesExactly(Variables, SUBSET {"User"}, Bodies)

=============================================================================
