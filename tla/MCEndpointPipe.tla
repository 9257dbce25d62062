--------------------------- MODULE MCEndpointPipe ---------------------------
(***************************************************************************)
(* Small instances of EndpointPipe for TLC.  NOOP encoding is refused for  *)
(* several backends (config/config.go), only they have a flatmap.  Each    *)
(* render meets each decoder where nothing else touches the response.  The *)
(* formatter of a backend, a function, is compared with what it is         *)
(* configured for: objects of two levels with two fields each, lists of up *)
(* to three paths.                                                         *)
(***************************************************************************)
EXTENDS EndpointPipe, EntityFormatter

Possible(c) ==
    /\ c.calls = 0 => c.render # "no-op" /\ c.onError = "default"
    /\ c.calls # 0 => ~c.flatmap
    /\ c.decoder = "no-op" => c.onError = "default"
    /\ c.render = "no-op" => c.decoder = "no-op"
    /\ c.render = "xml" => c.router = "gin"
    /\ \/ <<c.render, c.decoder>> \in {<<"json", "json">>, <<"string", "json">>, <<"no-op", "no-op">>} /\ ~c.renames
       \/ c.calls = 1 /\ c.static = "none" /\ ~c.modifier /\ ~c.cached
    /\ c.calls = 2 => c.static \in {"none", "always", "errored"}
    /\ c.cached => c.static \in {"none", "success"} /\ c.onError = "default"

MCConfigs == {c \in Config : Possible(c)}

-----------------------------------------------------------------------------
Name == {"a", "b"}
Nested == {Empty} \cup {[nodes |-> s, values |-> s] : s \in SUBSET {<<k>> : k \in Name}}

\* A field: missing, a value, or an object of values.
FieldOf(k) ==
    {Empty, [nodes |-> {<<k>>}, values |-> {<<k>>}]} \cup {Single(k, n) : n \in Nested}

MCDatas == {Joined(a, b) : a \in FieldOf("a"), b \in FieldOf("b")}

Path == {<<k>> : k \in Name} \cup {<<k, l>> : k \in Name, l \in Name}
Lists == {<< >>} \cup {<<p>> : p \in Path} \cup {<<p, q>> : p \in Path, q \in Path}
Triples == {<<p, q, r>> : p \in Path, q \in Path, r \in Path}

Targets == {<< >>, <<"a">>, <<"a", "b">>}

Formatter(target, allow, deny, mapping, group) ==
    [target |-> target, allow |-> allow, deny |-> deny, mapping |-> mapping, group |-> group]

NoMapping == [f \in {} |-> "a"]
Filtering(target, allow, deny) == Formatter(target, allow, deny, NoMapping, FALSE)

Mappings == UNION {[d -> {"a", "b", "c"}] : d \in SUBSET Name}

MCFormatters ==
    {Filtering(t, l, << >>) : t \in Targets, l \in Lists}
    \cup {Filtering(t, << >>, l) : t \in Targets, l \in Lists}
    \cup {Filtering(<< >>, l, << >>) : l \in Triples}
    \cup {Filtering(<< >>, << >>, l) : l \in Triples}
    \cup {Formatter(<< >>, l, << >>, m, g) : l \in {<< >>, <<<<"a">>>>}, m \in Mappings, g \in BOOLEAN}

\* One state: the formatter does not depend on it.
AtFirst ==
    /\ pc = "calling" /\ done = {} /\ \A c \in Call : result[c] = Running
    /\ cfg.calls = 1 /\ cfg.router = "gin" /\ cfg.render = "json" /\ cfg.decoder = "json" /\ ~cfg.renames /\ cfg.onError = "default"
    /\ cfg.static = "none" /\ ~cfg.modifier /\ ~cfg.cached

(***************************************************************************)
(* Whatever formatter a backend has, its response is reduced to what the   *)
(* allowed or denied paths leave of it, under the names the mapping gives, *)
(* in whatever order Go iterates over the mapping.                         *)
(***************************************************************************)
FormatsExactly == AtFirst => AllFormatsExact(MCFormatters, MCDatas)

=============================================================================
