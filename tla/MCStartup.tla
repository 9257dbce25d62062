------------------------------ MODULE MCStartup ------------------------------
(***************************************************************************)
(* Deployments for TLC.  One part of a deployment takes all its values     *)
(* while the others have a simple one: the parts only hand their results   *)
(* on, so what fails in one does not depend on the details of another.     *)
(***************************************************************************)
EXTENDS Startup, FiniteSets, TLC

CONSTANTS q1, q2, q3
MCRequests == {q1, q2, q3}
MCPolite == {q1, q2}

UpTo(n, T) == UNION {[1..m -> T] : m \in 0..n}

-----------------------------------------------------------------------------
(* Names.  Placeholders have the places their names take in sort.Strings:  *)
(* Resp0_x, User, UserId, Userid, Zone, resp0_x, user, userId, zone.       *)

User == 2
user_ == 7
userId == 8
zone == 9
resp == 6
MCTitled == <<1, 2, 3, 4, 5, 1, 2, 3, 5>>
MCTitleWord == <<1, 2, 4, 4, 5, 1, 2, 4, 5>>

MCDurations == ("" :> 0) @@ ("5" :> 5) @@ ("3" :> 3) @@ ("-1" :> -1) @@ ("0" :> 0)
Encodings == {"", "no-op", "No-Op", "xml", "safejson", "SAFEJSON"}
MCToLower == [e \in Encodings \cup {"json"} |-> CASE e = "No-Op" -> "no-op" [] e = "SAFEJSON" -> "safejson" [] OTHER -> e]
MCAlias == ("old" :> "new") @@ ("older" :> "new") @@ ("first" :> "second") @@ ("second" :> "third")
MCReserved == {"/__debug"} \cup R!OwnPaths
MCTexts == UpTo(4, {"c", "\n", "\r"})

-----------------------------------------------------------------------------
(* Configurations                                                          *)

Plain == [hosts |-> "none", unsafe |-> FALSE, method |-> "", encoding |-> "", scheme |-> "", pattern |-> {}]
BackendOn(h, u) == [Plain EXCEPT !.hosts = h, !.unsafe = u]
Valid == [path |-> "/a", inputs |-> {}, timeout |-> "", output |-> "", method |-> "", calls |-> 0, backends |-> <<Plain>>]
Minimal ==
    [state |-> "ok", version |-> TRUE, address |-> TRUE, hosts |-> "raw", timeout |-> "5", output |-> "",
     extra |-> << >>, agents |-> << >>, endpoints |-> <<Valid>>]
AgentOf(t, i, b) == [timeout |-> t, workers |-> 0, interval |-> i, backends |-> <<b>>]
Hosts == {"none", "raw", "bad"}
Times == {"", "3", "-1", "junk"}

\* What is inherited: hosts, timeouts and encodings, each at every level.
Inheriting ==
    {[Minimal EXCEPT !.hosts = h, !.agents = as, !.endpoints = <<[Valid EXCEPT !.backends = bs]>>] :
        h \in Hosts, as \in {<< >>} \cup {<<AgentOf("", "", BackendOn(ah, u))>> : ah \in Hosts, u \in BOOLEAN},
        bs \in {<<BackendOn(bh, u)>> : bh \in Hosts, u \in BOOLEAN} \cup {<<Plain, BackendOn("raw", TRUE)>>}}
    \cup {[Minimal EXCEPT !.timeout = t, !.agents = <<AgentOf(ta, i, Plain)>>,
                          !.endpoints = <<[Valid EXCEPT !.timeout = te]>>] :
            t \in Times, ta \in Times, te \in Times, i \in {"", "3", "-1"}}
    \cup {[Minimal EXCEPT !.endpoints = <<[Valid EXCEPT !.calls = n]>>] : n \in {-1, 3}}
    \cup {[Minimal EXCEPT !.output = o,
                          !.endpoints = <<[Valid EXCEPT !.output = oe, !.backends = bs]>>] :
            o \in {"", "no-op", "xml"}, oe \in {"", "no-op", "No-Op"},
            bs \in UNION {[1..n -> {[Plain EXCEPT !.encoding = x] : x \in Encodings}] : n \in 1..2}}

\* What is checked: the file, the version, the address, paths and placeholders.
Checked ==
    {[Minimal EXCEPT !.state = st, !.version = v, !.address = a] :
        st \in {"ok", "unreadable", "malformed"}, v \in BOOLEAN, a \in BOOLEAN}
    \cup {[Minimal EXCEPT !.endpoints = <<Valid, [Valid EXCEPT !.path = p, !.backends = bs]>>] :
            p \in {"/b", "/__debug"}, bs \in {<< >>, <<Plain>>}}
    \cup {[Minimal EXCEPT !.endpoints = <<[Valid EXCEPT !.inputs = i,
                                               !.backends = <<[Plain EXCEPT !.pattern = p], Plain>>]>>] :
            i \in SUBSET {User, user_, userId}, p \in SUBSET {User, user_, userId, resp, zone}}

\* Namespaces that are renamed, to one name, in a chain, or not at all.
Aliased ==
    {[Minimal EXCEPT !.extra = [n \in ns |-> n]] :
        ns \in SUBSET {"old", "older", "new", "first", "second", "other"}}

\* An accepted one with n endpoints, and one with n agents.
Simple(n) == [Minimal EXCEPT !.endpoints = [i \in 1..n |-> [Valid EXCEPT !.path = <<"/a", "/b">>[i]]]]
Agents(n) == [Minimal EXCEPT !.endpoints = << >>, !.agents = [i \in 1..n |-> AgentOf("", "", Plain)]]

-----------------------------------------------------------------------------
(* Folders of up to three plugins, which register none, one or two names.  *)

Reg(n, kd) == [name |-> n, kind |-> kd]
MCPlugins ==
    {[opens |-> FALSE, registers |-> << >>, panics |-> FALSE]}
      \cup {[opens |-> TRUE, registers |-> rs, panics |-> p] :
              rs \in {<<Reg("a", "ok")>>, <<Reg("b", "error"), Reg("a", "ok")>>, <<Reg("b", "ok")>>,
                      <<Reg("a", "wrongType")>>, << >>},
              p \in BOOLEAN}
MCFifos == {<<"a">>, <<"b", "a">>, <<"a", "a">>, <<"c", "a", "b">>, << >>}
Broken == [opens |-> FALSE, registers |-> << >>, panics |-> FALSE]
Working == [opens |-> TRUE, registers |-> <<Reg("a", "ok")>>, panics |-> FALSE]

-----------------------------------------------------------------------------
(* Agents: up to two, with up to two factories.  At most one waits with    *)
(* jitter, or two taken by the same factory do.                            *)

Agent(j) == [pipe : BOOLEAN, retries : {0, 1}, jitter : {j}, takers : SUBSET {1, 2}]
Taken == [pipe |-> TRUE, retries |-> 0, jitter |-> TRUE, takers |-> {1}]
NoCrew == [factories |-> 0, tap |-> 0, agents |-> << >>]
Crews ==
    {[factories |-> 2, tap |-> 0, agents |-> <<a, b>>] : a \in Agent(FALSE), b \in Agent(FALSE)}
    \cup {[factories |-> 2, tap |-> t, agents |-> <<a>>] : a \in Agent(TRUE), t \in 0..1}
    \cup {[factories |-> 1, tap |-> t, agents |-> <<Taken, Taken>>] : t \in 0..1}

-----------------------------------------------------------------------------
(* Routers                                                                 *)

Site(r, n) ==
    [router |-> r, debug |-> FALSE, echo |-> FALSE, health |-> "/__health", auto |-> FALSE,
     build |-> [i \in 1..n |-> "ok"]]
AllRouters == {"gin", "mux", "chi", "gorilla", "httptreemux"}

-----------------------------------------------------------------------------
(* Servers: up to three key pairs; three requests, one of which may hang.  *)

Outcome == {"ok", "ErrPublicKey", "ErrPrivateKey", "badPair"}
AnyClient == [versions |-> 10..13, issuer |-> "none", h2c |-> FALSE]
Server ==
    [tls |-> "none", legacy |-> << >>, keys |-> << >>, min |-> "", max |-> "", mtls |-> FALSE,
     system |-> TRUE, cas |-> {}, timeout |-> FALSE, h2c |-> FALSE,
     clients |-> [r \in MCRequests |-> AnyClient]]
TLSServer == [Server EXCEPT !.tls = "on", !.keys = <<"ok">>, !.timeout = TRUE]

Serving ==
    {[Server EXCEPT !.tls = t, !.timeout = d] : t \in {"none", "disabled"}, d \in BOOLEAN}
    \cup {[Server EXCEPT !.tls = "on", !.keys = ks, !.legacy = l, !.timeout = d] :
            ks \in UpTo(2, Outcome), l \in UpTo(1, {"ok", "ErrPrivateKey"}), d \in BOOLEAN}

\* The three clients each speak a few versions, or have a certificate each.
Speaking == (q1 :> [AnyClient EXCEPT !.versions = {10, 11}]) @@ (q2 :> [AnyClient EXCEPT !.versions = {11, 12}])
            @@ (q3 :> [AnyClient EXCEPT !.versions = {13}])
Certified(x, y, z) ==
    (q1 :> [AnyClient EXCEPT !.issuer = x]) @@ (q2 :> [AnyClient EXCEPT !.issuer = y])
    @@ (q3 :> [AnyClient EXCEPT !.issuer = z])
Handshakes ==
    {[TLSServer EXCEPT !.min = mn, !.max = mx, !.clients = Speaking] :
        mn \in {"", "SSL3.0", "TLS10", "TLS12"}, mx \in {"", "TLS11", "TLS12"}}
    \cup {[TLSServer EXCEPT !.mtls = TRUE, !.keys = ks[1], !.legacy = ks[2], !.system = sy, !.cas = cs,
                            !.clients = cl] :
            ks \in {<<<<"ok">>, << >>>>, << << >>, <<"ok">> >>, << <<"ok">>, <<"ok">> >>}, sy \in BOOLEAN,
            cs \in {{}, {"ca", "missing"}},
            cl \in {Certified("ca", "system", "keys"), Certified("missing", "legacy", "none")}}

\* A server with h2c, or a client that asks for it in vain; the request that may hang is over
\* a connection of its own kind or not.
Multiplexed ==
    {[s EXCEPT !.h2c = h, !.timeout = d, !.clients = [r \in MCRequests |-> [AnyClient EXCEPT !.h2c = r \in two]]] :
        s \in {Server, TLSServer}, h \in BOOLEAN, d \in BOOLEAN, two \in {{q1}, {q3}}}

\* A server that ends at once, for lack of a certificate.
Ending == [TLSServer EXCEPT !.keys = << >>]

MCConfigs == Serving \cup Handshakes \cup Multiplexed \cup {Ending}

-----------------------------------------------------------------------------
Setup(f) ==
    [file |-> f, colon |-> TRUE, files |-> << >>, fifo |-> << >>, user |-> "server",
     crew |-> NoCrew, site |-> Site("gin", Len(f.endpoints)), cfg |-> Ending]

ConfigSetups == {Setup(f) : f \in Inheriting \cup Checked \cup Aliased}

PluginSetups ==
    {[Setup(Simple(1)) EXCEPT !.files = fs, !.fifo = <<"b", "a">>] : fs \in UpTo(3, MCPlugins)}
    \cup {[Setup(Simple(1)) EXCEPT !.files = fs, !.fifo = ff] : fs \in UpTo(2, MCPlugins), ff \in MCFifos}
    \cup {[Setup(Simple(1)) EXCEPT !.files = fs, !.user = "client"] : fs \in UpTo(2, MCPlugins)}

AgentSetups ==
    {[Setup(Agents(Len(c.agents))) EXCEPT !.crew = c] : c \in Crews} \cup {Setup(Agents(1))}

\* Two endpoints that may share a path or a method, with pipes that fail; the
\* endpoints of the service; encodings; placeholders in both notations.
RouterSetups ==
    {[Setup([Minimal EXCEPT !.endpoints =
                <<[Valid EXCEPT !.method = m1], [Valid EXCEPT !.path = p2, !.method = m2]>>])
        EXCEPT !.site = [Site(r, 2) EXCEPT !.build = b, !.auto = TRUE]] :
        r \in AllRouters, m1 \in {"", "POST"}, m2 \in {"", "get", "POST", "TRACE"}, p2 \in {"/a", "/b", "/"},
        b \in [1..2 -> {"ok", "error"}]}
    \cup {[Setup(Simple(2)) EXCEPT !.site = [Site(r, 2) EXCEPT !.debug = d, !.echo = e, !.health = h]] :
            r \in AllRouters, d \in BOOLEAN, e \in BOOLEAN, h \in {"/__health", "/b", "/live", "off"}}
    \cup {[Setup([Minimal EXCEPT !.endpoints =
                    <<[Valid EXCEPT !.output = o, !.backends = [i \in 1..n |-> [Plain EXCEPT !.encoding = b]]]>>])
            EXCEPT !.site = Site(r, 1)] :
            r \in {"gin", "mux"}, o \in {"no-op", "No-Op", "xml"}, b \in Encodings, n \in 1..2}
    \cup UNION {{[Setup([Minimal EXCEPT !.endpoints =
                            <<[Valid EXCEPT !.inputs = i, !.backends = <<[Plain EXCEPT !.pattern = p]>>]>>])
                    EXCEPT !.site = Site(r, 1), !.colon = c] :
                    r \in AllRouters, c \in BOOLEAN, p \in SUBSET (i \cup {resp})} :
                i \in SUBSET {User, user_, userId}}

ServerSetups ==
    {[Setup(Simple(1)) EXCEPT !.files = <<Broken, Working>>, !.fifo = <<"a">>, !.cfg = c] :
        c \in Serving \cup Handshakes \cup Multiplexed}

MCSetups == ConfigSetups \cup PluginSetups \cup AgentSetups \cup RouterSetups \cup ServerSetups

=============================================================================
