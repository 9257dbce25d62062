----------------------------- MODULE Forwarding -----------------------------
(***************************************************************************)
(* What of the client's headers and query strings a backend is sent.  The  *)
(* router builds the request of the endpoint from those the endpoint lists *)
(* (NewRequest of router/gin, NewRequestBuilder of router/mux) and adds    *)
(* its own headers; a backend with a list gets what its list leaves        *)
(* (proxy/headers_filter.go, proxy/query_strings_filter.go).               *)
(*                                                                         *)
(* Headers and query strings are functions from names to where the value   *)
(* comes from.  The configuration makes the names of headers canonical.    *)
(***************************************************************************)
EXTENDS Naturals, Sequences, FiniteSets, Functions

AllNames == "*"

\* What g says, and f over it.
Over(f, g) == [x \in DOMAIN f \cup DOMAIN g |-> IF x \in DOMAIN f THEN f[x] ELSE g[x]]

\* clientIP: the first of these that says something, or the connection.  gin
\* asks its engine, which looks at headers of the same kind.
ClientIP(client) ==
    CASE "X-Forwarded-For" \in client -> "X-Forwarded-For"
      [] client \cap {"X-Forwarded-For", "X-Real-Ip"} = {"X-Real-Ip"} -> "X-Real-Ip"
      [] OTHER -> "connection"

\* The headers a list picks: everything once it has an asterisk, and what
\* server.HeadersToSend says if it is empty.
Picked(list, client) ==
    LET names == IF list = << >> THEN {"Content-Type"} ELSE Range(list)
    IN IF AllNames \in names THEN client ELSE client \cap names

\* The headers the gateway writes, given those it passes on.
OwnHeaders(picked, client) ==
    LET agent == IF "User-Agent" \in picked THEN "X-Forwarded-Via" ELSE "User-Agent" IN
    [h \in {"X-Forwarded-For", "X-Forwarded-Host", agent} |->
        IF h = "X-Forwarded-For" THEN ClientIP(client) ELSE "gateway"]

FromClient(names) == [n \in names |-> "client"]

\* A bug to guard against: the client's headers are copied last.
NewHeadersClientLast(list, client) ==
    LET picked == Picked(list, client)
    IN Over(FromClient(picked), OwnHeaders(picked, client))

\* The headers of the request of an endpoint with this list.
NewHeaders(list, client) ==
    LET picked == Picked(list, client)
    IN Over(OwnHeaders(picked, client), FromClient(picked))

\* Its query strings.
NewQuery(list, client) ==
    FromClient(IF AllNames \in Range(list) THEN client ELSE client \cap Range(list))

\* A bug to guard against: everything passes if the list is long enough.
FilteredByLength(list, sent) ==
    IF list = << >> \/ Len(list) >= Cardinality(DOMAIN sent)
    THEN sent ELSE Restrict(sent, DOMAIN sent \cap Range(list))

\* NewFilterHeadersMiddleware and NewFilterQueryStringsMiddleware.  They count
\* the entries of the list, and so a name that is listed twice counts twice.
Filtered(list, sent) ==
    LET passing == {i \in DOMAIN list : list[i] \in DOMAIN sent}
    IN IF list = << >> \/ Cardinality(passing) = Cardinality(DOMAIN sent)
       THEN sent ELSE Restrict(sent, DOMAIN sent \cap Range(list))

-----------------------------------------------------------------------------
(* Properties                                                              *)

Allows(list, name) == list = << >> \/ name \in Range(list)

(***************************************************************************)
(* A filter passes exactly what its list names, unless the list names      *)
(* something twice: then it may pass everything, and never less.           *)
(***************************************************************************)
FilterIsExact(list, sent) ==
    LET kept == Filtered(list, sent) IN
    /\ \A n \in DOMAIN kept : kept[n] = sent[n]
    /\ \/ DOMAIN kept = {n \in DOMAIN sent : Allows(list, n)}
       \/ kept = sent /\ ~IsInjective(list)

(***************************************************************************)
(* A header of the client reaches a backend only if the endpoint lists it, *)
(* and always if the backend allows it too.  The gateway always writes     *)
(* X-Forwarded-For and X-Forwarded-Host itself, over those of a client that*)
(* are listed; the first says what clientIP believes, which may be what the*)
(* client said there or in X-Real-Ip.  X-Forwarded-Via is the gateway's    *)
(* only if the client's User-Agent is passed on.                           *)
(***************************************************************************)
HeadersAreExact(list, backend, client) ==
    LET received == Filtered(backend, NewHeaders(list, client))
        gateways == {"X-Forwarded-For", "X-Forwarded-Host"}
    IN /\ \A h \in DOMAIN received : received[h] = "client" => h \in Picked(list, client) \ gateways
       /\ \A h \in Picked(list, client) : Allows(backend, h) => h \in DOMAIN received
       /\ \A h \in gateways \cup {"User-Agent"} : Allows(backend, h) => h \in DOMAIN received
       /\ {"User-Agent", "X-Forwarded-Via"} \subseteq Picked(list, client) /\ Allows(backend, "X-Forwarded-Via")
            => received["X-Forwarded-Via"] = "gateway"
       /\ FilterIsExact(backend, NewHeaders(list, client))

(***************************************************************************)
(* The same for query strings, of which an endpoint without a list passes  *)
(* none.                                                                   *)
(***************************************************************************)
QueryIsExact(list, backend, client) ==
    /\ FilterIsExact(backend, NewQuery(list, client))
    /\ \A n \in DOMAIN Filtered(backend, NewQuery(list, client)) :
         n \in client /\ (n \in Range(list) \/ AllNames \in Range(list))

=============================================================================
