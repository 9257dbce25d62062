--------------------------- MODULE GraphQLRequest ---------------------------
(***************************************************************************)
(* The request the GraphQL middleware of a backend makes                   *)
(* (proxy/graphql.go, transport/http/client/graphql/graphql.go).  The      *)
(* options name variables with values; a value {user} stands for the       *)
(* parameter User of the endpoint.  A query completes them from the        *)
(* parameters, a mutation from the body of the client.                     *)
(*                                                                         *)
(* A variable is configured with one of the texts below, which             *)
(* placeholders are among, or with something else than a text; a request   *)
(* says it is that, the empty text, a parameter or a field of the body.    *)
(***************************************************************************)
EXTENDS Naturals, FiniteSets, Functions

CONSTANT Placeholder    \* the key a placeholder asks for: {user} -> User

Text == {"", "{}", "text"} \cup DOMAIN Placeholder
Value == Text \cup {"number"}

Configured(value) == [of |-> "options", key |-> value]
Param(key) == [of |-> "params", key |-> key]
InBody(key) == [of |-> "body", key |-> key]
Nothing == [v \in {} |-> ""]

\* What g says, and f over it.
Over(f, g) == [x \in DOMAIN f \cup DOMAIN g |-> IF x \in DOMAIN f THEN f[x] ELSE g[x]]

\* What the configuration may say, up to the case of method and type.
RawOptions(vars) ==
    [type : {"query", "mutation", "unknown"}, method : {"GET", "POST", "unknown"},
     path : {"none", "readable", "unreadable"}, malformed : BOOLEAN, variables : vars]

\* GetOptions: without options the middleware is not there.
Valid(raw) == ~raw.malformed /\ raw.path # "unreadable"
Options(raw) ==
    [type |-> raw.type, method |-> IF raw.method = "GET" THEN "GET" ELSE "POST",
     query |-> IF raw.path = "none" THEN "inline" ELSE "file", variables |-> raw.variables]

\* graphql.New: it slices every text, whatever the type of the operation is.
Panics(opt) == \E v \in DOMAIN opt.variables : opt.variables[v] \in {"", "{}"}
Replacements(opt) == {v \in DOMAIN opt.variables : opt.variables[v] \in DOMAIN Placeholder}

Defaults(opt) == [v \in DOMAIN opt.variables |-> Configured(opt.variables[v])]

Fails == [is |-> "error", variables |-> Nothing]
Breaks == [is |-> "panic", variables |-> Nothing]
Request(opt, variables) ==
    [is |-> "request", method |-> opt.method, query |-> opt.query, variables |-> variables]

\* A bug to guard against: a placeholder without a parameter stays as it is.
FromParamsOnlyGiven(opt, params) ==
    Request(opt, Over([v \in {r \in Replacements(opt) : Placeholder[opt.variables[r]] \in params} |->
                     Param(Placeholder[opt.variables[v]])], Defaults(opt)))

\* paramExtractor: a parameter that is not there is an empty text.
FromParams(opt, params) ==
    LET asked(v) == Placeholder[opt.variables[v]] IN
    Request(opt, Over([v \in Replacements(opt) |->
                     IF asked(v) \in params THEN Param(asked(v)) ELSE Configured("")], Defaults(opt)))

\* What the body of a client may be: no JSON object, null, or an object.
NoObject == [is |-> "no object", fields |-> {}]
Null == [is |-> "null", fields |-> {}]
Object(fields) == [is |-> "object", fields |-> fields]
Said(body) == [v \in body.fields |-> InBody(v)]

\* A bug to guard against: the defaults override the body.
FromBodyDefaultsFirst(opt, body) ==
    CASE body.is = "no object" -> Fails
      [] body.is = "null" /\ opt.variables # Nothing -> Breaks
      [] OTHER -> Request(opt, Over(Defaults(opt), Said(body)))

\* Extractor.fromBody: the body, and the defaults it does not say.  A null
\* makes the map nil, and nothing can be added to it.
FromBody(opt, body) ==
    CASE body.is = "no object" -> Fails
      [] body.is = "null" /\ opt.variables # Nothing -> Breaks
      [] OTHER -> Request(opt, Over(Said(body), Defaults(opt)))

\* NewGraphQLMiddleware, when the gateway is built.
Built(raw) ==
    CASE ~Valid(raw) -> "passes on"
      [] Valid(raw) /\ Panics(Options(raw)) -> "panic"
      [] Valid(raw) /\ ~Panics(Options(raw)) ->
           IF raw.type = "unknown" THEN "passes on" ELSE "generates"

\* And with a request.
Generated(raw, params, body) ==
    LET opt == Options(raw) IN
    IF opt.type = "query" THEN FromParams(opt, params) ELSE FromBody(opt, body)

-----------------------------------------------------------------------------
(* Properties                                                              *)

(***************************************************************************)
(* Every variable that is configured is in the request.  A query sends no  *)
(* placeholder and nothing that was not configured.  A mutation sends what *)
(* the client says where he says something, and a placeholder only where   *)
(* he does not: nobody replaces it then.                                   *)
(***************************************************************************)
VariablesAreComplete(raw, params, body) ==
    LET made == Generated(raw, params, body)
        sent == made.variables
    IN made.is = "request" =>
         /\ DOMAIN raw.variables \subseteq DOMAIN sent
         /\ raw.type = "query" =>
              /\ DOMAIN sent = DOMAIN raw.variables
              /\ \A v \in DOMAIN sent : sent[v].of = "options" => sent[v].key \notin DOMAIN Placeholder
         /\ raw.type = "mutation" =>
              \A v \in DOMAIN sent : IF v \in body.fields THEN sent[v] = InBody(v)
                                     ELSE sent[v] = Configured(raw.variables[v])

(***************************************************************************)
(* A request fails only because of the body of a mutation, and panics only *)
(* if that is a null and there are variables.                              *)
(***************************************************************************)
FailuresExplained(raw, params, body) ==
    LET made == Generated(raw, params, body) IN
    /\ made.is # "request" => raw.type = "mutation" /\ body.is \in {"no object", "null"}
    /\ made.is = "panic" => body.is = "null" /\ raw.variables # Nothing

GeneratesExactly(vars, paramSets, bodies) ==
    \A raw \in RawOptions(vars) : Built(raw) = "generates" =>
        \A params \in paramSets, body \in bodies :
            VariablesAreComplete(raw, params, body) /\ FailuresExplained(raw, params, body)

=============================================================================
