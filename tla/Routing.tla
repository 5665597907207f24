------------------------------- MODULE Routing -------------------------------
(***************************************************************************)
(* How an application is given its table of HTTP routes and how a request  *)
(* finds one: src/app/builder.rs (global prefix, preflight routes, the     *)
(* refusal of duplicates), src/app/application.rs (call), src/routing      *)
(* (paths, hosts) and src/versioning.rs.                                   *)
(*                                                                         *)
(* A path is a sequence of segments and a host one of labels; "any" stands *)
(* for a parameter and "rest" for the wildcard a path may end with, so     *)
(* that a path is its own shape.                                           *)
(***************************************************************************)
EXTENDS Naturals, Subsequences

CONSTANTS
    Declared,      \* routes that modules and the builder may declare
    Requests,      \* requests: method, path, host, header version
    VersionOf,     \* segments with the version prefix -> the version
    GlobalPrefix, Excluded,   \* use_global_prefix and its exclusions
    Strategies,    \* versionings: strategy and default version
    MaxRoutes,     \* bound: routes declared
    None

VARIABLES
    table,         \* the routes, in order
    phase,         \* "declare", "built" or "refused"
    versioning,    \* one of Strategies
    asked, answer  \* the last request and what call chose for it

vars == <<table, phase, versioning, asked, answer>>

-----------------------------------------------------------------------------
(* Paths, hosts and how specific they are.                                 *)

Fits(pattern, length, value) ==
    \A k \in 1..length : pattern[k] \in {"any", value[k]}

Wild(pattern) == pattern # <<>> /\ pattern[Len(pattern)] = "rest"

PathMatches(pattern, path) ==
    LET fixed == IF Wild(pattern) THEN Len(pattern) - 1 ELSE Len(pattern)
    IN  /\ IF Wild(pattern) THEN Len(path) >= fixed ELSE Len(path) = fixed
        /\ Fits(pattern, fixed, path)

HostMatches(r, host) ==
    r.host # <<>> =>
        Len(host) = Len(r.host) /\ Fits(r.host, Len(r.host), host)

Specificity(r) ==
    [k \in DOMAIN r.path |->
        CASE r.path[k] = "rest" -> 0 [] r.path[k] = "any" -> 1 [] OTHER -> 2]
    \o <<2>>
    \o (IF r.host = <<>> THEN <<0>>
        ELSE [k \in DOMAIN r.host |-> IF r.host[k] = "any" THEN 0 ELSE 1])

(* Vec<u8> compares like a dictionary.                                     *)
Above(s, t) ==
    \E k \in DOMAIN s :
        /\ k <= Len(t) + 1 /\ \A j \in 1..(k - 1) : s[j] = t[j]
        /\ k <= Len(t) => s[k] > t[k]

-----------------------------------------------------------------------------
(* Versions.                                                               *)

Unspecified == [kind |-> "unspecified", of |-> {}]

VersionMatches(v, requested, default) ==
    CASE v.kind = "neutral" -> TRUE
      [] v.kind = "unspecified" -> requested \in {None, default}
      [] v.kind = "versions" ->
            (IF requested = None THEN default ELSE requested) \in v.of

(* Variant of Overlap that forgets the default version.                    *)
OverlapByName(v, w, default) ==
    \/ "neutral" \in {v.kind, w.kind}
    \/ v.kind = w.kind /\ (v.kind = "versions" => v.of \cap w.of # {})

Overlap(v, w, default) ==
    \/ "neutral" \in {v.kind, w.kind}
    \/ v.kind = w.kind /\ (v.kind = "versions" => v.of \cap w.of # {})
    \/ v.kind # w.kind /\ default \in v.of \cup w.of

(* The path to match and the version asked for.  By URI the version is the *)
(* first segment that has the prefix, wherever it stands.                  *)
Candidate(api, q) ==
    LET at == {k \in DOMAIN q.path : q.path[k] \in DOMAIN VersionOf}
        others == DOMAIN q.path \ {Earliest(at)}
    IN  CASE api.strategy = "uri" /\ at # {} ->
                [path |-> Only(q.path, others),
                 version |-> VersionOf[q.path[Earliest(at)]]]
          [] api.strategy = "header" ->
                [path |-> q.path, version |-> q.version]
          [] OTHER -> [path |-> q.path, version |-> None]

-----------------------------------------------------------------------------
(* BootApplication::call.                                                  *)

Matches(api, r, q) ==
    LET c == Candidate(api, q)
    IN  /\ PathMatches(r.path, c.path)
        /\ api.strategy # "none" =>
              VersionMatches(r.version, c.version, api.default)
        /\ HostMatches(r, q.host)

Best(api, routes, q) ==
    LET found == {n \in DOMAIN routes : Matches(api, routes[n], q)}
    IN  {n \in found : \A k \in found :
            ~Above(Specificity(routes[k]), Specificity(routes[n]))}

(* The first route of the most specific that has the method, or else that  *)
(* takes all methods; a route without it refuses the request.              *)
Routed(routes, S) == [status |-> "routed", route |-> routes[Earliest(S)]]

Answer(api, routes, q) ==
    LET best == Best(api, routes, q)
        with(m) == {n \in best : routes[n].method = m}
    IN  IF with(q.method) # {} THEN Routed(routes, with(q.method))
        ELSE IF with("ALL") # {} THEN Routed(routes, with("ALL"))
        ELSE [status |-> IF best # {} THEN "method not allowed"
                         ELSE "not found"]

-----------------------------------------------------------------------------
(* BootApplicationBuilder::build.                                          *)

Prefixed(r) ==
    IF \E x \in Excluded : PathMatches(x, r.path) THEN r
    ELSE [r EXCEPT !.path = GlobalPrefix \o @]

(* One for each shape that has routes and no route for OPTIONS, without    *)
(* their host and version.                                                 *)
Preflights(routes) ==
    LET sources ==
            {n \in DOMAIN routes : \A k \in DOMAIN routes :
                routes[k].path = routes[n].path =>
                    routes[k].method # "OPTIONS" /\ n <= k}
        source == Only(routes, sources)
    IN  [n \in DOMAIN source |->
            [method |-> "OPTIONS", path |-> source[n].path, host |-> <<>>,
             version |-> Unspecified]]

Duplicates(api, routes) ==
    \E j \in DOMAIN routes : \E i \in 1..(j - 1) :
        /\ routes[i].method = routes[j].method
        /\ routes[i].path = routes[j].path /\ routes[i].host = routes[j].host
        /\ api.strategy # "none" =>
              Overlap(routes[i].version, routes[j].version, api.default)

Init ==
    /\ table = <<>> /\ phase = "declare" /\ versioning \in Strategies
    /\ asked = None /\ answer = None

Declare(r) ==
    /\ phase = "declare" /\ Len(table) < MaxRoutes
    /\ table' = Append(table, r)
    /\ UNCHANGED <<phase, versioning, asked, answer>>

Build(cors) ==
    /\ phase = "declare" /\ table # <<>>
    /\ LET prefixed == [i \in DOMAIN table |-> Prefixed(table[i])]
       IN  table' = IF cors THEN prefixed \o Preflights(prefixed) ELSE prefixed
    /\ phase' = IF Duplicates(versioning, table') THEN "refused" ELSE "built"
    /\ UNCHANGED <<versioning, asked, answer>>

(* call changes nothing, so that one request of a behaviour shows what any *)
(* later one would.                                                        *)
Call(q) ==
    /\ phase = "built" /\ asked = None
    /\ asked' = q /\ answer' = Answer(versioning, table, q)
    /\ UNCHANGED <<table, phase, versioning>>

Next ==
    \/ \E r \in Declared : Declare(r)
    \/ \E cors \in BOOLEAN : Build(cors)
    \/ \E q \in Requests : Call(q)

Spec == Init /\ [][Next]_vars

-----------------------------------------------------------------------------
(* Orders in which the routes of a table might have been declared.         *)
Orders(routes) ==
    {order \in [DOMAIN routes -> DOMAIN routes] :
        \A n \in DOMAIN routes : \E k \in DOMAIN routes : order[k] = n}

(* In a table that build accepts the order of declaration does not decide  *)
(* who answers a request: two routes that match it equally well were       *)
(* refused as duplicates (validate_unique_routes against                   *)
(* best_request_specificity and the overlap of versions).                  *)
OrderIndependent ==
    asked # None => \A order \in Orders(table) :
        answer = Answer(versioning, [n \in DOMAIN table |-> table[order[n]]],
                        asked)

(* "Add CORS handling for preflight and normal responses" (builder.rs):    *)
(* a browser asks with OPTIONS, at the same path and host and without the  *)
(* request's own headers, before a request that a route would answer; some *)
(* route takes that question.                                              *)
PreflightAnswered ==
    phase = "built" /\ (\E n \in DOMAIN table : table[n].method = "OPTIONS") =>
        \A q \in Requests :
            Answer(versioning, table, q).status = "routed" =>
                Answer(versioning, table,
                       [q EXCEPT !.method = "OPTIONS", !.version = None]).status = "routed"

=============================================================================
