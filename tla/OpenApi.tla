-------------------------------- MODULE OpenApi --------------------------------
(***************************************************************************)
(* The OpenAPI document of an application: src/openapi.rs, the builder     *)
(* methods of src/routing/route/openapi.rs and src/openapi_security.rs.    *)
(*                                                                         *)
(* A program describes its routes with chains of builder calls: a schema,  *)
(* a media type and a parameter are made first and then given to the route *)
(* in hand.  Names, texts and example values are model values; a map is a  *)
(* function, and what a map does not hold is not in its domain.            *)
(***************************************************************************)
EXTENDS Naturals, Sequences, FiniteSets, SequencesExt, Subsequences

CONSTANTS
    Shapes,        \* [method, path] of the routes a program may declare
    ParamOf,       \* segments that are parameters or wildcards -> their name
    Braced,        \* wildcard segments -> the parameter segment of that name
    Names,         \* names of components, parameters, examples and tags
    Properties,    \* names of a schema's properties
    Locations,     \* where parameters are looked for, "path" among them
    MaxDescribed, MaxDescriptions,   \* bounds: routes, builder calls
    None

VARIABLES
    schema, media, \* the schema and the media type in hand
    routes,        \* [method, path, openapi] in order; the last is in hand
    described,     \* builder calls so far
    tags,          \* OpenApiInfo: described tags
    document       \* None or what from_routes makes

vars == <<schema, media, routes, described, tags, document>>

NoEntries == [n \in {} |-> None]
Entry(n, v) == [x \in {n} |-> v]

(* Of a key that is in both, the new map's entry.                          *)
Over(new, old) ==
    [n \in DOMAIN new \cup DOMAIN old |->
        IF n \in DOMAIN new THEN new[n] ELSE old[n]]
Insert(map, n, v) == Over(Entry(n, v), map)

-----------------------------------------------------------------------------
(* OpenApiSchema: a JSON object, or what from_value was given.             *)

Object == [json |-> "object", type |-> "object", properties |-> None,
           required |-> None, fields |-> {}]
Untyped(f) == [Object EXCEPT !.type = None, !.fields = f]
StringSchema == [Object EXCEPT !.type = "string"]
NotAnObject == [Untyped({}) EXCEPT !.json = "true"]
AllOf == Untyped({"allOf"})

WithProperties(ps, rs) ==
    [Object EXCEPT !.properties = ps,
                   !.required = IF rs = {} THEN None ELSE rs]

EnsureObject(s) ==
    CASE s.json # "object" -> Object
      [] s.json = "object" /\ s.type = None -> [s EXCEPT !.type = "object"]
      [] OTHER -> s

WithField(s, f) ==
    [(IF s.json = "object" THEN s ELSE Untyped({})) EXCEPT !.fields = @ \cup {f}]

WithMember(ns, n) == (IF ns = None THEN {} ELSE ns) \cup {n}
WithProperty(s, n) ==
    [EnsureObject(s) EXCEPT !.properties = WithMember(@, n)]
WithRequired(s, n) ==
    [EnsureObject(s) EXCEPT !.required = WithMember(@, n)]

Partial(s) == [s EXCEPT !.required = None]

(* pick_properties and omit_properties.                                    *)
Retain(s, names, keep) ==
    LET kept(ns) == {n \in ns : (n \in names) = keep}
    IN  IF s.json # "object" THEN s
        ELSE [s EXCEPT
                !.properties = IF @ = None THEN None ELSE kept(@),
                !.required = IF @ = None \/ kept(@) = {} THEN None ELSE kept(@)]

-----------------------------------------------------------------------------
(* Media types, and what holds one or some: bodies, responses, parameters. *)

(* An inline object, or a reference to a component; a reference to a       *)
(* parameter may say which parameter it stands for.                        *)
Inline(v) == [ref |-> None, value |-> v]
Ref(kind, n) == [ref |-> <<kind, n>>, value |-> None]

Media(s) == [schema |-> s, example |-> FALSE, examples |-> NoEntries]

WithExampleValue(m) == [m EXCEPT !.example = TRUE, !.examples = NoEntries]

WithNamedExample(m, n, e) ==
    [m EXCEPT !.example = FALSE, !.examples = Insert(@, n, e)]

Content(type, m) == Entry(type, m)
Body(content) == [required |-> TRUE, content |-> content]
Response(content) == [headers |-> NoEntries, content |-> content]

(* try_with_content_example and its kin: a type that is not there yet gets *)
(* the schema of any object.                                               *)
AtContent(content, type) ==
    IF type \in DOMAIN content THEN content[type] ELSE Media(Object)

ContentExample(content, type) ==
    Insert(content, type, WithExampleValue(AtContent(content, type)))

ContentNamedExample(content, type, n, e) ==
    Insert(content, type, WithNamedExample(AtContent(content, type), n, e))

Parameter(location, n, required, m) ==
    [identity |-> <<location, n>>, required |-> required, media |-> m]

ParameterRef(location, n, component) ==
    [identity |-> <<location, n>>, ref |-> <<"parameters", component>>]

-----------------------------------------------------------------------------
(* OpenApiRouteMetadata and the methods of RouteDefinition.                *)

ComponentKinds == {"schemas", "responses", "parameters", "examples",
                   "requestBodies", "headers", "securitySchemes"}

NoComponents == [k \in ComponentKinds |-> NoEntries]

NoMetadata ==
    [tags |-> <<>>, id |-> None, parameters |-> <<>>, body |-> None,
     responses |-> NoEntries, extensions |-> NoEntries,
     components |-> NoComponents, security |-> <<>>,
     deprecated |-> FALSE, hidden |-> FALSE]

WithTag(o, t) ==
    IF Contains(o.tags, t) THEN o ELSE [o EXCEPT !.tags = Append(@, t)]

WithExtension(o, n, v) == [o EXCEPT !.extensions = Insert(@, n, v)]
WithExtensionDefault(o, n, v) ==
    [o EXCEPT !.extensions = Over(@, Entry(n, v))]

UpsertParameter(o, p) ==
    LET same == {i \in DOMAIN o.parameters :
                    o.parameters[i].identity = p.identity}
    IN  IF same = {} THEN [o EXCEPT !.parameters = Append(@, p)]
        ELSE [o EXCEPT !.parameters[CHOOSE i \in same : \A j \in same : i <= j] = p]

WithRequestBody(o, b) == [o EXCEPT !.body = b]
WithResponse(o, status, r) == [o EXCEPT !.responses = Insert(@, status, r)]

(* A response that is a reference is not changed.                          *)
WithResponseHeader(o, status, n, h) ==
    LET r == IF status \in DOMAIN o.responses THEN o.responses[status]
             ELSE Inline(Response(NoEntries))
    IN  WithResponse(o, status,
            IF r.ref # None THEN r
            ELSE [r EXCEPT !.value.headers = Insert(@, n, h)])

WithApiSecurity(o, n, scopes) ==
    [o EXCEPT !.security = Append(@, Entry(n, scopes))]

WithComponent(o, kind, n, v) ==
    [o EXCEPT !.components[kind] = Insert(@, n, v)]

(* OpenApiSecurityScheme.                                                  *)
Scheme(type, location) == [type |-> type, location |-> location]
Bearer == Scheme("http", None)
ApiKey(location) == Scheme("apiKey", location)
OAuth2(flows) == [type |-> "oauth2", flows |-> flows]
OpenIdConnect == Scheme("openIdConnect", None)

(* with_bearer_auth and its kin.                                           *)
WithAuth(o, n, scheme, scopes) ==
    WithApiSecurity(WithComponent(o, "securitySchemes", n, scheme), n, scopes)

-----------------------------------------------------------------------------
(* OpenApiDocument::from_routes.                                           *)

Methods(method) ==
    IF method = "ALL"
    THEN {"get", "post", "put", "patch", "delete", "options", "head"}
    ELSE {method}

(* A wildcard is described like the parameter of its name.                 *)
OpenApiPath(path) ==
    [k \in DOMAIN path |->
        IF path[k] \in DOMAIN Braced THEN Braced[path[k]] ELSE path[k]]

(* The positions of its parameters.                                        *)
PathParams(r) == {k \in DOMAIN r.path : r.path[k] \in DOMAIN ParamOf}

(* Every parameter of the path that the metadata does not describe is a    *)
(* string, and a route that describes no response has one for success.     *)
Operation(r) ==
    LET o == r.openapi
        undescribed == Only(r.path, {k \in PathParams(r) :
            \A i \in DOMAIN o.parameters :
                o.parameters[i].identity # <<"path", ParamOf[r.path[k]]>>})
    IN  [tags |-> o.tags, id |-> o.id, body |-> o.body,
         parameters |->
            o.parameters \o [i \in DOMAIN undescribed |->
                Parameter("path", ParamOf[undescribed[i]], TRUE,
                          Media(StringSchema))],
         responses |-> IF o.responses = NoEntries
                       THEN Entry("200", Inline(Response(NoEntries)))
                       ELSE o.responses,
         extensions |-> o.extensions, security |-> o.security,
         deprecated |-> o.deprecated]

Merge(components, o) ==
    [k \in ComponentKinds |-> Over(o.components[k], components[k])]

(* Variant of AddOperations in which a route for all methods replaces what *)
(* is there.                                                               *)
AddOperationsOver(operations, r) ==
    Over([m \in Methods(r.method) |-> Operation(r)], operations)

(* A route for all methods leaves what is there; any other replaces it.    *)
AddOperations(operations, r) ==
    LET own == [m \in Methods(r.method) |-> Operation(r)]
    IN  IF r.method = "ALL" THEN Over(operations, own) ELSE Over(own, operations)

Documented(d, r) ==
    IF r.openapi.hidden THEN d
    ELSE LET p == OpenApiPath(r.path)
             old == IF p \in DOMAIN d.paths THEN d.paths[p] ELSE NoEntries
         IN  [tags |-> Over(d.tags, [t \in ToSet(r.openapi.tags) |-> None]),
              components |-> Merge(d.components, r.openapi),
              paths |-> Insert(d.paths, p, AddOperations(old, r))]

FromRoutes ==
    LET upTo[n \in 0..Len(routes)] ==
            IF n = 0
            THEN [tags |-> tags, components |-> NoComponents, paths |-> NoEntries]
            ELSE Documented(upTo[n - 1], routes[n])
    IN  upTo[Len(routes)]

-----------------------------------------------------------------------------
Init ==
    /\ schema = Object
    /\ media = NoEntries /\ routes = <<>> /\ described = 0
    /\ tags = NoEntries /\ document = None

Calls == document = None /\ described < MaxDescriptions
         /\ described' = described + 1

(* Schemas and media types are values of their own: the model makes them   *)
(* before the routes that they are given to.                               *)
DescribeSchema ==
    /\ Calls /\ routes = <<>> /\ media = NoEntries
    /\ schema' \in {StringSchema, NotAnObject, AllOf}
                   \cup {WithProperties(Properties, rs) : rs \in SUBSET Properties}
                   \cup {Partial(schema), WithField(schema, "nullable")}
                   \cup {WithProperty(schema, n) : n \in Properties}
                   \cup {WithRequired(schema, n) : n \in Properties}
                   \cup {Retain(schema, {n}, TRUE) : n \in Properties}
                   \cup {Retain(schema, {n}, FALSE) : n \in Properties}
    /\ UNCHANGED <<media, routes, tags, document>>

DescribeContent ==
    /\ Calls /\ routes = <<>>
    /\ \E type \in {"json", "text"} :
          media' \in {Content(type, Media(schema)), ContentExample(media, type)}
                    \cup {ContentNamedExample(media, type, n, e) :
                            n \in Names, e \in {Inline("example"), Ref("examples", "n")}}
    /\ UNCHANGED <<schema, routes, tags, document>>

DescribeTag(t) ==
    /\ Calls /\ routes = <<>> /\ tags' = Insert(tags, t, "described")
    /\ UNCHANGED <<schema, media, routes, document>>

(* The next route; the one before is described.                            *)
Declare(shape) ==
    /\ document = None /\ Len(routes) < MaxDescribed
    /\ routes' = Append(routes, [method |-> shape.method, path |-> shape.path,
                                 openapi |-> NoMetadata])
    /\ UNCHANGED <<schema, media, described, tags, document>>

Schemes == {Bearer, ApiKey("header"), OAuth2({"password"}), OpenIdConnect}

(* What is said of n.                                                      *)
DescribedAs(o, n) ==
    {WithTag(o, n), WithExtension(o, n, "set"),
     WithExtensionDefault(o, n, "default"),
     UpsertParameter(o, ParameterRef("path", n, "n")),
     WithApiSecurity(o, n, {"scope"}), WithComponent(o, "schemas", n, schema)}
    \cup {UpsertParameter(o, Parameter(location, n, TRUE, Media(schema))) :
             location \in Locations}
    \cup {WithAuth(o, n, scheme, {}) : scheme \in Schemes}

Described(o) ==
    {NoMetadata, [o EXCEPT !.hidden = TRUE], [o EXCEPT !.deprecated = TRUE],
     [o EXCEPT !.id = "id"], WithRequestBody(o, Inline(Body(media))),
     WithRequestBody(o, Ref("requestBodies", "n")),
     WithResponse(o, "default", Inline(Response(media))),
     WithResponse(o, "default", Ref("responses", "n")),
     WithResponseHeader(o, "default", "n", Ref("headers", "n"))}
    \cup UNION {DescribedAs(o, n) : n \in Names}

DescribeRoute ==
    /\ Calls /\ routes # <<>>
    /\ \E o \in Described(Last(routes).openapi) :
          routes' = [routes EXCEPT ![Len(routes)].openapi = o]
    /\ UNCHANGED <<schema, media, tags, document>>

Generate ==
    /\ document = None /\ routes # <<>>
    /\ document' = FromRoutes
    /\ UNCHANGED <<schema, media, routes, described, tags>>

Next ==
    \/ DescribeSchema \/ DescribeContent \/ DescribeRoute \/ Generate
    \/ \E t \in Names : DescribeTag(t)
    \/ \E shape \in Shapes : Declare(shape)

Spec == Init /\ [][Next]_vars

-----------------------------------------------------------------------------
Visible == {i \in DOMAIN routes : ~routes[i].openapi.hidden}

(* The document describes each path and method by the route that was       *)
(* declared for it, whatever other routes take all methods, and each       *)
(* component as the last visible route that has one of that name           *)
(* (from_routes, merge_schemas and its kin).                               *)
DescribesDeclared ==
    LET at(p, m) == {i \in Visible :
                        OpenApiPath(routes[i].path) = p /\ m \in Methods(routes[i].method)}
        named(p, m) == {i \in at(p, m) : routes[i].method # "ALL"}
        newest(s) == CHOOSE i \in s : \A j \in s : i >= j
        oldest(s) == CHOOSE i \in s : \A j \in s : i <= j
    IN  document # None =>
        /\ \A p \in {OpenApiPath(routes[i].path) : i \in Visible} :
              \A m \in Methods("ALL") :
                /\ at(p, m) # {} <=> m \in DOMAIN document.paths[p]
                /\ at(p, m) # {} =>
                      document.paths[p][m] =
                        Operation(routes[IF named(p, m) # {} THEN newest(named(p, m))
                                         ELSE oldest(at(p, m))])
        /\ \A k \in ComponentKinds, n \in Names :
              LET having == {i \in Visible : n \in DOMAIN routes[i].openapi.components[k]}
              IN  /\ having # {} <=> n \in DOMAIN document.components[k]
                  /\ having # {} =>
                        document.components[k][n] =
                            routes[newest(having)].openapi.components[k][n]

(* A parameter is described once, those of the path among them, whatever   *)
(* order the route's calls had (upsert_parameter and from_route).          *)
ParametersOnce ==
    document # None =>
        \A p \in DOMAIN document.paths : \A m \in DOMAIN document.paths[p] :
            LET given == document.paths[p][m].parameters
            IN  /\ \A i, j \in DOMAIN given :
                      given[i].identity = given[j].identity => i = j
                /\ \A k \in DOMAIN p : p[k] \in DOMAIN ParamOf =>
                      \E i \in DOMAIN given :
                          given[i].identity = <<"path", ParamOf[p[k]]>>

(* What is picked from a schema and what is omitted make up the schema,    *)
(* its required properties included (retain_schema_properties); and an     *)
(* example is never beside named examples, which OpenAPI excludes          *)
(* (OpenApiMediaType).                                                     *)
SchemasSplit ==
    /\ schema.json = "object" => \A names \in SUBSET Properties :
          LET members(ns) == IF ns = None THEN {} ELSE ns
              picked == Retain(schema, names, TRUE)
              rest == Retain(schema, names, FALSE)
              split(a, b, whole) ==
                 members(a) \cup members(b) = members(whole)
                 /\ members(a) \cap members(b) = {}
          IN  /\ split(picked.properties, rest.properties, schema.properties)
              /\ split(picked.required, rest.required, schema.required)
              /\ members(picked.required) \subseteq names
    /\ \A type \in DOMAIN media :
          ~(media[type].example /\ media[type].examples # NoEntries)

=============================================================================
