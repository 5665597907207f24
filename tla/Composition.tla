------------------------------ MODULE Composition ------------------------------
(***************************************************************************)
(* How the pipeline of a route, of a gateway and of a message pattern is   *)
(* put together from what applications, modules, providers, controllers    *)
(* and routes declare, in whatever order their builders are called:        *)
(* src/app/builder.rs, src/app/registration.rs, src/routing/controller.rs, *)
(* src/routing/route/pipeline.rs, src/pipeline/middleware.rs,              *)
(* src/pipeline/components.rs, src/websocket/gateway.rs,                   *)
(* src/transport/pattern.rs and the overrides of src/testing.rs.           *)
(*                                                                         *)
(* Middleware, pipes, guards, interceptors and filters each have a list of *)
(* their own and the lists never mix: a behaviour is about one of them.    *)
(* Middleware is declared by modules and their consumers, the others by    *)
(* providers.  A handler is one by HTTP ("http") or one of the other two   *)
(* protocols ("protocol"), which are put together alike.                   *)
(***************************************************************************)
EXTENDS Naturals, Subsequences

CONSTANTS
    Types,       \* the types of components
    Paths,       \* the paths of routes
    Hosts,
    MaxCalls,    \* bound: calls of builders
    MaxOwn,      \* bound: a route's own components
    None

VARIABLES
    kind,        \* "middleware" or "component": the list this is about
    lists,       \* what each scope has declared, in order
    entries,     \* MiddlewareConsumer: what is applied to which paths
    controller,  \* ControllerDefinition: host, tags, validation
    routes,      \* its routes
    validation,  \* use_global_validation was called
    overrides,   \* PipelineOverrides: the types replaced
    calls,       \* calls of builders so far
    built        \* None, or the compiled handlers

vars == <<kind, lists, entries, controller, routes, validation, overrides,
          calls, built>>

-----------------------------------------------------------------------------
Scopes == {"execution", "global", "provider", "module", "controller",
           "protocol"}
Globals == {"execution", "global", "protocol"}

Component(scope, n, type) ==
    [scope |-> scope, n |-> n, of |-> type, replaced |-> FALSE]

Replaced(pipeline, types) ==
    [i \in DOMAIN pipeline |->
        IF pipeline[i].of \in types
        THEN [pipeline[i] EXCEPT !.replaced = TRUE] ELSE pipeline[i]]

Inserted(pipeline, n, component) ==
    LET at == IF n <= Len(pipeline) THEN n ELSE Len(pipeline) + 1
    IN  [k \in 1..(Len(pipeline) + 1) |->
            CASE k < at -> pipeline[k] [] k = at -> component
              [] OTHER -> pipeline[k - 1]]

Prefixed(route, pipeline, validates) ==
    [route EXCEPT !.pipeline = pipeline \o @,
                  !.validates = @ \/ (validates /\ ~route.validation_disabled)]

-----------------------------------------------------------------------------
Init ==
    /\ kind \in {"middleware", "component"}
    /\ lists = [s \in Scopes |-> <<>>] /\ entries = <<>>
    /\ controller = [host |-> None, tags |-> {}, validates |-> FALSE]
    /\ routes = <<>> /\ validation = FALSE /\ overrides = {}
    /\ calls = 0 /\ built = None

Calls == built = None /\ calls < MaxCalls /\ calls' = calls + 1

Declares(scope) ==
    CASE scope \in {"global", "controller"} -> TRUE
      [] scope = "module" -> kind = "middleware"
      [] scope \in {"provider", "execution", "protocol"} -> kind = "component"

(* use_global_*, the enhancers of providers and Module::middleware.  An    *)
(* execution global is one of the HTTP pipeline's globals as well.         *)
Use(scope, type) ==
    /\ Calls /\ scope # "controller" /\ Declares(scope)
    /\ scope \in Globals => overrides = {}
    /\ LET into == IF scope = "execution" THEN {scope, "global"} ELSE {scope}
       IN  lists' = [s \in Scopes |->
              IF s \notin into THEN lists[s]
              ELSE Append(lists[s],
                          Component(s, Len(lists[s]) + 1, type))]
    /\ UNCHANGED <<kind, entries, controller, routes, validation, overrides,
                   built>>

(* MiddlewareConsumer::apply(..).exclude(..).for_routes(..); only = {} is  *)
(* for_all_routes.                                                         *)
Apply(only, except) ==
    /\ Calls /\ kind = "middleware"
    /\ entries' = Append(entries, [only |-> only, except |-> except])
    /\ UNCHANGED <<kind, lists, controller, routes, validation, overrides,
                   built>>

(* Variant of ControllerUses that puts it before all the routes have.      *)
ControllerUsesFirst(type) ==
    LET component == Component("controller", Len(lists["controller"]) + 1,
                               type)
    IN  /\ Calls
        /\ lists' = [lists EXCEPT !["controller"] = Append(@, component)]
        /\ routes' = [r \in DOMAIN routes |->
                        [routes[r] EXCEPT !.pipeline = <<component>> \o @]]
        /\ UNCHANGED <<kind, entries, controller, validation, overrides, built>>

(* ControllerDefinition::with_pipe and its like: the new component goes    *)
(* behind those the routes already have from the controller.               *)
ControllerUses(type) ==
    LET index == Len(lists["controller"])
        component == Component("controller", index + 1, type)
    IN  /\ Calls
        /\ lists' = [lists EXCEPT !["controller"] = Append(@, component)]
        /\ routes' = [r \in DOMAIN routes |->
                        [routes[r] EXCEPT !.pipeline =
                            Inserted(@, index + 1, component)]]
        /\ UNCHANGED <<kind, entries, controller, validation, overrides, built>>

(* ControllerDefinition::route, of a route that has own components and may *)
(* have said with_validation or without_validation.                        *)
Route(path, host, own, asks) ==
    LET route == [path |-> path, host |-> host, own |-> own, asked |-> asks,
                  tags |-> {}, validates |-> asks = "on",
                  validation_disabled |-> asks = "off",
                  pipeline |-> [n \in DOMAIN own |->
                                  Component("route", n, own[n])]]
        hosted == [route EXCEPT !.host = IF @ = None THEN controller.host ELSE @,
                                !.tags = controller.tags]
    IN  /\ Calls
        /\ routes' = Append(routes, Prefixed(hosted, lists["controller"],
                                             controller.validates))
        /\ UNCHANGED <<kind, lists, entries, controller, validation, overrides,
                       built>>

WithHost(host) ==
    /\ Calls
    /\ controller' = [controller EXCEPT !.host = host]
    /\ routes' = [r \in DOMAIN routes |->
                    [routes[r] EXCEPT !.host = IF @ = None THEN host ELSE @]]
    /\ UNCHANGED <<kind, lists, entries, validation, overrides, built>>

WithoutHost ==
    /\ Calls
    /\ controller' = [controller EXCEPT !.host = None]
    /\ routes' = [r \in DOMAIN routes |-> [routes[r] EXCEPT !.host = None]]
    /\ UNCHANGED <<kind, lists, entries, validation, overrides, built>>

(* with_tag, and likewise the components of the OpenAPI document.          *)
WithTag(tag) ==
    /\ Calls
    /\ controller' = [controller EXCEPT !.tags = @ \cup {tag}]
    /\ routes' = [r \in DOMAIN routes |->
                    [routes[r] EXCEPT !.tags = @ \cup {tag}]]
    /\ UNCHANGED <<kind, lists, entries, validation, overrides, built>>

(* Variant of ControllerValidates that is for the routes still to come.    *)
ControllerValidatesLater ==
    /\ Calls
    /\ controller' = [controller EXCEPT !.validates = TRUE]
    /\ UNCHANGED <<kind, lists, entries, routes, validation, overrides, built>>

ControllerValidates ==
    /\ Calls
    /\ controller' = [controller EXCEPT !.validates = TRUE]
    /\ routes' = [r \in DOMAIN routes |-> Prefixed(routes[r], <<>>, TRUE)]
    /\ UNCHANGED <<kind, lists, entries, validation, overrides, built>>

UseGlobalValidation ==
    /\ Calls /\ validation' = TRUE
    /\ UNCHANGED <<kind, lists, entries, controller, routes, overrides, built>>

(* TestingModuleBuilder, which has no use_global_*.                        *)
Override(type) ==
    /\ Calls /\ kind = "component"
    /\ \A scope \in Globals : lists[scope] = <<>>
    /\ overrides' = overrides \cup {type}
    /\ UNCHANGED <<kind, lists, entries, controller, routes, validation, built>>

-----------------------------------------------------------------------------
(* build, and TestingModuleBuilder::compile after it.                      *)

Consumed(path) ==
    LET for(e) == (e.only = {} \/ path \in e.only) /\ path \notin e.except
        all == [n \in DOMAIN entries |-> Component("consumer", n, None)]
    IN  Only(all, {n \in DOMAIN entries : for(entries[n])})

PreparedRoute(route) ==
    LET consumed == Prefixed(route, Consumed(route.path), FALSE)
        ofModule == Prefixed(consumed, lists["module"], FALSE)
    IN  Prefixed(ofModule, lists["global"] \o lists["provider"], validation)

(* A gateway or a pattern whose own components are those of the first      *)
(* route, which the provider's, the protocol's and the execution globals   *)
(* are put before one after the other.                                     *)
Protocol(own) ==
    lists["execution"] \o (lists["protocol"] \o (lists["provider"] \o own))

Build ==
    /\ built = None /\ routes # <<>>
    /\ LET prepared == [r \in DOMAIN routes |-> PreparedRoute(routes[r])]
           own == [n \in DOMAIN routes[1].own |->
                     Component("route", n, routes[1].own[n])]
       IN  built' =
             [http |-> [r \in DOMAIN prepared |->
                          [prepared[r] EXCEPT
                             !.pipeline = Replaced(@, overrides)]],
              protocol |-> IF kind = "component"
                           THEN Replaced(Protocol(own), overrides) ELSE <<>>]
    /\ UNCHANGED <<kind, lists, entries, controller, routes, validation,
                   overrides, calls>>

Next ==
    \/ \E scope \in Scopes, type \in Types : Use(scope, type)
    \/ \E only, except \in SUBSET Paths : Apply(only, except)
    \/ \E type \in Types : ControllerUses(type) \/ Override(type)
    \/ \E path \in Paths, host \in Hosts \cup {None},
          asks \in {"nothing", "on", "off"},
          own \in UNION {[1..n -> Types] : n \in 0..MaxOwn} :
            Route(path, host, own, asks)
    \/ \E host \in Hosts : WithHost(host) \/ WithTag(host)
    \/ WithoutHost \/ ControllerValidates \/ UseGlobalValidation \/ Build

Spec == Init /\ [][Next]_vars

-----------------------------------------------------------------------------
Places(pipeline) ==
    [k \in DOMAIN pipeline |-> <<pipeline[k].scope, pipeline[k].n>>]

Each(scope, n) == [k \in 1..n |-> <<scope, k>>]

(* The entries of the module's consumer that are for a path.               *)
ConsumedBy(path) ==
    {n \in DOMAIN entries :
        /\ entries[n].only # {} => path \in entries[n].only
        /\ path \notin entries[n].except}

(* Whatever the order in which a controller was given its components and   *)
(* its routes, each route runs those of the application, the providers,    *)
(* the module, the module's consumer, the controller and its own, in this  *)
(* order, those of one scope as they were declared, and each of them once  *)
(* (with_*, insert_*_prefix_at and the chain of with_*_prefix); gateways   *)
(* and patterns likewise.                                                  *)
ScopesNest ==
    LET declared(scope) == Each(scope, Len(lists[scope]))
        consumed(path) ==
            Only(Each("consumer", Len(entries)), ConsumedBy(path))
    IN  built # None =>
          /\ \A r \in DOMAIN routes :
                Places(built.http[r].pipeline) =
                    declared("global") \o declared("provider")
                    \o declared("module") \o consumed(routes[r].path)
                    \o declared("controller")
                    \o Each("route", Len(routes[r].own))
          /\ kind = "component" => Places(built.protocol) =
                declared("execution") \o declared("protocol")
                \o declared("provider") \o Each("route", Len(routes[1].own))

(* A route validates what it is sent unless it said it does not, as soon   *)
(* as it, its controller or the application asked for it, and it has the   *)
(* tags and, when it named none, a host of its controller, whether they    *)
(* were declared before it or after it.                                    *)
DefaultsReach ==
    built # None =>
        \A r \in DOMAIN built.http :
            LET route == built.http[r]
            IN  /\ route.validates <=>
                     /\ route.asked # "off"
                     /\ route.asked = "on" \/ controller.validates \/ validation
                /\ controller.tags \subseteq route.tags
                /\ route.host = None => controller.host = None

=============================================================================
