-------------------------- MODULE HandlerDefinitions --------------------------
(***************************************************************************)
(* What the builders of handlers leave behind: routes in a controller,     *)
(* subscriptions in a gateway, and message patterns, which are in nothing  *)
(* but the application: src/routing/route/definition.rs and pipeline.rs,   *)
(* src/routing/controller.rs, src/websocket/handler.rs and gateway.rs,     *)
(* src/transport/pattern.rs, src/validation.rs.                            *)
(*                                                                         *)
(* Composition tells how the lists of all scopes are joined.  This is      *)
(* about metadata, validation with its options, and components that a test *)
(* replaces by their type, in gateways, subscriptions and patterns.        *)
(***************************************************************************)
EXTENDS Naturals, Sequences, FiniteSets, Functions

CONSTANTS
    Types, Keys, Values, Options,
    Names,       \* of events and patterns
    MaxCalls,    \* bound: calls of builders
    None

VARIABLES
    of,          \* "controller", "gateway" or "pattern"
    container,   \* the controller or gateway, nothing for patterns
    draft,       \* the definition that is being built
    members,     \* the definitions in the container: [name, own, def]
    global,      \* the application's validation
    given,       \* the values that the container was given of a key
    calls,
    built        \* None, or what is compiled, which is nothing if refused

vars == <<of, container, draft, members, global, given, calls, built>>

-----------------------------------------------------------------------------
(* Components that serve every protocol are wrapped when they are added:   *)
(* their type is then that of the wrapper, and none that a test can name.  *)
Component(type, wrapped) ==
    [type |-> IF wrapped THEN None ELSE type, replaced |-> FALSE]

Undefined ==
    [metadata |-> [k \in Keys |-> None], pipeline |-> <<>>,
     validates |-> FALSE, disabled |-> FALSE, options |-> {}]

WithMetadata(d, k, v) == [d EXCEPT !.metadata[k] = v]

WithDefault(d, k, v) ==
    [d EXCEPT !.metadata[k] = IF @ = None THEN v ELSE @]

WithDefaults(d, metadata) ==
    [d EXCEPT !.metadata =
        [k \in Keys |-> IF @[k] = None THEN metadata[k] ELSE @[k]]]

With(d, type, wrapped) ==
    [d EXCEPT !.pipeline = Append(@, Component(type, wrapped))]

(* with_validation, with_validation_options and with_payload_validation.   *)
Validating(d, options) ==
    [d EXCEPT !.validates = TRUE, !.disabled = FALSE,
              !.options = @ \cup options]

WithoutValidation(d) == [d EXCEPT !.validates = FALSE, !.disabled = TRUE]

(* with_pipeline_prefix and with_validation_prefix.                        *)
Prefixed(d, validation) ==
    IF d.disabled THEN d
    ELSE [d EXCEPT !.validates = validation.validates \/ @,
                   !.options = validation.options \cup @]

Overridden(pipeline, types) ==
    [i \in DOMAIN pipeline |->
        IF pipeline[i].type \in types
        THEN [pipeline[i] EXCEPT !.replaced = TRUE] ELSE pipeline[i]]

-----------------------------------------------------------------------------
Init ==
    /\ of \in {"controller", "gateway", "pattern"}
    /\ container = Undefined /\ draft = Undefined /\ members = <<>>
    /\ global = [validates |-> FALSE, options |-> {}]
    /\ given = [k \in Keys |-> <<>>] /\ calls = 0 /\ built = None

Calls == built = None /\ calls < MaxCalls /\ calls' = calls + 1

Drafts(d) ==
    /\ Calls /\ draft' = d
    /\ UNCHANGED <<of, container, members, global, given, built>>

DraftMetadata(k, v) == Drafts(WithMetadata(draft, k, v))
DraftUses(type, wrapped) ==
    (wrapped => of # "gateway") /\ Drafts(With(draft, type, wrapped))
DraftValidates(options) == Drafts(Validating(draft, options))
DraftWithoutValidation == Drafts(WithoutValidation(draft))

(* ControllerDefinition::route, WebSocketGatewayDefinition::subscribe, or  *)
(* a module's message pattern.  A gateway that has the event is lost.      *)
Add(name) ==
    LET known == \E i \in DOMAIN members : members[i].name = name
        added == Prefixed(WithDefaults(draft, container.metadata), container)
    IN  /\ Calls /\ draft' = Undefined
        /\ IF of = "gateway" /\ known
           THEN built' = <<>> /\ UNCHANGED members
           ELSE /\ members' = Append(members, [name |-> name, own |-> draft,
                                               def |-> added])
                /\ UNCHANGED built
        /\ UNCHANGED <<of, container, global, given>>

(* with_metadata_value of a controller or gateway, and with_cache_*.       *)
ContainerMetadata(k, v) ==
    /\ Calls /\ of # "pattern"
    /\ container' = WithMetadata(container, k, v)
    /\ members' = [i \in DOMAIN members |->
                    [members[i] EXCEPT !.def = WithDefault(@, k, v)]]
    /\ given' = [given EXCEPT ![k] = Append(@, v)]
    /\ UNCHANGED <<of, draft, global, built>>

GatewayUses(type, wrapped) ==
    /\ Calls /\ of = "gateway"
    /\ container' = With(container, type, wrapped)
    /\ UNCHANGED <<of, draft, members, global, given, built>>

ControllerValidates(options) ==
    /\ Calls /\ of = "controller"
    /\ container' = [container EXCEPT !.validates = TRUE,
                                      !.options = @ \cup options]
    /\ members' = [i \in DOMAIN members |->
                    [members[i] EXCEPT !.def = Prefixed(@,
                        [validates |-> TRUE, options |-> options])]]
    /\ UNCHANGED <<of, draft, global, given, built>>

GlobalValidates(options) ==
    /\ Calls
    /\ global' = [validates |-> TRUE, options |-> global.options \cup options]
    /\ UNCHANGED <<of, container, draft, members, given, built>>

(* validate_unique_message_patterns; then the overrides of a test.  The    *)
(* components of a gateway come before those of the subscription.          *)
Build(types) ==
    LET Pipeline(d) ==
            Overridden(container.pipeline, types)
            \o Overridden(d.pipeline, types)
        Built(m) ==
            [name |-> m.name,
             def |-> [Prefixed(m.def, global)
                        EXCEPT !.pipeline = Pipeline(m.def)]]
    IN  /\ built = None /\ members # <<>>
        /\ built' =
            IF of = "pattern" /\ \E i, j \in DOMAIN members :
                    i # j /\ members[i].name = members[j].name
            THEN <<>>
            ELSE [i \in DOMAIN members |-> Built(members[i])]
        /\ UNCHANGED <<of, container, draft, members, global, given, calls>>

Next ==
    \/ \E k \in Keys, v \in Values :
            DraftMetadata(k, v) \/ ContainerMetadata(k, v)
    \/ \E type \in Types, wrapped \in BOOLEAN :
            DraftUses(type, wrapped) \/ GatewayUses(type, wrapped)
    \/ \E options \in SUBSET Options :
            \/ DraftValidates(options)
            \/ ControllerValidates(options) \/ GlobalValidates(options)
    \/ DraftWithoutValidation
    \/ \E name \in Names : Add(name)
    \/ \E types \in SUBSET Types : Build(types)

Spec == Init /\ [][Next]_vars

-----------------------------------------------------------------------------
Compiled == built # None

(* A handler knows each key of its container that it has no value of its   *)
(* own for, whichever was declared first, and one value of it when there   *)
(* was no other (with_metadata_default_value, with_metadata_defaults).     *)
MetadataReaches ==
    Compiled => \A i \in DOMAIN built, k \in Keys :
        LET own == members[i].own.metadata[k]
            known == built[i].def.metadata[k]
        IN  IF own # None THEN known = own
            ELSE IF given[k] = <<>> THEN known = None
            ELSE known \in Range(given[k])

(* A handler that refuses validation has none, whatever its controller and *)
(* the application asked for and when; any other one has it as soon as one *)
(* of the three asked for it, with the options of all (validation.rs).     *)
ValidationMerges ==
    Compiled => \A i \in DOMAIN built :
        LET own == members[i].own
            def == built[i].def
        IN  IF own.disabled THEN ~def.validates
            ELSE /\ def.validates <=>
                        own.validates \/ container.validates \/ global.validates
                 /\ def.options =
                        own.options \cup container.options \cup global.options

(* No two handlers of a gateway, and no two patterns of an application,    *)
(* have one name.                                                          *)
NamesAreUnique ==
    Compiled /\ of # "controller" =>
        \A i, j \in DOMAIN built : built[i].name = built[j].name => i = j
=============================================================================
