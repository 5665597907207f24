-------------------------- MODULE ProviderResolution --------------------------
(***************************************************************************)
(* How providers are found, planned and resolved (src/provider/            *)
(* module_ref.rs, entry.rs, context_id.rs, provider_ref.rs), and the       *)
(* build's use of that (src/app/registration.rs).                          *)
(*                                                                         *)
(* A resolution is one step here: what threads do to one another in the    *)
(* slots of the caches is ProviderCache's matter.  A user's factory asks   *)
(* for what it needs, in order, and keeps it; what it declares of that is  *)
(* another thing.  An instance is its index in `made`.                     *)
(***************************************************************************)
EXTENDS ProviderDefinitions, Naturals, FiniteSets, Sequences, SequencesExt, TLC

CONSTANTS
    Modules,    \* the modules, a sequence in the order of registration
    Imports,    \* of each module
    Exports,    \* the tokens each module exports, in order
    Globals,    \* the modules that are global
    Offered,    \* the definitions each module may register
    Overrides,  \* override_provider: definitions by token
    Contexts,   \* the context ids there may be
    MaxGets,    \* bound: resolutions asked of the built application
    Private,    \* the transient caches of created instances
    Error       \* the outcome of what fails

VARIABLES
    local,      \* ModuleRef.providers of each module, in provider_order
    exported,   \* ... of its exports
    global,     \* ... of global_ref
    pending,    \* ModuleRegistry.pending: the modules registered
    stage,      \* "registering", "failed", "ready"
    singletons, \* ProviderEntry.singleton, by cache key
    contexts,   \* ContextIdState: "unused", "open" or "dropped", and its cache
    transients, \* ModuleRef.transient_cache, of modules and created instances
    made,       \* the instances built so far
    answer,     \* of the last resolution
    gets

vars == <<local, exported, global, pending, stage, singletons, contexts,
          transients, made, answer, gets>>

Nothing == [x \in {} |-> None]

-----------------------------------------------------------------------------
(* Entries and where they are found.                                       *)

Entry(m, d) == [owner |-> m, definition |-> d]
KeyOf(e) == <<e.owner, e.definition.token>>
InstanceOf(e) == <<KeyOf(e), None>>
IsAlias(e) == e.definition.target # None
IsAsync(e) == e.definition.factory = "async"

Named(entries, t) == {e \in ToSet(entries) : e.definition.token = t}

(* The module's own, then the global ones, then its imports' exports.      *)
LookupFrom(own, m, t) ==
    LET scopes == <<own, global>>
                    \o [i \in DOMAIN Imports[m] |-> exported[Imports[m][i]]]
        found == SelectSeq(scopes, LAMBDA s : Named(s, t) # {})
    IN IF found = <<>> THEN None
       ELSE CHOOSE e \in Named(found[1], t) : TRUE

Lookup(m, t) == LookupFrom(local[m], m, t)

LocalEntries == UNION {ToSet(local[m]) : m \in DOMAIN local}

-----------------------------------------------------------------------------
(* Plans: the scope, and whether a request's context is needed.            *)

RECURSIVE Planned(_, _)

(* What an eager dependency adds to the plan of its dependent.             *)
Adds(r, below) ==
    IF below.plan = None THEN below
    ELSE [plan |-> [r.plan EXCEPT !.contextual = @ \/ below.plan.contextual],
          state |-> below.state]

Finished(key, result) ==
    [plan |-> result.plan,
     state |-> [visiting |-> result.state.visiting \ {key},
                memo |-> IF result.plan = None THEN result.state.memo
                         ELSE key :> result.plan @@ result.state.memo]]

Planned(e, state) ==
    LET key == KeyOf(e)
        declared == [scope |-> e.definition.scope,
                     contextual |-> e.definition.scope = "request"]
        inside == [state EXCEPT !.visiting = @ \cup {key}]
        Through(t, s) ==
            LET found == Lookup(e.owner, t)
            IN IF found = None THEN [plan |-> None, state |-> s]
               ELSE Planned(found, s)
        Declared(r, d) ==
            LET missing == Lookup(e.owner, d.token) = None
            IN IF r.plan = None \/ (missing /\ d.optional)
                    \/ (d.lazy /\ ~missing)
               THEN r
               ELSE Adds(r, Through(d.token, r.state))
    IN IF key \in DOMAIN state.memo
       THEN [plan |-> state.memo[key], state |-> state]
       ELSE IF key \in state.visiting
       THEN [plan |-> declared, state |-> state]
       ELSE Finished(key,
                IF IsAlias(e) THEN Through(e.definition.target, inside)
                ELSE FoldLeft(Declared, [plan |-> declared, state |-> inside],
                              IF e.definition.declares = None THEN <<>>
                              ELSE e.definition.declares))

(* resolution_plan: None when something required is not visible.           *)
Plan(e) == Planned(e, [visiting |-> {}, memo |-> Nothing]).plan

Contextual(e) == Plan(e).contextual
PlainSingleton(e) ==
    Plan(e).scope = "singleton" /\ ~Contextual(e) /\ ~IsAlias(e)

(* validate_resolution_plan.                                               *)
Valid(e) ==
    /\ Plan(e) # None
    /\ Contextual(e) => ~IsAsync(e) /\ ~e.definition.hooks

-----------------------------------------------------------------------------
(* Resolution.  A view is a ModuleRef: where to look, the context, the     *)
(* transient cache, who inquires and what is being built.  A world is the  *)
(* caches and the instances; an outcome is a world and an instance, None   *)
(* (not visible) or Error.                                               *)

View(m, context) == [module |-> m, context |-> context, cache |-> m,
                     inquirer |-> None, stack |-> <<>>]
FactoryRef(view, e, context) ==
    [view EXCEPT !.module = e.owner, !.context = context,
                 !.inquirer = KeyOf(e)]

World == [singletons |-> singletons, contexts |-> contexts,
          transients |-> transients, made |-> made]

Outcome(w, value) == [world |-> w, value |-> value]

Stored(w, place, key, value) ==
    CASE place = "singleton" -> [w EXCEPT !.singletons = key :> value @@ @]
      [] place \in Contexts ->
            [w EXCEPT !.contexts[place].cache = key :> value @@ @]
      [] OTHER -> [w EXCEPT !.transients[place] = key :> value @@ @]

Cache(w, place) ==
    CASE place = "singleton" -> w.singletons
      [] place \in Contexts -> w.contexts[place].cache
      [] OTHER -> w.transients[place]

RECURSIVE GetAny(_, _, _, _)

(* What a factory asks for, with what it got so far.                       *)
Gathered(r, d, got) ==
    CASE got.value = Error -> Outcome(got.world, Error)
      [] got.value = None ->
            Outcome(got.world, IF d.optional THEN r.value ELSE Error)
      [] OTHER -> Outcome(got.world, r.value \cup {got.value})

Asked(view, r, d) ==
    IF r.value = Error \/ d.lazy THEN r
    ELSE Gathered(r, d, GetAny(r.world, view, d.token, <<>>))

Constructed(view, key, held) ==
    LET instance == [key |-> key, holds |-> held.value,
                     context |-> view.context, cache |-> view.cache]
    IN IF held.value = Error THEN held
       ELSE Outcome([held.world EXCEPT !.made = Append(@, instance)],
                    Len(held.world.made) + 1)

Run(w, view, e) ==
    LET inside == [view EXCEPT !.stack = Append(@, KeyOf(e))]
    IN Constructed(view, KeyOf(e),
                   FoldLeft(LAMBDA r, d : Asked(inside, r, d),
                            Outcome(w, {}), e.definition.needs))

BuildWithResolutionStack(w, view, e) ==
    IF KeyOf(e) \in ToSet(view.stack) \/ IsAsync(e) THEN Outcome(w, Error)
    ELSE Run(w, view, e)

(* get_or_try_insert_with.                                                 *)
Inserted(place, key, built) ==
    IF built.value = Error THEN built
    ELSE Outcome(Stored(built.world, place, key, built.value), built.value)

Cached(w, place, key, view, e) ==
    LET dropped == place \in Contexts /\ w.contexts[place].state = "dropped"
    IN CASE KeyOf(e) \in ToSet(view.stack) \/ dropped -> Outcome(w, Error)
         [] key \in DOMAIN Cache(w, place) -> Outcome(w, Cache(w, place)[key])
         [] OTHER -> Inserted(place, key, BuildWithResolutionStack(w, view, e))

ResolveSingleton(w, view, e) ==
    Cached(w, "singleton", InstanceOf(e), FactoryRef(view, e, None), e)

ResolveContextual(w, view, e) ==
    IF view.context = None THEN Outcome(w, Error)
    ELSE Cached(w, view.context, InstanceOf(e),
                FactoryRef(view, e, view.context), e)

(* Variant: a module's transients are kept in its own cache.               *)
TransientPlaceOfModule(view) == view.cache

TransientPlace(view) ==
    IF view.context # None THEN view.context ELSE view.cache

ResolveTransient(w, view, e, plan) ==
    LET inquirer == IF view.context # None /\ view.inquirer = None
                    THEN KeyOf(e) ELSE view.inquirer
        inside == FactoryRef(view, e, view.context)
    IN IF plan.contextual /\ view.context = None THEN Outcome(w, Error)
       ELSE IF inquirer = None THEN BuildWithResolutionStack(w, inside, e)
       ELSE Cached(w, TransientPlace(view), <<KeyOf(e), inquirer>>, inside, e)

Required(got) == IF got.value = None THEN Outcome(got.world, Error) ELSE got

ResolveAlias(w, view, e, path) ==
    IF e.definition.token \in ToSet(path) THEN Outcome(w, Error)
    ELSE Required(GetAny(w, [view EXCEPT !.module = e.owner],
                         e.definition.target,
                         Append(path, e.definition.token)))

ResolvePlanned(w, view, e, plan) ==
    CASE plan = None -> Outcome(w, Error)
      [] plan.scope = "transient" -> ResolveTransient(w, view, e, plan)
      [] plan.scope = "singleton" /\ ~plan.contextual ->
            ResolveSingleton(w, view, e)
      [] OTHER -> ResolveContextual(w, view, e)

Resolve(w, view, e, path) ==
    IF IsAlias(e) THEN ResolveAlias(w, view, e, path)
    ELSE ResolvePlanned(w, view, e, Plan(e))

GetAny(w, view, t, path) ==
    LET e == Lookup(view.module, t)
    IN IF e = None THEN Outcome(w, None) ELSE Resolve(w, view, e, path)

-----------------------------------------------------------------------------
(* The build of an application.                                            *)

(* provider_override_or and validate_registration.                         *)
Overridden(d) ==
    IF d.token \in DOMAIN Overrides THEN Overrides[d.token] ELSE d

Registrable(d, entries) ==
    /\ Named(entries, d.token) = {}
    /\ d.factory = "async" \/ d.hooks => d.scope = "singleton"
    /\ d.hooks => d.target = None

(* register_async, one definition after the other: None when one fails.    *)
Registered(m, definitions) ==
    FoldLeft(LAMBDA s, d :
                IF s = None THEN None
                ELSE IF ~Registrable(Overridden(d), s) THEN None
                ELSE Append(s, Entry(m, Overridden(d))),
             <<>>, definitions)

(* export_from, one token after the other: None when one is not visible to *)
(* the module with these entries, or is there already.                     *)
ExportTo(to, own, m, tokens) ==
    FoldLeft(LAMBDA s, t :
                IF s = None THEN None
                ELSE IF LookupFrom(own, m, t) = None \/ Named(s, t) # {}
                THEN None ELSE Append(s, LookupFrom(own, m, t)),
             to, tokens)

(* eager_dependency_entries: None when a required one is not visible.      *)
EagerDependencies(e) ==
    LET declared == IF IsAlias(e) THEN <<Dependency(e.definition.target)>>
                    ELSE IF e.definition.declares = None THEN <<>>
                    ELSE e.definition.declares
        Found(d) == Lookup(e.owner, d.token)
        eager == SelectSeq(declared,
                           LAMBDA d : ~d.lazy /\ Found(d) # None)
    IN IF \E i \in DOMAIN declared :
            ~declared[i].optional /\ Found(declared[i]) = None
       THEN None
       ELSE [i \in DOMAIN eager |-> Found(eager[i])]

SeedSingletonAsync(w, e) ==
    IF InstanceOf(e) \in DOMAIN w.singletons THEN Outcome(w, None)
    ELSE Inserted("singleton", InstanceOf(e),
                  Run(w, FactoryRef(View(e.owner, None), e, None), e))

(* What an async factory reaches is seeded before it, dependencies first.  *)
Completed(s, key, seeded) ==
    IF seeded.value = Error THEN [s EXCEPT !.ok = FALSE]
    ELSE [s EXCEPT !.complete = @ \cup {key}, !.world = seeded.world]

Seeded(e, visiting, below) ==
    IF ~below.ok THEN below
    ELSE [Completed(below, KeyOf(e),
                    IF IsAsync(e) THEN SeedSingletonAsync(below.world, e)
                    ELSE Outcome(below.world, None))
            EXCEPT !.visiting = visiting]

RECURSIVE SeedTree(_, _)
SeedTree(s, e) ==
    LET key == KeyOf(e)
        inside == [s EXCEPT !.visiting = Append(@, key)]
    IN IF ~s.ok \/ key \in s.complete THEN s
       ELSE IF key \in ToSet(s.visiting) \/ ~Valid(e)
       THEN [s EXCEPT !.ok = FALSE]
       ELSE Seeded(e, s.visiting,
                   FoldLeft(SeedTree, inside, EagerDependencies(e)))

SeedLocalAsyncSingletons(s, m) ==
    LET entries == SelectSeq(local[m],
                             LAMBDA e : PlainSingleton(e) /\ IsAsync(e))
    IN FoldLeft(SeedTree, [s EXCEPT !.complete = {}], entries)

InitializeLocalSingletons(s, m) ==
    LET After(r, built) == [r EXCEPT !.ok = built.value # Error,
                                     !.world = built.world]
        Initialized(r, e) ==
            IF ~r.ok THEN r
            ELSE After(r, ResolveSingleton(r.world, View(m, None), e))
    IN FoldLeft(Initialized, s, SelectSeq(local[m], PlainSingleton))

Init ==
    /\ local = [m \in ToSet(Modules) |-> <<>>]
    /\ exported = [m \in ToSet(Modules) |-> <<>>]
    /\ global = <<>> /\ pending = <<>> /\ stage = "registering"
    /\ singletons = Nothing
    /\ contexts = [c \in Contexts |-> [state |-> "unused", cache |-> Nothing]]
    /\ transients = [m \in ToSet(Modules) |-> Nothing] /\ made = <<>>
    /\ answer = None /\ gets = 0

(* register_module_async_inner, after the module's imports.                *)
RegisterModule(m, definitions) ==
    LET own == Registered(m, definitions)
        exports == ExportTo(<<>>, own, m, Exports[m])
        globals == IF m \in Globals THEN global \o exports ELSE global
        fails == \/ own = None
                 \/ exports = None
                 \/ m \in Globals /\ \E e \in ToSet(exports) :
                        Named(global, e.definition.token) # {}
    IN /\ stage = "registering" /\ Len(pending) < Len(Modules)
       /\ m = Modules[Len(pending) + 1]
       /\ IF fails
          THEN /\ stage' = "failed"
               /\ UNCHANGED <<local, exported, global, pending>>
          ELSE /\ local' = [local EXCEPT ![m] = own]
               /\ exported' = [exported EXCEPT ![m] = exports]
               /\ global' = globals /\ pending' = Append(pending, m)
               /\ UNCHANGED stage
       /\ UNCHANGED <<singletons, contexts, transients, made, answer, gets>>

Became(w) ==
    /\ singletons' = w.singletons /\ contexts' = w.contexts
    /\ transients' = w.transients /\ made' = w.made

Finalized(last) ==
    /\ stage' = IF last.ok THEN "ready" ELSE "failed"
    /\ Became(last.world)

(* finalize_async: all plans, then all seeds, then all singletons.         *)
Finalize ==
    LET start == [ok |-> \A e \in LocalEntries : Valid(e), world |-> World,
                  visiting |-> <<>>, complete |-> {}]
    IN /\ stage = "registering" /\ Len(pending) = Len(Modules)
       /\ Finalized(FoldLeft(InitializeLocalSingletons,
                             FoldLeft(SeedLocalAsyncSingletons, start,
                                      IF start.ok THEN Modules ELSE <<>>),
                             Modules))
       /\ UNCHANGED <<local, exported, global, pending, answer, gets>>

Answered(outcome) ==
    /\ stage = "ready" /\ gets < MaxGets /\ gets' = gets + 1
    /\ Became(outcome.world) /\ answer' = outcome.value
    /\ UNCHANGED <<local, exported, global, pending, stage>>

(* ModuleRef::get, without a context.                                      *)
Get(m, t) == Answered(GetAny(World, View(m, None), t, <<>>))

(* A context, made when it is first used.                                  *)
Opened(c) == [World EXCEPT !.contexts[c].state = "open"]

(* resolve_with_context, by whoever holds the context id.                  *)
ResolveWithContext(m, t, c) ==
    /\ contexts[c].state # "dropped"
    /\ Answered(GetAny(Opened(c), View(m, c), t, <<>>))

(* resolve: in a context that is dropped when it returns.                  *)
ResolveFresh(m, t, c) ==
    LET Dropped(got) ==
            Outcome([got.world EXCEPT !.contexts[c].state = "dropped"],
                    got.value)
    IN /\ contexts[c].state = "unused"
       /\ Answered(Dropped(GetAny(Opened(c), View(m, c), t, <<>>)))

(* create: an instance that is not registered, with a transient cache of   *)
(* its own.                                                                *)
Create(m, needs, cache) ==
    LET e == Entry(m, Factory("created", needs))
        view == [FactoryRef(View(m, None), e, None) EXCEPT !.cache = cache]
        w == [World EXCEPT !.transients = cache :> Nothing @@ @]
    IN cache \notin DOMAIN transients /\ Answered(Run(w, view, e))

(* ProviderRef::get of a lazy dependency: the instance keeps what it gets. *)
Dereference(i, d) ==
    LET view == [module |-> made[i].key[1], context |-> made[i].context,
                 cache |-> made[i].cache, inquirer |-> made[i].key,
                 stack |-> <<>>]
        Kept(got) ==
            IF got.value \in {None, Error} THEN got
            ELSE Outcome([got.world EXCEPT !.made[i].holds =
                                @ \cup {got.value}],
                         got.value)
    IN /\ d.lazy
       /\ Answered(Kept(GetAny(World, view, d.token, <<>>)))

(* The last ContextId of a context goes; views hold it weakly.             *)
DropContext(c) ==
    /\ contexts[c].state = "open"
    /\ contexts' = [contexts EXCEPT ![c].state = "dropped"]
    /\ UNCHANGED <<local, exported, global, pending, stage, singletons,
                   transients, made, answer, gets>>

Next ==
    \/ \E m \in ToSet(Modules) : \E ds \in Offered[m] : RegisterModule(m, ds)
    \/ Finalize
    \/ \E e \in LocalEntries :
        LET m == e.owner  t == e.definition.token IN
        \/ Get(m, t)
        \/ \E c \in Contexts :
            ResolveWithContext(m, t, c) \/ ResolveFresh(m, t, c)
        \/ \E cache \in Private : Create(m, <<Dependency(t)>>, cache)
    \/ \E i \in DOMAIN made, e \in LocalEntries :
        /\ made[i].key = KeyOf(e)
        /\ \E d \in ToSet(e.definition.needs) : Dereference(i, d)
    \/ \E c \in Contexts : DropContext(c)

Spec == Init /\ [][Next]_vars

-----------------------------------------------------------------------------
(* Reference: who uses whom, whatever is declared.                         *)
Uses(e) ==
    LET eager == {d \in ToSet(e.definition.needs) : ~d.lazy}
        tokens == IF IsAlias(e) THEN {e.definition.target}
                  ELSE {d.token : d \in eager}
    IN {Lookup(e.owner, t) : t \in tokens} \ {None}

Reached(e) ==
    LET within[n \in 0..Cardinality(LocalEntries)] ==
            IF n = 0 THEN Uses(e)
            ELSE within[n - 1] \cup UNION {Uses(x) : x \in within[n - 1]}
    IN within[Cardinality(LocalEntries)]

NeedsContext(e) ==
    \E x \in Reached(e) \cup {e} : x.definition.scope = "request"

Opaque == \E e \in LocalEntries : e.definition.declares = None
Cyclic == \E e \in LocalEntries : e \in Reached(e)
Missing ==
    \E e \in LocalEntries :
        \/ IsAlias(e) /\ Lookup(e.owner, e.definition.target) = None
        \/ \E d \in ToSet(e.definition.needs) :
                ~d.optional /\ Lookup(e.owner, d.token) = None

(* An application whose factories declare what they need is built, in      *)
(* whatever order its providers are registered and wherever the async ones *)
(* are, unless something is missing, cyclic, or would keep a request's     *)
(* provider for ever (module_ref.rs, seed_async_dependency_tree,           *)
(* validate_resolution_plan).                                              *)
BuiltUnlessBroken ==
    stage = "failed" /\ Len(pending) = Len(Modules) /\ ~Opaque =>
        \/ Cyclic \/ Missing
        \/ \E e \in LocalEntries :
                NeedsContext(e) /\ (IsAsync(e) \/ e.definition.hooks)

(* What was built for one context is kept by nothing that another context, *)
(* or the application, can get hold of (entry.rs, factory_ref).            *)
ContextsStayApart ==
    /\ \A i \in DOMAIN made : \A h \in made[i].holds :
            made[h].context \in {None, made[i].context}
    /\ \A k \in DOMAIN singletons : made[singletons[k]].context = None
    /\ \A p \in DOMAIN transients : \A k \in DOMAIN transients[p] :
            made[transients[p][k]].context = None
    /\ \A c \in Contexts : \A k \in DOMAIN contexts[c].cache :
            made[contexts[c].cache[k]].context = c

(* A provider needs a context exactly when it reaches a request scoped one *)
(* without a lazy handle in between, cycles and aliases included           *)
(* (entry.rs, resolution_plan_inner and its memo).                         *)
PlansReach ==
    ~Opaque =>
        \A e \in LocalEntries :
            Plan(e) # None => (Contextual(e) <=> NeedsContext(e))

(* One instance of what is not transient, in its context or in all         *)
(* (entry.rs, resolve).                                                    *)
OneEach ==
    \A e \in LocalEntries : \A i, j \in DOMAIN made :
        /\ made[i].key = KeyOf(e) /\ made[j].key = KeyOf(e)
        /\ made[i].context = made[j].context
        /\ e.definition.scope # "transient"
        => i = j
===============================================================================
