------------------------------ MODULE LazyModules ------------------------------
(***************************************************************************)
(* LazyModuleLoader of src/app/lazy.rs: threads that load module graphs at *)
(* run time into a cache they share with the modules registered eagerly.   *)
(* A module of a graph is an instance of its name, with the instances it   *)
(* got for its imports; each load makes at most one of a name.             *)
(***************************************************************************)
EXTENDS Naturals, Sequences, FiniteSets

CONSTANTS
    Modules, Loaders,     \* a loader loads once
    Imports, Forward,     \* [Modules -> sequence of modules]
    EagerSets,            \* modules that may be registered eagerly
    None

Eager == "eager"

VARIABLES
    cache,       \* LazyModuleRegistry.modules: name -> instance
    state,       \* of each loader: "idle", "register", "initialize", "cache",
                 \* "return", "loaded" or "failed"
    target,      \* the module it loads
    visiting,    \* the modules it is registering, with imports left of each
    registered,  \* LazyModuleGraph.registered: names
    links,       \* instance -> name of an import -> instance
    result       \* the instance it returned

vars == <<cache, state, target, visiting, registered, links, result>>

Instance(l, m) == <<l, m>>
Instances == (Loaders \cup {Eager}) \X Modules

\* What a module asks for, in order: imports and then forward imports.
Asked(m) == [n \in DOMAIN Imports[m] |-> [of |-> Imports[m][n], forward |-> FALSE]]
            \o [n \in DOMAIN Forward[m] |-> [of |-> Forward[m][n], forward |-> TRUE]]

-----------------------------------------------------------------------------
(* build seeds the cache with what was registered, imports included.       *)
Init ==
    \E eager \in EagerSets :
        /\ cache = [m \in eager |-> Instance(Eager, m)]
        /\ links = [i \in Instances |->
                      IF i[1] = Eager /\ i[2] \in eager
                      THEN [m \in {Asked(i[2])[n].of : n \in DOMAIN Asked(i[2])}
                              |-> Instance(Eager, m)]
                      ELSE <<>>]
        /\ state = [l \in Loaders |-> "idle"]
        /\ target = [l \in Loaders |-> None]
        /\ visiting = [l \in Loaders |-> <<>>]
        /\ registered = [l \in Loaders |-> {}]
        /\ result = [l \in Loaders |-> None]

Goto(l, s) == state' = [state EXCEPT ![l] = s]

(* The module that register_arc_inner is in the middle of, and those that *)
(* wait for it.                                                          *)
Top(stack) == stack[Len(stack)]
Popped(stack) == SubSeq(stack, 1, Len(stack) - 1)

Active(l) == {visiting[l][n].name : n \in DOMAIN visiting[l]}

Entered(m) == [name |-> m, left |-> Asked(m)]

(* load_arc: a cached module is returned as it is.                         *)
Load(l, m) ==
    /\ state[l] = "idle"
    /\ target' = [target EXCEPT ![l] = m]
    /\ IF m \in DOMAIN cache
       THEN /\ Goto(l, "loaded") /\ result' = [result EXCEPT ![l] = cache[m]]
            /\ UNCHANGED visiting
       ELSE /\ Goto(l, "register") /\ UNCHANGED result
            /\ visiting' = [visiting EXCEPT ![l] = <<Entered(m)>>]
    /\ UNCHANGED <<cache, registered, links>>

(* register_arc_inner of the next import of the module on top: what is     *)
(* cached by now, else what this graph has, else what it is in the middle  *)
(* of when the import is a forward one, else a new instance.               *)
Found(l, m) ==
    IF m \in DOMAIN cache THEN cache[m] ELSE Instance(l, m)

Import(l) ==
    /\ state[l] = "register" /\ visiting[l] # <<>> /\ Top(visiting[l]).left # <<>>
    /\ LET top == Top(visiting[l])
           m == Head(top.left).of
           known == m \in DOMAIN cache \cup registered[l]
           rest == Append(Popped(visiting[l]),
                          [top EXCEPT !.left = Tail(@)])
           me == Instance(l, top.name)
       IN  IF known \/ (m \in Active(l) /\ Head(top.left).forward)
           THEN /\ visiting' = [visiting EXCEPT ![l] = rest]
                /\ links' = [links EXCEPT ![me] =
                               [i \in DOMAIN @ \cup {m} |->
                                  IF i = m THEN Found(l, m) ELSE @[i]]]
                /\ UNCHANGED state
           ELSE IF m \in Active(l)
           THEN Goto(l, "failed") /\ UNCHANGED <<visiting, links>>
           ELSE /\ visiting' = [visiting EXCEPT ![l] = Append(@, Entered(m))]
                /\ UNCHANGED <<state, links>>
    /\ UNCHANGED <<cache, target, registered, result>>

(* The module on top has all its imports: it is one of the graph, and the  *)
(* import it was entered for is the one found next.                        *)
Registered(l) ==
    /\ state[l] = "register" /\ visiting[l] # <<>> /\ Top(visiting[l]).left = <<>>
    /\ LET top == Top(visiting[l])
           parent == IF Len(visiting[l]) > 1
                     THEN Top(Popped(visiting[l])) ELSE top
       IN  /\ registered' = [registered EXCEPT ![l] = @ \cup {top.name}]
           /\ IF parent = top
              THEN /\ visiting' = [visiting EXCEPT ![l] = <<>>]
                   /\ Goto(l, "initialize") /\ UNCHANGED links
              ELSE /\ visiting' = [visiting EXCEPT ![l] =
                         Append(Popped(Popped(@)),
                                [parent EXCEPT !.left = Tail(@)])]
                   /\ links' = [links EXCEPT ![Instance(l, parent.name)] =
                         [i \in DOMAIN @ \cup {top.name} |->
                            IF i = top.name THEN Instance(l, i) ELSE @[i]]]
                   /\ UNCHANGED state
    /\ UNCHANGED <<target, result>>

(* Variant of Register that caches each module as it registers it.         *)
RegisterCached(l) ==
    /\ Registered(l)
    /\ LET m == Top(visiting[l]).name
       IN  cache' = [i \in DOMAIN cache \cup {m} |->
                       IF i \in DOMAIN cache THEN cache[i] ELSE Instance(l, i)]

Register(l) == Registered(l) /\ UNCHANGED cache

(* A global module, an enhancer, an unknown provider or a factory that     *)
(* fails ends the load; nothing is cached.                                 *)
Fail(l) ==
    /\ state[l] \in {"register", "initialize"}
    /\ Goto(l, "failed")
    /\ UNCHANGED <<cache, target, visiting, registered, links, result>>

(* validate and initialize: the factories of the graph's singletons run.   *)
Initialize(l) ==
    /\ state[l] = "initialize" /\ Goto(l, "cache")
    /\ UNCHANGED <<cache, target, visiting, registered, links, result>>

(* Variant of CacheModules that inserts over what is there.                *)
CacheModulesOver(l) ==
    /\ state[l] = "cache" /\ Goto(l, "return")
    /\ cache' = [m \in DOMAIN cache \cup registered[l] |->
                   IF m \in registered[l] THEN Instance(l, m) ELSE cache[m]]
    /\ UNCHANGED <<target, visiting, registered, links, result>>

(* cache_modules: or_insert under the write lock.                          *)
CacheModules(l) ==
    /\ state[l] = "cache" /\ Goto(l, "return")
    /\ cache' = [m \in DOMAIN cache \cup registered[l] |->
                   IF m \in DOMAIN cache THEN cache[m] ELSE Instance(l, m)]
    /\ UNCHANGED <<target, visiting, registered, links, result>>

Return(l) ==
    /\ state[l] = "return" /\ Goto(l, "loaded")
    /\ result' = [result EXCEPT ![l] = cache[target[l]]]
    /\ UNCHANGED <<cache, target, visiting, registered, links>>

Next ==
    \E l \in Loaders :
        \/ \E m \in Modules : Load(l, m)
        \/ Import(l) \/ Register(l) \/ Fail(l) \/ Initialize(l)
        \/ CacheModules(l) \/ Return(l)

Spec == Init /\ [][Next]_vars

-----------------------------------------------------------------------------
(* All who load a module get the same instance, whoever initialized more   *)
(* of them meanwhile (load_arc returns what cache_modules kept); and what  *)
(* is cached has all its imports, none of them of a load that failed, not  *)
(* even by way of another's forward import.                                *)
OneModulePerName ==
    /\ \A l, k \in Loaders :
          state[l] = "loaded" /\ state[k] = "loaded" /\ target[l] = target[k]
              => result[l] = result[k]
    /\ \A m \in DOMAIN cache :
          LET reach == links[cache[m]]
          IN  /\ DOMAIN reach = {Asked(m)[n].of : n \in DOMAIN Asked(m)}
              /\ \A i \in DOMAIN reach :
                    reach[i][1] = Eager \/ state[reach[i][1]] \in {"return", "loaded"}

(* "One instance in an application graph" (website/content/en/core/        *)
(* application-model.mdx:77, of a singleton): the imports of a module in   *)
(* the cache are the modules of the cache, and so are their singletons.    *)
ImportsAreCached ==
    \A m \in DOMAIN cache :
        \A i \in DOMAIN links[cache[m]] :
            i \in DOMAIN cache /\ links[cache[m]][i] = cache[i]

=============================================================================
