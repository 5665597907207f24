---------------------------- MODULE ModuleRegistry ----------------------------
(***************************************************************************)
(* ModuleRegistry of src/app/registration.rs: BootApplicationBuilder::     *)
(* build hands it the modules the application imports, and it registers    *)
(* them depth first, imports before forward imports before the module      *)
(* itself.  The order of registration is the order of every lifecycle hook *)
(* later on.                                                               *)
(*                                                                         *)
(* A module is its name.  imports() and forward_imports() return vectors;  *)
(* as sets, with any element taken next, they stand for all their orders.  *)
(* Providers, exports and route prefixes matter only in that they can fail.*)
(***************************************************************************)
EXTENDS Naturals, Sequences, FiniteSets, SequencesExt

CONSTANTS
    Modules,
    Graphs,        \* the module graphs: imports and forward imports
    Entries,       \* what the builder imports: sequences of modules
    None

ASSUME GraphsAssumption ==
    /\ Graphs \subseteq [imports : [Modules -> SUBSET Modules],
                         forward : [Modules -> SUBSET Modules]]
    /\ Entries \subseteq Seq(Modules)
    /\ None \notin Modules

VARIABLES
    graph,         \* the graph of this application
    entry,         \* modules the builder has still to register
    visiting,      \* the modules being registered, the innermost last
    pending,       \* the modules registered, in order
    refused        \* the module blamed for a cyclic import, or None

registry == <<graph, entry, visiting, pending, refused>>

-----------------------------------------------------------------------------
Registered == ToSet(pending)

Active == {f.module : f \in ToSet(visiting)}

Frame == [module : Modules, imports : SUBSET Modules, forward : SUBSET Modules]

NewFrame(m) ==
    [module |-> m, imports |-> graph.imports[m], forward |-> graph.forward[m]]

Top == Last(visiting)

(* The modules being registered once the innermost has x left to import.   *)
Updated(x) == Append(Front(visiting), x)

RegistryInit ==
    /\ graph \in Graphs
    /\ entry \in Entries
    /\ visiting = <<>> /\ pending = <<>>
    /\ refused = None

(* Variants: a module being registered counts as registered, and one that  *)
(* was registered is still being visited.                                  *)
RegisterActive(m, v) ==
    /\ visiting' = IF m \in Registered \cup Active THEN v ELSE Append(v, NewFrame(m))
    /\ UNCHANGED refused

RegisterVisiting(m, v) ==
    IF m \in Registered \cup Active THEN refused' = m /\ UNCHANGED visiting
    ELSE visiting' = Append(v, NewFrame(m)) /\ UNCHANGED refused

(* Registers m, if it is not registered, on behalf of the modules in v.    *)
Register(m, v) ==
    IF m \in Registered THEN visiting' = v /\ UNCHANGED refused
    ELSE IF m \in Active THEN refused' = m /\ UNCHANGED visiting
    ELSE visiting' = Append(v, NewFrame(m)) /\ UNCHANGED refused

RegisterForward(m, v) ==
    /\ visiting' = IF m \in Registered \cup Active THEN v ELSE Append(v, NewFrame(m))
    /\ UNCHANGED refused

Registering == refused = None

(* The builder's loop over its modules.                                    *)
EntryNext ==
    /\ Registering /\ visiting = <<>> /\ entry # <<>>
    /\ Register(Head(entry), <<>>)
    /\ entry' = Tail(entry)
    /\ UNCHANGED <<graph, pending>>

ImportNext(m) ==
    /\ Registering /\ visiting # <<>> /\ m \in Top.imports
    /\ Register(m, Updated([Top EXCEPT !.imports = @ \ {m}]))
    /\ UNCHANGED <<graph, entry, pending>>

ForwardImportNext(m) ==
    /\ Registering /\ visiting # <<>> /\ Top.imports = {} /\ m \in Top.forward
    /\ RegisterForward(m, Updated([Top EXCEPT !.forward = @ \ {m}]))
    /\ UNCHANGED <<graph, entry, pending>>

(* Providers and exports are in place: the module is registered.  The async *)
(* twin takes the same steps: it holds the registry through its awaits.      *)
Registers ==
    /\ Registering /\ visiting # <<>> /\ Top.imports = {} /\ Top.forward = {}
    /\ pending' = Append(pending, Top.module)
    /\ visiting' = Front(visiting)
    /\ UNCHANGED <<graph, entry, refused>>

RegistryNext ==
    \/ EntryNext \/ Registers
    \/ \E m \in Modules : ImportNext(m) \/ ForwardImportNext(m)

AllRegistered == Registering /\ visiting = <<>> /\ entry = <<>>

-----------------------------------------------------------------------------
(* Types of the registry's state.                                          *)
RegistryTypeOK ==
    /\ graph \in Graphs
    /\ entry \in Seq(Modules)
    /\ visiting \in Seq(Frame)
    /\ pending \in Seq(Modules)
    /\ refused \in Modules \cup {None}

(* A module is registered once, after everything it imports, whatever      *)
(* graph it is reached through; only forward imports may come later        *)
(* (lifecycle_hooks_run_in_dependency_order_and_shutdown_reverse_order).   *)
DependenciesFirst ==
    \A i \in 1..Len(pending) :
        /\ \A j \in 1..Len(pending) : pending[i] = pending[j] => i = j
        /\ \A d \in graph.imports[pending[i]] : \E j \in 1..(i - 1) : pending[j] = d

(* What m imports directly or through others, forward imports included.    *)
Reaches(m) ==
    LET closed(S) == \A k \in S : graph.imports[k] \cup graph.forward[k] \subseteq S
    IN  {d \in Modules : \A S \in SUBSET Modules :
            graph.imports[m] \cup graph.forward[m] \subseteq S /\ closed(S) => d \in S}

(* "cyclic module import detected" is reported of real cycles only.        *)
RefusedOnCycle == refused # None => refused \in Reaches(refused)
===============================================================================
