------------------------- MODULE ProviderDefinitions --------------------------
(***************************************************************************)
(* What is declared of a provider: src/provider/definition.rs.  `needs` is *)
(* what its factory asks for, in order; `declares` what the definition     *)
(* tells the registry of that, None when it tells nothing.                 *)
(***************************************************************************)
CONSTANT None

Dependency(t) == [token |-> t, optional |-> FALSE, lazy |-> FALSE]
Optional(d) == [d EXCEPT !.optional = TRUE]
Lazy(d) == [d EXCEPT !.lazy = TRUE]

Definition(t, factory, needs, declares) ==
    [token |-> t, factory |-> factory, scope |-> "singleton",
     needs |-> needs, declares |-> declares, target |-> None,
     hooks |-> FALSE]

Value(t) == Definition(t, "sync", <<>>, <<>>)
Factory(t, needs) == Definition(t, "sync", needs, None)
AsyncFactory(t, needs) == Definition(t, "async", needs, None)
Alias(t, target) ==
    [Definition(t, "sync", <<>>, <<Dependency(target)>>)
        EXCEPT !.target = target]

WithScope(d, scope) == [d EXCEPT !.scope = scope]
WithDependencies(d) == [d EXCEPT !.declares = d.needs]
WithHooks(d) == [d EXCEPT !.hooks = TRUE]

Injectable(t, needs) == WithDependencies(Factory(t, needs))
Transient(t, needs) == WithScope(Injectable(t, needs), "transient")
RequestScoped(t, needs) == WithScope(Injectable(t, needs), "request")
===============================================================================
