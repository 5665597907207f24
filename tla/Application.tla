----------------------------- MODULE Application -----------------------------
(***************************************************************************)
(* The life of an application: src/app/builder.rs registers its modules    *)
(* and finalizes them; then a shell (BootApplicationHandle, which          *)
(* BootApplicationContext wraps and BootMicroservice repeats, or           *)
(* BootApplication::serve_with) bootstraps it, serves and shuts it down.   *)
(* Bootstrap, shutdown and finalization each run an agenda of hooks, one   *)
(* after the other, and stop at the first that fails.                      *)
(*                                                                         *)
(* For each module an agenda names the hook of the module and those of its *)
(* providers; the latter run in order of registration on the way up and in *)
(* reverse on the way down, and are one step here.                         *)
(***************************************************************************)
EXTENDS ModuleRegistry

CONSTANTS
    Microservices, \* number of connected microservices
    MaxCalls,      \* bound: calls of the shell
    MaxFaults      \* bound: hooks and servers that fail, calls dropped

ASSUME CountsAssumption ==
    Microservices \in Nat /\ MaxCalls \in Nat /\ MaxFaults \in Nat

VARIABLES
    shell,         \* "handle", or "plain" for serve_with
    pc,            \* where the shell is
    call,          \* the call under way
    kind, at,      \* the agenda being run and the position in it
    initialized,   \* the handle's flag
    done,          \* hook -> the last stage it completed
    started,       \* microservices whose serve start_all called, in order
    broken,        \* an agenda was left unfinished, and nothing undid it
    calls, faults

lifecycle == <<shell, pc, call, kind, at, initialized, done, started, broken,
               calls, faults>>
vars == <<registry, lifecycle>>

-----------------------------------------------------------------------------
Stages == <<"destroy", "before", "shutdown">>

Parts == {"providers", "module"}

(* after_init of the WebSocket gateways, which ends the bootstrap.         *)
Gateways == [module |-> None, part |-> "gateways"]

Hooks == [module : Modules, part : Parts] \cup {Gateways}

Size == Len(pending)

(* The way up: for each module its providers' hooks, then its own.         *)
Upwards(stage) ==
    [i \in 1..(2 * Size) |->
        [stage |-> stage,
         hook |-> [module |-> pending[(i + 1) \div 2],
                   part |-> IF i % 2 = 1 THEN "providers" ELSE "module"]]]

BootstrapAgenda ==
    Append(Upwards("bootstrap"), [stage |-> "bootstrap", hook |-> Gateways])

(* Variant: the modules in the order of registration.                      *)
ShutdownForwards ==
    [i \in 1..(6 * Size) |->
        LET j == (i - 1) % (2 * Size)
        IN  [stage |-> Stages[(i - 1) \div (2 * Size) + 1],
             hook |-> [module |-> pending[1 + (j \div 2)],
                       part |-> IF j % 2 = 0 THEN "module" ELSE "providers"]]]

(* The way down: three rounds over the modules in reverse, each module's   *)
(* hook before those of its providers.                                     *)
ShutdownAgenda ==
    [i \in 1..(6 * Size) |->
        LET j == (i - 1) % (2 * Size)
        IN  [stage |-> Stages[(i - 1) \div (2 * Size) + 1],
             hook |-> [module |-> pending[Size - (j \div 2)],
                       part |-> IF j % 2 = 0 THEN "module" ELSE "providers"]]]

Agenda ==
    CASE kind = "build" -> Upwards("init")
      [] kind = "bootstrap" -> BootstrapAgenda
      [] kind \in {"undo", "close"} -> ShutdownAgenda

Init ==
    /\ RegistryInit
    /\ shell \in {"handle", "plain"}
    /\ pc = "registering" /\ call = "build" /\ kind = "build" /\ at = 1
    /\ initialized = FALSE
    /\ done = [h \in Hooks |-> "none"]
    /\ started = 0
    /\ broken = FALSE
    /\ calls = 0 /\ faults = 0

-----------------------------------------------------------------------------
(* What the shell turns to.                                                *)

Runs(k) == pc' = "hooks" /\ kind' = k /\ at' = 1 /\ UNCHANGED started

Returns == pc' = "idle" /\ UNCHANGED <<kind, at, started>>

(* Call c on a bootstrapped application: init returns, start_all calls     *)
(* serve of the first microservice, the others that of the server.         *)
Serves(c) ==
    IF c = "init" \/ (c = "start" /\ Microservices = 0) THEN Returns
    ELSE /\ pc' = IF c = "start" THEN "starting" ELSE "serving"
         /\ started' = IF c = "start" THEN 1 ELSE started
         /\ UNCHANGED <<kind, at>>

-----------------------------------------------------------------------------
(* Building.                                                               *)

Registration ==
    /\ pc = "registering" /\ RegistryNext
    /\ UNCHANGED lifecycle

(* The graph is complete: plans are validated, then singletons built.      *)
Finalized ==
    /\ pc = "registering" /\ AllRegistered
    /\ Runs("build")
    /\ UNCHANGED <<registry, shell, call, initialized, done, broken, calls, faults>>

(* A cyclic import, a provider that cannot be registered, a plan that is   *)
(* refused or a singleton that cannot be built: there is no application.   *)
BuildFails ==
    /\ pc = "registering"
    /\ \/ refused # None /\ UNCHANGED faults
       \/ faults < MaxFaults /\ faults' = faults + 1
    /\ pc' = "unbuilt"
    /\ UNCHANGED <<registry, shell, call, kind, at, initialized, done, started,
                   broken, calls>>

-----------------------------------------------------------------------------
(* Calls.                                                                  *)

Called(c) ==
    /\ pc = "idle" /\ calls < MaxCalls
    /\ call' = c /\ calls' = calls + 1
    /\ UNCHANGED <<registry, shell, initialized, done, broken, faults>>

(* init(), listen_with() and start_all_microservices(), which begin with   *)
(* init(): an initialized handle is not bootstrapped again.                *)
Open(c) ==
    /\ shell = "handle"
    /\ Called(c)
    /\ IF initialized THEN Serves(c) ELSE Runs("bootstrap")

Close ==
    /\ shell = "handle"
    /\ Called("close")
    /\ IF initialized THEN Runs("close") ELSE Returns

(* serve_with consumes the application: there is one such call.            *)
ServeWith ==
    /\ shell = "plain" /\ calls = 0
    /\ Called("serve_with")
    /\ Runs("bootstrap")

-----------------------------------------------------------------------------
(* Hooks.                                                                  *)

HookRuns ==
    /\ pc = "hooks" /\ at <= Len(Agenda)
    /\ done' = [done EXCEPT ![Agenda[at].hook] = Agenda[at].stage]
    /\ at' = at + 1
    /\ UNCHANGED <<registry, shell, pc, call, kind, initialized, started, broken,
                   calls, faults>>

(* Variant: a failed bootstrap is returned, and nothing shut down.         *)
HookFailsAtOnce ==
    /\ pc = "hooks" /\ at <= Len(Agenda)
    /\ faults < MaxFaults /\ faults' = faults + 1
    /\ broken' = (broken \/ kind \in {"undo", "close"})
    /\ IF kind = "build" THEN pc' = "unbuilt" /\ UNCHANGED <<kind, at, started>> ELSE Returns
    /\ UNCHANGED <<registry, shell, call, initialized, done, calls>>

(* The first failure ends the agenda: a failed bootstrap is shut down,     *)
(* whatever was bootstrapped; a failed shutdown leaves the rest undone.    *)
HookFails ==
    /\ pc = "hooks" /\ at <= Len(Agenda)
    /\ faults < MaxFaults /\ faults' = faults + 1
    /\ \/ /\ kind = "build"
          /\ pc' = "unbuilt" /\ UNCHANGED <<kind, at, started, broken>>
       \/ kind = "bootstrap" /\ Runs("undo") /\ UNCHANGED broken
       \/ kind \in {"undo", "close"} /\ Returns /\ broken' = TRUE
    /\ UNCHANGED <<registry, shell, call, initialized, done, calls>>

(* Every module is initialized and then the application is refused: routes, *)
(* gateways or patterns that clash, or a path that cannot be prefixed.       *)
AssemblyFails ==
    /\ pc = "hooks" /\ kind = "build" /\ at > Len(Agenda)
    /\ faults < MaxFaults /\ faults' = faults + 1
    /\ pc' = "unbuilt"
    /\ UNCHANGED <<registry, shell, call, kind, at, initialized, done, started,
                   broken, calls>>

(* Variant: the flag is set before the hooks have succeeded.               *)
AgendaEndsFlagged ==
    /\ pc = "hooks" /\ at > Len(Agenda)
    /\ IF kind = "bootstrap" THEN Serves(call) ELSE Returns
    /\ initialized' = (shell = "handle" /\ kind # "close")
    /\ UNCHANGED <<registry, shell, call, done, broken, calls, faults>>

AgendaEnds ==
    /\ pc = "hooks" /\ at > Len(Agenda)
    /\ IF kind = "bootstrap" THEN Serves(call) ELSE Returns
    /\ initialized' = (shell = "handle" /\ kind = "bootstrap")
    /\ UNCHANGED <<registry, shell, call, done, broken, calls, faults>>

-----------------------------------------------------------------------------
(* Serving.                                                                *)

(* The server returns or fails, or a signal, or the failure to wait for    *)
(* one, drops its future; then the application is shut down.               *)
ServingEnds ==
    /\ pc = "serving"
    /\ Runs("close")
    /\ UNCHANGED <<registry, shell, call, initialized, done, broken, calls, faults>>

(* serve of one microservice returns: on to the next, or return.           *)
MicroserviceReturns ==
    /\ pc = "starting"
    /\ IF started < Microservices
       THEN started' = started + 1 /\ UNCHANGED <<pc, kind, at>>
       ELSE Returns
    /\ UNCHANGED <<registry, shell, call, initialized, done, broken, calls, faults>>

MicroserviceFails ==
    /\ pc = "starting" /\ faults < MaxFaults
    /\ faults' = faults + 1
    /\ Returns
    /\ UNCHANGED <<registry, shell, call, initialized, done, broken, calls>>

(* The caller drops the future of the call under way.                      *)
Dropped ==
    /\ call # "build" /\ pc \in {"hooks", "serving", "starting"}
    /\ faults < MaxFaults /\ faults' = faults + 1
    /\ broken' = (broken \/ pc = "hooks" \/ shell = "plain")
    /\ Returns
    /\ UNCHANGED <<registry, shell, call, initialized, done, calls>>

-----------------------------------------------------------------------------
(* What the shell does by itself, hooks not being stuck.                   *)
Proceeds == Registration \/ Finalized \/ BuildFails \/ HookRuns \/ AgendaEnds

Next ==
    \/ Proceeds \/ HookFails \/ AssemblyFails
    \/ \E c \in {"init", "listen", "start"} : Open(c)
    \/ Close \/ ServeWith
    \/ ServingEnds \/ MicroserviceReturns \/ MicroserviceFails \/ Dropped

Spec == Init /\ [][Next]_vars

(* Servers and microservices may serve for ever.                           *)
FairSpec == Spec /\ WF_vars(Proceeds)

-----------------------------------------------------------------------------
Local == [module : Registered, part : Parts]

Up(h) == done[h] = "bootstrap"

(* Types of the state.                                                     *)
TypeOK ==
    /\ RegistryTypeOK
    /\ shell \in {"handle", "plain"}
    /\ pc \in {"registering", "unbuilt", "idle", "hooks", "serving", "starting"}
    /\ call \in {"build", "init", "listen", "start", "close", "serve_with"}
    /\ kind \in {"build", "bootstrap", "undo", "close"}
    /\ at \in 1..(Len(Agenda) + 1)
    /\ initialized \in BOOLEAN /\ broken \in BOOLEAN
    /\ done \in [Hooks -> {"none", "init", "bootstrap"} \cup Range(Stages)]
    /\ started \in 0..Microservices
    /\ calls \in 0..MaxCalls /\ faults \in 0..MaxFaults

(* Whatever fails or is dropped, and however often the application is      *)
(* opened and closed again: a module that is bootstrapped and not yet      *)
(* destroyed finds its providers and all it imports in the same state.     *)
UpOnUp ==
    \A m \in Modules : Up([module |-> m, part |-> "module"]) =>
        \A d \in {m} \cup graph.imports[m] : Up([module |-> d, part |-> "providers"])

(* A call that left its agenda finished leaves nothing half up: an         *)
(* application that is not initialized has no bootstrapped module that     *)
(* was not destroyed, after a failed bootstrap as well as after close and  *)
(* serve_with (serve_with_runs_shutdown_when_bootstrap_fails).             *)
NothingLeftUp ==
    pc = "idle" /\ ~initialized /\ ~broken => \A h \in Local : ~Up(h)

(* A module is registered once and after what it imports, or refused if it *)
(* imports itself; it is up while its imports are; and what a failed or    *)
(* dropped bootstrap brought up is brought down again (registration.rs,    *)
(* application.rs, handle.rs).                                             *)
UpInOrder == DependenciesFirst /\ RefusedOnCycle /\ UpOnUp /\ NothingLeftUp

(* Requests and messages are served by bootstrapped modules only, gateways *)
(* initialized, unless an earlier shutdown failed half-way.                *)
ServesWhileUp ==
    pc \in {"serving", "starting"} /\ ~broken =>
        \A h \in Local \cup {Gateways} : Up(h)

(* "An HTTP shell can also attach one or more microservices to form a      *)
(* hybrid application": once start_all_microservices serves, every         *)
(* connected microservice is served, unless the call fails or is dropped.  *)
HybridServes ==
    pc = "starting" ~> (started = Microservices \/ pc # "starting")
=============================================================================
