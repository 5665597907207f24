---------------------------- MODULE ProviderCache ----------------------------
(***************************************************************************)
(* Provider instances of src/provider: the slots of ProviderCache, one for *)
(* each instance key, the process-wide graph of threads waiting for a      *)
(* build (PROVIDER_WAIT_GRAPH), and the threads that resolve providers.    *)
(* A factory resolves its own dependencies on the thread that runs it, so  *)
(* a thread carries a stack of builds under way.                           *)
(*                                                                         *)
(* A step is what happens under one lock: a slot's mutex, with the wait    *)
(* graph's mutex inside it, or the wait graph's mutex alone.               *)
(***************************************************************************)
EXTENDS Naturals, Sequences, FiniteSets

CONSTANTS
    Threads,
    Keys,          \* instance keys: of singletons, of a request, of transients
    Injected,      \* Keys -> the keys the factory resolves through its ModuleRef
    Referenced,    \* Keys -> the keys it resolves through a ProviderRef
    AsyncKeys,     \* keys whose factory is async: built by the seeder only
    Seeder,        \* the thread that builds the application
    MaxCalls,      \* bound: resolutions begun by a caller, seeds included
    MaxFaults,     \* bound: factories that fail or panic of their own accord,
                   \* and wake-ups without a notification
    None

VARIABLES
    slot,          \* Keys -> vacant, building or ready
    graph,         \* Threads -> the edge of PROVIDER_WAIT_GRAPH, or None
    stack,         \* Threads -> the factories it is running, innermost first
    pc,            \* Threads -> where it is in get_or_try_insert_with
    target,        \* Threads -> the key it is resolving, or None
    carried,       \* Threads -> keys of the resolution stack passed along
    registered,    \* Threads -> build id of its ProviderWaitRegistration, or None
    answer,        \* Threads -> how the factory of its top frame ended
    nextBuild,     \* NEXT_PROVIDER_BUILD_ID
    given,         \* history: Keys -> instances that callers received
    blamed,        \* history: keys refused as cyclic
    twice,         \* history: some thread was refused as waiting already
    calls, faults

shared == <<slot, graph, nextBuild>>
local == <<stack, pc, target, carried, registered, answer>>
history == <<given, blamed, twice>>
vars == <<slot, graph, stack, pc, target, carried, registered, answer,
          nextBuild, given, blamed, twice, calls, faults>>

ASSUME ConstantsAssumption ==
    /\ Injected \in [Keys -> SUBSET Keys]
    /\ Referenced \in [Keys -> SUBSET Keys]
    /\ \A k \in Keys : Injected[k] \cap Referenced[k] = {}
    /\ AsyncKeys \subseteq Keys
    /\ Seeder \in Threads
    /\ MaxCalls \in Nat /\ MaxFaults \in Nat
    /\ None \notin Threads \cup Keys \cup Nat \cup {"ok", "error"}

-----------------------------------------------------------------------------
Vacant == [state |-> "vacant"]
Building(t, b) == [state |-> "building", builder |-> t, build |-> b]
Ready(v) == [state |-> "ready", value |-> v]

Slot == {Vacant} \cup [state : {"building"}, builder : Threads, build : Nat]
                 \cup [state : {"ready"}, value : Nat]

Edge == [builder : Threads, build : Nat]
ASSUME EdgeAssumption == None \notin Edge

(* A factory under way.  build is None in seed_singleton_async, which      *)
(* marks no slot.  sees is the resolution stack its ModuleRef carries.     *)
Frame == [key : Keys, build : Nat \cup {None}, sees : SUBSET Keys,
          todo : SUBSET Keys, hurt : BOOLEAN]

NewFrame(k, b, seen) ==
    [key |-> k, build |-> b, sees |-> seen \cup {k},
     todo |-> Injected[k] \cup Referenced[k], hurt |-> FALSE]

Top(t) == Head(stack[t])

-----------------------------------------------------------------------------
(* The wait graph.                                                         *)

Waiting(g) == {t \in Threads : g[t] # None}

(* The walk along the edges from thread b.                                 *)
Walk(g, b) ==
    {t \in Threads : \A S \in SUBSET Threads :
        (b \in S /\ \A s \in S : g[s] # None => g[s].builder \in S) => t \in S}

(* Variant: only the builder itself is looked at.                          *)
CyclicAtOnce(g, b, t) == b = t

(* ProviderWaitRegistration::new refuses a waiter that the walk meets, and *)
(* a walk without end.                                                     *)
Cyclic(g, b, t) == t \in Walk(g, b) \/ Walk(g, b) \subseteq Waiting(g)

(* Variant: waiters keep their edges until they wake up.                   *)
WaitsKept(g, b) == g

(* clear_provider_waits.                                                   *)
WithoutWaits(g, b) ==
    [t \in Threads |-> IF g[t] # None /\ g[t].build = b THEN None ELSE g[t]]

(* Variant: notify_one.                                                    *)
NotifiedOne(k) ==
    LET sleeping == {t \in Threads : pc[t] = "waiting" /\ target[t] = k}
        first == CHOOSE t \in sleeping : TRUE
    IN  [t \in Threads |-> IF t \in sleeping /\ t = first THEN "woken" ELSE pc[t]]

(* notify_all on the slot's condition variable.                            *)
Notified(k) ==
    [t \in Threads |-> IF pc[t] = "waiting" /\ target[t] = k THEN "woken" ELSE pc[t]]

-----------------------------------------------------------------------------
Init ==
    /\ slot = [k \in Keys |-> Vacant]
    /\ graph = [t \in Threads |-> None]
    /\ stack = [t \in Threads |-> <<>>]
    /\ pc = [t \in Threads |-> "idle"]
    /\ target = [t \in Threads |-> None]
    /\ carried = [t \in Threads |-> {}]
    /\ registered = [t \in Threads |-> None]
    /\ answer = [t \in Threads |-> None]
    /\ nextBuild = 1
    /\ given = [k \in Keys |-> {}]
    /\ blamed = {} /\ twice = FALSE
    /\ calls = 0 /\ faults = 0

(* A caller resolves key k: resolve_singleton, resolve_contextual or       *)
(* resolve_transient with an empty resolution stack.                       *)
Resolve(t, k) ==
    /\ pc[t] = "idle" /\ calls < MaxCalls
    /\ calls' = calls + 1
    /\ pc' = [pc EXCEPT ![t] = "look"]
    /\ target' = [target EXCEPT ![t] = k]
    /\ UNCHANGED <<shared, history, stack, carried, registered, answer, faults>>

(* seed_singleton_async, up to the await of the factory.                   *)
SeedBegin(k) ==
    /\ pc[Seeder] = "idle" /\ calls < MaxCalls
    /\ k \in AsyncKeys
    /\ slot[k].state # "ready"
    /\ calls' = calls + 1
    /\ pc' = [pc EXCEPT ![Seeder] = "running"]
    /\ stack' = [stack EXCEPT ![Seeder] = <<NewFrame(k, None, {})>>]
    /\ UNCHANGED <<shared, history, target, carried, registered, answer, faults>>

(* The resolution thread t is busy with returns to the factory that asked, *)
(* or to the caller; s is its stack by then, p the program counters.       *)
Return(t, s, p, ok) ==
    /\ stack' = [stack EXCEPT ![t] =
           IF s = <<>> THEN s
           ELSE <<[Head(s) EXCEPT !.hurt = @ \/ ~ok]>> \o Tail(s)]
    /\ pc' = [p EXCEPT ![t] = IF s = <<>> THEN "idle" ELSE "running"]
    /\ target' = [target EXCEPT ![t] = None]
    /\ carried' = [carried EXCEPT ![t] = {}]

-----------------------------------------------------------------------------
(* get_or_try_insert_with, one turn of its loop.                           *)

FindsReady(t) ==
    /\ pc[t] = "look" /\ slot[target[t]].state = "ready"
    /\ given' = [given EXCEPT ![target[t]] = @ \cup {slot[target[t]].value}]
    /\ Return(t, stack[t], pc, TRUE)
    /\ UNCHANGED <<shared, registered, answer, blamed, twice, calls, faults>>

(* Err: the wait would close a cycle, or the thread has an edge already.   *)
Refused(t) ==
    LET cyclic == Cyclic(graph, slot[target[t]].builder, t)
    IN  /\ pc[t] = "look" /\ slot[target[t]].state = "building"
        /\ cyclic \/ graph[t] # None
        /\ blamed' = IF cyclic THEN blamed \cup {target[t]} ELSE blamed
        /\ twice' = (twice \/ ~cyclic)
        /\ Return(t, stack[t], pc, FALSE)
        /\ UNCHANGED <<shared, registered, answer, given, calls, faults>>

StartsWaiting(t) ==
    /\ pc[t] = "look" /\ slot[target[t]].state = "building"
    /\ ~Cyclic(graph, slot[target[t]].builder, t)
    /\ graph[t] = None
    /\ graph' = [graph EXCEPT ![t] = [builder |-> slot[target[t]].builder,
                                      build |-> slot[target[t]].build]]
    /\ registered' = [registered EXCEPT ![t] = slot[target[t]].build]
    /\ pc' = [pc EXCEPT ![t] = "waiting"]
    /\ UNCHANGED <<slot, nextBuild, stack, target, carried, answer, history, calls, faults>>

Marked(k, t) == [slot EXCEPT ![k] = Building(t, nextBuild)]

StartsBuilding(t) ==
    /\ pc[t] = "look" /\ slot[target[t]].state = "vacant"
    /\ slot' = Marked(target[t], t)
    /\ nextBuild' = nextBuild + 1
    /\ stack' = [stack EXCEPT ![t] =
           <<NewFrame(target[t], nextBuild, carried[t])>> \o stack[t]]
    /\ pc' = [pc EXCEPT ![t] = "running"]
    /\ target' = [target EXCEPT ![t] = None]
    /\ carried' = [carried EXCEPT ![t] = {}]
    /\ UNCHANGED <<graph, registered, answer, history, calls, faults>>

(* Condvar::wait may return without a notification.  Two threads that did  *)
(* so for ever could keep missing each other's registration.               *)
WakesSpuriously(t) ==
    /\ pc[t] = "waiting" /\ faults < MaxFaults
    /\ faults' = faults + 1
    /\ pc' = [pc EXCEPT ![t] = "woken"]
    /\ UNCHANGED <<shared, history, stack, target, carried, registered, answer, calls>>

(* drop(waiting): only the thread's own registration is removed.           *)
DropsRegistration(t) ==
    /\ pc[t] = "woken"
    /\ graph' = IF graph[t] # None /\ graph[t].build = registered[t]
                THEN [graph EXCEPT ![t] = None] ELSE graph
    /\ registered' = [registered EXCEPT ![t] = None]
    /\ pc' = [pc EXCEPT ![t] = "look"]
    /\ UNCHANGED <<slot, nextBuild, stack, target, carried, answer, history, calls, faults>>

-----------------------------------------------------------------------------
(* A factory at work.  The sync build of an async factory is an error at   *)
(* once, so it asks for nothing.                                           *)

Works(t) ==
    /\ pc[t] = "running"
    /\ Top(t).key \in AsyncKeys => Top(t).build = None

Passed(t, d) == IF d \in Referenced[Top(t).key] THEN {} ELSE Top(t).sees

(* Asks for dependency d; ensure_not_resolving may refuse it.              *)
Asks(t, d) ==
    /\ Works(t) /\ d \in Top(t).todo
    /\ IF d \in Passed(t, d)
       THEN /\ stack' = [stack EXCEPT ![t] =
                   <<[Top(t) EXCEPT !.todo = @ \ {d}, !.hurt = TRUE]>> \o Tail(stack[t])]
            /\ blamed' = blamed \cup {d}
            /\ UNCHANGED <<pc, target, carried>>
       ELSE /\ stack' = [stack EXCEPT ![t] =
                   <<[Top(t) EXCEPT !.todo = @ \ {d}]>> \o Tail(stack[t])]
            /\ pc' = [pc EXCEPT ![t] = "look"]
            /\ target' = [target EXCEPT ![t] = d]
            /\ carried' = [carried EXCEPT ![t] = Passed(t, d)]
            /\ UNCHANGED blamed
    /\ UNCHANGED <<shared, registered, answer, given, twice, calls, faults>>

Succeeds(t) ==
    /\ Works(t) /\ Top(t).todo = {}
    /\ answer' = [answer EXCEPT ![t] = "ok"]
    /\ pc' = [pc EXCEPT ![t] = "finish"]
    /\ UNCHANGED <<shared, history, stack, target, carried, registered, calls, faults>>

(* Fails because a dependency did, because it is async, or by itself.      *)
Fails(t) ==
    /\ pc[t] = "running"
    /\ \/ (Top(t).hurt \/ ~Works(t)) /\ UNCHANGED faults
       \/ faults < MaxFaults /\ faults' = faults + 1
    /\ answer' = [answer EXCEPT ![t] = "error"]
    /\ pc' = [pc EXCEPT ![t] = "finish"]
    /\ UNCHANGED <<shared, history, stack, target, carried, registered, calls>>

Panics(t) ==
    /\ Works(t) /\ faults < MaxFaults
    /\ faults' = faults + 1
    /\ pc' = [pc EXCEPT ![t] = "unwinding"]
    /\ UNCHANGED <<shared, history, stack, target, carried, registered, answer, calls>>

-----------------------------------------------------------------------------
(* finish_provider_build and insert.                                       *)

(* Variant: whatever build the slot is in.                                 *)
OwnsAny(f) == TRUE

Owns(f) == slot[f.key].state = "building" /\ slot[f.key].build = f.build

(* The slot gets its new content, the waits for build b end.               *)
Settle(k, content, b) ==
    /\ slot' = [slot EXCEPT ![k] = content]
    /\ graph' = WithoutWaits(graph, b)

FinishesOk(t) ==
    LET f == Top(t) IN
    /\ pc[t] = "finish" /\ answer[t] = "ok" /\ f.build # None
    /\ IF Owns(f)
       THEN /\ Settle(f.key, Ready(f.build), f.build)
            /\ given' = [given EXCEPT ![f.key] = @ \cup {f.build}]
            /\ Return(t, Tail(stack[t]), Notified(f.key), TRUE)
       ELSE /\ UNCHANGED <<slot, graph, given>>
            /\ Return(t, Tail(stack[t]), pc, FALSE)
    /\ answer' = [answer EXCEPT ![t] = None]
    /\ UNCHANGED <<nextBuild, registered, blamed, twice, calls, faults>>

FinishesError(t) ==
    LET f == Top(t) IN
    /\ pc[t] = "finish" /\ answer[t] = "error" /\ f.build # None
    /\ IF Owns(f)
       THEN /\ Settle(f.key, Vacant, f.build)
            /\ Return(t, Tail(stack[t]), Notified(f.key), FALSE)
       ELSE /\ UNCHANGED <<slot, graph>>
            /\ Return(t, Tail(stack[t]), pc, FALSE)
    /\ answer' = [answer EXCEPT ![t] = None]
    /\ UNCHANGED <<nextBuild, registered, history, calls, faults>>

(* seed_singleton: insert stores the instance whatever the slot holds.     *)
SeedEnds ==
    LET f == Top(Seeder)
        k == f.key
    IN  /\ pc[Seeder] = "finish" /\ f.build = None
        /\ IF answer[Seeder] = "ok"
           THEN /\ slot' = [slot EXCEPT ![k] = Ready(nextBuild)]
                /\ graph' = IF slot[k].state = "building"
                            THEN WithoutWaits(graph, slot[k].build) ELSE graph
                /\ nextBuild' = nextBuild + 1
                /\ Return(Seeder, Tail(stack[Seeder]), Notified(k), TRUE)
           ELSE /\ UNCHANGED shared
                /\ Return(Seeder, Tail(stack[Seeder]), pc, FALSE)
        /\ answer' = [answer EXCEPT ![Seeder] = None]
        /\ UNCHANGED <<registered, history, calls, faults>>

(* Variant: the build is left in its slot.                                 *)
LeavesBehind(t) ==
    /\ pc[t] = "unwinding"
    /\ stack' = [stack EXCEPT ![t] = Tail(@)]
    /\ pc' = [pc EXCEPT ![t] = IF Len(stack[t]) = 1 THEN "idle" ELSE "unwinding"]
    /\ UNCHANGED <<shared, history, target, carried, registered, answer, calls, faults>>

(* ProviderBuildReset::drop, frame by frame as the panic unwinds.          *)
Unwinds(t) ==
    LET f == Top(t)
        ended == IF Len(stack[t]) = 1 THEN "idle" ELSE "unwinding"
    IN  /\ pc[t] = "unwinding"
        /\ IF f.build # None /\ Owns(f)
           THEN /\ Settle(f.key, Vacant, f.build)
                /\ pc' = [Notified(f.key) EXCEPT ![t] = ended]
           ELSE /\ UNCHANGED <<slot, graph>>
                /\ pc' = [pc EXCEPT ![t] = ended]
        /\ stack' = [stack EXCEPT ![t] = Tail(@)]
        /\ UNCHANGED <<nextBuild, history, target, carried, registered, answer, calls, faults>>

-----------------------------------------------------------------------------
Loop(t) ==
    \/ FindsReady(t) \/ Refused(t) \/ StartsWaiting(t)
    \/ StartsBuilding(t) \/ DropsRegistration(t)

Factory(t) ==
    \/ \E d \in Keys : Asks(t, d)
    \/ Succeeds(t) \/ Fails(t) \/ Panics(t)

Finish(t) == FinishesOk(t) \/ FinishesError(t) \/ Unwinds(t)

Next ==
    \/ \E t \in Threads : \/ \E k \in Keys : Resolve(t, k)
                          \/ Loop(t) \/ Factory(t) \/ Finish(t)
                          \/ WakesSpuriously(t)
    \/ \E k \in Keys : SeedBegin(k)
    \/ SeedEnds

Spec == Init /\ [][Next]_vars

(* A thread that is not blocked runs on: the operating system schedules    *)
(* it.  Nobody is obliged to call, to wake without a notification, or to   *)
(* fail.                                                                   *)
Fairness ==
    /\ \A t \in Threads : WF_vars(Loop(t) \/ Factory(t) \/ Finish(t))
    /\ WF_vars(SeedEnds)

LiveSpec == Spec /\ Fairness

-----------------------------------------------------------------------------
PCs == {"idle", "look", "waiting", "woken", "running", "finish", "unwinding"}

Types ==
    /\ slot \in [Keys -> Slot]
    /\ graph \in [Threads -> Edge \cup {None}]
    /\ stack \in [Threads -> Seq(Frame)]
    /\ pc \in [Threads -> PCs]
    /\ target \in [Threads -> Keys \cup {None}]
    /\ carried \in [Threads -> SUBSET Keys]
    /\ registered \in [Threads -> Nat \cup {None}]
    /\ answer \in [Threads -> {"ok", "error", None}]
    /\ nextBuild \in Nat /\ calls \in Nat /\ faults \in Nat
    /\ given \in [Keys -> SUBSET Nat] /\ blamed \subseteq Keys /\ twice \in BOOLEAN

(* Which locals thread t has where.                                        *)
LocalsOK(t) ==
    /\ target[t] # None <=> pc[t] \in {"look", "waiting", "woken"}
    /\ registered[t] # None <=> pc[t] \in {"waiting", "woken"}
    /\ answer[t] # None <=> pc[t] = "finish"
    /\ pc[t] = "idle" => stack[t] = <<>>
    /\ pc[t] \in {"running", "finish", "unwinding"} => stack[t] # <<>>

(* Types of the state.                                                     *)
TypeOK == Types /\ \A t \in Threads : LocalsOK(t)

Acyclic(g) ==
    \A S \in SUBSET Waiting(g) : S # {} => \E t \in S : g[t].builder \notin S

(* No deadlock: among any waiting threads one waits for a thread outside   *)
(* them (provider wait graph, checked on registration only).               *)
NoWaitCycle == Acyclic(graph)

(* No lost wake-up: a thread asleep on a slot sleeps through a build that  *)
(* is still under way, and the wait graph says so to everybody else.       *)
AsleepOnLiveBuild ==
    \A t \in Threads : pc[t] = "waiting" =>
        /\ slot[target[t]].state = "building"
        /\ graph[t] = [builder |-> slot[target[t]].builder,
                       build |-> slot[target[t]].build]

(* A slot marked as building has a factory at work on the thread it names, *)
(* whatever failed or panicked before (ProviderBuildReset).                *)
BuildersAtWork ==
    \A k \in Keys : slot[k].state = "building" =>
        \E i \in 1..Len(stack[slot[k].builder]) :
            LET f == stack[slot[k].builder][i]
            IN  f.key = k /\ f.build = slot[k].build

(* Singletons: every caller received the instance that is in the slot.     *)
OneInstance == \A k \in Keys : \A v \in given[k] : slot[k] = Ready(v)

(* Keys that depend on themselves.                                         *)
DependsOn(k) == Injected[k] \cup Referenced[k]

OnCycle(k) ==
    \A S \in SUBSET Keys :
        (DependsOn(k) \subseteq S /\ \A s \in S : DependsOn(s) \subseteq S) => k \in S

(* A dependency is refused as cyclic only when it depends on itself: no    *)
(* interleaving of acyclic resolutions and late wake-ups is mistaken for a *)
(* cycle.                                                                  *)
OnlyRealCycles == \A k \in blamed : OnCycle(k)

(* Callers of a key have one instance between them, and are refused only   *)
(* when they must be (finish_provider_build, insert,                       *)
(* ProviderWaitRegistration::new).                                         *)
BuiltOnce == OnlyRealCycles /\ OneInstance

(* "provider resolver thread is already waiting" is never reported.        *)
NeverWaitsTwice == ~twice

(* Every resolution returns, cyclic dependencies included: concurrent      *)
(* threads never wait for one another for ever.                            *)
EveryResolutionEnds == \A t \in Threads : pc[t] # "idle" ~> pc[t] = "idle"

=============================================================================
