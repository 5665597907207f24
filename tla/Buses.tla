--------------------------------- MODULE Buses ---------------------------------
(***************************************************************************)
(* Registries of handlers behind a lock, and who calls them: EventEmitter  *)
(* (src/events.rs), CommandBus, QueryBus and EventBus (src/cqrs/), and     *)
(* HealthCheckService (src/health.rs).  A call looks at the registry once  *)
(* and runs what it found one after the other, while handlers, modules     *)
(* that initialize and other threads register more or clear it.            *)
(***************************************************************************)
EXTENDS Naturals, Subsequences

CONSTANTS
    Callers,
    Topics,             \* event names or types; names of indicators
    Wildcard,           \* the pattern "*"
    Definitions,        \* topics the module's handlers are declared for
    MaxRegistrations    \* bound

VARIABLES
    bus,        \* "emitter", "commands", "queries", "events" or "health"
    handlers,   \* sequence of [id, of]
    next_id,    \* history: registrations so far, which number them
    uninitialized,  \* definitions on_module_init has yet to register
    module,     \* "declared", "initializing", "ready" or "failed"
    caller      \* [at, of, left, called, down, looked]: at is
                \* "idle", "looking", "calling", "returned" or "failed";
                \* looked is history

vars == <<bus, handlers, next_id, uninitialized, module, caller>>

Idle == [at |-> "idle", of |-> Wildcard, left |-> <<>>, called |-> <<>>,
         down |-> FALSE, looked |-> <<>>]

Init ==
    /\ bus \in {"emitter", "commands", "queries", "events", "health"}
    /\ handlers = <<>> /\ next_id = 1
    /\ uninitialized = Definitions /\ module = "declared"
    /\ caller = [c \in Callers |-> Idle]

-----------------------------------------------------------------------------
(* Registration.                                                           *)

Registered(of) ==
    /\ handlers' = Append(handlers, [id |-> next_id, of |-> of])
    /\ next_id' = next_id + 1

Taken(of) == \E n \in DOMAIN handlers : handlers[n].of = of

(* Who registers: whether it was accepted.  One handler per command or     *)
(* query type; any number of listeners, event handlers and indicators.     *)
OnListener(of) == bus = "emitter" /\ Registered(of)
CommandRegistered(of) == bus = "commands" /\ ~Taken(of) /\ Registered(of)
QueryRegistered(of) == bus = "queries" /\ ~Taken(of) /\ Registered(of)
EventRegistered(of) == bus = "events" /\ Registered(of)
IndicatorRegistered(of) == bus = "health" /\ Registered(of)

Accepted(of) ==
    \/ OnListener(of) \/ CommandRegistered(of) \/ QueryRegistered(of)
    \/ EventRegistered(of) \/ IndicatorRegistered(of)

Topic(of) == of \in Topics \/ (of = Wildcard /\ bus = "emitter")

Register(of) ==
    /\ next_id <= MaxRegistrations /\ Topic(of) /\ Accepted(of)
    /\ UNCHANGED <<bus, uninitialized, module, caller>>

Clear ==
    /\ handlers # <<>> /\ handlers' = <<>>
    /\ UNCHANGED <<bus, next_id, uninitialized, module, caller>>

(* on_module_init registers what the module declares, one by one; the      *)
(* first that is refused fails it, and the ones before stay.               *)
InitBegins ==
    /\ module = "declared" /\ module' = "initializing"
    /\ UNCHANGED <<bus, handlers, next_id, uninitialized, caller>>

Initializes ==
    /\ module = "initializing" /\ uninitialized # <<>>
    /\ LET of == Head(uninitialized)
       IN  IF bus \in {"commands", "queries"} /\ Taken(of)
           THEN module' = "failed" /\ UNCHANGED <<handlers, next_id, uninitialized>>
           ELSE /\ next_id <= MaxRegistrations /\ Accepted(of)
                /\ uninitialized' = Tail(uninitialized) /\ UNCHANGED module
    /\ UNCHANGED <<bus, caller>>

InitEnds ==
    /\ module = "initializing" /\ uninitialized = <<>> /\ module' = "ready"
    /\ UNCHANGED <<bus, handlers, next_id, uninitialized, caller>>

-----------------------------------------------------------------------------
(* Calls.                                                                  *)

Of(topics) == {n \in DOMAIN handlers : handlers[n].of \in topics}

MatchingListeners(of) == Only(handlers, Of({of, Wildcard}))
HandlersOf(of) == Only(handlers, Of({of}))

Goto(c, at) == caller' = [caller EXCEPT ![c].at = at]

(* emit_event publishes to the A3S event bus first, which may fail.        *)
Emit(c, of) ==
    /\ bus = "emitter" /\ caller[c].at = "idle"
    /\ \E at \in {"looking", "failed"} :
          caller' = [caller EXCEPT ![c] = [@ EXCEPT !.at = at, !.of = of]]
    /\ UNCHANGED <<bus, handlers, next_id, uninitialized, module>>

Calling(c, of, found) ==
    /\ caller' = [caller EXCEPT ![c] = [@ EXCEPT
                     !.at = "calling", !.of = of, !.left = found, !.looked = found]]
    /\ UNCHANGED <<bus, handlers, next_id, uninitialized, module>>

Looks(c) ==
    /\ caller[c].at = "looking"
    /\ Calling(c, caller[c].of, MatchingListeners(caller[c].of))

(* execute finds the one handler, or fails.                                *)
Missing(c, of) ==
    /\ Goto(c, "failed")
    /\ UNCHANGED <<bus, handlers, next_id, uninitialized, module>>

ExecuteCommand(c, of) ==
    /\ bus = "commands" /\ caller[c].at = "idle"
    /\ IF Taken(of) THEN Calling(c, of, HandlersOf(of)) ELSE Missing(c, of)

ExecuteQuery(c, of) ==
    /\ bus = "queries" /\ caller[c].at = "idle"
    /\ IF Taken(of) THEN Calling(c, of, HandlersOf(of)) ELSE Missing(c, of)

Publish(c, of) ==
    /\ bus = "events" /\ caller[c].at = "idle"
    /\ Calling(c, of, HandlersOf(of))

Check(c) ==
    /\ bus = "health" /\ caller[c].at = "idle"
    /\ Calling(c, Wildcard, handlers)

(* Variant of HandlerEnds that reads the next handler from the registry.   *)
HandlerEndsLive(c, ok) ==
    /\ caller[c].at = "calling" /\ caller[c].left # <<>>
    /\ LET called == Append(caller[c].called, Head(caller[c].left))
           now == {n \in DOMAIN handlers :
                     /\ handlers[n].id > called[Len(called)].id
                     /\ \/ bus = "health"
                        \/ handlers[n].of \in {caller[c].of, Wildcard}}
       IN  caller' = [caller EXCEPT ![c] = [@ EXCEPT
                     !.left = Only(handlers, now),
                     !.called = called, !.down = @ \/ ~ok,
                     !.at = IF ok \/ bus = "health" THEN @ ELSE "failed"]]
    /\ UNCHANGED <<bus, handlers, next_id, uninitialized, module>>

(* The next handler ends.  An error ends the call, an indicator's is a     *)
(* "down" among the others.                                                *)
HandlerEnds(c, ok) ==
    /\ caller[c].at = "calling" /\ caller[c].left # <<>>
    /\ LET me == caller[c]
       IN  caller' = [caller EXCEPT ![c] = [me EXCEPT
                     !.left = Tail(me.left),
                     !.called = Append(me.called, Head(me.left)),
                     !.down = me.down \/ ~ok,
                     !.at = IF ok \/ bus = "health" THEN me.at ELSE "failed"]]
    /\ UNCHANGED <<bus, handlers, next_id, uninitialized, module>>

Return(c) ==
    /\ caller[c].at = "calling" /\ caller[c].left = <<>> /\ Goto(c, "returned")
    /\ UNCHANGED <<bus, handlers, next_id, uninitialized, module>>

Next ==
    \/ \E of \in Topics \cup {Wildcard} : Register(of)
    \/ Clear \/ InitBegins \/ Initializes \/ InitEnds
    \/ \E c \in Callers, of \in Topics :
          \/ Emit(c, of) \/ ExecuteCommand(c, of) \/ ExecuteQuery(c, of)
          \/ Publish(c, of)
    \/ \E c \in Callers :
          Looks(c) \/ Check(c) \/ Return(c) \/ \E ok \in BOOLEAN : HandlerEnds(c, ok)

Spec == Init /\ [][Next]_vars

-----------------------------------------------------------------------------
(* A call that returns ran every handler that was registered when it       *)
(* looked, each once and in the order of registration ("Registration order *)
(* is call order", cqrs-events-and-scheduling.mdx:58), none that came      *)
(* later and none that was cleared before; a command or query ran one; and *)
(* only a health check outlives a handler that fails.                      *)
CallsWhatItFound ==
    \A c \in Callers : LET me == caller[c] IN
        me.at = "returned" =>
            /\ me.called = me.looked
            /\ \A n, k \in DOMAIN me.called : n < k => me.called[n].id < me.called[k].id
            /\ bus \in {"commands", "queries"} => Len(me.called) = 1
            /\ bus # "health" => ~me.down

=============================================================================
