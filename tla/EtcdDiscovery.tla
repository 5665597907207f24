----------------------------- MODULE EtcdDiscovery ----------------------------
(***************************************************************************)
(* EtcdServiceDiscovery of src/service_discovery/etcd.rs: the instances of *)
(* a service under one prefix of etcd, the local cache that instances()    *)
(* reads, the snapshot and the watch that fill it, and registrations with  *)
(* their leases.  Requests to etcd and writes of the cache are steps of    *)
(* their own; the mutex around the client is held for one step.            *)
(*                                                                         *)
(* etcd itself is outside this repository: a store, and a stream of what   *)
(* changed since the watch was opened.                                     *)
(***************************************************************************)
EXTENDS Naturals, Sequences, FiniteSets

CONSTANTS
    Ids,           \* instance ids
    Values,        \* what an instance says of itself: address, health, ...
    Healthy,       \* the values with healthy = true
    Loops,         \* watch loops that may be spawned
    MaxChanges,    \* bound: changes of the store
    MaxCalls,      \* bound: calls of bootstrap, refresh and shutdown
    MaxFaults,     \* bound: failed requests and broken streams
    None

VARIABLES
    stored,        \* the keys under the prefix: Ids -> value or None
    cache,         \* Ids -> value or None
    loop,          \* Loops -> a watch loop
    started,       \* watch_started
    kept,          \* the loop watch_cancel and watch_join belong to, or None
    boot,          \* bootstrap or refresh under way
    stop,          \* shutdown under way
    reg,           \* Ids -> the registration made through this object
    removing,      \* ids that deregister deleted and has yet to uncache
    changes, calls, faults,
    watched,       \* history: bootstrap returned Ok, nothing undid it since
    raced          \* history: ids whose cache entry two steps raced for,
                   \* or whose entry went while the key stayed

vars == <<stored, cache, loop, started, kept, boot, stop, reg, removing,
          changes, calls, faults, watched, raced>>
watch == <<loop, started, kept>>
callers == <<boot, stop>>
local == <<reg, removing>>
bounds == <<changes, calls, faults>>
history == <<watched, raced>>

-----------------------------------------------------------------------------
Idle == [at |-> "idle"]
NoLoop == [at |-> "none"]
NewLoop == [at |-> "open", events |-> <<>>, cancelled |-> FALSE]

Nothing == [i \in Ids |-> None]

Init ==
    /\ stored = Nothing /\ cache = Nothing
    /\ loop = [l \in Loops |-> NoLoop]
    /\ started = FALSE /\ kept = None
    /\ boot = Idle /\ stop = Idle
    /\ reg = [i \in Ids |-> "none"] /\ removing = {}
    /\ changes = 0 /\ calls = 0 /\ faults = 0
    /\ watched = FALSE /\ raced = {}

Running == {l \in Loops : loop[l].at \notin {"none", "over"}}
Open == {l \in Loops : loop[l].at = "open"}
Reading == {l \in Loops : loop[l].at = "replace"}

(* Steps that have read or changed the store and have yet to write the     *)
(* cache: a snapshot for every id, a registration for its own.             *)
Pending(i) ==
    \/ boot.at = "got" \/ Reading # {}
    \/ reg[i] \in {"put", "left", "deleted"} \/ i \in removing

(* The store changes; every open watch will be told.                       *)
Store(i, v) ==
    /\ changes < MaxChanges
    /\ changes' = changes + 1
    /\ stored' = [stored EXCEPT ![i] = v]
    /\ loop' = [l \in Loops |-> IF l \in Open
                   THEN [loop[l] EXCEPT !.events =
                            Append(@, [id |-> i, value |-> v])]
                   ELSE loop[l]]
    /\ raced' = IF Pending(i) THEN raced \cup {i} ELSE raced

Cached(i, v) == cache' = [cache EXCEPT ![i] = v]

Counted == calls < MaxCalls /\ calls' = calls + 1
Fault == faults < MaxFaults /\ faults' = faults + 1

(* Other hosts register, change and remove instances; an id is used by one *)
(* host at a time.                                                         *)
OtherHost(i, v) ==
    /\ reg[i] \in {"none", "deleted"} /\ stored[i] # v
    /\ Store(i, v)
    /\ UNCHANGED <<cache, started, kept, callers, local, calls, faults,
                   watched>>

-----------------------------------------------------------------------------
(* refresh, and bootstrap, which goes on to start_watch.                   *)

Get(then) ==
    /\ boot = Idle /\ Counted
    /\ boot' = [at |-> "got", snapshot |-> stored, then |-> then]
    /\ UNCHANGED <<stored, cache, watch, stop, local, changes, faults, history>>

Replace ==
    /\ boot.at = "got"
    /\ cache' = boot.snapshot
    /\ boot' = IF boot.then = "watch" THEN [at |-> "replaced"] ELSE Idle
    /\ UNCHANGED <<stored, watch, stop, local, bounds, history>>

(* The compare_exchange of watch_started; if it fails, bootstrap is done.  *)
StartWatch ==
    /\ boot.at = "replaced"
    /\ IF started THEN boot' = Idle /\ watched' = TRUE /\ UNCHANGED started
       ELSE started' = TRUE /\ boot' = [at |-> "opening"] /\ UNCHANGED watched
    /\ UNCHANGED <<stored, cache, loop, kept, stop, local, bounds, raced>>

(* What changed since the snapshot is not in the stream.                   *)
WatchOpens ==
    /\ boot.at = "opening"
    /\ \E l \in Loops :
          /\ loop[l] = NoLoop
          /\ loop' = [loop EXCEPT ![l] = NewLoop]
          /\ boot' = [at |-> "spawned", loop |-> l]
    /\ raced' = raced \cup {i \in Ids : cache[i] # stored[i]}
    /\ UNCHANGED <<stored, cache, started, kept, stop, local, bounds, watched>>

(* The error is returned and watch_started stays.                          *)
WatchFails ==
    /\ boot.at = "opening" /\ Fault
    /\ boot' = Idle
    /\ UNCHANGED <<stored, cache, watch, stop, local, changes, calls, history>>

(* The sender of a loop that is replaced is dropped, which cancels it.     *)
Cancelled(l) ==
    [loop EXCEPT ![l] = IF @.at = "open" THEN [@ EXCEPT !.cancelled = TRUE]
                        ELSE @]

KeepHandles ==
    /\ boot.at = "spawned"
    /\ kept' = boot.loop
    /\ loop' = IF kept = None THEN loop ELSE Cancelled(kept)
    /\ boot' = Idle
    /\ watched' = TRUE
    /\ UNCHANGED <<stored, cache, started, stop, local, bounds, raced>>

-----------------------------------------------------------------------------
(* The watch loop.                                                         *)

(* Variant: events are applied from the newest.                            *)
ApplyNewest(l) ==
    LET events == loop[l].events
        event == events[Len(events)]
    IN  /\ loop[l].at = "open" /\ events # <<>>
        /\ loop' = [loop EXCEPT ![l].events = SubSeq(@, 1, Len(@) - 1)]
        /\ Cached(event.id, event.value)
        /\ raced' = IF Pending(event.id) \/ Running # {l}
                    THEN raced \cup {event.id} ELSE raced
        /\ UNCHANGED <<stored, started, kept, callers, local, bounds, watched>>

Apply(l) ==
    /\ loop[l].at = "open" /\ loop[l].events # <<>>
    /\ LET event == Head(loop[l].events)
       IN  /\ Cached(event.id, event.value)
           /\ raced' = IF Pending(event.id) \/ Running # {l}
                       THEN raced \cup {event.id} ELSE raced
    /\ loop' = [loop EXCEPT ![l].events = Tail(@)]
    /\ UNCHANGED <<stored, started, kept, callers, local, bounds, watched>>

LoopCancelled(l) ==
    /\ loop[l].at = "open" /\ loop[l].cancelled
    /\ loop' = [loop EXCEPT ![l] = [at |-> "last"]]
    /\ UNCHANGED <<stored, cache, started, kept, callers, local, bounds,
                   history>>

(* The stream ends or fails, and its last events with it: one refresh,     *)
(* which may fail as well, ...                                             *)
LoopBreaks(l) ==
    /\ loop[l].at = "open" /\ Fault
    /\ \/ loop' = [loop EXCEPT ![l] = [at |-> "replace", snapshot |-> stored]]
       \/ loop' = [loop EXCEPT ![l] = [at |-> "last"]]
    /\ watched' = FALSE
    /\ UNCHANGED <<stored, cache, started, kept, callers, local, changes, calls,
                   raced>>

LoopReplaces(l) ==
    /\ loop[l].at = "replace"
    /\ cache' = loop[l].snapshot
    /\ loop' = [loop EXCEPT ![l] = [at |-> "last"]]
    /\ UNCHANGED <<stored, started, kept, callers, local, bounds, history>>

(* ... then the flag is taken back, whoever set it meanwhile.              *)
LoopEnds(l) ==
    /\ loop[l].at = "last"
    /\ loop' = [loop EXCEPT ![l] = [at |-> "over"]]
    /\ started' = FALSE
    /\ UNCHANGED <<stored, cache, kept, callers, local, bounds, history>>

-----------------------------------------------------------------------------
(* shutdown.                                                               *)

Shutdown ==
    /\ stop = Idle /\ Counted
    /\ watched' = FALSE
    /\ kept' = None
    /\ loop' = IF kept = None THEN loop ELSE Cancelled(kept)
    /\ stop' = [at |-> "join", loop |-> kept]
    /\ UNCHANGED <<stored, cache, started, boot, local, changes, faults, raced>>

ShutdownReturns ==
    /\ stop.at = "join"
    /\ stop.loop # None => loop[stop.loop].at = "over"
    /\ started' = FALSE
    /\ stop' = Idle
    /\ UNCHANGED <<stored, cache, loop, kept, boot, local, bounds, history>>

-----------------------------------------------------------------------------
(* register: the key under a lease, then the cache and the keep-alive.     *)

Register(i, v) ==
    /\ reg[i] = "none"
    /\ Store(i, v)
    /\ \/ reg' = [reg EXCEPT ![i] = "put"] /\ UNCHANGED faults
       \/ Fault /\ reg' = [reg EXCEPT ![i] = "orphan"]   \* no keep-alive
    /\ UNCHANGED <<cache, started, kept, callers, removing, calls, watched>>

Registered(i, v) ==
    /\ reg[i] = "put" /\ stored[i] \in {v, None}
    /\ Cached(i, v)
    /\ reg' = [reg EXCEPT ![i] = "alive"]
    /\ UNCHANGED <<stored, watch, callers, removing, bounds, history>>

(* cancel(), or the keep-alive fails: the task deletes the key and revokes *)
(* the lease; if both fail, which it does not look at, the key is left ... *)
Deleted(i) ==
    /\ reg[i] = "alive"
    /\ \/ /\ Store(i, None)
          /\ reg' = [reg EXCEPT ![i] = "deleted"]
          /\ UNCHANGED faults
       \/ /\ Fault
          /\ reg' = [reg EXCEPT ![i] = "left"]
          /\ UNCHANGED <<stored, loop, changes, raced>>
    /\ UNCHANGED <<cache, started, kept, callers, removing, calls, watched>>

(* ... and then, in any case, it removes the cache entry.  A key that was  *)
(* left is there until its lease runs out.                                 *)
Uncached(i) ==
    /\ reg[i] \in {"deleted", "left"}
    /\ Cached(i, None)
    /\ \/ /\ reg[i] = "deleted"
          /\ reg' = [reg EXCEPT ![i] = "none"]
          /\ UNCHANGED raced
       \/ /\ reg[i] = "left"
          /\ reg' = [reg EXCEPT ![i] = "orphan"]
          /\ raced' = raced \cup {i}
    /\ UNCHANGED <<stored, watch, callers, removing, bounds, watched>>

(* A dropped registration is aborted before it reacts: its lease runs out. *)
Dropped(i) ==
    /\ reg[i] = "alive"
    /\ reg' = [reg EXCEPT ![i] = "orphan"]
    /\ UNCHANGED <<stored, cache, watch, callers, removing, bounds, history>>

LeaseRunsOut(i) ==
    /\ reg[i] \in {"orphan", "left"}
    /\ Store(i, None)
    /\ reg' = [reg EXCEPT ![i] = IF @ = "left" THEN "deleted" ELSE "none"]
    /\ UNCHANGED <<cache, started, kept, callers, removing, calls, faults,
                   watched>>

(* deregister, of any instance; the task of a registration goes on.  If    *)
(* the answer of a delete is lost, the cache entry waits for the watch.    *)
Deregister(i) ==
    /\ stored[i] # None /\ i \notin removing
    /\ Store(i, None)
    /\ \/ removing' = removing \cup {i} /\ UNCHANGED faults
       \/ Fault /\ UNCHANGED removing
    /\ UNCHANGED <<cache, started, kept, callers, reg, calls, watched>>

Deregistered(i) ==
    /\ i \in removing
    /\ Cached(i, None)
    /\ removing' = removing \ {i}
    /\ UNCHANGED <<stored, watch, callers, reg, bounds, history>>

-----------------------------------------------------------------------------
LoopStep(l) ==
    \/ Apply(l) \/ LoopCancelled(l) \/ LoopBreaks(l) \/ LoopReplaces(l)
    \/ LoopEnds(l)

Next ==
    \/ \E i \in Ids : \E v \in Values \cup {None} : OtherHost(i, v)
    \/ Get("watch") \/ Get("return") \/ Replace
    \/ StartWatch \/ WatchOpens \/ WatchFails \/ KeepHandles \/ Shutdown \/ ShutdownReturns
    \/ \E l \in Loops : LoopStep(l)
    \/ \E i \in Ids : \E v \in Values :
          Register(i, v) \/ Registered(i, v)
    \/ \E i \in Ids : \/ Deleted(i) \/ Uncached(i) \/ Dropped(i)
                      \/ LeaseRunsOut(i)
                      \/ Deregister(i) \/ Deregistered(i)

Spec == Init /\ [][Next]_vars

-----------------------------------------------------------------------------
(* instances(): what the balancer chooses from.                            *)
Instances == {i \in Ids : cache[i] \in Healthy}

(* Types of the state.                                                     *)
TypeOK ==
    /\ {stored, cache} \subseteq [Ids -> Values \cup {None}]
    /\ started \in BOOLEAN /\ kept \in Loops \cup {None}
    /\ reg \in [Ids -> {"none", "put", "alive", "left", "deleted", "orphan"}]
    /\ raced \subseteq Ids

Quiet(i) == ~Pending(i) /\ \E l \in Open : loop[l].events = <<>>

(* While a watch is open and has nothing left to say, the balancer chooses *)
(* from the healthy instances that are registered, whatever snapshots,     *)
(* watch loops and registrations were under way before; except for an id   *)
(* that changed between a snapshot and the watch, for which a snapshot, a  *)
(* registration or a second loop wrote the cache after it had been read,   *)
(* or whose keep-alive task could not delete the key and yet removed the   *)
(* cache entry (its instance is stored and unseen while its lease lasts).  *)
CacheFollows ==
    \A i \in Ids \ raced : Quiet(i) =>
        (i \in Instances <=> stored[i] \in Healthy)

(* "Load the current prefix snapshot and start the watch loop": once       *)
(* bootstrap has returned Ok, a loop watches until it breaks or shutdown   *)
(* is called.                                                              *)
BootstrapWatches == watched /\ stop = Idle => Running # {}
=============================================================================
