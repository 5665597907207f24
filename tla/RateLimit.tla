------------------------------ MODULE RateLimit ------------------------------
(***************************************************************************)
(* InMemoryRateLimitProvider of src/security/rate_limit.rs behind          *)
(* RateLimitGuard: fixed windows per policy and subject in one map.  A     *)
(* request reads the clock before it waits for the lock, so that another,  *)
(* with a later clock, may come before it.                                 *)
(***************************************************************************)
EXTENDS Naturals, FiniteSets

CONSTANTS
    Requests, Policies, Subjects,
    Limits,         \* [max, window]: settings the guards have
    MaxWait,        \* the longest a request waits for the lock
    MaxClock        \* bound

VARIABLES
    clock,
    policies,   \* policy -> settings, of those seen
    buckets,    \* <<policy, subject>> -> [start, count]
    request     \* [at, now, of, limit]: at is "idle", "waiting", "allowed",
                \* "limited" or "error"

vars == <<clock, policies, buckets, request>>

Init ==
    /\ clock = 0 /\ policies = <<>> /\ buckets = <<>>
    /\ request \in [Requests -> [at : {"idle"}, now : {0},
                                 of : Policies \X Subjects, limit : Limits]]

Tick ==
    /\ clock < MaxClock /\ clock' = clock + 1
    /\ \A r \in Requests :
          request[r].at = "waiting" => clock' - request[r].now <= MaxWait
    /\ UNCHANGED <<policies, buckets, request>>

(* can_activate: the subject is taken from headers, token or neither.      *)
Arrives(r) ==
    /\ request[r].at = "idle"
    /\ request' = [request EXCEPT ![r].at = "waiting", ![r].now = clock]
    /\ UNCHANGED <<clock, policies, buckets>>

(* duration_since is zero for a later instant.                             *)
Elapsed(now, start) == IF now > start THEN now - start ELSE 0

(* acquire, under the lock.                                                *)
Conflicts(r) ==
    LET p == request[r].of[1]
    IN  p \in DOMAIN policies /\ policies[p] # request[r].limit

(* Variant of Retained that forgets the windows.                           *)
RetainedForever(now, seen) == {b \in DOMAIN buckets : b[1] \in DOMAIN seen}

Retained(now, seen) ==
    {b \in DOMAIN buckets :
        Elapsed(now, buckets[b].start) < seen[b[1]].window}

Acquire(r) ==
    /\ request[r].at = "waiting"
    /\ LET me == request[r]
           p == me.of[1]
           seen == [q \in DOMAIN policies \cup {p} |-> IF q = p THEN me.limit ELSE policies[q]]
           kept == Retained(me.now, seen)
           old == IF me.of \in kept THEN buckets[me.of] ELSE [start |-> me.now, count |-> 0]
           full == old.count >= me.limit.max
           new == IF full THEN old ELSE [old EXCEPT !.count = @ + 1]
       IN  IF Conflicts(r)
           THEN /\ request' = [request EXCEPT ![r].at = "error"]
                /\ UNCHANGED <<policies, buckets>>
           ELSE /\ policies' = seen
                /\ buckets' = [b \in kept \cup {me.of} |-> IF b = me.of THEN new ELSE buckets[b]]
                /\ request' = [request EXCEPT ![r].at =
                                  IF full THEN "limited" ELSE "allowed"]
    /\ UNCHANGED clock

Next == Tick \/ \E r \in Requests : Arrives(r) \/ Acquire(r)

Spec == Init /\ [][Next]_vars

-----------------------------------------------------------------------------
(* A request is only refused if as many as the limit of its policy allows  *)
(* were let through for its subject less than a window, and the longest    *)
(* wait for the lock, before or after it, whichever order clock and lock   *)
(* were taken in, and whatever buckets of others were swept away (acquire).*)
LimitedWhenFull ==
    \A r \in Requests : LET me == request[r] IN
        me.at = "limited" =>
            Cardinality({o \in Requests :
                /\ request[o].at = "allowed" /\ request[o].of = me.of
                /\ request[o].now + me.limit.window + MaxWait > me.now
                /\ me.now + me.limit.window + MaxWait > request[o].now})
                    >= me.limit.max

=============================================================================
