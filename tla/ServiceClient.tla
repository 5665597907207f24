----------------------------- MODULE ServiceClient -----------------------------
(***************************************************************************)
(* ServiceClient::call_request of src/service_client.rs: a call takes a    *)
(* permit of the bulkhead (src/resilience/bulkhead.rs), is admitted by the *)
(* circuit breaker, and sends its request to an instance the balancer      *)
(* selects, again and again while the retry policy allows it; it reports   *)
(* each failure, and its success, to the breaker.  A call is a future: its *)
(* caller may drop it wherever it awaits.                                  *)
(*                                                                         *)
(* Instances, URLs, headers and delays are left out, and so is whether a   *)
(* failure is returned as an error or as the degrade policy's fallback:    *)
(* neither changes any state.                                              *)
(***************************************************************************)
EXTENDS CircuitBreaker, FiniteSets

CONSTANTS
    Callers,       \* the tasks that share the client
    max_concurrent,
    max_retries,
    None

ASSUME ClientAssumption ==
    /\ IsFiniteSet(Callers) /\ None \notin Callers
    /\ max_concurrent \in Nat /\ max_retries \in Nat

VARIABLES
    in_flight,     \* the bulkhead's counter
    pc,            \* where each call is
    current,       \* what try_acquire loaded
    attempt,
    healthy,       \* the service has instances, and they answer 2xx
    prober,        \* the call admitted last in HalfOpen
    lost           \* a call dropped after it was admitted

call == <<pc, current, attempt>>
vars == <<breaker, in_flight, call, healthy, prober, lost>>

-----------------------------------------------------------------------------
Init ==
    /\ BreakerInit
    /\ in_flight = 0
    /\ pc = [c \in Callers |-> "idle"]
    /\ current = [c \in Callers |-> 0]
    /\ attempt = [c \in Callers |-> 0]
    /\ healthy \in BOOLEAN
    /\ prober = None
    /\ lost = FALSE

Goes(c, to) == pc' = [pc EXCEPT ![c] = to]

At(c, from, to) == pc[c] = from /\ Goes(c, to)

(* A call that is over, or refused, drops its permit next.                 *)
Leaves(c) == Goes(c, "leaving") /\ attempt' = [attempt EXCEPT ![c] = 0]

-----------------------------------------------------------------------------
(* The bulkhead.                                                           *)

Call(c) ==
    /\ At(c, "idle", "acquiring")
    /\ UNCHANGED <<breaker, in_flight, current, attempt, healthy, prober, lost>>

(* try_acquire loads the counter; the bulkhead may be full.                *)
Load(c) ==
    /\ IF in_flight >= max_concurrent
       THEN At(c, "acquiring", "idle") /\ UNCHANGED current
       ELSE /\ At(c, "acquiring", "swapping")
            /\ current' = [current EXCEPT ![c] = in_flight]
    /\ UNCHANGED <<breaker, in_flight, attempt, healthy, prober, lost>>

(* Variant: added without a comparison.                                    *)
Adds(c) ==
    /\ At(c, "swapping", "admitting") /\ in_flight' = in_flight + 1
    /\ current' = [current EXCEPT ![c] = 0]
    /\ UNCHANGED <<breaker, attempt, healthy, prober, lost>>

(* compare_exchange, and back to the load if the counter moved.            *)
CompareExchange(c) ==
    /\ IF in_flight = current[c]
       THEN At(c, "swapping", "admitting") /\ in_flight' = current[c] + 1
       ELSE At(c, "swapping", "acquiring") /\ UNCHANGED in_flight
    /\ current' = [current EXCEPT ![c] = 0]
    /\ UNCHANGED <<breaker, attempt, healthy, prober, lost>>

DropPermit(c) ==
    /\ At(c, "leaving", "idle")
    /\ in_flight' = in_flight - 1
    /\ UNCHANGED <<breaker, current, attempt, healthy, prober, lost>>

-----------------------------------------------------------------------------
(* The call.                                                               *)

Admitted(c) ==
    /\ At(c, "admitting", "selecting")
    /\ \/ AdmitsClosed /\ UNCHANGED prober
       \/ AdmitsProbe /\ prober' = c
    /\ UNCHANGED <<in_flight, current, attempt, healthy, lost>>

Refused(c) ==
    /\ pc[c] = "admitting" /\ Leaves(c)
    /\ Trips
    /\ UNCHANGED <<in_flight, current, healthy, prober, lost>>

Selects(c) ==
    /\ At(c, "selecting", "requesting")
    /\ UNCHANGED <<breaker, in_flight, current, attempt, healthy, prober, lost>>

SelectsNone(c) ==
    /\ pc[c] = "selecting" /\ ~healthy /\ Leaves(c)
    /\ OnFailure
    /\ UNCHANGED <<in_flight, current, healthy, prober, lost>>

Succeeds(c) ==
    /\ pc[c] = "requesting" /\ healthy /\ Leaves(c)
    /\ OnSuccess
    /\ UNCHANGED <<in_flight, current, healthy, prober, lost>>

ShouldRetry(n) == n < max_retries

(* Variant: the attempt is not counted.                                    *)
RetriesAgain(c) ==
    /\ ShouldRetry(attempt[c]) /\ ~healthy /\ At(c, "requesting", "sleeping")
    /\ OnFailure
    /\ UNCHANGED <<in_flight, current, attempt, healthy, prober, lost>>

(* A transient status or an error is retried after a delay, whatever the   *)
(* breaker says by then.                                                   *)
Retries(c) ==
    /\ ShouldRetry(attempt[c]) /\ ~healthy /\ At(c, "requesting", "sleeping")
    /\ OnFailure
    /\ attempt' = [attempt EXCEPT ![c] = @ + 1]
    /\ UNCHANGED <<in_flight, current, healthy, prober, lost>>

(* Retries are exhausted, or the status is not a transient one.            *)
Fails(c) ==
    /\ pc[c] = "requesting" /\ ~healthy /\ Leaves(c)
    /\ OnFailure
    /\ UNCHANGED <<in_flight, current, healthy, prober, lost>>

Wakes(c) ==
    /\ At(c, "sleeping", "selecting")
    /\ UNCHANGED <<breaker, in_flight, current, attempt, healthy, prober, lost>>

(* The caller drops the future: the permit goes, the breaker is not told.  *)
Dropped(c) ==
    /\ pc[c] \in {"requesting", "sleeping"} /\ Leaves(c)
    /\ lost' = TRUE
    /\ UNCHANGED <<breaker, in_flight, current, healthy, prober>>

(* circuit_state().                                                        *)
CircuitState ==
    /\ StateRead
    /\ UNCHANGED <<in_flight, call, healthy, prober, lost>>

-----------------------------------------------------------------------------
(* The clock and the service.                                              *)
Cools ==
    /\ CoolsDown
    /\ UNCHANGED <<in_flight, call, healthy, prober, lost>>

HealthChanges ==
    /\ healthy' = ~healthy
    /\ UNCHANGED <<breaker, in_flight, call, prober, lost>>

Proceeds(c) ==
    \/ Load(c) \/ CompareExchange(c) \/ Admitted(c) \/ Refused(c)
    \/ Selects(c) \/ SelectsNone(c) \/ Succeeds(c) \/ Retries(c) \/ Fails(c)
    \/ Wakes(c) \/ DropPermit(c)

Next ==
    \/ \E c \in Callers : Call(c) \/ Proceeds(c) \/ Dropped(c)
    \/ CircuitState \/ Cools \/ HealthChanges

Spec == Init /\ [][Next]_vars

(* A call is polled to its end, since requests have a timeout, and clocks  *)
(* run.                                                                    *)
FairSpec == Spec /\ (\A c \in Callers : WF_vars(Proceeds(c))) /\ WF_vars(Cools)

-----------------------------------------------------------------------------
Holders == {c \in Callers : pc[c] \notin {"idle", "acquiring", "swapping"}}

UnderWay(c) == pc[c] \in {"selecting", "requesting", "sleeping"}

(* Types of the state.                                                     *)
TypeOK ==
    /\ BreakerTypeOK
    /\ in_flight \in Nat
    /\ pc \in [Callers -> {"idle", "acquiring", "swapping", "admitting",
                           "selecting", "requesting", "sleeping", "leaving"}]
    /\ current \in [Callers -> Nat]
    /\ attempt \in [Callers -> 0..max_retries]
    /\ healthy \in BOOLEAN /\ lost \in BOOLEAN
    /\ prober \in Callers \cup {None}

(* However try_acquire's loads and exchanges interleave with one another   *)
(* and with permits that are dropped, the counter is the number of permits *)
(* and never exceeds the limit.                                            *)
BulkheadBound == in_flight = Cardinality(Holders) /\ in_flight <= max_concurrent

(* A breaker refuses calls for the sake of a probe only while that probe   *)
(* is under way, whatever late results of older calls did to the breaker   *)
(* in between; unless a call was dropped.                                  *)
ProbeReports ==
    state = "HalfOpen" /\ probe_in_flight /\ ~lost =>
        prober # None /\ UnderWay(prober)

(* "Rejected because the circuit is open (or half-open probe already in    *)
(* flight)": the same without the exception.                               *)
ProbeInFlight ==
    state = "HalfOpen" /\ probe_in_flight => \E c \in Callers : UnderWay(c)

(* A call that got its permit returns.                                     *)
CallEnds(c) == c \in Holders ~> c \notin Holders

(* Once the service is well for good, callers that go on calling close the *)
(* breaker for good, if none of them drops a call.                         *)
Heals ==
    (\A c \in Callers : WF_vars(Call(c))) /\ <>[]healthy /\ []~lost
        => <>[](state = "Closed")
=============================================================================
