---------------------------- MODULE CircuitBreaker ----------------------------
(***************************************************************************)
(* CircuitBreaker of src/resilience/circuit_breaker.rs: Closed, Open after *)
(* failure_threshold failures in a row, HalfOpen once the cooldown is over.*)
(* Every operation runs under the one mutex: one step each.                *)
(*                                                                         *)
(* opened_at is modelled by what is asked of it, whether the cooldown has  *)
(* elapsed.  The counters do not reach u32::MAX: they stop at a threshold. *)
(***************************************************************************)
EXTENDS Naturals

CONSTANTS failure_threshold, success_threshold

ASSUME ThresholdsAssumption ==
    failure_threshold \in Nat /\ success_threshold \in Nat

VARIABLES
    state,
    consecutive_failures,
    consecutive_successes,
    cooled,        \* opened_at.elapsed() >= cooldown
    probe_in_flight

breaker == <<state, consecutive_failures, consecutive_successes, cooled,
             probe_in_flight>>

BreakerInit ==
    /\ state = "Closed"
    /\ consecutive_failures = 0 /\ consecutive_successes = 0
    /\ cooled = FALSE
    /\ probe_in_flight = FALSE

-----------------------------------------------------------------------------
(* maybe_half_open, the first thing admit() and state() do.                *)
HalfOpens == state = "Open" /\ cooled

(* admit() lets a call through; the call is the probe unless Closed.       *)
AdmitsClosed == state = "Closed" /\ UNCHANGED breaker

AdmitsProbe ==
    /\ HalfOpens \/ (state = "HalfOpen" /\ ~probe_in_flight)
    /\ state' = "HalfOpen"
    /\ probe_in_flight' = TRUE
    /\ consecutive_successes' = IF HalfOpens THEN 0 ELSE consecutive_successes
    /\ UNCHANGED <<consecutive_failures, cooled>>

(* CircuitTripError.                                                       *)
Trips ==
    /\ \/ state = "Open" /\ ~cooled
       \/ state = "HalfOpen" /\ probe_in_flight
    /\ UNCHANGED breaker

(* state() of a breaker whose cooldown is over.                            *)
StateRead ==
    /\ HalfOpens
    /\ state' = "HalfOpen"
    /\ probe_in_flight' = FALSE
    /\ consecutive_successes' = 0
    /\ UNCHANGED <<consecutive_failures, cooled>>

Closes ==
    /\ state' = "Closed"
    /\ consecutive_failures' = 0 /\ consecutive_successes' = 0
    /\ cooled' = FALSE

(* Variants: the probe stays in flight, and successes do not add up.       *)
OnSuccessKeepsProbe ==
    \/ /\ state = "Closed"
       /\ consecutive_failures' = 0
       /\ UNCHANGED <<state, consecutive_successes, cooled, probe_in_flight>>
    \/ /\ state = "HalfOpen"
       /\ UNCHANGED probe_in_flight
       /\ IF consecutive_successes + 1 >= success_threshold THEN Closes
          ELSE /\ consecutive_successes' = consecutive_successes + 1
               /\ UNCHANGED <<state, consecutive_failures, cooled>>
    \/ state = "Open" /\ UNCHANGED breaker

OnSuccessForgets ==
    \/ /\ state = "Closed"
       /\ consecutive_failures' = 0
       /\ UNCHANGED <<state, consecutive_successes, cooled, probe_in_flight>>
    \/ /\ state = "HalfOpen"
       /\ probe_in_flight' = FALSE
       /\ IF 1 >= success_threshold THEN Closes
          ELSE UNCHANGED <<state, consecutive_failures, consecutive_successes, cooled>>
    \/ state = "Open" /\ UNCHANGED breaker

OnSuccess ==
    \/ /\ state = "Closed"
       /\ consecutive_failures' = 0
       /\ UNCHANGED <<state, consecutive_successes, cooled, probe_in_flight>>
    \/ /\ state = "HalfOpen"
       /\ probe_in_flight' = FALSE
       /\ IF consecutive_successes + 1 >= success_threshold THEN Closes
          ELSE /\ consecutive_successes' = consecutive_successes + 1
               /\ UNCHANGED <<state, consecutive_failures, cooled>>
    \/ state = "Open" /\ UNCHANGED breaker

(* A failure reported while Open, late, starts the cooldown again.         *)
OnFailure ==
    \/ /\ state = "Closed"
       /\ consecutive_failures' = consecutive_failures + 1
       /\ UNCHANGED probe_in_flight
       /\ IF consecutive_failures + 1 >= failure_threshold
          THEN state' = "Open" /\ cooled' = FALSE /\ consecutive_successes' = 0
          ELSE UNCHANGED <<state, cooled, consecutive_successes>>
    \/ /\ state = "HalfOpen"
       /\ probe_in_flight' = FALSE
       /\ state' = "Open" /\ cooled' = FALSE
       /\ consecutive_successes' = 0
       /\ consecutive_failures' = failure_threshold
    \/ /\ state = "Open"
       /\ cooled' = FALSE
       /\ UNCHANGED <<state, consecutive_failures, consecutive_successes,
                      probe_in_flight>>

(* The clock.                                                              *)
CoolsDown ==
    /\ state = "Open" /\ ~cooled
    /\ cooled' = TRUE
    /\ UNCHANGED <<state, consecutive_failures, consecutive_successes, probe_in_flight>>

-----------------------------------------------------------------------------
(* Types of the breaker's state.                                           *)
BreakerTypeOK ==
    /\ state \in {"Closed", "Open", "HalfOpen"}
    /\ consecutive_failures \in Nat /\ consecutive_successes \in Nat
    /\ cooled \in BOOLEAN /\ probe_in_flight \in BOOLEAN
=============================================================================
