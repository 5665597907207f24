-------------------------- MODULE ServiceClientProofs --------------------------
(***************************************************************************)
(* Proofs about ServiceClient, for any number of callers, thresholds and   *)
(* limits: types, the bulkhead's bound, and that refusals for the sake of  *)
(* a probe are for a probe under way.                                      *)
(*                                                                         *)
(* The bound is inductive once it is known that compare_exchange is only   *)
(* tried with a value below the limit; ProbeReports is by itself, given    *)
(* the types.                                                              *)
(***************************************************************************)
EXTENDS ServiceClient, FiniteSetTheorems, TLAPS

(* A value loaded by try_acquire and not exchanged yet is below the limit. *)
LoadedBelow == \A c \in Callers : pc[c] = "swapping" => current[c] < max_concurrent

IInv == TypeOK /\ LoadedBelow /\ BulkheadBound

(* The steps of the environment and of circuit_state().                    *)
Others == CircuitState \/ Cools \/ HealthChanges \/ UNCHANGED vars

-----------------------------------------------------------------------------
(* What a report does to the breaker: its state keeps its type, and a      *)
(* breaker that is HalfOpen afterwards has no probe in flight.             *)
LEMMA ReportEffect ==
    ASSUME BreakerTypeOK, OnSuccess \/ OnFailure
    PROVE  BreakerTypeOK' /\ (state' = "HalfOpen" => ~probe_in_flight')
<1>1. /\ failure_threshold \in Nat /\ success_threshold \in Nat
      /\ consecutive_failures \in Nat /\ consecutive_successes \in Nat
    BY ThresholdsAssumption DEF BreakerTypeOK
<1>2. CASE OnSuccess
    <2>1. consecutive_failures' \in Nat /\ consecutive_successes' \in Nat
        BY <1>1, <1>2 DEF OnSuccess, Closes, breaker
    <2>2. /\ state' \in {"Closed", "Open", "HalfOpen"}
          /\ cooled' \in BOOLEAN /\ probe_in_flight' \in BOOLEAN
          /\ state' = "HalfOpen" => ~probe_in_flight'
        BY <1>2, Zenon DEF OnSuccess, Closes, breaker, BreakerTypeOK
    <2> QED BY <2>1, <2>2 DEF BreakerTypeOK
<1>3. CASE OnFailure
    <2>1. consecutive_failures' \in Nat /\ consecutive_successes' \in Nat
        BY <1>1, <1>3 DEF OnFailure
    <2>2. /\ state' \in {"Closed", "Open", "HalfOpen"}
          /\ cooled' \in BOOLEAN /\ probe_in_flight' \in BOOLEAN
          /\ state' = "HalfOpen" => ~probe_in_flight'
        BY <1>3, Zenon DEF OnFailure, BreakerTypeOK
    <2> QED BY <2>1, <2>2 DEF BreakerTypeOK
<1> QED BY <1>2, <1>3

(* The other operations of the breaker keep its types.                     *)
LEMMA OtherEffect ==
    ASSUME BreakerTypeOK,
           AdmitsClosed \/ AdmitsProbe \/ Trips \/ StateRead \/ CoolsDown \/ UNCHANGED breaker
    PROVE  BreakerTypeOK'
<1>1. CASE AdmitsProbe
    BY <1>1, 0 \in Nat, Zenon DEF AdmitsProbe, BreakerTypeOK
<1>2. CASE StateRead
    BY <1>2, 0 \in Nat, Zenon DEF StateRead, BreakerTypeOK
<1>3. CASE CoolsDown
    BY <1>3, Zenon DEF CoolsDown, BreakerTypeOK
<1>4. CASE UNCHANGED breaker
    BY <1>4, Zenon DEF breaker, BreakerTypeOK
<1> QED BY <1>1, <1>2, <1>3, <1>4 DEF AdmitsClosed, Trips

(* The disjuncts of a step of one call, and of Next.                       *)
LEMMA StepCases ==
    ASSUME [Next]_vars
    PROVE  \/ \E c \in Callers : Call(c) \/ Proceeds(c) \/ Dropped(c)
           \/ Others
<1>1. CASE Next
    BY <1>1, Zenon DEF Next, Others
<1>2. CASE UNCHANGED vars
    BY <1>2 DEF Others
<1> QED BY <1>1, <1>2

-----------------------------------------------------------------------------
(* Types.  That in_flight stays a natural number is the bulkhead's part.   *)

LEMMA InitTypes == Init => TypeOK
<1> SUFFICES ASSUME Init PROVE TypeOK
    OBVIOUS
<1>1. BreakerTypeOK
    BY DEF Init, BreakerInit, BreakerTypeOK
<1>2. 0 \in 0..max_retries
    BY ClientAssumption
<1>3. in_flight \in Nat /\ current \in [Callers -> Nat] /\ attempt \in [Callers -> 0..max_retries]
    BY <1>2 DEF Init
<1>4. pc \in [Callers -> {"idle", "acquiring", "swapping", "admitting",
                         "selecting", "requesting", "sleeping", "leaving"}]
    BY DEF Init
<1> QED BY <1>1, <1>3, <1>4 DEF Init, TypeOK

LEMMA StepTypes ==
    ASSUME TypeOK, [Next]_vars, in_flight' \in Nat
    PROVE  TypeOK'
<1>1. BreakerTypeOK
    BY DEF TypeOK
<1>2. max_retries \in Nat
    BY ClientAssumption
<1>3. ASSUME NEW c \in Callers, Call(c) \/ Load(c) \/ CompareExchange(c) \/ DropPermit(c)
      PROVE  TypeOK'
    <2>1. BreakerTypeOK'
        BY <1>1, <1>3, OtherEffect DEF Call, Load, CompareExchange, DropPermit
    <2> QED BY <1>3, <2>1 DEF Call, Load, CompareExchange, DropPermit, At, Goes, TypeOK
<1>4. ASSUME NEW c \in Callers, Admitted(c) \/ Refused(c) \/ Selects(c) \/ Wakes(c) \/ Dropped(c)
      PROVE  TypeOK'
    <2>1. BreakerTypeOK'
        BY <1>1, <1>4, OtherEffect DEF Admitted, Refused, Selects, Wakes, Dropped
    <2>2. 0 \in 0..max_retries
        BY <1>2
    <2>3. attempt' \in [Callers -> 0..max_retries]
        BY <1>4, <2>2 DEF Admitted, Refused, Selects, Wakes, Dropped, Leaves, TypeOK
    <2>4. pc' \in [Callers -> {"idle", "acquiring", "swapping", "admitting",
                             "selecting", "requesting", "sleeping", "leaving"}]
        BY <1>4 DEF Admitted, Refused, Selects, Wakes, Dropped, At, Goes, Leaves, TypeOK
    <2>5. prober' \in Callers \cup {None} /\ UNCHANGED <<in_flight, current, healthy>>
        BY <1>4 DEF Admitted, Refused, Selects, Wakes, Dropped, TypeOK
    <2>6. lost' \in BOOLEAN
        BY <1>4, Zenon DEF Admitted, Refused, Selects, Wakes, Dropped, TypeOK
    <2> QED BY <2>1, <2>3, <2>4, <2>5, <2>6 DEF TypeOK
<1>5. ASSUME NEW c \in Callers, SelectsNone(c) \/ Succeeds(c) \/ Retries(c) \/ Fails(c)
      PROVE  TypeOK'
    <2>1. BreakerTypeOK'
        BY <1>1, <1>5, ReportEffect DEF SelectsNone, Succeeds, Retries, Fails
    <2>2. attempt' \in [Callers -> 0..max_retries]
        <3>1. CASE Retries(c)
            <4>1. attempt[c] + 1 \in 0..max_retries
                BY <1>2, <3>1 DEF Retries, ShouldRetry, TypeOK
            <4> QED BY <3>1, <4>1 DEF Retries, TypeOK
        <3>2. CASE SelectsNone(c) \/ Succeeds(c) \/ Fails(c)
            BY <1>2, <3>2 DEF SelectsNone, Succeeds, Fails, Leaves, TypeOK
        <3> QED BY <1>5, <3>1, <3>2
    <2>3. /\ pc' \in [Callers -> {"idle", "acquiring", "swapping", "admitting",
                                 "selecting", "requesting", "sleeping", "leaving"}]
          /\ UNCHANGED <<in_flight, current, healthy, prober, lost>>
        BY <1>5 DEF SelectsNone, Succeeds, Retries, Fails, At, Goes, Leaves, TypeOK
    <2> QED BY <2>1, <2>2, <2>3 DEF TypeOK
<1>6. ASSUME Others PROVE TypeOK'
    <2>1. BreakerTypeOK'
        BY <1>1, <1>6, OtherEffect DEF Others, CircuitState, Cools, HealthChanges, vars
    <2> QED BY <1>6, <2>1 DEF Others, CircuitState, Cools, HealthChanges, vars, call, TypeOK
<1> QED BY StepCases, <1>3, <1>4, <1>5, <1>6 DEF Proceeds

-----------------------------------------------------------------------------
(* The bulkhead.                                                           *)

LEMMA HoldersFinite == IsFiniteSet(Holders)
BY ClientAssumption, FS_Subset DEF Holders

(* Of a step that moves no call in or out of Holders, nor the counter.     *)
LEMMA BulkheadUntouched ==
    ASSUME IInv, Holders' = Holders, UNCHANGED in_flight,
           \A c \in Callers : pc'[c] = "swapping" => pc[c] = "swapping" /\ current'[c] = current[c]
    PROVE  in_flight' \in Nat /\ LoadedBelow' /\ BulkheadBound'
BY DEF IInv, TypeOK, LoadedBelow, BulkheadBound

LEMMA StepBulkhead ==
    ASSUME IInv, [Next]_vars
    PROVE  in_flight' \in Nat /\ LoadedBelow' /\ BulkheadBound'
<1>1. /\ max_concurrent \in Nat /\ in_flight \in Nat
      /\ pc \in [Callers -> {"idle", "acquiring", "swapping", "admitting",
                             "selecting", "requesting", "sleeping", "leaving"}]
      /\ current \in [Callers -> Nat]
    BY ClientAssumption DEF IInv, TypeOK
<1>2. ASSUME NEW c \in Callers, Call(c) \/ Admitted(c) \/ Selects(c) \/ Wakes(c)
      PROVE  in_flight' \in Nat /\ LoadedBelow' /\ BulkheadBound'
    <2>1. /\ Holders' = Holders /\ UNCHANGED in_flight
          /\ \A d \in Callers : pc'[d] = "swapping" => pc[d] = "swapping" /\ current'[d] = current[d]
        BY <1>1, <1>2 DEF Call, Admitted, Selects, Wakes, At, Goes, Holders
    <2> QED BY <2>1, BulkheadUntouched
<1>3. ASSUME NEW c \in Callers,
             Refused(c) \/ SelectsNone(c) \/ Succeeds(c) \/ Retries(c) \/ Fails(c) \/ Dropped(c)
      PROVE  in_flight' \in Nat /\ LoadedBelow' /\ BulkheadBound'
    <2>1. /\ Holders' = Holders /\ UNCHANGED in_flight
          /\ \A d \in Callers : pc'[d] = "swapping" => pc[d] = "swapping" /\ current'[d] = current[d]
        BY <1>1, <1>3
        DEF Refused, SelectsNone, Succeeds, Retries, Fails, Dropped, At, Goes, Leaves, Holders
    <2> QED BY <2>1, BulkheadUntouched
<1>4. ASSUME NEW c \in Callers, Load(c)
      PROVE  in_flight' \in Nat /\ LoadedBelow' /\ BulkheadBound'
    <2>1. Holders' = Holders /\ UNCHANGED in_flight
        BY <1>1, <1>4 DEF Load, At, Goes, Holders
    <2>2. LoadedBelow'
        BY <1>1, <1>4 DEF Load, At, Goes, LoadedBelow, IInv
    <2> QED BY <1>1, <2>1, <2>2 DEF IInv, BulkheadBound
<1>5. ASSUME NEW c \in Callers, CompareExchange(c)
      PROVE  in_flight' \in Nat /\ LoadedBelow' /\ BulkheadBound'
    <2>1. LoadedBelow'
        BY <1>1, <1>5 DEF CompareExchange, At, Goes, LoadedBelow, IInv
    <2>2. CASE in_flight = current[c]
        <3>1. in_flight' = in_flight + 1 /\ in_flight < max_concurrent
            BY <1>1, <1>5, <2>2 DEF CompareExchange, At, LoadedBelow, IInv
        <3>2. Holders' = Holders \cup {c} /\ c \notin Holders
            BY <1>1, <1>5, <2>2 DEF CompareExchange, At, Goes, Holders
        <3>3. Cardinality(Holders') = Cardinality(Holders) + 1
            BY <3>2, HoldersFinite, FS_AddElement
        <3> QED BY <1>1, <2>1, <3>1, <3>3 DEF IInv, BulkheadBound
    <2>3. CASE in_flight # current[c]
        <3>1. Holders' = Holders /\ UNCHANGED in_flight
            BY <1>1, <1>5, <2>3 DEF CompareExchange, At, Goes, Holders
        <3> QED BY <1>1, <2>1, <3>1 DEF IInv, BulkheadBound
    <2> QED BY <2>2, <2>3
<1>6. ASSUME NEW c \in Callers, DropPermit(c)
      PROVE  in_flight' \in Nat /\ LoadedBelow' /\ BulkheadBound'
    <2>1. LoadedBelow'
        BY <1>1, <1>6 DEF DropPermit, At, Goes, LoadedBelow, IInv
    <2>2. Holders' = Holders \ {c} /\ c \in Holders /\ in_flight' = in_flight - 1
        BY <1>1, <1>6 DEF DropPermit, At, Goes, Holders
    <2>3. Cardinality(Holders') = Cardinality(Holders) - 1 /\ Cardinality(Holders') \in Nat
        BY <2>2, HoldersFinite, FS_RemoveElement, FS_CardinalityType
    <2> QED BY <1>1, <2>1, <2>2, <2>3 DEF IInv, BulkheadBound
<1>7. ASSUME Others
      PROVE  in_flight' \in Nat /\ LoadedBelow' /\ BulkheadBound'
    <2>1. UNCHANGED <<pc, current, in_flight>>
        BY <1>7 DEF Others, CircuitState, Cools, HealthChanges, vars, call
    <2>2. Holders' = Holders
        BY <2>1 DEF Holders
    <2> QED BY <2>1, <2>2, BulkheadUntouched
<1> QED BY StepCases, <1>2, <1>3, <1>4, <1>5, <1>6, <1>7 DEF Proceeds

LEMMA InitInv == Init => IInv
<1> SUFFICES ASSUME Init PROVE IInv
    OBVIOUS
<1>1. Holders = {}
    BY DEF Init, Holders
<1>2. BulkheadBound
    BY <1>1, ClientAssumption, FS_EmptySet DEF Init, BulkheadBound
<1> QED BY <1>2, InitTypes DEF Init, IInv, LoadedBelow

LEMMA StepInv == IInv /\ [Next]_vars => IInv'
<1> SUFFICES ASSUME IInv, [Next]_vars PROVE IInv'
    OBVIOUS
<1>1. in_flight' \in Nat /\ LoadedBelow' /\ BulkheadBound'
    BY StepBulkhead
<1>2. TypeOK'
    BY <1>1, StepTypes DEF IInv
<1> QED BY <1>1, <1>2 DEF IInv

(* The inductive invariant.                                                *)
THEOREM Invariance == Spec => []IInv
BY InitInv, StepInv, PTL DEF Spec

(* TypeOK: calls, counters and breaker are always of their types.          *)
THEOREM Typing == Spec => []TypeOK
<1>1. IInv => TypeOK
    BY DEF IInv
<1> QED BY <1>1, Invariance, PTL

(* BulkheadBound: the counter of try_acquire and BulkheadPermit::drop is   *)
(* the number of permits held and never exceeds max_concurrent.            *)
THEOREM Bulkhead == Spec => []BulkheadBound
<1>1. IInv => BulkheadBound
    BY DEF IInv
<1> QED BY <1>1, Invariance, PTL

-----------------------------------------------------------------------------
(* The probe.                                                              *)

LEMMA StepProbe == TypeOK /\ ProbeReports /\ [Next]_vars => ProbeReports'
<1> SUFFICES ASSUME TypeOK, ProbeReports, [Next]_vars PROVE ProbeReports'
    OBVIOUS
<1>1. /\ BreakerTypeOK /\ prober \in Callers \cup {None} /\ None \notin Callers
      /\ pc \in [Callers -> {"idle", "acquiring", "swapping", "admitting",
                             "selecting", "requesting", "sleeping", "leaving"}]
    BY ClientAssumption DEF TypeOK
<1>2. ASSUME NEW c \in Callers,
             \/ Call(c) \/ Load(c) \/ CompareExchange(c) \/ DropPermit(c)
             \/ Selects(c) \/ Wakes(c) \/ Refused(c)
      PROVE  ProbeReports'
    <2>1. UNCHANGED <<state, probe_in_flight, prober, lost>>
        BY <1>2 DEF Call, Load, CompareExchange, DropPermit, Selects, Wakes, Refused, Trips, breaker
    <2>2. ASSUME prober # None, UnderWay(prober) PROVE UnderWay(prober)'
        BY <1>1, <1>2, <2>1, <2>2
        DEF Call, Load, CompareExchange, DropPermit, Selects, Wakes, Refused, At, Goes, Leaves, UnderWay
    <2> QED BY <2>1, <2>2 DEF ProbeReports
<1>3. ASSUME NEW c \in Callers, Admitted(c) PROVE ProbeReports'
    <2>1. UnderWay(c)' /\ UNCHANGED lost
        BY <1>1, <1>3 DEF Admitted, At, Goes, UnderWay
    <2>2. CASE AdmitsClosed
        BY <2>2 DEF AdmitsClosed, breaker, ProbeReports
    <2>3. CASE AdmitsProbe /\ prober' = c
        BY <1>1, <2>1, <2>3 DEF ProbeReports, UnderWay
    <2> QED BY <1>3, <2>2, <2>3 DEF Admitted
<1>4. ASSUME NEW c \in Callers, SelectsNone(c) \/ Succeeds(c) \/ Retries(c) \/ Fails(c)
      PROVE  ProbeReports'
    <2>1. state' = "HalfOpen" => ~probe_in_flight'
        BY <1>1, <1>4, ReportEffect DEF SelectsNone, Succeeds, Retries, Fails
    <2> QED BY <2>1 DEF ProbeReports
<1>5. ASSUME NEW c \in Callers, Dropped(c) PROVE ProbeReports'
    BY <1>5 DEF Dropped, ProbeReports
<1>6. ASSUME Others PROVE ProbeReports'
    BY <1>6 DEF Others, CircuitState, StateRead, Cools, CoolsDown, HealthChanges, vars, call, breaker,
                ProbeReports, UnderWay
<1> QED BY StepCases, <1>2, <1>3, <1>4, <1>5, <1>6 DEF Proceeds

(* ProbeReports: a breaker that refuses calls because of a probe, without  *)
(* a call having been dropped, waits for a probe that will report.         *)
THEOREM Probing == Spec => []ProbeReports
<1>1. Init => ProbeReports
    BY DEF Init, BreakerInit, ProbeReports
<1> QED BY <1>1, StepProbe, Typing, PTL DEF Spec
=============================================================================
