------------------------- MODULE ProviderCacheProofs -------------------------
(***************************************************************************)
(* ProviderCache for any threads, keys and dependency graph: the types of  *)
(* the state, that threads never wait for one another in a circle, that no *)
(* wake-up is lost, that every key has one instance, and that only real    *)
(* cycles are reported.                                                    *)
(***************************************************************************)
EXTENDS ProviderCache, TLAPS

-----------------------------------------------------------------------------
(* Types.                                                                  *)

(* Frames of new builds and of seeds.                                      *)
LEMMA NewFrameType ==
    ASSUME NEW k \in Keys, NEW b \in Nat \cup {None}, NEW seen \in SUBSET Keys
    PROVE  NewFrame(k, b, seen) \in Frame
BY ConstantsAssumption DEF NewFrame, Frame

(* Contents of slots.                                                      *)
LEMMA SlotType ==
    /\ Vacant \in Slot
    /\ \A t \in Threads, b \in Nat : Building(t, b) \in Slot
    /\ \A v \in Nat : Ready(v) \in Slot
    /\ \A x \in Slot : /\ x.state = "building" => x.builder \in Threads /\ x.build \in Nat
                       /\ x.state = "ready" => x.value \in Nat
BY DEF Vacant, Building, Ready, Slot

(* A notification moves sleeping threads only.                             *)
LEMMA NotifiedType ==
    ASSUME TypeOK, NEW k
    PROVE  /\ Notified(k) \in [Threads -> PCs]
           /\ \A u \in Threads : \/ Notified(k)[u] = pc[u]
                                 \/ pc[u] = "waiting" /\ Notified(k)[u] = "woken"
BY DEF Notified, TypeOK, Types, PCs

(* Returning from a resolution: p says where the other threads are.        *)
LEMMA ReturnType ==
    ASSUME TypeOK, NEW t \in Threads, NEW s \in Seq(Frame),
           NEW p \in [Threads -> PCs], NEW ok \in BOOLEAN,
           \A u \in Threads : \/ p[u] = pc[u]
                              \/ pc[u] = "waiting" /\ p[u] = "woken",
           Return(t, s, p, ok),
           registered' = registered, registered[t] = None,
           answer' = [answer EXCEPT ![t] = None]
    PROVE  /\ stack' \in [Threads -> Seq(Frame)]
           /\ pc' \in [Threads -> PCs]
           /\ target' \in [Threads -> Keys \cup {None}]
           /\ carried' \in [Threads -> SUBSET Keys]
           /\ answer' \in [Threads -> {"ok", "error", None}]
           /\ \A u \in Threads : LocalsOK(u)'
<1> DEFINE r == IF s = <<>> THEN s
                ELSE <<[Head(s) EXCEPT !.hurt = @ \/ ~ok]>> \o Tail(s)
<1>1. r \in Seq(Frame) /\ (r = <<>> <=> s = <<>>)
  <2>1. CASE s = <<>>
    BY <2>1
  <2>2. CASE s # <<>>
    <3>1. Head(s) \in Frame /\ Tail(s) \in Seq(Frame)
      BY <2>2
    <3>2. [Head(s) EXCEPT !.hurt = @ \/ ~ok] \in Frame
      BY <3>1 DEF Frame
    <3> DEFINE f == [Head(s) EXCEPT !.hurt = @ \/ ~ok]
    <3>3. r = <<f>> \o Tail(s)
      BY <2>2
    <3>4. f \in Frame
      BY <3>2
    <3> HIDE DEF f, r
    <3>5. <<f>> \o Tail(s) \in Seq(Frame) /\ <<f>> \o Tail(s) # <<>>
      BY <3>1, <3>4
    <3> QED
      BY <3>3, <3>5, <2>2
  <2> QED
    BY <2>1, <2>2
<1>2. stack' = [stack EXCEPT ![t] = r]
  BY DEF Return
<1> HIDE DEF r
<1>3. /\ pc' = [p EXCEPT ![t] = IF s = <<>> THEN "idle" ELSE "running"]
      /\ target' = [target EXCEPT ![t] = None]
      /\ carried' = [carried EXCEPT ![t] = {}]
  BY DEF Return
<1>4. /\ stack' \in [Threads -> Seq(Frame)]
      /\ pc' \in [Threads -> PCs]
      /\ target' \in [Threads -> Keys \cup {None}]
      /\ carried' \in [Threads -> SUBSET Keys]
      /\ answer' \in [Threads -> {"ok", "error", None}]
  BY <1>1, <1>2, <1>3 DEF TypeOK, Types, PCs
<1>5. ASSUME NEW u \in Threads PROVE LocalsOK(u)'
  <2>1. CASE u = t
    BY <2>1, <1>1, <1>2, <1>3 DEF TypeOK, Types, LocalsOK
  <2>2. CASE u # t
    <3>1. /\ stack'[u] = stack[u] /\ target'[u] = target[u] /\ pc'[u] = p[u]
          /\ registered'[u] = registered[u] /\ answer'[u] = answer[u]
      BY <2>2, <1>2, <1>3 DEF TypeOK, Types
    <3>2. LocalsOK(u)
      BY DEF TypeOK
    <3> QED
      BY <3>1, <3>2 DEF LocalsOK
  <2> QED
    BY <2>1, <2>2
<1> QED
  BY <1>4, <1>5

(* The content the slot of a key holds is of the type its state says.      *)
LEMMA TopType ==
    ASSUME TypeOK, NEW t \in Threads, pc[t] \in {"running", "finish", "unwinding"}
    PROVE  /\ stack[t] # <<>> /\ Top(t) \in Frame /\ Tail(stack[t]) \in Seq(Frame)
           /\ Len(stack[t]) \in Nat \ {0}
<1>1. stack[t] \in Seq(Frame) /\ stack[t] # <<>>
  BY DEF TypeOK, Types, LocalsOK
<1> QED
  BY <1>1 DEF Top

(* Ending the waits for a build, and replacing a slot's content.           *)
LEMMA SettleType ==
    ASSUME TypeOK, NEW k \in Keys, NEW content \in Slot, NEW b, Settle(k, content, b)
    PROVE  slot' \in [Keys -> Slot] /\ graph' \in [Threads -> Edge \cup {None}]
BY DEF Settle, WithoutWaits, TypeOK, Types

(* The first state.                                                        *)
LEMMA InitType == Init => TypeOK
<1> SUFFICES ASSUME Init PROVE TypeOK
  OBVIOUS
<1>1. Types
  <2>1. <<>> \in Seq(Frame) /\ "idle" \in PCs
    BY DEF PCs
  <2>2. stack \in [Threads -> Seq(Frame)] /\ pc \in [Threads -> PCs]
    BY <2>1 DEF Init
  <2>3. slot \in [Keys -> Slot] /\ given \in [Keys -> SUBSET Nat]
    BY SlotType DEF Init
  <2> QED
    BY <2>2, <2>3 DEF Init, Types
<1>2. \A t \in Threads : LocalsOK(t)
  BY DEF Init, LocalsOK
<1> QED
  BY <1>1, <1>2 DEF TypeOK

(* Steps of the loop of get_or_try_insert_with.                            *)
LEMMA LoopType ==
    ASSUME TypeOK, NEW t \in Threads, Loop(t) PROVE TypeOK'
<1> USE DEF TypeOK
<1>0. pc[t] = "look" => /\ target[t] \in Keys /\ registered[t] = None
                        /\ answer[t] = None /\ slot[target[t]] \in Slot
  BY ConstantsAssumption DEF Types, LocalsOK
<1>1. CASE FindsReady(t)
  <2>1. /\ Return(t, stack[t], pc, TRUE) /\ pc \in [Threads -> PCs]
        /\ stack[t] \in Seq(Frame)
        /\ registered' = registered /\ registered[t] = None
        /\ answer' = [answer EXCEPT ![t] = None]
    BY <1>0, <1>1 DEF FindsReady, Types
  <2>2. /\ stack' \in [Threads -> Seq(Frame)]
        /\ pc' \in [Threads -> PCs]
        /\ target' \in [Threads -> Keys \cup {None}]
        /\ carried' \in [Threads -> SUBSET Keys]
        /\ answer' \in [Threads -> {"ok", "error", None}]
        /\ \A u \in Threads : LocalsOK(u)'
    BY <2>1, ReturnType
  <2>3. given' \in [Keys -> SUBSET Nat]
    BY <1>0, <1>1, SlotType DEF FindsReady, Types
  <2> QED
    BY <1>1, <2>2, <2>3 DEF FindsReady, Types, shared
<1>2. CASE Refused(t)
  <2>1. /\ Return(t, stack[t], pc, FALSE) /\ pc \in [Threads -> PCs]
        /\ stack[t] \in Seq(Frame)
        /\ registered' = registered /\ registered[t] = None
        /\ answer' = [answer EXCEPT ![t] = None]
    BY <1>0, <1>2 DEF Refused, Types
  <2>2. /\ stack' \in [Threads -> Seq(Frame)]
        /\ pc' \in [Threads -> PCs]
        /\ target' \in [Threads -> Keys \cup {None}]
        /\ carried' \in [Threads -> SUBSET Keys]
        /\ answer' \in [Threads -> {"ok", "error", None}]
        /\ \A u \in Threads : LocalsOK(u)'
    BY <2>1, ReturnType
  <2>3. blamed' \subseteq Keys /\ twice' \in BOOLEAN
    BY <1>0, <1>2 DEF Refused, Types
  <2> QED
    BY <1>2, <2>2, <2>3 DEF Refused, Types, shared
<1>3. CASE StartsWaiting(t)
  <2>1. graph' \in [Threads -> Edge \cup {None}] /\ registered' \in [Threads -> Nat \cup {None}]
    BY <1>0, <1>3, SlotType DEF StartsWaiting, Types, Edge
  <2>2. registered'[t] # None /\ pc'[t] = "waiting"
    BY <1>0, <1>3, SlotType, ConstantsAssumption DEF StartsWaiting, Types
  <2>3. \A u \in Threads : LocalsOK(u)'
    BY <1>0, <1>3, <2>2, ConstantsAssumption DEF StartsWaiting, Types, LocalsOK
  <2> QED
    BY <1>3, <2>1, <2>3 DEF StartsWaiting, Types, PCs, history
<1>4. CASE StartsBuilding(t)
  <2> DEFINE f == NewFrame(target[t], nextBuild, carried[t])
  <2>1. f \in Frame
    BY <1>0, <1>4, NewFrameType DEF StartsBuilding, Types
  <2>2. stack' = [stack EXCEPT ![t] = <<f>> \o stack[t]]
    BY <1>4 DEF StartsBuilding
  <2> HIDE DEF f
  <2>3. <<f>> \o stack[t] \in Seq(Frame) /\ <<f>> \o stack[t] # <<>>
    BY <2>1 DEF Types
  <2>4. stack' \in [Threads -> Seq(Frame)] /\ stack'[t] # <<>>
    BY <2>2, <2>3 DEF Types
  <2>5. slot' \in [Keys -> Slot] /\ nextBuild' \in Nat
    BY <1>0, <1>4, SlotType DEF StartsBuilding, Marked, Types
  <2>6. \A u \in Threads : LocalsOK(u)'
    BY <1>0, <1>4, <2>2, <2>4 DEF StartsBuilding, Types, LocalsOK
  <2> QED
    BY <1>4, <2>4, <2>5, <2>6 DEF StartsBuilding, Types, PCs, history
<1>5. CASE DropsRegistration(t)
  <2>1. graph' \in [Threads -> Edge \cup {None}]
    BY <1>5 DEF DropsRegistration, Types
  <2>2. \A u \in Threads : LocalsOK(u)'
    BY <1>5 DEF DropsRegistration, Types, LocalsOK
  <2> QED
    BY <1>5, <2>1, <2>2 DEF DropsRegistration, Types, PCs, history
<1> QED
  BY <1>1, <1>2, <1>3, <1>4, <1>5 DEF Loop

(* Steps of a factory.                                                     *)
LEMMA FactoryType ==
    ASSUME TypeOK, NEW t \in Threads, Factory(t) PROVE TypeOK'
<1> USE DEF TypeOK
<1>0. pc[t] = "running"
  BY DEF Factory, Asks, Succeeds, Fails, Panics, Works
<1>t. Top(t) \in Frame /\ Tail(stack[t]) \in Seq(Frame) /\ stack[t] # <<>>
  BY <1>0, TopType
<1>1. CASE \E d \in Keys : Asks(t, d)
  <2> PICK d \in Keys : Asks(t, d)
    BY <1>1
  <2> DEFINE f == [Top(t) EXCEPT !.todo = @ \ {d}]
             h == [Top(t) EXCEPT !.todo = @ \ {d}, !.hurt = TRUE]
  <2>1. f \in Frame /\ h \in Frame
    BY <1>t DEF Frame
  <2>2. CASE d \in Passed(t, d)
    <3>1. stack' = [stack EXCEPT ![t] = <<h>> \o Tail(stack[t])]
      BY <2>2 DEF Asks
    <3> HIDE DEF h
    <3>2. <<h>> \o Tail(stack[t]) \in Seq(Frame) /\ <<h>> \o Tail(stack[t]) # <<>>
      BY <1>t, <2>1
    <3>3. stack' \in [Threads -> Seq(Frame)] /\ stack'[t] # <<>>
      BY <3>1, <3>2 DEF Types
    <3>4. \A u \in Threads : LocalsOK(u)'
      BY <1>0, <2>2, <3>1, <3>3 DEF Asks, Types, LocalsOK
    <3> QED
      BY <2>2, <3>3, <3>4 DEF Asks, Types, shared
  <2>3. CASE d \notin Passed(t, d)
    <3>1. stack' = [stack EXCEPT ![t] = <<f>> \o Tail(stack[t])]
      BY <2>3 DEF Asks
    <3> HIDE DEF f
    <3>2. <<f>> \o Tail(stack[t]) \in Seq(Frame) /\ <<f>> \o Tail(stack[t]) # <<>>
      BY <1>t, <2>1
    <3>3. stack' \in [Threads -> Seq(Frame)] /\ stack'[t] # <<>>
      BY <3>1, <3>2 DEF Types
    <3>4. Passed(t, d) \in SUBSET Keys
      BY <1>t DEF Passed, Frame
    <3>5. /\ pc' = [pc EXCEPT ![t] = "look"] /\ target' = [target EXCEPT ![t] = d]
          /\ carried' = [carried EXCEPT ![t] = Passed(t, d)]
          /\ UNCHANGED <<shared, registered, answer, blamed, given, twice, calls, faults>>
      BY <2>3 DEF Asks
    <3>6. \A u \in Threads : LocalsOK(u)'
      BY <1>0, <3>1, <3>3, <3>5, ConstantsAssumption DEF Types, LocalsOK
    <3>7. /\ pc' \in [Threads -> PCs] /\ target' \in [Threads -> Keys \cup {None}]
          /\ carried' \in [Threads -> SUBSET Keys]
      BY <3>4, <3>5 DEF Types, PCs
    <3> QED
      BY <3>3, <3>5, <3>6, <3>7 DEF Types, shared
  <2> QED
    BY <2>2, <2>3
<1>2. CASE Succeeds(t)
  <2>1. \A u \in Threads : LocalsOK(u)'
    BY <1>0, <1>2, <1>t, ConstantsAssumption DEF Succeeds, Types, LocalsOK
  <2> QED
    BY <1>2, <2>1 DEF Succeeds, Types, PCs, shared, history
<1>3. CASE Fails(t)
  <2>1. \A u \in Threads : LocalsOK(u)'
    BY <1>0, <1>3, <1>t, ConstantsAssumption DEF Fails, Types, LocalsOK
  <2>2. faults' \in Nat
    BY <1>3 DEF Fails, Types
  <2> QED
    BY <1>3, <2>1, <2>2 DEF Fails, Types, PCs, shared, history
<1>4. CASE Panics(t)
  <2>1. \A u \in Threads : LocalsOK(u)'
    BY <1>0, <1>4, <1>t DEF Panics, Types, LocalsOK
  <2> QED
    BY <1>4, <2>1 DEF Panics, Types, PCs, shared, history
<1> QED
  BY <1>1, <1>2, <1>3, <1>4 DEF Factory

(* Ends of builds.                                                         *)
LEMMA FinishType ==
    ASSUME TypeOK, NEW t \in Threads, Finish(t) PROVE TypeOK'
<1> USE DEF TypeOK
<1> DEFINE f == Top(t)
           R == Tail(stack[t])
<1>0. pc[t] \in {"finish", "unwinding"}
  BY DEF Finish, FinishesOk, FinishesError, Unwinds
<1>t. f \in Frame /\ R \in Seq(Frame) /\ stack[t] # <<>> /\ Len(stack[t]) \in Nat \ {0}
  BY <1>0, TopType
<1>r. registered[t] = None /\ f.key \in Keys
  BY <1>0, <1>t DEF LocalsOK, Frame
<1> HIDE DEF f, R
<1>1. CASE FinishesOk(t)
  <2>1. f.build \in Nat
    BY <1>1, <1>t DEF FinishesOk, Frame, f
  <2>2. PICK p, ok : /\ \/ p = Notified(f.key) /\ ok = TRUE
                        \/ p = pc /\ ok = FALSE
                     /\ Return(t, R, p, ok)
    BY <1>1 DEF FinishesOk, f, R
  <2>3. /\ p \in [Threads -> PCs] /\ ok \in BOOLEAN
        /\ \A u \in Threads : p[u] = pc[u] \/ (pc[u] = "waiting" /\ p[u] = "woken")
    <3>1. ok \in BOOLEAN /\ (p = Notified(f.key) \/ p = pc)
      BY <2>2, Zenon
    <3> QED
      BY <3>1, NotifiedType DEF Types
  <2>4. registered' = registered /\ answer' = [answer EXCEPT ![t] = None]
    BY <1>1 DEF FinishesOk
  <2>5. /\ stack' \in [Threads -> Seq(Frame)]
        /\ pc' \in [Threads -> PCs]
        /\ target' \in [Threads -> Keys \cup {None}]
        /\ carried' \in [Threads -> SUBSET Keys]
        /\ answer' \in [Threads -> {"ok", "error", None}]
        /\ \A u \in Threads : LocalsOK(u)'
    BY <2>2, <2>3, <2>4, <1>t, <1>r, ReturnType
  <2>6. /\ slot' \in [Keys -> Slot] /\ graph' \in [Threads -> Edge \cup {None}]
        /\ given' \in [Keys -> SUBSET Nat]
    <3>1. CASE Owns(f)
      <4>1. Settle(f.key, Ready(f.build), f.build) /\ Ready(f.build) \in Slot
        BY <1>1, <2>1, <3>1, SlotType DEF FinishesOk, f
      <4>2. slot' \in [Keys -> Slot] /\ graph' \in [Threads -> Edge \cup {None}]
        BY <4>1, <1>r, SettleType
      <4>3. given' = [given EXCEPT ![f.key] = @ \cup {f.build}]
        BY <1>1, <3>1 DEF FinishesOk, f
      <4>4. given' \in [Keys -> SUBSET Nat]
        BY <4>3, <2>1, <1>r DEF Types
      <4> QED
        BY <4>2, <4>4
    <3>2. CASE ~Owns(f)
      <4>1. UNCHANGED <<slot, graph, given>>
        BY <1>1, <3>2 DEF FinishesOk, f
      <4> QED
        BY <4>1 DEF Types
    <3> QED
      BY <3>1, <3>2
  <2>7. UNCHANGED <<nextBuild, registered, blamed, twice, calls, faults>>
    BY <1>1 DEF FinishesOk
  <2> QED
    BY <2>5, <2>6, <2>7 DEF Types
<1>2. CASE FinishesError(t)
  <2>1. f.build \in Nat
    BY <1>2, <1>t DEF FinishesError, Frame, f
  <2>2. PICK p : /\ p = Notified(f.key) \/ p = pc
                 /\ Return(t, R, p, FALSE)
    BY <1>2 DEF FinishesError, f, R
  <2>3. /\ p \in [Threads -> PCs]
        /\ \A u \in Threads : p[u] = pc[u] \/ (pc[u] = "waiting" /\ p[u] = "woken")
    BY <2>2, NotifiedType DEF Types
  <2>4. registered' = registered /\ answer' = [answer EXCEPT ![t] = None]
    BY <1>2 DEF FinishesError
  <2>5. /\ stack' \in [Threads -> Seq(Frame)]
        /\ pc' \in [Threads -> PCs]
        /\ target' \in [Threads -> Keys \cup {None}]
        /\ carried' \in [Threads -> SUBSET Keys]
        /\ answer' \in [Threads -> {"ok", "error", None}]
        /\ \A u \in Threads : LocalsOK(u)'
    BY <2>2, <2>3, <2>4, <1>t, <1>r, ReturnType
  <2>6. slot' \in [Keys -> Slot] /\ graph' \in [Threads -> Edge \cup {None}]
    <3>1. CASE Owns(f)
      <4>1. Settle(f.key, Vacant, f.build)
        BY <1>2, <3>1 DEF FinishesError, f
      <4> QED
        BY <4>1, <1>r, SettleType, SlotType
    <3>2. CASE ~Owns(f)
      <4>1. UNCHANGED <<slot, graph>>
        BY <1>2, <3>2 DEF FinishesError, f
      <4> QED
        BY <4>1 DEF Types
    <3> QED
      BY <3>1, <3>2
  <2>7. UNCHANGED <<nextBuild, registered, given, blamed, twice, calls, faults>>
    BY <1>2 DEF FinishesError, history
  <2> QED
    BY <2>5, <2>6, <2>7 DEF Types
<1>3. CASE Unwinds(t)
  <2>1. PICK p : /\ p = Notified(f.key) \/ p = pc
                 /\ pc' = [p EXCEPT ![t] = IF Len(stack[t]) = 1 THEN "idle" ELSE "unwinding"]
    BY <1>3 DEF Unwinds, f
  <2>2. /\ p \in [Threads -> PCs]
        /\ \A u \in Threads : p[u] = pc[u] \/ (pc[u] = "waiting" /\ p[u] = "woken")
    BY <2>1, NotifiedType DEF Types
  <2>3. stack' = [stack EXCEPT ![t] = R]
    BY <1>3 DEF Unwinds, R, Types
  <2>4. R = <<>> <=> Len(stack[t]) = 1
    <3>1. stack[t] \in Seq(Frame)
      BY DEF Types
    <3>2. Len(R) = Len(stack[t]) - 1
      BY <3>1, <1>t DEF R
    <3>3. R = <<>> <=> Len(R) = 0
      BY <1>t
    <3> QED
      BY <3>2, <3>3, <1>t
  <2>5. stack' \in [Threads -> Seq(Frame)] /\ pc' \in [Threads -> PCs]
    BY <2>1, <2>2, <2>3, <1>t DEF Types, PCs
  <2>6. UNCHANGED <<nextBuild, history, target, carried, registered, answer, calls, faults>>
    BY <1>3 DEF Unwinds
  <2>7. pc[t] = "unwinding"
    BY <1>3 DEF Unwinds
  <2>8. ASSUME NEW u \in Threads PROVE LocalsOK(u)'
    <3>1. CASE u = t
      BY <3>1, <2>1, <2>2, <2>3, <2>4, <2>6, <2>7, <1>t DEF Types, LocalsOK
    <3>2. CASE u # t
      <4>1. stack'[u] = stack[u] /\ pc'[u] = p[u]
        BY <3>2, <2>1, <2>2, <2>3 DEF Types
      <4>2. LocalsOK(u)
        OBVIOUS
      <4> QED
        BY <4>1, <4>2, <2>2, <2>6 DEF LocalsOK
    <3> QED
      BY <3>1, <3>2
  <2>9. slot' \in [Keys -> Slot] /\ graph' \in [Threads -> Edge \cup {None}]
    <3>1. CASE f.build # None /\ Owns(f)
      <4>1. Settle(f.key, Vacant, f.build)
        BY <1>3, <3>1 DEF Unwinds, f
      <4> QED
        BY <4>1, <1>r, SettleType, SlotType
    <3>2. CASE ~(f.build # None /\ Owns(f))
      <4>1. UNCHANGED <<slot, graph>>
        BY <1>3, <3>2 DEF Unwinds, f
      <4> QED
        BY <4>1 DEF Types
    <3> QED
      BY <3>1, <3>2
  <2> QED
    BY <2>5, <2>6, <2>8, <2>9 DEF Types, history
<1> QED
  BY <1>1, <1>2, <1>3 DEF Finish

(* Seeds, calls and wake-ups.                                              *)
LEMMA OtherType ==
    ASSUME TypeOK,
           \/ \E t \in Threads : (\E k \in Keys : Resolve(t, k)) \/ WakesSpuriously(t)
           \/ \E k \in Keys : SeedBegin(k)
           \/ SeedEnds
    PROVE  TypeOK'
<1> USE DEF TypeOK
<1>1. CASE \E t \in Threads : \E k \in Keys : Resolve(t, k)
  <2> PICK t \in Threads, k \in Keys : Resolve(t, k)
    BY <1>1
  <2>1. \A u \in Threads : LocalsOK(u)'
    BY ConstantsAssumption DEF Resolve, Types, LocalsOK
  <2>2. calls' \in Nat
    BY DEF Resolve, Types
  <2> QED
    BY <2>1, <2>2 DEF Resolve, Types, PCs, shared, history
<1>2. CASE \E t \in Threads : WakesSpuriously(t)
  <2> PICK t \in Threads : WakesSpuriously(t)
    BY <1>2
  <2>1. \A u \in Threads : LocalsOK(u)'
    BY DEF WakesSpuriously, Types, LocalsOK
  <2>2. faults' \in Nat
    BY DEF WakesSpuriously, Types
  <2> QED
    BY <2>1, <2>2 DEF WakesSpuriously, Types, PCs, shared, history
<1>3. CASE \E k \in Keys : SeedBegin(k)
  <2> PICK k \in Keys : SeedBegin(k)
    BY <1>3
  <2> DEFINE f == NewFrame(k, None, {})
  <2>1. f \in Frame
    BY NewFrameType
  <2>2. stack' = [stack EXCEPT ![Seeder] = <<f>>]
    BY DEF SeedBegin
  <2> HIDE DEF f
  <2>3. <<f>> \in Seq(Frame) /\ <<f>> # <<>>
    BY <2>1
  <2>4. stack' \in [Threads -> Seq(Frame)] /\ stack'[Seeder] # <<>>
    BY <2>2, <2>3, ConstantsAssumption DEF Types
  <2>5. \A u \in Threads : LocalsOK(u)'
    BY <2>2, <2>4, ConstantsAssumption DEF SeedBegin, Types, LocalsOK
  <2>6. calls' \in Nat
    BY DEF SeedBegin, Types
  <2> QED
    BY <2>4, <2>5, <2>6 DEF SeedBegin, Types, PCs, shared, history
<1>4. CASE SeedEnds
  <2> DEFINE f == Top(Seeder)
             R == Tail(stack[Seeder])
  <2>0. Seeder \in Threads /\ pc[Seeder] = "finish"
    BY <1>4, ConstantsAssumption DEF SeedEnds
  <2>1. f \in Frame /\ R \in Seq(Frame)
    BY <2>0, TopType
  <2>2. registered[Seeder] = None /\ f.key \in Keys
    BY <2>0, <2>1 DEF LocalsOK, Frame
  <2> HIDE DEF f, R
  <2>3. PICK p, ok : /\ \/ p = Notified(f.key) /\ ok = TRUE
                        \/ p = pc /\ ok = FALSE
                     /\ Return(Seeder, R, p, ok)
    BY <1>4 DEF SeedEnds, f, R
  <2>4. /\ p \in [Threads -> PCs] /\ ok \in BOOLEAN
        /\ \A u \in Threads : p[u] = pc[u] \/ (pc[u] = "waiting" /\ p[u] = "woken")
    <3>1. ok \in BOOLEAN /\ (p = Notified(f.key) \/ p = pc)
      BY <2>3, Zenon
    <3> QED
      BY <3>1, NotifiedType DEF Types
  <2>5. registered' = registered /\ answer' = [answer EXCEPT ![Seeder] = None]
    BY <1>4 DEF SeedEnds
  <2>6. /\ stack' \in [Threads -> Seq(Frame)]
        /\ pc' \in [Threads -> PCs]
        /\ target' \in [Threads -> Keys \cup {None}]
        /\ carried' \in [Threads -> SUBSET Keys]
        /\ answer' \in [Threads -> {"ok", "error", None}]
        /\ \A u \in Threads : LocalsOK(u)'
    BY <2>0, <2>1, <2>2, <2>3, <2>4, <2>5, ReturnType
  <2>7. /\ slot' \in [Keys -> Slot] /\ graph' \in [Threads -> Edge \cup {None}]
        /\ nextBuild' \in Nat
    <3>1. CASE answer[Seeder] = "ok"
      <4>1. /\ slot' = [slot EXCEPT ![f.key] = Ready(nextBuild)]
            /\ graph' = graph \/ \E b : graph' = WithoutWaits(graph, b)
            /\ nextBuild' = nextBuild + 1
        BY <1>4, <3>1 DEF SeedEnds, f
      <4>2. Ready(nextBuild) \in Slot
        BY SlotType DEF Types
      <4> QED
        BY <4>1, <4>2, <2>2 DEF Types, WithoutWaits
    <3>2. CASE answer[Seeder] # "ok"
      BY <1>4, <3>2 DEF SeedEnds, f, Types, shared
    <3> QED
      BY <3>1, <3>2
  <2>8. UNCHANGED <<registered, given, blamed, twice, calls, faults>>
    BY <1>4 DEF SeedEnds, history
  <2> QED
    BY <2>6, <2>7, <2>8 DEF Types
<1> QED
  BY <1>1, <1>2, <1>3, <1>4

(* Every step keeps the types.                                             *)
LEMMA TypeNext == TypeOK /\ [Next]_vars => TypeOK'
<1> SUFFICES ASSUME TypeOK, [Next]_vars PROVE TypeOK'
  OBVIOUS
<1>1. CASE Next
  BY <1>1, LoopType, FactoryType, FinishType, OtherType DEF Next
<1>2. CASE UNCHANGED vars
  BY <1>2 DEF vars, TypeOK, Types, LocalsOK
<1> QED
  BY <1>1, <1>2

(* The state is well formed: every thread, slot and edge always has the    *)
(* form get_or_try_insert_with relies on.                                  *)
THEOREM Typing == Spec => []TypeOK
BY InitType, TypeNext, PTL DEF Spec

-----------------------------------------------------------------------------
(* No circle of waiting threads.                                           *)

(* Removing edges closes no circle.                                        *)
LEMMA RemovingEdges ==
    ASSUME NEW g, NEW h, Acyclic(g), \A t \in Threads : h[t] = None \/ h[t] = g[t]
    PROVE  Acyclic(h)
BY DEF Acyclic, Waiting

(* The walk from b follows every edge it meets.                            *)
LEMMA WalkWithin ==
    ASSUME NEW g, NEW b \in Threads, NEW S \in SUBSET Threads, b \in S,
           \A s \in S : g[s] # None => g[s].builder \in S
    PROVE  Walk(g, b) \subseteq S
BY DEF Walk

(* An edge that ProviderWaitRegistration::new lets through closes none.    *)
LEMMA AddingEdge ==
    ASSUME NEW g \in [Threads -> Edge \cup {None}], Acyclic(g),
           NEW t \in Threads, g[t] = None, NEW e \in Edge,
           ~Cyclic(g, e.builder, t)
    PROVE  Acyclic([g EXCEPT ![t] = e])
<1> DEFINE h == [g EXCEPT ![t] = e]
<1> SUFFICES ASSUME NEW S \in SUBSET Waiting(h), S # {},
                    \A s \in S : h[s].builder \in S
             PROVE  FALSE
  BY DEF Acyclic
<1>1. e.builder \in Threads /\ S \in SUBSET Threads
  BY DEF Edge, Waiting
<1>2. \A s \in Threads : s # t => h[s] = g[s]
  OBVIOUS
<1>3. h[t] = e
  OBVIOUS
<1> HIDE DEF h
<1>4. t \in S
  <2>1. SUFFICES ASSUME t \notin S PROVE FALSE
    OBVIOUS
  <2>2. S \in SUBSET Waiting(g) /\ \A s \in S : g[s].builder \in S
    BY <1>1, <1>2, <2>1 DEF Waiting
  <2> QED
    BY <2>2 DEF Acyclic
<1>5. e.builder \in S
  BY <1>3, <1>4
<1>6. \A s \in S : g[s] # None => g[s].builder \in S
  BY <1>1, <1>2
<1>7. Walk(g, e.builder) \subseteq S
  BY <1>1, <1>5, <1>6, WalkWithin
<1>8. PICK u \in Walk(g, e.builder) : u \notin Waiting(g)
  BY DEF Cyclic
<1>9. u = t
  BY <1>1, <1>2, <1>7, <1>8 DEF Waiting
<1> QED
  BY <1>8, <1>9 DEF Cyclic

(* Only StartsWaiting adds an edge.                                        *)
LEMMA WaitNext == TypeOK /\ NoWaitCycle /\ [Next]_vars => NoWaitCycle'
<1> SUFFICES ASSUME TypeOK, NoWaitCycle, [Next]_vars PROVE NoWaitCycle'
  OBVIOUS
<1>1. ASSUME NEW t \in Threads, StartsWaiting(t) PROVE NoWaitCycle'
  <2> DEFINE e == [builder |-> slot[target[t]].builder, build |-> slot[target[t]].build]
  <2>1. target[t] \in Keys /\ slot[target[t]] \in Slot
    BY <1>1 DEF StartsWaiting, TypeOK, Types, LocalsOK
  <2>2. e \in Edge
    BY <1>1, <2>1, SlotType DEF StartsWaiting, Edge
  <2>3. graph' = [graph EXCEPT ![t] = e] /\ graph[t] = None /\ ~Cyclic(graph, e.builder, t)
    BY <1>1 DEF StartsWaiting
  <2> HIDE DEF e
  <2>4. Acyclic([graph EXCEPT ![t] = e])
    BY <2>2, <2>3, AddingEdge DEF TypeOK, Types, NoWaitCycle
  <2> QED
    BY <2>3, <2>4 DEF NoWaitCycle
<1>2. ASSUME \A t \in Threads : graph'[t] = None \/ graph'[t] = graph[t]
      PROVE  NoWaitCycle'
  BY <1>2, RemovingEdges DEF NoWaitCycle, Acyclic, Waiting
<1>3. ASSUME NEW t \in Threads, Loop(t) PROVE NoWaitCycle'
  <2>1. CASE FindsReady(t) \/ Refused(t) \/ StartsBuilding(t)
    BY <1>2, <2>1 DEF FindsReady, Refused, StartsBuilding, shared
  <2>2. CASE DropsRegistration(t)
    BY <1>2, <2>2 DEF DropsRegistration, TypeOK, Types
  <2> QED
    BY <1>1, <1>3, <2>1, <2>2 DEF Loop
<1>4. ASSUME NEW t \in Threads, Factory(t) PROVE NoWaitCycle'
  BY <1>2, <1>4 DEF Factory, Asks, Succeeds, Fails, Panics, shared
<1>5. ASSUME NEW t \in Threads, Finish(t) PROVE NoWaitCycle'
  BY <1>2, <1>5 DEF Finish, FinishesOk, FinishesError, Unwinds, Settle, WithoutWaits
<1>6. ASSUME NEW t \in Threads, NEW k \in Keys, Resolve(t, k) PROVE NoWaitCycle'
  BY <1>2, <1>6 DEF Resolve, shared
<1>7. ASSUME NEW t \in Threads, WakesSpuriously(t) PROVE NoWaitCycle'
  BY <1>2, <1>7 DEF WakesSpuriously, shared
<1>8. ASSUME NEW k \in Keys, SeedBegin(k) PROVE NoWaitCycle'
  BY <1>2, <1>8 DEF SeedBegin, shared
<1>9. ASSUME SeedEnds PROVE NoWaitCycle'
  BY <1>2, <1>9 DEF SeedEnds, WithoutWaits, shared
<1>10. ASSUME UNCHANGED vars PROVE NoWaitCycle'
  BY <1>2, <1>10 DEF vars
<1> QED
  BY <1>3, <1>4, <1>5, <1>6, <1>7, <1>8, <1>9, <1>10 DEF Next

(* Threads that resolve providers never wait in a circle, whatever the     *)
(* number of threads and the dependency graph: the check when a wait is    *)
(* registered (ProviderWaitRegistration::new) is enough.                   *)
THEOREM NoDeadlock == Spec => []NoWaitCycle
<1>1. Init => NoWaitCycle
  BY DEF Init, NoWaitCycle, Acyclic, Waiting
<1>2. TypeOK /\ NoWaitCycle /\ [Next]_vars => NoWaitCycle'
  BY WaitNext
<1> QED
  BY <1>1, <1>2, Typing, PTL DEF Spec

-----------------------------------------------------------------------------
(* No lost wake-up.  Ending a build clears the edges that carry its id, so *)
(* the ids of builds under way must differ.                                *)

IdsOK ==
    \A k \in Keys : slot[k].state = "building" =>
        /\ slot[k].build < nextBuild
        /\ \A l \in Keys \ {k} :
              slot[l].state = "building" => slot[l].build # slot[k].build

WInv == TypeOK /\ IdsOK /\ AsleepOnLiveBuild

(* What a step of thread t leaves alone.                                   *)
OthersKeep(t, p) ==
    /\ pc'[t] # "waiting"
    /\ \A u \in Threads \ {t} : pc'[u] = p[u] /\ target'[u] = target[u]

(* A step that touches neither slots nor edges.                            *)
LEMMA QuietStep ==
    ASSUME WInv, TypeOK', NEW t \in Threads, OthersKeep(t, pc),
           slot' = slot, graph' = graph, nextBuild' >= nextBuild
    PROVE  WInv'
<1>1. IdsOK'
  <2>1. \A k \in Keys : slot[k].state = "building" => slot[k].build \in Nat
    BY SlotType DEF WInv, TypeOK, Types
  <2>2. nextBuild \in Nat /\ nextBuild' \in Nat
    BY DEF WInv, TypeOK, Types
  <2> QED
    BY <2>1, <2>2 DEF WInv, IdsOK
<1>2. AsleepOnLiveBuild'
  BY DEF WInv, AsleepOnLiveBuild, OthersKeep
<1> QED
  BY <1>1, <1>2 DEF WInv

(* The end of a build, or a seed: the sleepers on that slot are notified.  *)
LEMMA SettlingStep ==
    ASSUME WInv, TypeOK', NEW t \in Threads, NEW k \in Keys, OthersKeep(t, Notified(k)),
           NEW content \in Slot, content.state # "building",
           slot' = [slot EXCEPT ![k] = content], nextBuild' >= nextBuild,
           \A u \in Threads :
              \/ graph'[u] = graph[u]
              \/ /\ slot[k].state = "building" /\ graph[u] # None
                 /\ graph[u].build = slot[k].build
    PROVE  WInv'
<1>1. IdsOK'
  <2>1. \A l \in Keys : slot[l].state = "building" => slot[l].build \in Nat
    BY SlotType DEF WInv, TypeOK, Types
  <2>2. nextBuild \in Nat /\ nextBuild' \in Nat
    BY DEF WInv, TypeOK, Types
  <2>3. slot'[k].state # "building" /\ \A l \in Keys \ {k} : slot'[l] = slot[l]
    BY DEF WInv, TypeOK, Types
  <2> QED
    BY <2>1, <2>2, <2>3 DEF WInv, IdsOK
<1>2. ASSUME NEW u \in Threads, pc'[u] = "waiting"
      PROVE  /\ slot'[target'[u]].state = "building"
             /\ graph'[u] = [builder |-> slot'[target'[u]].builder,
                             build |-> slot'[target'[u]].build]
  <2>1. u # t /\ target'[u] = target[u] /\ Notified(k)[u] = "waiting"
    BY <1>2 DEF OthersKeep
  <2>2. pc[u] = "waiting" /\ target[u] # k
    BY <2>1 DEF Notified
  <2>3. /\ slot[target[u]].state = "building"
        /\ graph[u] = [builder |-> slot[target[u]].builder,
                       build |-> slot[target[u]].build]
    BY <2>2 DEF WInv, AsleepOnLiveBuild
  <2>4. target[u] \in Keys
    BY <2>2 DEF WInv, TypeOK, Types, LocalsOK
  <2>5. slot'[target[u]] = slot[target[u]]
    BY <2>2, <2>4 DEF WInv, TypeOK, Types
  <2>6. slot[k].state = "building" => graph[u].build # slot[k].build
    BY <2>2, <2>3, <2>4 DEF WInv, IdsOK
  <2>7. graph'[u] = graph[u]
    BY <2>6
  <2> QED
    BY <2>1, <2>3, <2>5, <2>7
<1> QED
  BY <1>1, <1>2 DEF WInv, AsleepOnLiveBuild

(* After Return, thread t is not asleep and the others are as p says.      *)
LEMMA ReturnKeeps ==
    ASSUME TypeOK, NEW t \in Threads, NEW s, NEW p \in [Threads -> PCs], NEW ok,
           Return(t, s, p, ok)
    PROVE  OthersKeep(t, p)
BY DEF Return, OthersKeep, TypeOK, Types

(* A turn of the loop wakes or puts to sleep nobody but its thread.        *)
LEMMA SleepLoop ==
    ASSUME WInv, TypeOK', NEW t \in Threads, Loop(t) PROVE WInv'
<1>0. /\ pc \in [Threads -> PCs] /\ nextBuild \in Nat /\ TypeOK
      /\ pc[t] = "look" => target[t] \in Keys /\ slot[target[t]] \in Slot
  BY DEF WInv, TypeOK, Types, LocalsOK
<1>1. CASE FindsReady(t)
  <2>1. OthersKeep(t, pc)
    BY <1>0, <1>1, ReturnKeeps DEF FindsReady
  <2> QED
    BY <1>0, <1>1, <2>1, QuietStep DEF FindsReady, shared
<1>2. CASE Refused(t)
  <2>1. OthersKeep(t, pc)
    BY <1>0, <1>2, ReturnKeeps DEF Refused
  <2> QED
    BY <1>0, <1>2, <2>1, QuietStep DEF Refused, shared
<1>3. CASE StartsWaiting(t)
  <2>1. IdsOK'
    BY <1>3 DEF WInv, IdsOK, StartsWaiting
  <2>2. AsleepOnLiveBuild'
    BY <1>3 DEF WInv, AsleepOnLiveBuild, StartsWaiting, TypeOK, Types
  <2> QED
    BY <2>1, <2>2 DEF WInv
<1>4. CASE StartsBuilding(t)
  <2>1. /\ slot' = [slot EXCEPT ![target[t]] = Building(t, nextBuild)]
        /\ nextBuild' = nextBuild + 1 /\ graph' = graph
        /\ slot[target[t]].state = "vacant" /\ target[t] \in Keys
    BY <1>0, <1>4 DEF StartsBuilding, Marked
  <2>2. OthersKeep(t, pc)
    BY <1>0, <1>4 DEF StartsBuilding, OthersKeep, TypeOK, Types
  <2>3. \A l \in Keys : slot[l].state = "building" => slot[l].build \in Nat
    BY SlotType DEF WInv, TypeOK, Types
  <2>4. /\ slot'[target[t]] = Building(t, nextBuild)
        /\ \A l \in Keys \ {target[t]} : slot'[l] = slot[l]
    BY <2>1 DEF WInv, TypeOK, Types
  <2>5. IdsOK'
    BY <1>0, <2>1, <2>3, <2>4 DEF WInv, IdsOK, Building
  <2>6. AsleepOnLiveBuild'
    BY <2>1, <2>2, <2>4 DEF WInv, AsleepOnLiveBuild, OthersKeep, TypeOK, Types, LocalsOK
  <2> QED
    BY <2>5, <2>6 DEF WInv
<1>5. CASE DropsRegistration(t)
  <2>1. \A u \in Threads \ {t} : graph'[u] = graph[u] /\ pc'[u] = pc[u]
    BY <1>5 DEF DropsRegistration, WInv, TypeOK, Types
  <2>2. pc'[t] = "look" /\ slot' = slot /\ nextBuild' = nextBuild /\ target' = target
    BY <1>5 DEF DropsRegistration, WInv, TypeOK, Types
  <2> QED
    BY <2>1, <2>2 DEF WInv, IdsOK, AsleepOnLiveBuild
<1> QED
  BY <1>1, <1>2, <1>3, <1>4, <1>5 DEF Loop

(* A factory's own steps touch no slot.                                    *)
LEMMA SleepFactory ==
    ASSUME WInv, TypeOK', NEW t \in Threads, Factory(t) PROVE WInv'
<1>0. pc \in [Threads -> PCs] /\ nextBuild \in Nat
  BY DEF WInv, TypeOK, Types
<1>1. OthersKeep(t, pc)
  <2>1. target \in [Threads -> Keys \cup {None}]
    BY DEF WInv, TypeOK, Types
  <2>2. CASE \E d \in Keys : Asks(t, d)
    BY <1>0, <2>1, <2>2 DEF Asks, Works, OthersKeep
  <2>3. CASE Succeeds(t)
    BY <1>0, <2>1, <2>3 DEF Succeeds, Works, OthersKeep
  <2>4. CASE Fails(t)
    BY <1>0, <2>1, <2>4 DEF Fails, Works, OthersKeep
  <2>5. CASE Panics(t)
    BY <1>0, <2>1, <2>5 DEF Panics, Works, OthersKeep
  <2> QED BY <2>2, <2>3, <2>4, <2>5 DEF Factory
<1>2. slot' = slot /\ graph' = graph /\ nextBuild' = nextBuild
  BY DEF Factory, Asks, Succeeds, Fails, Panics, shared
<1> QED
  BY <1>0, <1>1, <1>2, QuietStep

(* The end of a build notifies whoever sleeps on it.                       *)
LEMMA SleepFinish ==
    ASSUME WInv, TypeOK', NEW t \in Threads, Finish(t) PROVE WInv'
<1> DEFINE f == Top(t)
<1>0. /\ pc \in [Threads -> PCs] /\ nextBuild \in Nat /\ nextBuild' = nextBuild /\ TypeOK
      /\ pc[t] \in {"finish", "unwinding"}
  BY DEF WInv, TypeOK, Types, Finish, FinishesOk, FinishesError, Unwinds
<1>1. f \in Frame /\ f.key \in Keys
  BY <1>0, TopType DEF Frame
<1>2. Notified(f.key) \in [Threads -> PCs]
  BY <1>0, NotifiedType
<1> HIDE DEF f
<1>3. CASE slot' = slot /\ graph' = graph /\ OthersKeep(t, pc)
  BY <1>0, <1>3, QuietStep
<1>4. ASSUME NEW content \in Slot, content.state # "building", Owns(f),
             Settle(f.key, content, f.build), OthersKeep(t, Notified(f.key))
      PROVE  WInv'
  <2>1. slot' = [slot EXCEPT ![f.key] = content]
    BY <1>4 DEF Settle
  <2>2. \A u \in Threads :
           \/ graph'[u] = graph[u]
           \/ /\ slot[f.key].state = "building" /\ graph[u] # None
              /\ graph[u].build = slot[f.key].build
    BY <1>4 DEF Settle, WithoutWaits, Owns
  <2>3. nextBuild' >= nextBuild
    BY <1>0
  <2>4. OthersKeep(t, Notified(f.key)) /\ content.state # "building"
    BY <1>4
  <2> QED
    BY <1>1, <2>1, <2>2, <2>3, <2>4, SettlingStep
<1>5. Vacant \in Slot /\ Vacant.state # "building"
  BY SlotType DEF Vacant
<1>6. CASE FinishesOk(t)
  <2>1. CASE Owns(f)
    <3>1. f.build \in Nat
      BY <1>1, <1>6 DEF FinishesOk, Frame, f
    <3>2. Ready(f.build) \in Slot /\ Ready(f.build).state # "building"
      BY <3>1, SlotType DEF Ready
    <3>3. /\ Settle(f.key, Ready(f.build), f.build)
          /\ Return(t, Tail(stack[t]), Notified(f.key), TRUE)
      BY <1>6, <2>1 DEF FinishesOk, f
    <3> QED
      BY <1>0, <1>2, <1>4, <2>1, <3>2, <3>3, ReturnKeeps
  <2>2. CASE ~Owns(f)
    <3>1. UNCHANGED <<slot, graph>> /\ Return(t, Tail(stack[t]), pc, FALSE)
      BY <1>6, <2>2 DEF FinishesOk, f
    <3> QED
      BY <1>0, <1>3, <3>1, ReturnKeeps
  <2> QED
    BY <2>1, <2>2
<1>7. CASE FinishesError(t)
  <2>1. CASE Owns(f)
    <3>1. /\ Settle(f.key, Vacant, f.build)
          /\ Return(t, Tail(stack[t]), Notified(f.key), FALSE)
      BY <1>7, <2>1 DEF FinishesError, f
    <3> QED
      BY <1>0, <1>2, <1>4, <1>5, <2>1, <3>1, ReturnKeeps
  <2>2. CASE ~Owns(f)
    <3>1. UNCHANGED <<slot, graph>> /\ Return(t, Tail(stack[t]), pc, FALSE)
      BY <1>7, <2>2 DEF FinishesError, f
    <3> QED
      BY <1>0, <1>3, <3>1, ReturnKeeps
  <2> QED
    BY <2>1, <2>2
<1>8. CASE Unwinds(t)
  <2> DEFINE ended == IF Len(stack[t]) = 1 THEN "idle" ELSE "unwinding"
  <2>0. ended # "waiting" /\ target' = target
    BY <1>8 DEF Unwinds
  <2>1. CASE f.build # None /\ Owns(f)
    <3>1. Settle(f.key, Vacant, f.build) /\ pc' = [Notified(f.key) EXCEPT ![t] = ended]
      BY <1>8, <2>1 DEF Unwinds, f
    <3>2. OthersKeep(t, Notified(f.key))
      BY <1>2, <2>0, <3>1 DEF OthersKeep
    <3> QED
      BY <1>4, <1>5, <2>1, <3>1, <3>2
  <2>2. CASE ~(f.build # None /\ Owns(f))
    <3>1. UNCHANGED <<slot, graph>> /\ pc' = [pc EXCEPT ![t] = ended]
      BY <1>8, <2>2 DEF Unwinds, f
    <3>2. OthersKeep(t, pc)
      BY <1>0, <2>0, <3>1 DEF OthersKeep
    <3> QED
      BY <1>3, <3>1, <3>2
  <2> QED
    BY <2>1, <2>2
<1> QED
  BY <1>6, <1>7, <1>8 DEF Finish

(* So does a seed.                                                         *)
LEMMA SleepSeed ==
    ASSUME WInv, TypeOK', SeedEnds PROVE WInv'
<1> DEFINE f == Top(Seeder)
<1>0. /\ Seeder \in Threads /\ TypeOK /\ pc[Seeder] = "finish"
      /\ pc \in [Threads -> PCs] /\ nextBuild \in Nat
  BY ConstantsAssumption DEF WInv, TypeOK, Types, SeedEnds
<1>1. f.key \in Keys
  BY <1>0, TopType DEF Frame
<1>2. Notified(f.key) \in [Threads -> PCs]
  BY <1>0, NotifiedType
<1> HIDE DEF f
<1>3. CASE answer[Seeder] = "ok"
  <2>1. /\ slot' = [slot EXCEPT ![f.key] = Ready(nextBuild)]
        /\ graph' = IF slot[f.key].state = "building"
                    THEN WithoutWaits(graph, slot[f.key].build) ELSE graph
        /\ nextBuild' = nextBuild + 1
        /\ Return(Seeder, Tail(stack[Seeder]), Notified(f.key), TRUE)
    BY <1>3 DEF SeedEnds, f
  <2>2. Ready(nextBuild) \in Slot /\ Ready(nextBuild).state # "building"
    BY <1>0, SlotType DEF Ready
  <2>3. OthersKeep(Seeder, Notified(f.key))
    BY <1>0, <1>2, <2>1, ReturnKeeps
  <2>4. \A u \in Threads :
           \/ graph'[u] = graph[u]
           \/ /\ slot[f.key].state = "building" /\ graph[u] # None
              /\ graph[u].build = slot[f.key].build
    BY <2>1 DEF WithoutWaits
  <2>5. nextBuild' >= nextBuild
    BY <1>0, <2>1
  <2>6. slot' = [slot EXCEPT ![f.key] = Ready(nextBuild)]
    BY <2>1
  <2> QED
    BY <1>0, <1>1, <2>2, <2>3, <2>4, <2>5, <2>6, SettlingStep
<1>4. CASE answer[Seeder] # "ok"
  <2>1. UNCHANGED shared /\ Return(Seeder, Tail(stack[Seeder]), pc, FALSE)
    BY <1>4 DEF SeedEnds
  <2>2. OthersKeep(Seeder, pc)
    BY <1>0, <2>1, ReturnKeeps
  <2>3. slot' = slot /\ graph' = graph /\ nextBuild' >= nextBuild
    BY <1>0, <2>1 DEF shared
  <2> QED
    BY <1>0, <2>2, <2>3, QuietStep
<1> QED
  BY <1>3, <1>4

(* The strengthened invariant is inductive.                                *)
LEMMA SleepNext == WInv /\ [Next]_vars => WInv'
<1> SUFFICES ASSUME WInv, [Next]_vars PROVE WInv'
  OBVIOUS
<1>0. /\ TypeOK' /\ pc \in [Threads -> PCs] /\ nextBuild \in Nat
  BY TypeNext DEF WInv, TypeOK, Types
<1>1. ASSUME NEW t \in Threads, NEW k \in Keys, Resolve(t, k) PROVE WInv'
  <2>1. OthersKeep(t, pc)
    BY <1>1 DEF Resolve, OthersKeep, WInv, TypeOK, Types
  <2>2. slot' = slot /\ graph' = graph /\ nextBuild' = nextBuild
    BY <1>1 DEF Resolve, shared
  <2> QED
    BY <1>0, <2>1, <2>2, QuietStep
<1>2. ASSUME NEW t \in Threads, WakesSpuriously(t) PROVE WInv'
  <2>1. OthersKeep(t, pc)
    BY <1>2 DEF WakesSpuriously, OthersKeep, WInv, TypeOK, Types
  <2>2. slot' = slot /\ graph' = graph /\ nextBuild' = nextBuild
    BY <1>2 DEF WakesSpuriously, shared
  <2> QED
    BY <1>0, <2>1, <2>2, QuietStep
<1>3. ASSUME NEW k \in Keys, SeedBegin(k) PROVE WInv'
  <2>1. OthersKeep(Seeder, pc) /\ Seeder \in Threads
    BY <1>3, ConstantsAssumption DEF SeedBegin, OthersKeep, WInv, TypeOK, Types
  <2>2. slot' = slot /\ graph' = graph /\ nextBuild' = nextBuild
    BY <1>3 DEF SeedBegin, shared
  <2> QED
    BY <1>0, <2>1, <2>2, QuietStep
<1>4. CASE UNCHANGED vars
  BY <1>4 DEF vars, WInv, IdsOK, AsleepOnLiveBuild, TypeOK, Types, LocalsOK
<1> QED
  BY <1>0, <1>1, <1>2, <1>3, <1>4, SleepLoop, SleepFactory, SleepFinish, SleepSeed DEF Next

(* Nobody sleeps on a slot whose build is over: every wait is on a build   *)
(* under way, and its edge names that build and its thread.                *)
THEOREM NoLostWakeup == Spec => []AsleepOnLiveBuild
<1>1. Init => WInv
  <2>1. Init => IdsOK /\ AsleepOnLiveBuild
    BY DEF Init, IdsOK, AsleepOnLiveBuild, Vacant
  <2> QED
    BY <2>1, InitType DEF WInv
<1>2. WInv /\ [Next]_vars => WInv'
  BY SleepNext
<1>3. WInv => AsleepOnLiveBuild
  BY DEF WInv
<1> QED
  BY <1>1, <1>2, <1>3, PTL DEF Spec

-----------------------------------------------------------------------------
(* One instance of every singleton, and cycles reported of real ones only. *)

(* What k depends on directly or through others.                           *)
Below(k) ==
    {d \in Keys : \A S \in SUBSET Keys :
        (DependsOn(k) \subseteq S /\ \A s \in S : DependsOn(s) \subseteq S) => d \in S}

(* A seed under way is the only frame without a build, at the bottom of    *)
(* the seeder's stack; its slot has no instance yet.                       *)
SeedFrames ==
    \A t \in Threads : \A i \in 1..Len(stack[t]) :
        stack[t][i].build = None =>
            /\ t = Seeder /\ i = Len(stack[t])
            /\ stack[t][i].key \in AsyncKeys
            /\ slot[stack[t][i].key].state # "ready"

(* The sync build of an async factory never succeeds.                      *)
AnswersOK ==
    \A t \in Threads :
        pc[t] = "finish" /\ answer[t] = "ok" /\ Top(t).key \in AsyncKeys =>
            Top(t).build = None

(* Each factory on a stack was asked for by the next one, and carries keys *)
(* that depend on its own.                                                 *)
Chain(s) ==
    /\ \A i \in 1..Len(s) :
          /\ s[i].todo \subseteq DependsOn(s[i].key)
          /\ \A x \in s[i].sees : x = s[i].key \/ s[i].key \in Below(x)
    /\ \A i, j \in 1..Len(s) : i < j => s[i].key \in Below(s[j].key)

Chains == \A t \in Threads : Chain(stack[t])

FramesOK == SeedFrames /\ Chains /\ BuildersAtWork

TargetOK(t) ==
    IF target[t] = None THEN carried[t] = {}
    ELSE /\ \A i \in 1..Len(stack[t]) : target[t] \in Below(stack[t][i].key)
         /\ \A x \in carried[t] : target[t] \in Below(x)

Targets == \A t \in Threads : TargetOK(t)

(* An edge is of a build under way, in the slot its thread asked for.      *)
EdgesLive ==
    \A t \in Threads : graph[t] # None =>
        /\ registered[t] = graph[t].build
        /\ slot[target[t]] = Building(graph[t].builder, graph[t].build)

OnceInv ==
    /\ TypeOK /\ NoWaitCycle
    /\ FramesOK /\ Targets /\ AnswersOK /\ EdgesLive
    /\ OneInstance /\ OnlyRealCycles /\ NeverWaitsTwice

-----------------------------------------------------------------------------
(* Dependencies.                                                           *)

LEMMA BelowFacts ==
    ASSUME NEW k \in Keys
    PROVE  /\ Below(k) \subseteq Keys /\ DependsOn(k) \subseteq Below(k)
           /\ \A m \in Below(k) : DependsOn(m) \subseteq Below(k)
           /\ \A m \in Below(k) : Below(m) \subseteq Below(k)
           /\ OnCycle(k) <=> k \in Below(k)
<1>1. DependsOn(k) \subseteq Keys /\ \A m \in Keys : DependsOn(m) \subseteq Keys
  BY ConstantsAssumption DEF DependsOn
<1>2. Below(k) \subseteq Keys /\ DependsOn(k) \subseteq Below(k)
  BY <1>1 DEF Below
<1>3. ASSUME NEW m \in Below(k), NEW d \in DependsOn(m) PROVE d \in Below(k)
  BY <1>1, <1>2, <1>3 DEF Below
<1>4. ASSUME NEW m \in Below(k), NEW d \in Below(m) PROVE d \in Below(k)
  <2>1. ASSUME NEW S \in SUBSET Keys, DependsOn(k) \subseteq S,
               \A s \in S : DependsOn(s) \subseteq S
        PROVE  d \in S
    <3>1. m \in S
      BY <2>1 DEF Below
    <3>2. DependsOn(m) \subseteq S
      BY <2>1, <3>1
    <3> QED BY <1>4, <2>1, <3>2 DEF Below
  <2>2. d \in Keys
    BY DEF Below
  <2> QED BY <2>1, <2>2 DEF Below
<1>5. OnCycle(k) <=> k \in Below(k)
  BY DEF OnCycle, Below
<1> QED BY <1>2, <1>3, <1>4, <1>5

-----------------------------------------------------------------------------
(* Stacks.                                                                 *)

(* The same factories, further on in their work.                           *)
Alike(r, s) ==
    /\ Len(r) = Len(s)
    /\ \A i \in 1..Len(s) :
          /\ r[i].key = s[i].key /\ r[i].build = s[i].build /\ r[i].sees = s[i].sees
          /\ r[i].todo \subseteq s[i].todo

LEMMA AlikeSelf == \A s : Alike(s, s)
BY DEF Alike

(* Putting one on top, and taking it off.                                  *)
LEMMA PushPop ==
    ASSUME NEW S, NEW s \in Seq(S), NEW f \in S
    PROVE  /\ <<f>> \o s \in Seq(S) /\ Len(<<f>> \o s) = Len(s) + 1 /\ Len(s) \in Nat
           /\ (<<f>> \o s)[1] = f /\ \A i \in 1..Len(s) : (<<f>> \o s)[i + 1] = s[i]
           /\ \A i \in 2..(Len(s) + 1) : (<<f>> \o s)[i] = s[i - 1]
OBVIOUS

LEMMA TailOf ==
    ASSUME NEW S, NEW s \in Seq(S), s # <<>>
    PROVE  /\ Tail(s) \in Seq(S) /\ Len(Tail(s)) = Len(s) - 1 /\ Len(s) \in Nat \ {0}
           /\ \A i \in 1..(Len(s) - 1) : Tail(s)[i] = s[i + 1]
           /\ \A i \in 2..Len(s) : s[i] = Tail(s)[i - 1]
           /\ Head(s) = s[1] /\ Head(s) \in S
OBVIOUS

(* A frame that worked on, on top of the others.                           *)
LEMMA TopWorked ==
    ASSUME NEW s \in Seq(Frame), s # <<>>, NEW f \in Frame,
           f.key = Head(s).key, f.build = Head(s).build, f.sees = Head(s).sees,
           f.todo \subseteq Head(s).todo
    PROVE  <<f>> \o Tail(s) \in Seq(Frame) /\ Alike(<<f>> \o Tail(s), s)
<1>1. /\ Tail(s) \in Seq(Frame) /\ Len(Tail(s)) = Len(s) - 1 /\ Len(s) \in Nat \ {0}
      /\ \A i \in 2..Len(s) : s[i] = Tail(s)[i - 1]
      /\ Head(s) = s[1]
  BY TailOf
<1> DEFINE r == <<f>> \o Tail(s)
<1>2. /\ r \in Seq(Frame) /\ Len(r) = Len(s) /\ r[1] = f
      /\ \A i \in 2..Len(s) : r[i] = Tail(s)[i - 1]
  BY <1>1, PushPop
<1> HIDE DEF r
<1>3. ASSUME NEW i \in 1..Len(s)
      PROVE  /\ r[i].key = s[i].key /\ r[i].build = s[i].build /\ r[i].sees = s[i].sees
             /\ r[i].todo \subseteq s[i].todo
  <2>1. CASE i = 1
    BY <1>1, <1>2, <2>1
  <2>2. CASE i \in 2..Len(s)
    BY <1>1, <1>2, <2>2
  <2> QED BY <1>1, <2>1, <2>2
<1>4. Alike(r, s)
  BY <1>2, <1>3 DEF Alike
<1> QED BY <1>2, <1>4 DEF r

(* After a return the factory below goes on.                               *)
LEMMA ReturnStack ==
    ASSUME NEW t \in Threads, NEW s \in Seq(Frame), NEW p, NEW ok, Return(t, s, p, ok)
    PROVE  \E r \in Seq(Frame) : Alike(r, s) /\ stack' = [stack EXCEPT ![t] = r]
<1>1. CASE s = <<>>
  <2>1. stack' = [stack EXCEPT ![t] = s]
    BY <1>1 DEF Return
  <2> QED BY <2>1, AlikeSelf
<1>2. CASE s # <<>>
  <2>1. PICK h \in BOOLEAN : h = (Head(s).hurt \/ ~ok)
    OBVIOUS
  <2> DEFINE f == [Head(s) EXCEPT !.hurt = h]
  <2>2. stack' = [stack EXCEPT ![t] = <<f>> \o Tail(s)]
    BY <1>2, <2>1 DEF Return
  <2>3. Head(s) \in Frame
    BY <1>2, TailOf
  <2>4. /\ f \in Frame /\ f.key = Head(s).key /\ f.build = Head(s).build
        /\ f.sees = Head(s).sees /\ f.todo \subseteq Head(s).todo
    BY <2>3 DEF Frame
  <2> HIDE DEF f
  <2>5. <<f>> \o Tail(s) \in Seq(Frame) /\ Alike(<<f>> \o Tail(s), s)
    BY <1>2, <2>4, TopWorked
  <2> QED BY <2>2, <2>5
<1> QED BY <1>1, <1>2

LEMMA ChainAlike ==
    ASSUME NEW s \in Seq(Frame), NEW r \in Seq(Frame), Alike(r, s), Chain(s)
    PROVE  Chain(r)
BY DEF Alike, Chain

LEMMA ChainTail ==
    ASSUME NEW s \in Seq(Frame), s # <<>>, Chain(s)
    PROVE  Chain(Tail(s))
<1>1. /\ Len(Tail(s)) = Len(s) - 1 /\ Len(s) \in Nat \ {0}
      /\ \A i \in 1..(Len(s) - 1) : Tail(s)[i] = s[i + 1]
  BY TailOf
<1>2. ASSUME NEW i \in 1..Len(Tail(s))
      PROVE  /\ Tail(s)[i].todo \subseteq DependsOn(Tail(s)[i].key)
             /\ \A x \in Tail(s)[i].sees : x = Tail(s)[i].key \/ Tail(s)[i].key \in Below(x)
  <2>1. i + 1 \in 1..Len(s) /\ Tail(s)[i] = s[i + 1]
    BY <1>1
  <2> QED BY <2>1 DEF Chain
<1>3. ASSUME NEW i \in 1..Len(Tail(s)), NEW j \in 1..Len(Tail(s)), i < j
      PROVE  Tail(s)[i].key \in Below(Tail(s)[j].key)
  <2>1. /\ i + 1 \in 1..Len(s) /\ Tail(s)[i] = s[i + 1]
        /\ j + 1 \in 1..Len(s) /\ Tail(s)[j] = s[j + 1] /\ i + 1 < j + 1
    BY <1>1, <1>3
  <2> QED BY <2>1 DEF Chain
<1> QED BY <1>2, <1>3 DEF Chain

LEMMA ChainPush ==
    ASSUME NEW s \in Seq(Frame), Chain(s), NEW f \in Frame,
           f.todo \subseteq DependsOn(f.key),
           \A x \in f.sees : x = f.key \/ f.key \in Below(x),
           \A i \in 1..Len(s) : f.key \in Below(s[i].key)
    PROVE  Chain(<<f>> \o s)
<1> DEFINE r == <<f>> \o s
<1>1. /\ r \in Seq(Frame) /\ Len(r) = Len(s) + 1 /\ Len(s) \in Nat /\ r[1] = f
      /\ \A i \in 2..(Len(s) + 1) : r[i] = s[i - 1]
  BY PushPop
<1> HIDE DEF r
<1>2. ASSUME NEW i \in 1..Len(r)
      PROVE  /\ r[i].todo \subseteq DependsOn(r[i].key)
             /\ \A x \in r[i].sees : x = r[i].key \/ r[i].key \in Below(x)
  <2>1. CASE i = 1
    BY <1>1, <2>1
  <2>2. CASE i \in 2..Len(r)
    <3>1. i - 1 \in 1..Len(s) /\ r[i] = s[i - 1]
      BY <1>1, <2>2
    <3> QED BY <3>1 DEF Chain
  <2> QED BY <1>1, <2>1, <2>2
<1>3. ASSUME NEW i \in 1..Len(r), NEW j \in 1..Len(r), i < j
      PROVE  r[i].key \in Below(r[j].key)
  <2>1. j - 1 \in 1..Len(s) /\ r[j] = s[j - 1]
    BY <1>1, <1>3
  <2>2. CASE i = 1
    BY <1>1, <2>1, <2>2
  <2>3. CASE i \in 2..Len(r)
    <3>1. i - 1 \in 1..Len(s) /\ r[i] = s[i - 1] /\ i - 1 < j - 1
      BY <1>1, <1>3, <2>3
    <3> QED BY <2>1, <3>1 DEF Chain
  <2> QED BY <1>1, <2>2, <2>3
<1>4. Chain(r)
  BY <1>2, <1>3 DEF Chain
<1> QED BY <1>4 DEF r

-----------------------------------------------------------------------------
(* The stacks of the threads, step by step.                                *)

(* Factories go on in their work, or nothing happens to them.              *)
LEMMA AlikeKeeps ==
    ASSUME TypeOK, FramesOK, NEW t \in Threads, NEW r \in Seq(Frame),
           Alike(r, stack[t]), stack' = [stack EXCEPT ![t] = r], slot' = slot
    PROVE  FramesOK'
<1>0. /\ stack \in [Threads -> Seq(Frame)] /\ slot \in [Keys -> Slot]
      /\ \A k \in Keys : slot[k].state = "building" => slot[k].builder \in Threads
  BY SlotType DEF TypeOK, Types
<1>1. stack'[t] = r /\ \A u \in Threads \ {t} : stack'[u] = stack[u]
  BY <1>0
<1>2. /\ Len(r) = Len(stack[t])
      /\ \A i \in 1..Len(stack[t]) :
            r[i].key = stack[t][i].key /\ r[i].build = stack[t][i].build
  BY DEF Alike
<1>3. \A u \in Threads :
         /\ Len(stack'[u]) = Len(stack[u])
         /\ \A i \in 1..Len(stack[u]) :
               stack'[u][i].key = stack[u][i].key /\ stack'[u][i].build = stack[u][i].build
  BY <1>1, <1>2
<1>4. SeedFrames'
  BY <1>3 DEF FramesOK, SeedFrames
<1>5. Chains'
  <2>1. Chain(stack'[t])
    BY <1>0, <1>1, ChainAlike DEF FramesOK, Chains
  <2> QED BY <1>1, <2>1 DEF FramesOK, Chains
<1>6. BuildersAtWork'
  <2> SUFFICES ASSUME NEW k \in Keys, slot[k].state = "building"
               PROVE  \E i \in 1..Len(stack'[slot[k].builder]) :
                         /\ stack'[slot[k].builder][i].key = k
                         /\ stack'[slot[k].builder][i].build = slot[k].build
    BY DEF BuildersAtWork
  <2>1. PICK i \in 1..Len(stack[slot[k].builder]) :
               /\ stack[slot[k].builder][i].key = k
               /\ stack[slot[k].builder][i].build = slot[k].build
    BY DEF FramesOK, BuildersAtWork
  <2> QED BY <1>0, <1>3, <2>1
<1> QED BY <1>4, <1>5, <1>6 DEF FramesOK

(* A build begins.                                                         *)
LEMMA PushKeeps ==
    ASSUME TypeOK, FramesOK, NEW t \in Threads, NEW f \in Frame,
           f.key \in Keys, f.build \in Nat, slot[f.key].state = "vacant",
           f.todo \subseteq DependsOn(f.key),
           \A x \in f.sees : x = f.key \/ f.key \in Below(x),
           \A i \in 1..Len(stack[t]) : f.key \in Below(stack[t][i].key),
           stack' = [stack EXCEPT ![t] = <<f>> \o stack[t]],
           slot' = [slot EXCEPT ![f.key] = Building(t, f.build)]
    PROVE  FramesOK'
<1> DEFINE r == <<f>> \o stack[t]
<1>0. /\ stack \in [Threads -> Seq(Frame)] /\ slot \in [Keys -> Slot]
      /\ \A k \in Keys : slot[k].state = "building" => slot[k].builder \in Threads
  BY SlotType DEF TypeOK, Types
<1>1. stack'[t] = r /\ \A u \in Threads \ {t} : stack'[u] = stack[u]
  BY <1>0
<1>2. /\ r \in Seq(Frame) /\ Len(r) = Len(stack[t]) + 1 /\ Len(stack[t]) \in Nat
      /\ r[1] = f /\ \A i \in 1..Len(stack[t]) : r[i + 1] = stack[t][i]
      /\ \A i \in 2..(Len(stack[t]) + 1) : r[i] = stack[t][i - 1]
  BY <1>0, PushPop
<1>3. Chain(r)
  BY <1>0, ChainPush DEF FramesOK, Chains
<1> HIDE DEF r
<1>4. /\ slot'[f.key].state = "building" /\ slot'[f.key].builder = t
      /\ slot'[f.key].build = f.build
      /\ \A k \in Keys \ {f.key} : slot'[k] = slot[k]
  BY <1>0 DEF Building
<1>5. None \notin Nat
  BY ConstantsAssumption
<1>6. SeedFrames'
  <2> SUFFICES ASSUME NEW u \in Threads, NEW i \in 1..Len(stack'[u]),
                      stack'[u][i].build = None
               PROVE  /\ u = Seeder /\ i = Len(stack'[u])
                      /\ stack'[u][i].key \in AsyncKeys
                      /\ slot'[stack'[u][i].key].state # "ready"
    BY DEF SeedFrames
  <2>1. ASSUME NEW j \in 1..Len(stack[u]), stack[u][j].build = None
        PROVE  /\ u = Seeder /\ j = Len(stack[u])
               /\ stack[u][j].key \in AsyncKeys
               /\ slot'[stack[u][j].key].state # "ready"
    <3>1. /\ u = Seeder /\ j = Len(stack[u])
          /\ stack[u][j].key \in AsyncKeys
          /\ slot[stack[u][j].key].state # "ready"
      BY <2>1 DEF FramesOK, SeedFrames
    <3>2. stack[u][j].key \in Keys
      BY <3>1, ConstantsAssumption
    <3> QED BY <1>4, <3>1, <3>2
  <2>2. CASE u # t
    BY <1>1, <2>1, <2>2
  <2>3. CASE u = t
    <3>1. i # 1 /\ i \in 1..(Len(stack[t]) + 1)
      BY <1>1, <1>2, <1>5, <2>3
    <3>2. i - 1 \in 1..Len(stack[t]) /\ stack'[u][i] = stack[t][i - 1]
      BY <1>1, <1>2, <2>3, <3>1
    <3> QED BY <1>1, <1>2, <2>1, <2>3, <3>2
  <2> QED BY <2>2, <2>3
<1>7. Chains'
  BY <1>1, <1>3 DEF FramesOK, Chains
<1>8. BuildersAtWork'
  <2> SUFFICES ASSUME NEW k \in Keys, slot'[k].state = "building"
               PROVE  \E i \in 1..Len(stack'[slot'[k].builder]) :
                         /\ stack'[slot'[k].builder][i].key = k
                         /\ stack'[slot'[k].builder][i].build = slot'[k].build
    BY DEF BuildersAtWork
  <2>1. CASE k = f.key
    <3>1. 1 \in 1..Len(r)
      BY <1>2
    <3> QED BY <1>1, <1>2, <1>4, <2>1, <3>1
  <2>2. CASE k # f.key
    <3> DEFINE u == slot[k].builder
    <3>1. slot'[k] = slot[k] /\ u \in Threads
      BY <1>0, <1>4, <2>2
    <3>2. PICK i \in 1..Len(stack[u]) :
                 stack[u][i].key = k /\ stack[u][i].build = slot[k].build
      BY <3>1 DEF FramesOK, BuildersAtWork
    <3> HIDE DEF u
    <3>3. CASE u # t
      <4>1. slot'[k].builder = u /\ slot'[k].build = slot[k].build
        BY <3>1 DEF u
      <4>2. stack'[u] = stack[u]
        BY <1>1, <3>1, <3>3
      <4> QED BY <3>2, <4>1, <4>2
    <3>4. CASE u = t
      <4>1. i + 1 \in 1..Len(r) /\ r[i + 1] = stack[t][i]
        BY <1>2, <3>2, <3>4
      <4>2. stack'[u][i + 1].key = k /\ stack'[u][i + 1].build = slot[k].build
        BY <1>1, <3>2, <3>4, <4>1
      <4> QED BY <1>1, <3>1, <3>4, <4>1, <4>2 DEF u
    <3> QED BY <3>3, <3>4
  <2> QED BY <2>1, <2>2
<1> QED BY <1>6, <1>7, <1>8 DEF FramesOK

(* A build ends.                                                           *)
LEMMA PopKeeps ==
    ASSUME TypeOK, FramesOK, NEW t \in Threads, stack[t] # <<>>,
           NEW r \in Seq(Frame), Alike(r, Tail(stack[t])),
           stack' = [stack EXCEPT ![t] = r],
           \A k \in Keys :
              \/ /\ slot'[k] = slot[k]
                 /\ ~(k = Top(t).key /\ slot[k].state = "building" /\ slot[k].build = Top(t).build)
              \/ /\ k = Top(t).key /\ slot'[k].state # "building"
                 /\ slot'[k].state = "ready" =>
                       k \notin AsyncKeys \/ (t = Seeder /\ Len(stack[t]) = 1)
    PROVE  FramesOK'
<1>0. /\ stack \in [Threads -> Seq(Frame)] /\ slot \in [Keys -> Slot]
      /\ \A k \in Keys : slot[k].state = "building" => slot[k].builder \in Threads
  BY SlotType DEF TypeOK, Types
<1>1. stack'[t] = r /\ \A u \in Threads \ {t} : stack'[u] = stack[u]
  BY <1>0
<1>2. /\ Tail(stack[t]) \in Seq(Frame) /\ Len(Tail(stack[t])) = Len(stack[t]) - 1
      /\ Len(stack[t]) \in Nat \ {0}
      /\ \A i \in 1..(Len(stack[t]) - 1) : Tail(stack[t])[i] = stack[t][i + 1]
      /\ stack[t][1] = Top(t)
  BY <1>0, TailOf DEF Top
<1>3. /\ Len(r) = Len(stack[t]) - 1
      /\ \A i \in 1..(Len(stack[t]) - 1) :
            r[i].key = stack[t][i + 1].key /\ r[i].build = stack[t][i + 1].build
  BY <1>2 DEF Alike
<1>4. SeedFrames'
  <2> SUFFICES ASSUME NEW u \in Threads, NEW i \in 1..Len(stack'[u]),
                      stack'[u][i].build = None
               PROVE  /\ u = Seeder /\ i = Len(stack'[u])
                      /\ stack'[u][i].key \in AsyncKeys
                      /\ slot'[stack'[u][i].key].state # "ready"
    BY DEF SeedFrames
  <2>1. CASE u # t
    <3>1. /\ u = Seeder /\ i = Len(stack[u])
          /\ stack[u][i].key \in AsyncKeys
          /\ slot[stack[u][i].key].state # "ready"
      BY <1>1, <2>1 DEF FramesOK, SeedFrames
    <3>2. stack[u][i].key \in Keys
      BY <3>1, ConstantsAssumption
    <3>3. slot'[stack[u][i].key].state # "ready"
      BY <2>1, <3>1, <3>2
    <3> QED BY <1>1, <2>1, <3>1, <3>3
  <2>2. CASE u = t
    <3>1. /\ i \in 1..(Len(stack[t]) - 1) /\ i + 1 \in 1..Len(stack[t])
          /\ stack[t][i + 1].build = None /\ stack'[u][i].key = stack[t][i + 1].key
      BY <1>1, <1>2, <1>3, <2>2
    <3>2. /\ t = Seeder /\ i + 1 = Len(stack[t])
          /\ stack[t][i + 1].key \in AsyncKeys
          /\ slot[stack[t][i + 1].key].state # "ready"
      BY <3>1 DEF FramesOK, SeedFrames
    <3>3. stack[t][i + 1].key \in Keys /\ Len(stack[t]) # 1
      BY <1>2, <3>1, <3>2, ConstantsAssumption
    <3>4. slot'[stack[t][i + 1].key].state # "ready"
      BY <3>2, <3>3
    <3> QED BY <1>1, <1>3, <2>2, <3>1, <3>2, <3>4
  <2> QED BY <2>1, <2>2
<1>5. Chains'
  <2>1. Chain(Tail(stack[t]))
    BY <1>0, ChainTail DEF FramesOK, Chains
  <2>2. Chain(r)
    BY <1>2, <2>1, ChainAlike
  <2> QED BY <1>1, <2>2 DEF FramesOK, Chains
<1>6. BuildersAtWork'
  <2> SUFFICES ASSUME NEW k \in Keys, slot'[k].state = "building"
               PROVE  \E i \in 1..Len(stack'[slot'[k].builder]) :
                         /\ stack'[slot'[k].builder][i].key = k
                         /\ stack'[slot'[k].builder][i].build = slot'[k].build
    BY DEF BuildersAtWork
  <2> DEFINE u == slot[k].builder
  <2>1. /\ slot'[k] = slot[k] /\ u \in Threads /\ slot[k].state = "building"
        /\ ~(k = Top(t).key /\ slot[k].build = Top(t).build)
    BY <1>0
  <2>2. PICK i \in 1..Len(stack[u]) :
               stack[u][i].key = k /\ stack[u][i].build = slot[k].build
    BY <2>1 DEF FramesOK, BuildersAtWork
  <2> HIDE DEF u
  <2>3. CASE u # t
    <3>1. slot'[k].builder = u /\ slot'[k].build = slot[k].build
      BY <2>1 DEF u
    <3>2. stack'[u] = stack[u]
      BY <1>1, <2>1, <2>3
    <3> QED BY <2>2, <3>1, <3>2
  <2>4. CASE u = t
    <3>1. i # 1 /\ i \in 1..Len(stack[t])
      BY <1>2, <2>1, <2>2, <2>4
    <3>2. i - 1 \in 1..(Len(stack[t]) - 1)
      BY <1>2, <3>1
    <3>3. r[i - 1].key = stack[t][i].key /\ r[i - 1].build = stack[t][i].build
      BY <1>2, <1>3, <3>1, <3>2
    <3>4. i - 1 \in 1..Len(stack'[u])
      BY <1>1, <1>3, <2>4, <3>2
    <3> QED BY <1>1, <2>1, <2>2, <2>4, <3>3, <3>4 DEF u
  <2> QED BY <2>3, <2>4
<1> QED BY <1>4, <1>5, <1>6 DEF FramesOK

(* The factory thread t runs, and what it was asked for.                   *)
LEMMA TopFacts ==
    ASSUME TypeOK, FramesOK, NEW t \in Threads, pc[t] \in {"running", "finish", "unwinding"}
    PROVE  /\ Top(t) \in Frame /\ Top(t).key \in Keys /\ Len(stack[t]) \in Nat \ {0}
           /\ Top(t) = stack[t][1] /\ 1 \in 1..Len(stack[t])
           /\ Top(t).todo \subseteq DependsOn(Top(t).key)
           /\ \A x \in Top(t).sees : x \in Keys /\ (x = Top(t).key \/ Top(t).key \in Below(x))
           /\ \A i \in 1..Len(stack[t]) :
                 /\ stack[t][i].key \in Keys
                 /\ i # 1 => Top(t).key \in Below(stack[t][i].key)
           /\ Top(t).build = None =>
                 t = Seeder /\ Len(stack[t]) = 1 /\ slot[Top(t).key].state # "ready"
<1>1. stack[t] # <<>> /\ Top(t) \in Frame /\ stack[t] \in Seq(Frame)
  BY TopType DEF TypeOK, Types
<1>2. Top(t) = stack[t][1] /\ Len(stack[t]) \in Nat \ {0} /\ 1 \in 1..Len(stack[t])
  BY <1>1, TailOf DEF Top
<1>3. Top(t).key \in Keys /\ Top(t).sees \in SUBSET Keys
  BY <1>1 DEF Frame
<1>4. Chain(stack[t])
  BY DEF FramesOK, Chains
<1>5. /\ Top(t).todo \subseteq DependsOn(Top(t).key)
      /\ \A x \in Top(t).sees : x = Top(t).key \/ Top(t).key \in Below(x)
  BY <1>2, <1>4 DEF Chain
<1>6. \A i \in 1..Len(stack[t]) :
         /\ stack[t][i].key \in Keys
         /\ i # 1 => Top(t).key \in Below(stack[t][i].key)
  <2>1. \A i \in 1..Len(stack[t]) : stack[t][i] \in Frame
    BY <1>1
  <2> QED BY <1>2, <1>4, <2>1 DEF Chain, Frame
<1>7. Top(t).build = None =>
         t = Seeder /\ Len(stack[t]) = 1 /\ slot[Top(t).key].state # "ready"
  BY <1>2 DEF FramesOK, SeedFrames
<1> QED BY <1>1, <1>2, <1>3, <1>5, <1>6, <1>7

(* A step that leaves stacks and slots alone.                              *)
LEMMA FramesSame ==
    ASSUME FramesOK, stack' = stack, slot' = slot PROVE FramesOK'
BY DEF FramesOK, SeedFrames, Chains, BuildersAtWork

(* Turns of the loop.                                                      *)
LEMMA FramesLoop ==
    ASSUME TypeOK, FramesOK, Targets, NEW t \in Threads, Loop(t) PROVE FramesOK'
<1>0. stack[t] \in Seq(Frame)
  BY DEF TypeOK, Types
<1>1. CASE FindsReady(t) \/ Refused(t)
  <2>1. slot' = slot /\ \E ok : Return(t, stack[t], pc, ok)
    BY <1>1 DEF FindsReady, Refused, shared
  <2>2. PICK r \in Seq(Frame) : Alike(r, stack[t]) /\ stack' = [stack EXCEPT ![t] = r]
    BY <1>0, <2>1, ReturnStack
  <2> QED BY <2>1, <2>2, AlikeKeeps
<1>2. CASE StartsWaiting(t) \/ DropsRegistration(t)
  BY <1>2, FramesSame DEF StartsWaiting, DropsRegistration
<1>3. CASE StartsBuilding(t)
  <2> DEFINE f == NewFrame(target[t], nextBuild, carried[t])
  <2>1. /\ target[t] \in Keys /\ target[t] # None /\ nextBuild \in Nat
        /\ carried[t] \in SUBSET Keys
    BY <1>3, ConstantsAssumption DEF StartsBuilding, TypeOK, Types, LocalsOK
  <2>2. /\ f \in Frame /\ f.key = target[t] /\ f.build = nextBuild
        /\ f.sees = carried[t] \cup {target[t]} /\ f.todo = DependsOn(target[t])
    BY <2>1, NewFrameType DEF NewFrame, DependsOn
  <2>3. /\ stack' = [stack EXCEPT ![t] = <<f>> \o stack[t]]
        /\ slot' = [slot EXCEPT ![target[t]] = Building(t, nextBuild)]
        /\ slot[target[t]].state = "vacant"
    BY <1>3 DEF StartsBuilding, Marked
  <2>4. /\ \A i \in 1..Len(stack[t]) : target[t] \in Below(stack[t][i].key)
        /\ \A x \in carried[t] : target[t] \in Below(x)
    BY <2>1 DEF Targets, TargetOK
  <2> HIDE DEF f
  <2>5. \A x \in f.sees : x = f.key \/ f.key \in Below(x)
    BY <2>2, <2>4
  <2>6. /\ f.key \in Keys /\ f.build \in Nat /\ slot[f.key].state = "vacant"
        /\ f.todo \subseteq DependsOn(f.key)
        /\ \A i \in 1..Len(stack[t]) : f.key \in Below(stack[t][i].key)
        /\ slot' = [slot EXCEPT ![f.key] = Building(t, f.build)]
    BY <2>1, <2>2, <2>3, <2>4
  <2> QED BY <2>2, <2>3, <2>5, <2>6, PushKeeps
<1> QED BY <1>1, <1>2, <1>3 DEF Loop

(* Steps of a factory.                                                     *)
LEMMA FramesFactory ==
    ASSUME TypeOK, FramesOK, NEW t \in Threads, Factory(t) PROVE FramesOK'
<1>1. CASE \E d \in Keys : Asks(t, d)
  <2> PICK d \in Keys : Asks(t, d)
    BY <1>1
  <2>1. pc[t] = "running" /\ slot' = slot
    BY DEF Asks, Works, shared
  <2>2. Top(t) \in Frame /\ stack[t] \in Seq(Frame) /\ stack[t] # <<>>
    BY <2>1, TopType DEF TypeOK, Types
  <2>3. PICK f \in Frame :
               /\ f.key = Top(t).key /\ f.build = Top(t).build /\ f.sees = Top(t).sees
               /\ f.todo \subseteq Top(t).todo
               /\ stack' = [stack EXCEPT ![t] = <<f>> \o Tail(stack[t])]
    <3> DEFINE g == [Top(t) EXCEPT !.todo = @ \ {d}]
               h == [Top(t) EXCEPT !.todo = @ \ {d}, !.hurt = TRUE]
    <3>1. /\ g \in Frame /\ g.key = Top(t).key /\ g.build = Top(t).build
          /\ g.sees = Top(t).sees /\ g.todo \subseteq Top(t).todo
      BY <2>2 DEF Frame
    <3>2. /\ h \in Frame /\ h.key = Top(t).key /\ h.build = Top(t).build
          /\ h.sees = Top(t).sees /\ h.todo \subseteq Top(t).todo
      BY <2>2 DEF Frame
    <3>3. \/ stack' = [stack EXCEPT ![t] = <<g>> \o Tail(stack[t])]
          \/ stack' = [stack EXCEPT ![t] = <<h>> \o Tail(stack[t])]
      BY DEF Asks
    <3> HIDE DEF g, h
    <3> QED BY <3>1, <3>2, <3>3
  <2>4. <<f>> \o Tail(stack[t]) \in Seq(Frame) /\ Alike(<<f>> \o Tail(stack[t]), stack[t])
    BY <2>2, <2>3, TopWorked DEF Top
  <2> DEFINE r == <<f>> \o Tail(stack[t])
  <2>5. r \in Seq(Frame) /\ Alike(r, stack[t]) /\ stack' = [stack EXCEPT ![t] = r]
    BY <2>3, <2>4
  <2> HIDE DEF r
  <2> QED BY <2>1, <2>5, AlikeKeeps
<1>2. CASE Succeeds(t) \/ Fails(t) \/ Panics(t)
  BY <1>2, FramesSame DEF Succeeds, Fails, Panics, shared
<1> QED BY <1>1, <1>2 DEF Factory

(* The synchronous build of an async factory never comes to an instance.   *)
LEMMA OkIsSync ==
    ASSUME AnswersOK, NEW t \in Threads, FinishesOk(t)
    PROVE  Top(t).key \notin AsyncKeys
BY DEF AnswersOK, FinishesOk

(* What a finished build does to the slots.                                *)
SlotsSettle(t) ==
    \A k \in Keys :
       \/ /\ slot'[k] = slot[k]
          /\ ~(k = Top(t).key /\ slot[k].state = "building" /\ slot[k].build = Top(t).build)
       \/ /\ k = Top(t).key /\ slot'[k].state # "building"
          /\ slot'[k].state = "ready" =>
                k \notin AsyncKeys \/ (t = Seeder /\ Len(stack[t]) = 1)

LEMMA SettlesSlots ==
    ASSUME TypeOK, FramesOK, AnswersOK, NEW t \in Threads, Finish(t)
    PROVE  SlotsSettle(t)
<1> DEFINE f == Top(t)
<1>0. slot \in [Keys -> Slot]
  BY DEF TypeOK, Types
<1>1. pc[t] \in {"finish", "unwinding"}
  BY DEF Finish, FinishesOk, FinishesError, Unwinds
<1>2. f.key \in Keys
  BY <1>1, TopFacts
<1>3. \A k \in Keys : slot[k].state = "building" => slot[k].build # None
  BY <1>0, SlotType, ConstantsAssumption
<1> HIDE DEF f
<1>4. ASSUME ~Owns(f), slot' = slot PROVE SlotsSettle(t)
  BY <1>4 DEF SlotsSettle, Owns, f
<1>5. ASSUME NEW content, content.state = "vacant" \/ f.key \notin AsyncKeys,
             content.state # "building", Settle(f.key, content, f.build)
      PROVE  SlotsSettle(t)
  <2>1. slot'[f.key] = content /\ \A k \in Keys \ {f.key} : slot'[k] = slot[k]
    BY <1>0, <1>2, <1>5 DEF Settle
  <2>2. f.key = Top(t).key
    BY DEF f
  <2> QED BY <1>5, <2>1, <2>2 DEF SlotsSettle
<1>6. CASE FinishesOk(t)
  <2>1. f.key \notin AsyncKeys /\ Ready(f.build).state # "building"
    BY <1>6, OkIsSync DEF f, Ready
  <2>2. \/ Settle(f.key, Ready(f.build), f.build)
        \/ ~Owns(f) /\ slot' = slot
    BY <1>6 DEF FinishesOk, f
  <2> QED BY <1>4, <1>5, <2>1, <2>2
<1>7. Vacant.state = "vacant" /\ Vacant.state # "building"
  BY DEF Vacant
<1>8. CASE FinishesError(t)
  <2>1. \/ Settle(f.key, Vacant, f.build)
        \/ ~Owns(f) /\ slot' = slot
    BY <1>8 DEF FinishesError, f
  <2> QED BY <1>4, <1>5, <1>7, <2>1
<1>9. CASE Unwinds(t)
  <2>1. \/ Settle(f.key, Vacant, f.build)
        \/ ~(f.build # None /\ Owns(f)) /\ slot' = slot
    BY <1>9 DEF Unwinds, f
  <2>2. f.build = None => ~Owns(f)
    BY <1>2, <1>3 DEF Owns
  <2> QED BY <1>4, <1>5, <1>7, <2>1, <2>2
<1> QED BY <1>6, <1>8, <1>9 DEF Finish

(* Ends of builds.                                                         *)
LEMMA FramesFinish ==
    ASSUME TypeOK, FramesOK, AnswersOK, NEW t \in Threads, Finish(t) PROVE FramesOK'
<1>1. pc[t] \in {"finish", "unwinding"}
  BY DEF Finish, FinishesOk, FinishesError, Unwinds
<1>2. stack[t] # <<>> /\ Tail(stack[t]) \in Seq(Frame)
  BY <1>1, TopType
<1>3. PICK r \in Seq(Frame) : Alike(r, Tail(stack[t])) /\ stack' = [stack EXCEPT ![t] = r]
  <2>1. CASE FinishesOk(t) \/ FinishesError(t)
    <3>1. \E p, ok : Return(t, Tail(stack[t]), p, ok)
      BY <2>1 DEF FinishesOk, FinishesError
    <3> QED BY <1>2, <3>1, ReturnStack
  <2>2. CASE Unwinds(t)
    <3>1. stack' = [stack EXCEPT ![t] = Tail(stack[t])]
      BY <2>2 DEF Unwinds
    <3> QED BY <1>2, <3>1, AlikeSelf
  <2> QED BY <2>1, <2>2 DEF Finish
<1>4. SlotsSettle(t)
  BY SettlesSlots
<1> QED BY <1>2, <1>3, <1>4, PopKeeps DEF SlotsSettle

(* The seed of an async factory.                                           *)
LEMMA FramesSeedBegin ==
    ASSUME TypeOK, FramesOK, NEW k \in Keys, SeedBegin(k) PROVE FramesOK'
<1> DEFINE f == NewFrame(k, None, {})
           s == <<f>>
<1>0. /\ stack \in [Threads -> Seq(Frame)] /\ slot \in [Keys -> Slot]
      /\ \A l \in Keys : slot[l].state = "building" => slot[l].builder \in Threads
      /\ Seeder \in Threads /\ k \in AsyncKeys /\ slot[k].state # "ready" /\ slot' = slot
  BY SlotType, ConstantsAssumption DEF TypeOK, Types, SeedBegin, shared
<1>1. stack[Seeder] = <<>>
  BY <1>0 DEF SeedBegin, TypeOK, LocalsOK
<1>2. /\ f \in Frame /\ f.key = k /\ f.build = None /\ f.sees = {k}
      /\ f.todo = DependsOn(k)
  BY NewFrameType DEF NewFrame, DependsOn
<1>3. stack' = [stack EXCEPT ![Seeder] = s]
  BY DEF SeedBegin
<1> HIDE DEF f
<1>4. Len(s) = 1 /\ s[1] = f
  OBVIOUS
<1> HIDE DEF s
<1>5. stack'[Seeder] = s /\ \A u \in Threads \ {Seeder} : stack'[u] = stack[u]
  BY <1>0, <1>3
<1>6. SeedFrames'
  <2> SUFFICES ASSUME NEW u \in Threads, NEW i \in 1..Len(stack'[u]),
                      stack'[u][i].build = None
               PROVE  /\ u = Seeder /\ i = Len(stack'[u])
                      /\ stack'[u][i].key \in AsyncKeys
                      /\ slot'[stack'[u][i].key].state # "ready"
    BY DEF SeedFrames
  <2>1. CASE u = Seeder
    <3>1. i = 1 /\ stack'[u][i] = f
      BY <1>4, <1>5, <2>1
    <3> QED BY <1>0, <1>2, <1>4, <1>5, <2>1, <3>1
  <2>2. CASE u # Seeder
    BY <1>0, <1>5, <2>2 DEF FramesOK, SeedFrames
  <2> QED BY <2>1, <2>2
<1>7. Chains'
  <2>1. Chain(s)
    BY <1>2, <1>4 DEF Chain
  <2> QED BY <1>5, <2>1 DEF FramesOK, Chains
<1>8. BuildersAtWork'
  <2> SUFFICES ASSUME NEW l \in Keys, slot[l].state = "building"
               PROVE  \E i \in 1..Len(stack'[slot[l].builder]) :
                         /\ stack'[slot[l].builder][i].key = l
                         /\ stack'[slot[l].builder][i].build = slot[l].build
    BY <1>0 DEF BuildersAtWork
  <2>1. \E i \in 1..Len(stack[slot[l].builder]) :
           /\ stack[slot[l].builder][i].key = l
           /\ stack[slot[l].builder][i].build = slot[l].build
    BY DEF FramesOK, BuildersAtWork
  <2>2. slot[l].builder # Seeder
    BY <1>1, <2>1
  <2> QED BY <1>0, <1>5, <2>1, <2>2
<1> QED BY <1>6, <1>7, <1>8 DEF FramesOK

LEMMA FramesSeedEnds ==
    ASSUME TypeOK, FramesOK, SeedEnds PROVE FramesOK'
<1> DEFINE f == Top(Seeder)
<1>0. /\ slot \in [Keys -> Slot] /\ Seeder \in Threads /\ pc[Seeder] = "finish"
      /\ f.build = None
  BY ConstantsAssumption DEF TypeOK, Types, SeedEnds
<1>1. f.key \in Keys /\ Len(stack[Seeder]) = 1
  BY <1>0, TopFacts
<1>2. stack[Seeder] # <<>> /\ Tail(stack[Seeder]) \in Seq(Frame)
  BY <1>0, TopType
<1>3. \E p, ok : Return(Seeder, Tail(stack[Seeder]), p, ok)
  BY DEF SeedEnds
<1>4. PICK r \in Seq(Frame) :
             Alike(r, Tail(stack[Seeder])) /\ stack' = [stack EXCEPT ![Seeder] = r]
  BY <1>0, <1>2, <1>3, ReturnStack
<1>5. \A k \in Keys : slot[k].state = "building" => slot[k].build # None
  BY <1>0, SlotType, ConstantsAssumption
<1>6. slot' = slot \/ slot' = [slot EXCEPT ![f.key] = Ready(nextBuild)]
  BY DEF SeedEnds, shared
<1>7. SlotsSettle(Seeder)
  <2>1. CASE slot' = slot
    BY <1>0, <1>5, <2>1 DEF SlotsSettle
  <2>2. CASE slot' = [slot EXCEPT ![f.key] = Ready(nextBuild)]
    BY <1>0, <1>1, <1>5, <2>2 DEF SlotsSettle, Ready
  <2> QED BY <1>6, <2>1, <2>2
<1> QED BY <1>0, <1>2, <1>4, <1>7, PopKeeps DEF SlotsSettle

LEMMA FramesNext ==
    TypeOK /\ FramesOK /\ Targets /\ AnswersOK /\ [Next]_vars => FramesOK'
<1> SUFFICES ASSUME TypeOK, FramesOK, Targets, AnswersOK, [Next]_vars PROVE FramesOK'
  OBVIOUS
<1>1. ASSUME NEW t \in Threads, (\E k \in Keys : Resolve(t, k)) \/ WakesSpuriously(t)
      PROVE  FramesOK'
  BY <1>1, FramesSame DEF Resolve, WakesSpuriously, shared
<1>2. CASE UNCHANGED vars
  BY <1>2, FramesSame DEF vars
<1> QED
  BY <1>1, <1>2, FramesLoop, FramesFactory, FramesFinish, FramesSeedBegin, FramesSeedEnds
     DEF Next

-----------------------------------------------------------------------------
(* What the threads ask for.                                               *)

(* The keys below those of a stack stay below when it goes on or gets       *)
(* shorter; the thread's target is the only one a step sets.               *)
LEMMA TargetsKeep ==
    ASSUME Targets, NEW t \in Threads, NEW k \in Keys \cup {None},
           target' = [target EXCEPT ![t] = k], TypeOK,
           \A u \in Threads \ {t} : stack'[u] = stack[u] /\ carried'[u] = carried[u],
           IF k = None THEN carried'[t] = {}
           ELSE /\ \A i \in 1..Len(stack'[t]) : k \in Below(stack'[t][i].key)
                /\ \A x \in carried'[t] : k \in Below(x)
    PROVE  Targets'
<1>1. target'[t] = k /\ \A u \in Threads \ {t} : target'[u] = target[u]
  BY DEF TypeOK, Types
<1>2. TargetOK(t)'
  BY <1>1 DEF TargetOK
<1>3. ASSUME NEW u \in Threads \ {t} PROVE TargetOK(u)'
  <2>1. TargetOK(u)
    BY DEF Targets
  <2>2. stack'[u] = stack[u] /\ carried'[u] = carried[u] /\ target'[u] = target[u]
    BY <1>1
  <2> QED BY <2>1, <2>2 DEF TargetOK
<1> QED BY <1>2, <1>3 DEF Targets

LEMMA TargetsReturn ==
    ASSUME TypeOK, Targets, NEW t \in Threads, NEW s, NEW p, NEW ok, Return(t, s, p, ok)
    PROVE  Targets'
<1>1. /\ target' = [target EXCEPT ![t] = None] /\ carried'[t] = {}
      /\ \A u \in Threads \ {t} : stack'[u] = stack[u] /\ carried'[u] = carried[u]
  BY DEF Return, TypeOK, Types
<1>2. PICK k \in Keys \cup {None} : k = None
  OBVIOUS
<1>3. target' = [target EXCEPT ![t] = k]
  BY <1>1, <1>2
<1> QED BY <1>1, <1>2, <1>3, TargetsKeep

LEMMA TargetsSame ==
    ASSUME Targets, stack' = stack, target' = target, carried' = carried PROVE Targets'
BY DEF Targets, TargetOK

LEMMA TargetsAsk ==
    ASSUME TypeOK, FramesOK, Targets, NEW t \in Threads, NEW d \in Keys, Asks(t, d)
    PROVE  Targets'
<1> DEFINE f == Top(t)
<1>0. /\ pc[t] = "running" /\ d \in f.todo /\ target[t] = None
      /\ stack[t] \in Seq(Frame) /\ stack[t] # <<>>
  BY DEF Asks, Works, TypeOK, LocalsOK, Types
<1>1. /\ f \in Frame /\ f.key \in Keys /\ f.todo \subseteq DependsOn(f.key)
      /\ \A x \in f.sees : x \in Keys /\ (x = f.key \/ f.key \in Below(x))
      /\ \A i \in 1..Len(stack[t]) :
            stack[t][i].key \in Keys /\ (i # 1 => f.key \in Below(stack[t][i].key))
      /\ f = stack[t][1]
  BY <1>0, TopFacts
<1>2. d \in Below(f.key) /\ \A x \in Keys : f.key \in Below(x) => d \in Below(x)
  BY <1>0, <1>1, BelowFacts
<1>3. /\ \A i \in 1..Len(stack[t]) : d \in Below(stack[t][i].key)
      /\ \A x \in f.sees : d \in Below(x)
  BY <1>1, <1>2
<1>4. \E g \in Frame : g.key = f.key /\ stack' = [stack EXCEPT ![t] = <<g>> \o Tail(stack[t])]
  <2> DEFINE g == [f EXCEPT !.todo = @ \ {d}]
             h == [f EXCEPT !.todo = @ \ {d}, !.hurt = TRUE]
  <2>1. g \in Frame /\ g.key = f.key /\ h \in Frame /\ h.key = f.key
    BY <1>1 DEF Frame
  <2>2. \/ stack' = [stack EXCEPT ![t] = <<g>> \o Tail(stack[t])]
        \/ stack' = [stack EXCEPT ![t] = <<h>> \o Tail(stack[t])]
    BY DEF Asks
  <2> HIDE DEF g, h, f
  <2> QED BY <2>1, <2>2
<1> HIDE DEF f
<1>5. PICK g \in Frame :
             g.key = f.key /\ stack' = [stack EXCEPT ![t] = <<g>> \o Tail(stack[t])]
  BY <1>4
<1>6. /\ Tail(stack[t]) \in Seq(Frame) /\ Len(Tail(stack[t])) = Len(stack[t]) - 1
      /\ Len(stack[t]) \in Nat \ {0}
      /\ \A i \in 2..Len(stack[t]) : stack[t][i] = Tail(stack[t])[i - 1]
  BY <1>0, TailOf
<1>7. /\ Len(<<g>> \o Tail(stack[t])) = Len(stack[t])
      /\ (<<g>> \o Tail(stack[t]))[1] = g
      /\ \A i \in 2..Len(stack[t]) : (<<g>> \o Tail(stack[t]))[i] = stack[t][i]
  BY <1>6, PushPop
<1>8. /\ stack'[t] = <<g>> \o Tail(stack[t])
      /\ \A u \in Threads \ {t} : stack'[u] = stack[u]
  BY <1>5 DEF TypeOK, Types
<1>9. \A i \in 1..Len(stack'[t]) : d \in Below(stack'[t][i].key)
  BY <1>1, <1>3, <1>5, <1>6, <1>7, <1>8
<1>10. CASE d \in Passed(t, d)
  <2>1. target' = target /\ carried' = carried /\ carried[t] = {}
    BY <1>0, <1>10 DEF Asks, Targets, TargetOK
  <2>2. target' = [target EXCEPT ![t] = None] /\ carried'[t] = {}
    BY <1>0, <2>1 DEF TypeOK, Types
  <2>3. PICK k \in Keys \cup {None} : k = None
    OBVIOUS
  <2> QED BY <1>8, <2>1, <2>2, <2>3, TargetsKeep
<1>11. CASE d \notin Passed(t, d)
  <2>1. target' = [target EXCEPT ![t] = d] /\ carried' = [carried EXCEPT ![t] = Passed(t, d)]
    BY <1>11 DEF Asks
  <2>2. /\ carried'[t] = Passed(t, d)
        /\ \A u \in Threads \ {t} : carried'[u] = carried[u]
    BY <2>1 DEF TypeOK, Types
  <2>3. \A x \in Passed(t, d) : d \in Below(x)
    BY <1>3 DEF Passed, f
  <2>4. d # None
    BY ConstantsAssumption
  <2>5. d \in Keys \cup {None}
    OBVIOUS
  <2> QED BY <1>8, <1>9, <2>1, <2>2, <2>3, <2>4, <2>5, TargetsKeep
<1> QED BY <1>10, <1>11

LEMMA TargetsNext ==
    TypeOK /\ FramesOK /\ Targets /\ [Next]_vars => Targets'
<1> SUFFICES ASSUME TypeOK, FramesOK, Targets, [Next]_vars PROVE Targets'
  OBVIOUS
<1>1. ASSUME NEW t \in Threads, NEW k \in Keys, Resolve(t, k) PROVE Targets'
  <2>1. /\ pc[t] = "idle" /\ target' = [target EXCEPT ![t] = k]
        /\ stack' = stack /\ carried' = carried
    BY <1>1 DEF Resolve
  <2>2. stack[t] = <<>> /\ carried[t] = {}
    BY <2>1 DEF TypeOK, LocalsOK, Targets, TargetOK
  <2>3. k # None /\ k \in Keys \cup {None} /\ Len(<<>>) = 0
    BY ConstantsAssumption
  <2>4. /\ \A i \in 1..Len(stack'[t]) : k \in Below(stack'[t][i].key)
        /\ \A x \in carried'[t] : k \in Below(x)
    BY <2>1, <2>2, <2>3
  <2> QED BY <2>1, <2>3, <2>4, TargetsKeep
<1>2. ASSUME NEW t \in Threads, Loop(t) PROVE Targets'
  <2>1. CASE FindsReady(t) \/ Refused(t)
    <3>1. \E ok : Return(t, stack[t], pc, ok)
      BY <2>1 DEF FindsReady, Refused
    <3> QED BY <3>1, TargetsReturn
  <2>2. CASE StartsWaiting(t) \/ DropsRegistration(t)
    BY <2>2, TargetsSame DEF StartsWaiting, DropsRegistration
  <2>3. CASE StartsBuilding(t)
    <3>1. /\ target' = [target EXCEPT ![t] = None] /\ carried'[t] = {}
          /\ \A u \in Threads \ {t} : stack'[u] = stack[u] /\ carried'[u] = carried[u]
      BY <2>3 DEF StartsBuilding, TypeOK, Types
    <3>2. PICK k \in Keys \cup {None} : k = None
      OBVIOUS
    <3> QED BY <3>1, <3>2, TargetsKeep
  <2> QED BY <1>2, <2>1, <2>2, <2>3 DEF Loop
<1>3. ASSUME NEW t \in Threads, Factory(t) PROVE Targets'
  <2>1. CASE Succeeds(t) \/ Fails(t) \/ Panics(t)
    BY <2>1, TargetsSame DEF Succeeds, Fails, Panics
  <2> QED BY <1>3, <2>1, TargetsAsk DEF Factory
<1>4. ASSUME NEW t \in Threads, Finish(t) PROVE Targets'
  <2>1. CASE FinishesOk(t) \/ FinishesError(t)
    <3>1. \E p, ok : Return(t, Tail(stack[t]), p, ok)
      BY <2>1 DEF FinishesOk, FinishesError
    <3> QED BY <3>1, TargetsReturn
  <2>2. CASE Unwinds(t)
    <3>1. /\ target' = target /\ carried' = carried /\ pc[t] = "unwinding"
          /\ \A u \in Threads \ {t} : stack'[u] = stack[u]
      BY <2>2 DEF Unwinds, TypeOK, Types
    <3>2. target[t] = None /\ carried[t] = {}
      BY <3>1 DEF TypeOK, LocalsOK, Targets, TargetOK
    <3>3. PICK k \in Keys \cup {None} : k = None
      OBVIOUS
    <3>4. target' = [target EXCEPT ![t] = k]
      BY <3>1, <3>2, <3>3 DEF TypeOK, Types
    <3> QED BY <3>1, <3>2, <3>3, <3>4, TargetsKeep
  <2> QED BY <1>4, <2>1, <2>2 DEF Finish
<1>5. ASSUME NEW t \in Threads, WakesSpuriously(t) PROVE Targets'
  BY <1>5, TargetsSame DEF WakesSpuriously
<1>6. ASSUME NEW k \in Keys, SeedBegin(k) PROVE Targets'
  <2>1. /\ target' = target /\ carried' = carried /\ pc[Seeder] = "idle" /\ Seeder \in Threads
        /\ \A u \in Threads \ {Seeder} : stack'[u] = stack[u]
    BY <1>6, ConstantsAssumption DEF SeedBegin, TypeOK, Types
  <2>2. target[Seeder] = None /\ carried[Seeder] = {}
    BY <2>1 DEF TypeOK, LocalsOK, Targets, TargetOK
  <2>3. PICK n \in Keys \cup {None} : n = None
    OBVIOUS
  <2>4. target' = [target EXCEPT ![Seeder] = n]
    BY <2>1, <2>2, <2>3 DEF TypeOK, Types
  <2> QED BY <2>1, <2>2, <2>3, <2>4, TargetsKeep
<1>7. ASSUME SeedEnds PROVE Targets'
  <2>1. Seeder \in Threads /\ \E p, ok : Return(Seeder, Tail(stack[Seeder]), p, ok)
    BY <1>7, ConstantsAssumption DEF SeedEnds
  <2> QED BY <2>1, TargetsReturn
<1>8. CASE UNCHANGED vars
  BY <1>8, TargetsSame DEF vars
<1> QED
  BY <1>1, <1>2, <1>3, <1>4, <1>5, <1>6, <1>7, <1>8 DEF Next

-----------------------------------------------------------------------------
(* The edges of waiting threads.                                           *)

LEMMA EdgeFacts ==
    ASSUME TypeOK, EdgesLive, NEW t \in Threads, graph[t] # None
    PROVE  /\ pc[t] \in {"waiting", "woken"} /\ target[t] \in Keys
           /\ graph[t] \in Edge /\ registered[t] = graph[t].build
           /\ slot[target[t]] = Building(graph[t].builder, graph[t].build)
           /\ slot[target[t]].state = "building"
           /\ slot[target[t]].build = graph[t].build
           /\ slot[target[t]].builder = graph[t].builder
<1>1. /\ registered[t] = graph[t].build /\ graph[t] \in Edge
      /\ slot[target[t]] = Building(graph[t].builder, graph[t].build)
  BY DEF EdgesLive, TypeOK, Types
<1>2. registered[t] # None
  BY <1>1, ConstantsAssumption DEF Edge
<1>3. pc[t] \in {"waiting", "woken"} /\ target[t] \in Keys
  BY <1>2 DEF TypeOK, Types, LocalsOK
<1> QED BY <1>1, <1>3 DEF Building

(* Edges stay with their slots or go.                                      *)
LEMMA EdgesKeep ==
    ASSUME EdgesLive,
           \A u \in Threads :
              \/ graph'[u] = None
              \/ /\ graph'[u] = graph[u] /\ registered'[u] = registered[u]
                 /\ target'[u] = target[u] /\ slot'[target[u]] = slot[target[u]]
    PROVE  EdgesLive'
BY DEF EdgesLive

(* A thread without an edge does something else.                           *)
LEMMA EdgesOfOthers ==
    ASSUME TypeOK, EdgesLive, NEW t \in Threads, pc[t] \notin {"waiting", "woken"},
           graph' = graph, slot' = slot, registered' = registered,
           \A u \in Threads \ {t} : target'[u] = target[u]
    PROVE  EdgesLive'
<1>1. graph'[t] = None
  BY EdgeFacts
<1> QED BY <1>1, EdgesKeep

(* The waits for a build end with it.                                      *)
LEMMA EdgesSettle ==
    ASSUME TypeOK, EdgesLive, NEW t \in Threads, pc[t] \notin {"waiting", "woken"},
           NEW k \in Keys, NEW content,
           slot' = [slot EXCEPT ![k] = content], registered' = registered,
           graph' = IF slot[k].state = "building"
                    THEN WithoutWaits(graph, slot[k].build) ELSE graph,
           \A u \in Threads \ {t} : target'[u] = target[u]
    PROVE  EdgesLive'
<1> SUFFICES ASSUME NEW u \in Threads, graph'[u] # None
             PROVE  /\ graph'[u] = graph[u] /\ registered'[u] = registered[u]
                    /\ target'[u] = target[u] /\ slot'[target[u]] = slot[target[u]]
  BY EdgesKeep
<1>1. /\ graph'[u] = graph[u]
      /\ slot[k].state = "building" => graph[u].build # slot[k].build
  BY DEF WithoutWaits, TypeOK, Types
<1>2. /\ pc[u] \in {"waiting", "woken"} /\ target[u] \in Keys
      /\ slot[target[u]].state = "building" /\ slot[target[u]].build = graph[u].build
  BY <1>1, EdgeFacts
<1>3. target[u] # k /\ u # t
  BY <1>1, <1>2
<1> QED BY <1>1, <1>2, <1>3 DEF TypeOK, Types

LEMMA EdgesNext == TypeOK /\ EdgesLive /\ [Next]_vars => EdgesLive'
<1> SUFFICES ASSUME TypeOK, EdgesLive, [Next]_vars PROVE EdgesLive'
  OBVIOUS
<1>0. target \in [Threads -> Keys \cup {None}] /\ slot \in [Keys -> Slot]
  BY DEF TypeOK, Types
<1>r. ASSUME NEW t \in Threads, NEW s, NEW p, NEW ok, Return(t, s, p, ok)
      PROVE  \A u \in Threads \ {t} : target'[u] = target[u]
  BY <1>0, <1>r DEF Return
<1>1. ASSUME NEW t \in Threads, NEW k \in Keys, Resolve(t, k) PROVE EdgesLive'
  BY <1>0, <1>1, EdgesOfOthers DEF Resolve, shared
<1>2. ASSUME NEW t \in Threads, Loop(t) PROVE EdgesLive'
  <2>1. CASE FindsReady(t)
    <3>1. Return(t, stack[t], pc, TRUE)
      BY <2>1 DEF FindsReady
    <3> QED BY <1>r, <2>1, <3>1, EdgesOfOthers DEF FindsReady, shared
  <2>2. CASE Refused(t)
    <3>1. Return(t, stack[t], pc, FALSE)
      BY <2>2 DEF Refused
    <3> QED BY <1>r, <2>2, <3>1, EdgesOfOthers DEF Refused, shared
  <2>3. CASE StartsWaiting(t)
    <3>1. target[t] \in Keys /\ slot[target[t]].state = "building" /\ slot[target[t]] \in Slot
      BY <1>0, <2>3 DEF StartsWaiting, TypeOK, LocalsOK
    <3>2. slot[target[t]] = Building(slot[target[t]].builder, slot[target[t]].build)
      BY <3>1 DEF Slot, Vacant, Building
    <3>3. /\ graph'[t] = [builder |-> slot[target[t]].builder, build |-> slot[target[t]].build]
          /\ registered'[t] = slot[target[t]].build
          /\ \A u \in Threads \ {t} : graph'[u] = graph[u] /\ registered'[u] = registered[u]
          /\ slot' = slot /\ target' = target
      BY <2>3 DEF StartsWaiting, TypeOK, Types
    <3> QED BY <3>2, <3>3 DEF EdgesLive
  <2>4. CASE StartsBuilding(t)
    <3>1. /\ graph' = graph /\ registered' = registered /\ pc[t] = "look"
          /\ slot' = [slot EXCEPT ![target[t]] = Building(t, nextBuild)]
          /\ target[t] \in Keys /\ slot[target[t]].state = "vacant"
          /\ \A u \in Threads \ {t} : target'[u] = target[u]
      BY <1>0, <2>4 DEF StartsBuilding, Marked, TypeOK, LocalsOK
    <3> DEFINE k == target[t]
               content == Building(t, nextBuild)
    <3>2. /\ slot' = [slot EXCEPT ![k] = content] /\ slot[k].state # "building" /\ k \in Keys
      BY <3>1
    <3>3. graph' = IF slot[k].state = "building"
                   THEN WithoutWaits(graph, slot[k].build) ELSE graph
      BY <3>1, <3>2
    <3> HIDE DEF k, content
    <3> QED BY <3>1, <3>2, <3>3, EdgesSettle
  <2>5. CASE DropsRegistration(t)
    <3>1. graph'[t] = None
      <4>1. graph[t] # None => graph[t].build = registered[t]
        BY DEF EdgesLive
      <4> QED BY <2>5, <4>1 DEF DropsRegistration, TypeOK, Types
    <3>2. \A u \in Threads \ {t} :
             graph'[u] = graph[u] /\ registered'[u] = registered[u]
      BY <2>5 DEF DropsRegistration, TypeOK, Types
    <3>3. slot' = slot /\ target' = target
      BY <2>5 DEF DropsRegistration
    <3> QED BY <3>1, <3>2, <3>3, EdgesKeep
  <2> QED BY <1>2, <2>1, <2>2, <2>3, <2>4, <2>5 DEF Loop
<1>3. ASSUME NEW t \in Threads, Factory(t) PROVE EdgesLive'
  <2>1. pc[t] = "running" /\ graph' = graph /\ slot' = slot /\ registered' = registered
    BY <1>3 DEF Factory, Asks, Succeeds, Fails, Panics, Works, shared
  <2>2. \A u \in Threads \ {t} : target'[u] = target[u]
    BY <1>0, <1>3 DEF Factory, Asks, Succeeds, Fails, Panics
  <2> QED BY <2>1, <2>2, EdgesOfOthers
<1>4. ASSUME NEW t \in Threads, Finish(t) PROVE EdgesLive'
  <2> DEFINE f == Top(t)
  <2>1. pc[t] \in {"finish", "unwinding"} /\ registered' = registered
    BY <1>4 DEF Finish, FinishesOk, FinishesError, Unwinds
  <2>2. f.key \in Keys
    BY <2>1, TopType DEF Frame
  <2>3. \A u \in Threads \ {t} : target'[u] = target[u]
    <3>1. CASE Unwinds(t)
      BY <3>1 DEF Unwinds
    <3>2. CASE FinishesOk(t) \/ FinishesError(t)
      <4>1. \E p, ok : Return(t, Tail(stack[t]), p, ok)
        BY <3>2 DEF FinishesOk, FinishesError
      <4> QED BY <1>r, <4>1
    <3> QED BY <1>4, <3>1, <3>2 DEF Finish
  <2>4. \/ slot' = slot /\ graph' = graph
        \/ Owns(f) /\ \E content : Settle(f.key, content, f.build)
    BY <1>4 DEF Finish, FinishesOk, FinishesError, Unwinds
  <2> HIDE DEF f
  <2>5. CASE slot' = slot /\ graph' = graph
    BY <2>1, <2>3, <2>5, EdgesOfOthers
  <2>6. CASE Owns(f) /\ \E content : Settle(f.key, content, f.build)
    <3>1. PICK content : Settle(f.key, content, f.build)
      BY <2>6
    <3>2. /\ slot' = [slot EXCEPT ![f.key] = content]
          /\ graph' = IF slot[f.key].state = "building"
                      THEN WithoutWaits(graph, slot[f.key].build) ELSE graph
      BY <2>6, <3>1 DEF Settle, Owns
    <3> QED BY <2>1, <2>2, <2>3, <3>2, EdgesSettle
  <2> QED BY <2>4, <2>5, <2>6
<1>5. ASSUME NEW t \in Threads, WakesSpuriously(t) PROVE EdgesLive'
  BY <1>5, EdgesKeep DEF WakesSpuriously, shared
<1>6. ASSUME NEW k \in Keys, SeedBegin(k) PROVE EdgesLive'
  BY <1>6, EdgesKeep DEF SeedBegin, shared
<1>7. ASSUME SeedEnds PROVE EdgesLive'
  <2> DEFINE k == Top(Seeder).key
  <2>1. Seeder \in Threads /\ pc[Seeder] = "finish" /\ registered' = registered
    BY <1>7, ConstantsAssumption DEF SeedEnds
  <2>2. k \in Keys
    BY <2>1, TopType DEF Frame
  <2>3. \A u \in Threads \ {Seeder} : target'[u] = target[u]
    <3>1. \E p, ok : Return(Seeder, Tail(stack[Seeder]), p, ok)
      BY <1>7 DEF SeedEnds
    <3> QED BY <1>r, <2>1, <3>1
  <2>4. \/ slot' = slot /\ graph' = graph
        \/ /\ slot' = [slot EXCEPT ![k] = Ready(nextBuild)]
           /\ graph' = IF slot[k].state = "building"
                       THEN WithoutWaits(graph, slot[k].build) ELSE graph
    BY <1>7 DEF SeedEnds, shared
  <2> HIDE DEF k
  <2>5. CASE slot' = slot /\ graph' = graph
    BY <2>1, <2>3, <2>5, EdgesOfOthers
  <2>6. CASE /\ slot' = [slot EXCEPT ![k] = Ready(nextBuild)]
             /\ graph' = IF slot[k].state = "building"
                         THEN WithoutWaits(graph, slot[k].build) ELSE graph
    BY <2>1, <2>2, <2>3, <2>6, EdgesSettle
  <2> QED BY <2>4, <2>5, <2>6
<1>8. CASE UNCHANGED vars
  BY <1>8, EdgesKeep DEF vars
<1> QED
  BY <1>1, <1>2, <1>3, <1>4, <1>5, <1>6, <1>7, <1>8 DEF Next

-----------------------------------------------------------------------------
(* Answers.                                                                *)

LEMMA AnswersKeep ==
    ASSUME AnswersOK,
           \A u \in Threads :
              \/ pc'[u] # "finish" \/ answer'[u] # "ok"
              \/ pc'[u] = pc[u] /\ answer'[u] = answer[u] /\ stack'[u] = stack[u]
    PROVE  AnswersOK'
BY DEF AnswersOK, Top

(* A step of one thread that does not end with a success.                  *)
LEMMA AnswersOfOthers ==
    ASSUME TypeOK, AnswersOK, NEW t \in Threads,
           pc'[t] # "finish" \/ answer'[t] # "ok",
           \A u \in Threads \ {t} :
              /\ pc'[u] = pc[u] \/ pc'[u] = "woken"
              /\ answer'[u] = answer[u] /\ stack'[u] = stack[u]
    PROVE  AnswersOK'
BY AnswersKeep

LEMMA AnswersReturn ==
    ASSUME TypeOK, AnswersOK, NEW t \in Threads, NEW s, NEW ok, NEW p \in [Threads -> PCs],
           \A u \in Threads : p[u] = pc[u] \/ p[u] = "woken",
           Return(t, s, p, ok), \A u \in Threads \ {t} : answer'[u] = answer[u]
    PROVE  AnswersOK'
<1>1. /\ pc'[t] # "finish"
      /\ \A u \in Threads \ {t} : pc'[u] = p[u] /\ stack'[u] = stack[u]
  BY DEF Return, TypeOK, Types
<1> QED BY <1>1, AnswersOfOthers

LEMMA AnswersNext == TypeOK /\ AnswersOK /\ [Next]_vars => AnswersOK'
<1> SUFFICES ASSUME TypeOK, AnswersOK, [Next]_vars PROVE AnswersOK'
  OBVIOUS
<1>0. /\ pc \in [Threads -> PCs] /\ stack \in [Threads -> Seq(Frame)]
      /\ answer \in [Threads -> {"ok", "error", None}]
      /\ \A k : /\ Notified(k) \in [Threads -> PCs]
                /\ \A u \in Threads : Notified(k)[u] = pc[u] \/ Notified(k)[u] = "woken"
  BY NotifiedType DEF TypeOK, Types
<1>1. ASSUME NEW t \in Threads, NEW k \in Keys, Resolve(t, k) PROVE AnswersOK'
  BY <1>0, <1>1, AnswersOfOthers DEF Resolve
<1>2. ASSUME NEW t \in Threads, Loop(t) PROVE AnswersOK'
  <2>1. CASE FindsReady(t) \/ Refused(t)
    <3>1. answer' = answer /\ \E ok : Return(t, stack[t], pc, ok)
      BY <2>1 DEF FindsReady, Refused
    <3> QED BY <1>0, <3>1, AnswersReturn
  <2>2. CASE StartsWaiting(t)
    BY <1>0, <2>2, AnswersOfOthers DEF StartsWaiting
  <2>3. CASE StartsBuilding(t)
    BY <1>0, <2>3, AnswersOfOthers DEF StartsBuilding
  <2>4. CASE DropsRegistration(t)
    BY <1>0, <2>4, AnswersOfOthers DEF DropsRegistration
  <2> QED BY <1>2, <2>1, <2>2, <2>3, <2>4 DEF Loop
<1>3. ASSUME NEW t \in Threads, Factory(t) PROVE AnswersOK'
  <2>0. pc[t] = "running"
    BY <1>3 DEF Factory, Asks, Succeeds, Fails, Panics, Works
  <2>1. CASE \E d \in Keys : Asks(t, d)
    BY <1>0, <2>0, <2>1, AnswersOfOthers DEF Asks
  <2>2. CASE Succeeds(t)
    <3>1. /\ stack' = stack /\ (Top(t).key \in AsyncKeys => Top(t).build = None)
          /\ \A u \in Threads \ {t} : pc'[u] = pc[u] /\ answer'[u] = answer[u]
      BY <1>0, <2>2 DEF Succeeds, Works
    <3> QED BY <3>1 DEF AnswersOK, Top
  <2>3. CASE Fails(t)
    BY <1>0, <2>3, AnswersOfOthers DEF Fails
  <2>4. CASE Panics(t)
    BY <1>0, <2>4, AnswersOfOthers DEF Panics
  <2> QED BY <1>3, <2>1, <2>2, <2>3, <2>4 DEF Factory
<1>4. ASSUME NEW t \in Threads, Finish(t) PROVE AnswersOK'
  <2>1. CASE FinishesOk(t) \/ FinishesError(t)
    <3>1. /\ \E p, ok : (p = pc \/ p = Notified(Top(t).key)) /\ Return(t, Tail(stack[t]), p, ok)
          /\ answer' = [answer EXCEPT ![t] = None]
      BY <2>1 DEF FinishesOk, FinishesError
    <3>2. PICK p, ok : (p = pc \/ p = Notified(Top(t).key)) /\ Return(t, Tail(stack[t]), p, ok)
      BY <3>1
    <3>3. p \in [Threads -> PCs] /\ \A u \in Threads : p[u] = pc[u] \/ p[u] = "woken"
      BY <1>0, <3>2
    <3> QED BY <1>0, <3>1, <3>2, <3>3, AnswersReturn
  <2>2. CASE Unwinds(t)
    <3>1. /\ answer' = answer /\ pc'[t] # "finish"
          /\ \A u \in Threads \ {t} : stack'[u] = stack[u]
      BY <1>0, <2>2 DEF Unwinds
    <3>2. \A u \in Threads \ {t} : pc'[u] = pc[u] \/ pc'[u] = "woken"
      BY <1>0, <2>2 DEF Unwinds
    <3> QED BY <3>1, <3>2, AnswersOfOthers
  <2> QED BY <1>4, <2>1, <2>2 DEF Finish
<1>5. ASSUME NEW t \in Threads, WakesSpuriously(t) PROVE AnswersOK'
  BY <1>0, <1>5, AnswersOfOthers DEF WakesSpuriously
<1>6. ASSUME NEW k \in Keys, SeedBegin(k) PROVE AnswersOK'
  BY <1>0, <1>6, AnswersOfOthers, ConstantsAssumption DEF SeedBegin
<1>7. ASSUME SeedEnds PROVE AnswersOK'
  <2>1. /\ Seeder \in Threads /\ answer' = [answer EXCEPT ![Seeder] = None]
        /\ \E p, ok : /\ p = pc \/ p = Notified(Top(Seeder).key)
                      /\ Return(Seeder, Tail(stack[Seeder]), p, ok)
    BY <1>7, ConstantsAssumption DEF SeedEnds
  <2>2. PICK p, ok : /\ p = pc \/ p = Notified(Top(Seeder).key)
                     /\ Return(Seeder, Tail(stack[Seeder]), p, ok)
    BY <2>1
  <2>3. p \in [Threads -> PCs] /\ \A u \in Threads : p[u] = pc[u] \/ p[u] = "woken"
    BY <1>0, <2>2
  <2> QED BY <1>0, <2>1, <2>2, <2>3, AnswersReturn
<1>8. CASE UNCHANGED vars
  BY <1>8, AnswersKeep DEF vars
<1> QED
  BY <1>1, <1>2, <1>3, <1>4, <1>5, <1>6, <1>7, <1>8 DEF Next

-----------------------------------------------------------------------------
(* Instances that callers received.                                        *)

LEMMA InstanceKeeps ==
    ASSUME OneInstance, given' = given,
           \A k \in Keys : slot'[k] = slot[k] \/ slot[k].state # "ready"
    PROVE  OneInstance'
<1> SUFFICES ASSUME NEW k \in Keys, NEW v \in given[k] PROVE slot'[k] = Ready(v)
  BY DEF OneInstance, Ready
<1>1. slot[k] = Ready(v)
  BY DEF OneInstance
<1>2. slot[k].state = "ready"
  BY <1>1 DEF Ready
<1> QED BY <1>1, <1>2

LEMMA InstanceNext ==
    TypeOK /\ FramesOK /\ OneInstance /\ [Next]_vars => OneInstance'
<1> SUFFICES ASSUME TypeOK, FramesOK, OneInstance, [Next]_vars PROVE OneInstance'
  OBVIOUS
<1>0. slot \in [Keys -> Slot] /\ given \in [Keys -> SUBSET Nat]
  BY DEF TypeOK, Types
<1>1. ASSUME NEW t \in Threads, FindsReady(t) PROVE OneInstance'
  <2>1. target[t] \in Keys /\ slot[target[t]] \in Slot /\ slot[target[t]].state = "ready"
    BY <1>0, <1>1 DEF FindsReady, TypeOK, Types, LocalsOK
  <2>2. slot[target[t]] = Ready(slot[target[t]].value)
    BY <2>1 DEF Slot, Vacant, Ready
  <2>3. /\ slot' = slot
        /\ given' = [given EXCEPT ![target[t]] = @ \cup {slot[target[t]].value}]
    BY <1>1 DEF FindsReady, shared
  <2>4. \A k \in Keys \ {target[t]} : given'[k] = given[k]
    BY <1>0, <2>3
  <2>5. given'[target[t]] = given[target[t]] \cup {slot[target[t]].value}
    BY <1>0, <2>1, <2>3
  <2>6. ASSUME NEW k \in Keys, NEW v \in given'[k] PROVE slot[k] = Ready(v)
    BY <2>2, <2>4, <2>5, <2>6 DEF OneInstance
  <2> QED BY <2>3, <2>6 DEF OneInstance
<1>2. ASSUME NEW t \in Threads, StartsBuilding(t) PROVE OneInstance'
  <2>1. /\ slot' = [slot EXCEPT ![target[t]] = Building(t, nextBuild)]
        /\ slot[target[t]].state = "vacant" /\ given' = given
    BY <1>2 DEF StartsBuilding, Marked, history
  <2>2. \A k \in Keys : slot'[k] = slot[k] \/ slot[k].state # "ready"
    BY <1>0, <2>1
  <2> QED BY <2>1, <2>2, InstanceKeeps
<1>3. ASSUME NEW t \in Threads, FinishesOk(t) PROVE OneInstance'
  <2> DEFINE f == Top(t)
  <2>1. f.key \in Keys
    BY <1>3, TopType DEF FinishesOk, Frame
  <2>2. \/ slot' = slot /\ given' = given
        \/ /\ slot' = [slot EXCEPT ![f.key] = Ready(f.build)]
           /\ given' = [given EXCEPT ![f.key] = @ \cup {f.build}]
           /\ slot[f.key].state = "building"
    BY <1>3 DEF FinishesOk, Settle, Owns
  <2> HIDE DEF f
  <2>3. CASE slot' = slot /\ given' = given
    BY <2>3, InstanceKeeps
  <2>4. CASE /\ slot' = [slot EXCEPT ![f.key] = Ready(f.build)]
             /\ given' = [given EXCEPT ![f.key] = @ \cup {f.build}]
             /\ slot[f.key].state = "building"
    <3>1. given[f.key] = {}
      <4>1. SUFFICES ASSUME NEW v \in given[f.key] PROVE FALSE
        OBVIOUS
      <4>2. slot[f.key] = Ready(v)
        BY <2>1 DEF OneInstance
      <4> QED BY <2>4, <4>2 DEF Ready
    <3>2. /\ given'[f.key] = {f.build} /\ slot'[f.key] = Ready(f.build)
          /\ \A k \in Keys \ {f.key} : given'[k] = given[k] /\ slot'[k] = slot[k]
      BY <1>0, <2>1, <2>4, <3>1
    <3> QED BY <3>2 DEF OneInstance
  <2> QED BY <2>2, <2>3, <2>4
<1>4. ASSUME NEW t \in Threads, FinishesError(t) \/ Unwinds(t) PROVE OneInstance'
  <2> DEFINE f == Top(t)
  <2>1. \/ slot' = slot
        \/ slot[f.key].state = "building" /\ slot' = [slot EXCEPT ![f.key] = Vacant]
    BY <1>4 DEF FinishesError, Unwinds, Settle, Owns
  <2> HIDE DEF f
  <2>2. \A k \in Keys : slot'[k] = slot[k] \/ slot[k].state # "ready"
    BY <1>0, <2>1
  <2>3. given' = given
    BY <1>4 DEF FinishesError, Unwinds, history
  <2> QED BY <2>2, <2>3, InstanceKeeps
<1>5. ASSUME SeedEnds PROVE OneInstance'
  <2> DEFINE f == Top(Seeder)
  <2>1. Seeder \in Threads /\ pc[Seeder] = "finish" /\ f.build = None
    BY <1>5, ConstantsAssumption DEF SeedEnds
  <2>2. slot[f.key].state # "ready"
    BY <2>1, TopFacts
  <2>3. slot' = slot \/ slot' = [slot EXCEPT ![f.key] = Ready(nextBuild)]
    BY <1>5 DEF SeedEnds, shared
  <2> HIDE DEF f
  <2>4. \A k \in Keys : slot'[k] = slot[k] \/ slot[k].state # "ready"
    BY <1>0, <2>2, <2>3
  <2>5. given' = given
    BY <1>5 DEF SeedEnds, history
  <2> QED BY <2>4, <2>5, InstanceKeeps
<1>6. ASSUME slot' = slot, given' = given PROVE OneInstance'
  BY <1>6, InstanceKeeps
<1>7. ASSUME NEW t \in Threads, Loop(t) PROVE OneInstance'
  BY <1>1, <1>2, <1>6, <1>7 DEF Loop, Refused, StartsWaiting, DropsRegistration, shared, history
<1>8. ASSUME NEW t \in Threads, Factory(t) PROVE OneInstance'
  BY <1>6, <1>8 DEF Factory, Asks, Succeeds, Fails, Panics, shared, history
<1>9. ASSUME NEW t \in Threads, (\E k \in Keys : Resolve(t, k)) \/ WakesSpuriously(t)
      PROVE  OneInstance'
  BY <1>6, <1>9 DEF Resolve, WakesSpuriously, shared, history
<1>10. ASSUME NEW k \in Keys, SeedBegin(k) PROVE OneInstance'
  BY <1>6, <1>10 DEF SeedBegin, shared, history
<1>11. CASE UNCHANGED vars
  BY <1>6, <1>11 DEF vars
<1> QED
  BY <1>3, <1>4, <1>5, <1>7, <1>8, <1>9, <1>10, <1>11 DEF Next, Finish

-----------------------------------------------------------------------------
(* Cycles.                                                                 *)

(* What a factory asks for is below whatever its resolution stack holds.   *)
LEMMA AsksBelow ==
    ASSUME TypeOK, FramesOK, NEW t \in Threads, NEW d \in Keys, Asks(t, d)
    PROVE  \A x \in Passed(t, d) : d \in Below(x)
<1> DEFINE f == Top(t)
<1>1. pc[t] = "running" /\ d \in f.todo
  BY DEF Asks, Works
<1>2. /\ f.key \in Keys /\ f.todo \subseteq DependsOn(f.key)
      /\ \A x \in f.sees : x \in Keys /\ (x = f.key \/ f.key \in Below(x))
  BY <1>1, TopFacts
<1>3. d \in Below(f.key) /\ \A x \in Keys : f.key \in Below(x) => d \in Below(x)
  BY <1>1, <1>2, BelowFacts
<1> QED BY <1>2, <1>3 DEF Passed

(* The walk follows the edges of the threads it meets.                     *)
LEMMA WalkCloses ==
    ASSUME NEW g \in [Threads -> Edge \cup {None}], NEW b \in Threads
    PROVE  /\ b \in Walk(g, b) /\ Walk(g, b) \subseteq Threads
           /\ \A u \in Walk(g, b) : g[u] # None => g[u].builder \in Walk(g, b)
<1>1. b \in Walk(g, b) /\ Walk(g, b) \subseteq Threads
  BY DEF Walk
<1>2. ASSUME NEW u \in Walk(g, b), g[u] # None PROVE g[u].builder \in Walk(g, b)
  <2>1. g[u].builder \in Threads
    BY <1>1, <1>2 DEF Edge
  <2>2. ASSUME NEW S \in SUBSET Threads, b \in S,
               \A s \in S : g[s] # None => g[s].builder \in S
        PROVE  g[u].builder \in S
    <3>1. u \in S
      BY <2>2 DEF Walk
    <3> QED BY <1>2, <2>2, <3>1
  <2> QED BY <2>1, <2>2 DEF Walk
<1> QED BY <1>1, <1>2

(* The walk from a thread at work on d meets only threads at work on keys  *)
(* below d, so a thread it meets asks for such a key.                      *)
LEMMA CyclicIsReal ==
    ASSUME TypeOK, NoWaitCycle, FramesOK, Targets, EdgesLive,
           NEW t \in Threads, pc[t] = "look", slot[target[t]].state = "building",
           Cyclic(graph, slot[target[t]].builder, t)
    PROVE  OnCycle(target[t])
<1> DEFINE d == target[t]
           b == slot[d].builder
           S == {u \in Threads :
                    \E i \in 1..Len(stack[u]) : stack[u][i].key \in Below(d) \cup {d}}
<1>0. /\ d \in Keys /\ d # None /\ b \in Threads
      /\ graph \in [Threads -> Edge \cup {None}]
  BY SlotType, ConstantsAssumption DEF TypeOK, Types, LocalsOK
<1>1. t \in Walk(graph, b)
  <2>1. SUFFICES ASSUME Walk(graph, b) \subseteq Waiting(graph) PROVE FALSE
    BY DEF Cyclic
  <2>2. /\ Walk(graph, b) # {}
        /\ \A u \in Walk(graph, b) : graph[u] # None => graph[u].builder \in Walk(graph, b)
    BY <1>0, WalkCloses
  <2>3. \A u \in Walk(graph, b) : graph[u] # None
    BY <2>1 DEF Waiting
  <2> QED BY <2>1, <2>2, <2>3 DEF NoWaitCycle, Acyclic
<1>2. b \in S
  <2>1. \E i \in 1..Len(stack[b]) : stack[b][i].key = d
    BY <1>0 DEF FramesOK, BuildersAtWork
  <2> QED BY <1>0, <2>1
<1>3. ASSUME NEW u \in S, graph[u] # None PROVE graph[u].builder \in S
  <2>1. PICK i \in 1..Len(stack[u]) : stack[u][i].key \in Below(d) \cup {d}
    OBVIOUS
  <2>2. /\ target[u] \in Keys /\ target[u] # None /\ graph[u] \in Edge
        /\ slot[target[u]].state = "building"
        /\ slot[target[u]].builder = graph[u].builder
    BY <1>3, EdgeFacts, ConstantsAssumption
  <2>3. target[u] \in Below(stack[u][i].key)
    BY <2>1, <2>2 DEF Targets, TargetOK
  <2>4. target[u] \in Below(d)
    BY <1>0, <2>1, <2>3, BelowFacts
  <2>5. \E j \in 1..Len(stack[graph[u].builder]) : stack[graph[u].builder][j].key = target[u]
    BY <2>2 DEF FramesOK, BuildersAtWork
  <2>6. graph[u].builder \in Threads
    BY <2>2 DEF Edge
  <2> QED BY <2>4, <2>5, <2>6
<1>4. t \in S
  <2>1. S \in SUBSET Threads
    OBVIOUS
  <2> HIDE DEF S, d, b
  <2> QED BY <1>0, <1>1, <1>2, <1>3, <2>1, WalkWithin
<1>5. PICK i \in 1..Len(stack[t]) : stack[t][i].key \in Below(d) \cup {d}
  BY <1>4
<1>6. d \in Below(stack[t][i].key)
  BY <1>0, <1>5 DEF Targets, TargetOK
<1>7. d \in Below(d)
  BY <1>0, <1>5, <1>6, BelowFacts
<1> QED BY <1>0, <1>7, BelowFacts

LEMMA BlameNext ==
    OnceInv /\ [Next]_vars => OnlyRealCycles' /\ NeverWaitsTwice'
<1> SUFFICES ASSUME OnceInv, [Next]_vars PROVE OnlyRealCycles' /\ NeverWaitsTwice'
  OBVIOUS
<1>0. /\ TypeOK /\ NoWaitCycle /\ FramesOK /\ Targets /\ EdgesLive
      /\ OnlyRealCycles /\ NeverWaitsTwice
  BY DEF OnceInv
<1>1. ASSUME blamed' = blamed, twice' = twice PROVE OnlyRealCycles' /\ NeverWaitsTwice'
  BY <1>0, <1>1 DEF OnlyRealCycles, NeverWaitsTwice, OnCycle
<1>2. ASSUME NEW d, OnCycle(d), blamed' = blamed \cup {d}, twice' = twice
      PROVE  OnlyRealCycles' /\ NeverWaitsTwice'
  BY <1>0, <1>2 DEF OnlyRealCycles, NeverWaitsTwice, OnCycle
<1>3. ASSUME NEW t \in Threads, Refused(t) PROVE OnlyRealCycles' /\ NeverWaitsTwice'
  <2>1. pc[t] = "look" /\ slot[target[t]].state = "building"
    BY <1>3 DEF Refused
  <2>2. graph[t] = None
    BY <1>0, <2>1, EdgeFacts
  <2>3. /\ Cyclic(graph, slot[target[t]].builder, t)
        /\ blamed' = blamed \cup {target[t]} /\ twice' = (twice \/ FALSE)
    BY <1>3, <2>2 DEF Refused
  <2>4. OnCycle(target[t])
    BY <1>0, <2>1, <2>3, CyclicIsReal
  <2>5. twice' = FALSE /\ twice = FALSE
    BY <1>0, <2>3 DEF NeverWaitsTwice, TypeOK, Types
  <2> QED BY <1>2, <2>3, <2>4, <2>5
<1>4. ASSUME NEW t \in Threads, NEW d \in Keys, Asks(t, d)
      PROVE  OnlyRealCycles' /\ NeverWaitsTwice'
  <2>1. CASE d \in Passed(t, d)
    <3>1. d \in Below(d)
      BY <1>0, <1>4, <2>1, AsksBelow
    <3>2. OnCycle(d)
      BY <3>1, BelowFacts
    <3> QED BY <1>2, <1>4, <2>1, <3>2 DEF Asks
  <2>2. CASE d \notin Passed(t, d)
    BY <1>1, <1>4, <2>2 DEF Asks
  <2> QED BY <2>1, <2>2
<1>5. ASSUME NEW t \in Threads, Loop(t) PROVE OnlyRealCycles' /\ NeverWaitsTwice'
  BY <1>1, <1>3, <1>5
     DEF Loop, FindsReady, StartsWaiting, StartsBuilding, DropsRegistration, history
<1>6. ASSUME NEW t \in Threads, Factory(t) PROVE OnlyRealCycles' /\ NeverWaitsTwice'
  BY <1>1, <1>4, <1>6 DEF Factory, Succeeds, Fails, Panics, history
<1>7. ASSUME NEW t \in Threads, Finish(t) PROVE OnlyRealCycles' /\ NeverWaitsTwice'
  BY <1>1, <1>7 DEF Finish, FinishesOk, FinishesError, Unwinds, history
<1>8. ASSUME NEW t \in Threads, (\E k \in Keys : Resolve(t, k)) \/ WakesSpuriously(t)
      PROVE  OnlyRealCycles' /\ NeverWaitsTwice'
  BY <1>1, <1>8 DEF Resolve, WakesSpuriously, history
<1>9. ASSUME (\E k \in Keys : SeedBegin(k)) \/ SeedEnds
      PROVE  OnlyRealCycles' /\ NeverWaitsTwice'
  BY <1>1, <1>9 DEF SeedBegin, SeedEnds, history
<1>10. CASE UNCHANGED vars
  BY <1>1, <1>10 DEF vars
<1> QED
  BY <1>5, <1>6, <1>7, <1>8, <1>9, <1>10 DEF Next

-----------------------------------------------------------------------------
LEMMA OnceInit == Init => OnceInv
<1> SUFFICES ASSUME Init PROVE OnceInv
  OBVIOUS
<1>1. TypeOK
  BY InitType
<1>2. /\ \A t \in Threads : stack[t] = <<>> /\ pc[t] = "idle" /\ target[t] = None
                            /\ carried[t] = {} /\ graph[t] = None
      /\ \A k \in Keys : slot[k].state # "building" /\ given[k] = {}
      /\ blamed = {} /\ twice = FALSE
  BY DEF Init, Vacant
<1>3. FramesOK
  BY <1>2 DEF FramesOK, SeedFrames, Chains, Chain, BuildersAtWork
<1>4. NoWaitCycle /\ Targets /\ AnswersOK /\ EdgesLive
  BY <1>2 DEF NoWaitCycle, Acyclic, Waiting, Targets, TargetOK, AnswersOK, EdgesLive
<1>5. OneInstance /\ OnlyRealCycles /\ NeverWaitsTwice
  BY <1>2 DEF OneInstance, OnlyRealCycles, NeverWaitsTwice
<1> QED BY <1>1, <1>3, <1>4, <1>5 DEF OnceInv

LEMMA OnceNext == OnceInv /\ [Next]_vars => OnceInv'
<1> SUFFICES ASSUME OnceInv, [Next]_vars PROVE OnceInv'
  OBVIOUS
<1>1. TypeOK' /\ NoWaitCycle'
  BY TypeNext, WaitNext DEF OnceInv
<1>2. FramesOK' /\ Targets'
  BY FramesNext, TargetsNext DEF OnceInv
<1>3. AnswersOK' /\ EdgesLive' /\ OneInstance'
  BY AnswersNext, EdgesNext, InstanceNext DEF OnceInv
<1>4. OnlyRealCycles' /\ NeverWaitsTwice'
  BY BlameNext
<1> QED BY <1>1, <1>2, <1>3, <1>4 DEF OnceInv

(* Whatever the dependencies and however threads, panics, errors, seeds    *)
(* and wake-ups without a notification interleave, every caller of a key   *)
(* receives the instance that stays in its slot, and a provider is refused *)
(* as cyclic only when it depends on itself (get_or_try_insert_with,       *)
(* finish_provider_build, ProviderWaitRegistration::new).                  *)
THEOREM Once == Spec => []BuiltOnce
<1>1. OnceInv => BuiltOnce
  BY DEF OnceInv, BuiltOnce
<1> QED BY <1>1, OnceInit, OnceNext, PTL DEF Spec

(* A slot marked as building has its factory on the stack of the thread it *)
(* names (ProviderBuildReset, finish_provider_build), and no thread is     *)
(* refused because it was waiting already (ProviderWaitRegistration::new). *)
THEOREM AtWork == Spec => [](BuildersAtWork /\ NeverWaitsTwice)
<1>1. OnceInv => BuildersAtWork /\ NeverWaitsTwice
  BY DEF OnceInv, FramesOK
<1> QED BY <1>1, OnceInit, OnceNext, PTL DEF Spec

=============================================================================
