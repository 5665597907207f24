-------------------------- MODULE ApplicationProofs --------------------------
(***************************************************************************)
(* Proofs about Application and the ModuleRegistry it extends, for any     *)
(* modules, any module graphs and any number of microservices, calls and   *)
(* failures: modules are registered after what they import, are up while   *)
(* what they import is up, and serve only while they are all up.           *)
(***************************************************************************)
EXTENDS Application, TLAPS, SequenceTheorems

-----------------------------------------------------------------------------
(* Sequences of modules.                                                   *)

(* What a sequence holds after an element is appended.                     *)
LEMMA Appended ==
    ASSUME NEW S, NEW s \in Seq(S), NEW x \in S
    PROVE  /\ Append(s, x) \in Seq(S)
           /\ Len(Append(s, x)) = Len(s) + 1
           /\ \A i \in 1..Len(s) : Append(s, x)[i] = s[i]
           /\ Append(s, x)[Len(s) + 1] = x
           /\ ToSet(Append(s, x)) = ToSet(s) \cup {x}
<1>1. /\ Append(s, x) \in Seq(S) /\ Len(Append(s, x)) = Len(s) + 1
      /\ \A i \in 1..Len(s) : Append(s, x)[i] = s[i]
      /\ Append(s, x)[Len(s) + 1] = x
      /\ Len(s) \in Nat
  OBVIOUS
<1>2. DOMAIN s = 1..Len(s) /\ DOMAIN Append(s, x) = 1..(Len(s) + 1)
  OBVIOUS
<1> HIDE DEF ToSet
<1>3. ToSet(Append(s, x)) = ToSet(s) \cup {x}
  BY <1>1, <1>2 DEF ToSet
<1> QED BY <1>1, <1>3

(* And after the last one is taken away.                                   *)
LEMMA FrontOf ==
    ASSUME NEW S, NEW s \in Seq(S), s # <<>>
    PROVE  /\ Len(s) \in Nat \ {0}
           /\ Front(s) \in Seq(S) /\ Len(Front(s)) = Len(s) - 1
           /\ \A i \in 1..(Len(s) - 1) : Front(s)[i] = s[i]
           /\ Last(s) = s[Len(s)] /\ Last(s) \in S
<1>1. Len(s) \in Nat \ {0} /\ 1 \in Int /\ Len(s) - 1 \in 0..Len(s)
  OBVIOUS
<1>2. Last(s) = s[Len(s)] /\ Last(s) \in S
  BY <1>1 DEF Last
<1>3. PICK n \in 0..Len(s) : n = Len(s) - 1
  BY <1>1
<1>4. /\ SubSeq(s, 1, n) \in Seq(S)
      /\ Len(SubSeq(s, 1, n)) = IF 1 <= n THEN n - 1 + 1 ELSE 0
      /\ \A i \in 1..(n - 1 + 1) : SubSeq(s, 1, n)[i] = s[1 + i - 1]
  BY <1>1, SubSeqProperties
<1>5. Front(s) = SubSeq(s, 1, n)
  BY <1>3 DEF Front
<1>6. \A i \in 1..n : Front(s)[i] = s[i]
  BY <1>4, <1>5
<1> QED BY <1>1, <1>2, <1>3, <1>4, <1>5, <1>6

(* The elements of a sequence are what it holds.                           *)
LEMMA ToSetOf ==
    ASSUME NEW S, NEW s \in Seq(S), NEW x
    PROVE  x \in ToSet(s) <=> \E i \in 1..Len(s) : s[i] = x
BY DEF ToSet

-----------------------------------------------------------------------------
(* The registry.                                                           *)

(* A module that is being registered is not registered yet; each of its    *)
(* imports is still to come, registered, or being registered just now.     *)
VisitsOK ==
    \A p \in 1..Len(visiting) :
        /\ visiting[p].module \notin Registered
        /\ \A q \in 1..Len(visiting) :
              visiting[p].module = visiting[q].module => p = q
        /\ \A d \in graph.imports[visiting[p].module] :
              \/ d \in visiting[p].imports
              \/ d \in Registered
              \/ p < Len(visiting) /\ visiting[p + 1].module = d

RegInv == RegistryTypeOK /\ DependenciesFirst /\ VisitsOK

(* The builder starts with nothing registered.                             *)
LEMMA RegistryInitInv == RegistryInit => RegInv
<1> SUFFICES ASSUME RegistryInit PROVE RegInv
  OBVIOUS
<1>1. RegistryTypeOK
  BY GraphsAssumption DEF RegistryInit, RegistryTypeOK
<1>2. DependenciesFirst /\ VisitsOK
  BY DEF RegistryInit, DependenciesFirst, VisitsOK
<1> QED BY <1>1, <1>2 DEF RegInv

(* What the imports of a module are.                                       *)
LEMMA GraphTypes ==
    ASSUME RegistryTypeOK, NEW m \in Modules
    PROVE  /\ graph.imports[m] \subseteq Modules
           /\ graph.forward[m] \subseteq Modules
           /\ NewFrame(m) \in Frame /\ NewFrame(m).module = m
           /\ NewFrame(m).imports = graph.imports[m]
<1>1. graph.imports[m] \subseteq Modules /\ graph.forward[m] \subseteq Modules
  BY GraphsAssumption DEF RegistryTypeOK
<1> QED BY <1>1 DEF NewFrame, Frame

(* The modules in v are being registered; imports in X of the innermost    *)
(* are being dealt with.                                                   *)
Visits(v, X) ==
    /\ v \in Seq(Frame)
    /\ \A p \in 1..Len(v) :
          /\ v[p].module \notin Registered
          /\ \A q \in 1..Len(v) : v[p].module = v[q].module => p = q
          /\ \A d \in graph.imports[v[p].module] :
                \/ d \in v[p].imports
                \/ d \in Registered
                \/ p < Len(v) /\ v[p + 1].module = d
                \/ p = Len(v) /\ d \in X

(* The innermost module may leave an import in X aside.                    *)
LEMMA LeavesAside ==
    ASSUME RegInv, visiting # <<>>, NEW f \in Frame, NEW X,
           f.module = Top.module, Top.imports \subseteq f.imports \cup X
    PROVE  /\ Visits(Updated(f), X)
           /\ Len(Updated(f)) = Len(visiting)
           /\ \A p \in 1..Len(visiting) : Updated(f)[p].module = visiting[p].module
<1> DEFINE v == Updated(f)
<1>1. /\ Len(visiting) \in Nat \ {0}
      /\ Front(visiting) \in Seq(Frame) /\ Len(Front(visiting)) = Len(visiting) - 1
      /\ \A i \in 1..(Len(visiting) - 1) : Front(visiting)[i] = visiting[i]
      /\ Top = visiting[Len(visiting)]
  BY FrontOf DEF RegInv, RegistryTypeOK, Top
<1>2. /\ v \in Seq(Frame) /\ Len(v) = Len(visiting)
      /\ \A i \in 1..(Len(visiting) - 1) : v[i] = visiting[i]
      /\ v[Len(visiting)] = f
  BY <1>1, Appended DEF Updated
<1> HIDE DEF v
<1>3. \A p \in 1..Len(v) :
         /\ v[p].module = visiting[p].module
         /\ visiting[p].imports \subseteq v[p].imports \cup IF p = Len(v) THEN X ELSE {}
  <2> SUFFICES ASSUME NEW p \in 1..Len(v)
               PROVE  /\ v[p].module = visiting[p].module
                      /\ visiting[p].imports \subseteq
                            v[p].imports \cup IF p = Len(v) THEN X ELSE {}
    OBVIOUS
  <2>1. CASE p = Len(v)
    BY <1>1, <1>2, <2>1
  <2>2. CASE p # Len(v)
    BY <1>1, <1>2, <2>2
  <2> QED BY <2>1, <2>2
<1>4. Visits(v, X)
  <2> SUFFICES ASSUME NEW p \in 1..Len(v)
               PROVE  /\ v[p].module \notin Registered
                      /\ \A q \in 1..Len(v) : v[p].module = v[q].module => p = q
                      /\ \A d \in graph.imports[v[p].module] :
                            \/ d \in v[p].imports
                            \/ d \in Registered
                            \/ p < Len(v) /\ v[p + 1].module = d
                            \/ p = Len(v) /\ d \in X
    BY <1>2 DEF Visits
  <2>1. p \in 1..Len(visiting) /\ v[p].module = visiting[p].module
    BY <1>2, <1>3
  <2>2. v[p].module \notin Registered
    BY <2>1 DEF RegInv, VisitsOK
  <2>3. \A q \in 1..Len(v) : v[p].module = v[q].module => p = q
    BY <1>2, <1>3, <2>1 DEF RegInv, VisitsOK
  <2>4. ASSUME NEW d \in graph.imports[v[p].module],
               d \notin v[p].imports, d \notin Registered, ~(p = Len(v) /\ d \in X)
        PROVE  p < Len(v) /\ v[p + 1].module = d
    <3>1. d \in graph.imports[visiting[p].module] /\ d \notin visiting[p].imports
      BY <1>3, <2>1, <2>4
    <3>2. p < Len(visiting) /\ visiting[p + 1].module = d
      BY <2>1, <2>4, <3>1 DEF RegInv, VisitsOK
    <3>3. p + 1 \in 1..Len(v)
      BY <1>1, <1>2, <3>2
    <3> QED BY <1>2, <1>3, <3>2, <3>3
  <2> QED BY <2>2, <2>3, <2>4
<1> QED BY <1>2, <1>3, <1>4 DEF v

(* What it left aside may be registered.                                   *)
LEMMA AsideRegistered ==
    ASSUME NEW v, NEW X, Visits(v, X), X \subseteq Registered,
           visiting' = v, pending' = pending, graph' = graph
    PROVE  VisitsOK' /\ visiting' \in Seq(Frame)
BY DEF Visits, VisitsOK, Registered

(* Or be registered now.                                                   *)
LEMMA AsideEntered ==
    ASSUME RegistryTypeOK, NEW v, NEW m \in Modules, Visits(v, {m}),
           m \notin Registered, \A p \in 1..Len(v) : v[p].module # m,
           visiting' = Append(v, NewFrame(m)), pending' = pending, graph' = graph
    PROVE  VisitsOK' /\ visiting' \in Seq(Frame)
<1> DEFINE w == Append(v, NewFrame(m))
<1>1. /\ NewFrame(m) \in Frame /\ NewFrame(m).module = m
      /\ NewFrame(m).imports = graph.imports[m]
  BY GraphTypes
<1>2. /\ v \in Seq(Frame) /\ Len(v) \in Nat
      /\ w \in Seq(Frame) /\ Len(w) = Len(v) + 1
      /\ \A i \in 1..Len(v) : w[i] = v[i]
      /\ w[Len(v) + 1] = NewFrame(m)
  BY <1>1, Appended DEF Visits
<1> HIDE DEF w
<1>3. \A p \in 1..Len(w) :
         /\ w[p].module \notin Registered
         /\ \A q \in 1..Len(w) : w[p].module = w[q].module => p = q
         /\ \A d \in graph.imports[w[p].module] :
               \/ d \in w[p].imports
               \/ d \in Registered
               \/ p < Len(w) /\ w[p + 1].module = d
  <2> SUFFICES ASSUME NEW p \in 1..Len(w)
               PROVE  /\ w[p].module \notin Registered
                      /\ \A q \in 1..Len(w) : w[p].module = w[q].module => p = q
                      /\ \A d \in graph.imports[w[p].module] :
                            \/ d \in w[p].imports
                            \/ d \in Registered
                            \/ p < Len(w) /\ w[p + 1].module = d
    OBVIOUS
  <2>1. CASE p = Len(v) + 1
    BY <1>1, <1>2, <2>1
  <2>2. CASE p \in 1..Len(v)
    <3>1. w[p] = v[p] /\ v[p].module \notin Registered
      BY <1>2, <2>2 DEF Visits
    <3>2. ASSUME NEW q \in 1..Len(w), w[p].module = w[q].module PROVE p = q
      <4>1. CASE q \in 1..Len(v)
        BY <1>2, <2>2, <3>2, <4>1 DEF Visits
      <4>2. CASE q = Len(v) + 1
        BY <1>1, <1>2, <2>2, <3>2, <4>2
      <4> QED BY <1>2, <4>1, <4>2
    <3>3. ASSUME NEW d \in graph.imports[w[p].module],
                 d \notin w[p].imports, d \notin Registered
          PROVE  p < Len(w) /\ w[p + 1].module = d
      <4>1. \/ p < Len(v) /\ v[p + 1].module = d
            \/ p = Len(v) /\ d = m
        BY <2>2, <3>1, <3>3 DEF Visits
      <4> QED BY <1>1, <1>2, <2>2, <4>1
    <3> QED BY <3>1, <3>2, <3>3
  <2> QED BY <1>2, <2>1, <2>2
<1>4. visiting' = w
  BY DEF w
<1> QED BY <1>2, <1>3, <1>4 DEF VisitsOK, Registered

(* Nothing is being registered when the builder takes its next module.     *)
LEMMA EmptyVisits == ASSUME NEW X PROVE Visits(<<>>, X)
BY DEF Visits

(* A module not among those being registered.                              *)
LEMMA NotActive ==
    ASSUME RegistryTypeOK, NEW m, m \notin Active, NEW p \in 1..Len(visiting)
    PROVE  visiting[p].module # m
BY ToSetOf DEF RegistryTypeOK, Active

-----------------------------------------------------------------------------
(* Every step of the registry keeps its invariant.                         *)

LEMMA RegisterInv ==
    ASSUME RegInv, NEW m \in Modules, NEW v, Visits(v, {m}), Register(m, v),
           \A p \in 1..Len(v) : \E q \in 1..Len(visiting) :
              v[p].module = visiting[q].module,
           pending' = pending, graph' = graph
    PROVE  VisitsOK' /\ visiting' \in Seq(Frame) /\ refused' \in Modules \cup {None}
<1>1. CASE m \in Registered
  BY <1>1, AsideRegistered DEF Register, RegInv, RegistryTypeOK
<1>2. CASE m \notin Registered /\ m \in Active
  BY <1>2 DEF Register, RegInv, RegistryTypeOK, VisitsOK, Registered
<1>3. CASE m \notin Registered /\ m \notin Active
  <2>1. \A p \in 1..Len(v) : v[p].module # m
    BY <1>3, NotActive DEF RegInv
  <2> QED BY <1>3, <2>1, AsideEntered DEF Register, RegInv, RegistryTypeOK
<1> QED BY <1>1, <1>2, <1>3

LEMMA EntryNextInv == ASSUME RegInv, EntryNext PROVE RegInv'
<1> DEFINE m == Head(entry)
<1>1. m \in Modules /\ Tail(entry) \in Seq(Modules)
  BY DEF RegInv, RegistryTypeOK, EntryNext
<1> HIDE DEF m
<1>2. Register(m, <<>>)
  BY DEF EntryNext, m
<1>3. /\ VisitsOK' /\ visiting' \in Seq(Frame) /\ refused' \in Modules \cup {None}
  BY <1>1, <1>2, EmptyVisits, RegisterInv DEF EntryNext
<1> QED BY <1>1, <1>3 DEF RegInv, RegistryTypeOK, DependenciesFirst, EntryNext

LEMMA ImportNextInv ==
    ASSUME RegInv, NEW m \in Modules, ImportNext(m) PROVE RegInv'
<1> DEFINE f == [Top EXCEPT !.imports = @ \ {m}]
<1>1. Top \in Frame
  BY FrontOf DEF RegInv, RegistryTypeOK, ImportNext, Top
<1>2. f \in Frame /\ f.module = Top.module /\ Top.imports \subseteq f.imports \cup {m}
  BY <1>1 DEF Frame
<1> HIDE DEF f
<1>3. /\ Visits(Updated(f), {m}) /\ Len(Updated(f)) = Len(visiting)
      /\ \A p \in 1..Len(visiting) : Updated(f)[p].module = visiting[p].module
  BY <1>2, LeavesAside DEF ImportNext
<1>4. Register(m, Updated(f)) /\ pending' = pending /\ graph' = graph
  BY DEF ImportNext, f
<1>5. /\ VisitsOK' /\ visiting' \in Seq(Frame) /\ refused' \in Modules \cup {None}
  BY <1>3, <1>4, RegisterInv
<1> QED BY <1>5 DEF RegInv, RegistryTypeOK, DependenciesFirst, ImportNext

LEMMA ForwardImportNextInv ==
    ASSUME RegInv, NEW m \in Modules, ForwardImportNext(m) PROVE RegInv'
<1> DEFINE f == [Top EXCEPT !.forward = @ \ {m}]
<1>1. Top \in Frame
  BY FrontOf DEF RegInv, RegistryTypeOK, ForwardImportNext, Top
<1>2. f \in Frame /\ f.module = Top.module /\ f.imports = Top.imports
  BY <1>1 DEF Frame
<1> HIDE DEF f
<1>3. /\ Visits(Updated(f), {}) /\ Visits(Updated(f), {m})
      /\ Len(Updated(f)) = Len(visiting)
      /\ \A p \in 1..Len(visiting) : Updated(f)[p].module = visiting[p].module
  BY <1>2, LeavesAside DEF ForwardImportNext
<1>4. RegisterForward(m, Updated(f)) /\ pending' = pending /\ graph' = graph
  BY DEF ForwardImportNext, f
<1>5. VisitsOK' /\ visiting' \in Seq(Frame)
  <2>1. CASE m \in Registered \cup Active
    BY <1>3, <1>4, <2>1, AsideRegistered DEF RegisterForward
  <2>2. CASE m \notin Registered \cup Active
    <3>1. \A p \in 1..Len(Updated(f)) : Updated(f)[p].module # m
      BY <1>3, <2>2, NotActive DEF RegInv
    <3> QED BY <1>3, <1>4, <2>2, <3>1, AsideEntered DEF RegisterForward, RegInv
  <2> QED BY <2>1, <2>2
<1> QED
  BY <1>4, <1>5
  DEF RegInv, RegistryTypeOK, DependenciesFirst, ForwardImportNext, RegisterForward

(* The module that ends its registration finds all it imports registered.  *)
LEMMA RegistersInv == ASSUME RegInv, Registers PROVE RegInv'
<1> DEFINE n == Len(visiting)
           m == Top.module
<1>1. /\ n \in Nat \ {0} /\ Top = visiting[n] /\ Top \in Frame
      /\ Front(visiting) \in Seq(Frame) /\ Len(Front(visiting)) = n - 1
      /\ \A i \in 1..(n - 1) : Front(visiting)[i] = visiting[i]
  BY FrontOf DEF RegInv, RegistryTypeOK, Registers, Top
<1>2. m \in Modules /\ m = visiting[n].module
  BY <1>1 DEF Frame
<1> HIDE DEF n, m
<1>3. /\ pending' \in Seq(Modules) /\ Len(pending') = Len(pending) + 1
      /\ \A i \in 1..Len(pending) : pending'[i] = pending[i]
      /\ pending'[Len(pending) + 1] = m
      /\ Registered' = Registered \cup {m}
      /\ Len(pending) \in Nat
  BY <1>2, Appended DEF RegInv, RegistryTypeOK, Registers, Registered, m
<1>4. /\ visiting' \in Seq(Frame) /\ Len(visiting') = n - 1
      /\ \A i \in 1..(n - 1) : visiting'[i] = visiting[i]
      /\ graph' = graph /\ entry' = entry /\ refused' = refused
  BY <1>1 DEF Registers
<1>5. m \notin Registered /\ graph.imports[m] \subseteq Registered
  <2>1. visiting[n].imports = {}
    BY <1>1 DEF Registers
  <2> QED BY <1>1, <1>2, <2>1 DEF RegInv, VisitsOK, n
<1>6. RegistryTypeOK'
  BY <1>3, <1>4 DEF RegInv, RegistryTypeOK
<1>7. DependenciesFirst'
  <2>1. \A x : x \in Registered <=> \E i \in 1..Len(pending) : pending[i] = x
    BY ToSetOf DEF RegInv, RegistryTypeOK, Registered
  <2> SUFFICES ASSUME NEW i \in 1..Len(pending')
               PROVE  /\ \A j \in 1..Len(pending') : pending'[i] = pending'[j] => i = j
                      /\ \A d \in graph.imports[pending'[i]] :
                            \E j \in 1..(i - 1) : pending'[j] = d
    BY <1>4 DEF DependenciesFirst
  <2>2. CASE i \in 1..Len(pending)
    <3>1. pending'[i] = pending[i] /\ pending'[i] \in Registered
      BY <1>3, <2>1, <2>2
    <3>2. ASSUME NEW j \in 1..Len(pending'), pending'[i] = pending'[j] PROVE i = j
      <4>1. CASE j \in 1..Len(pending)
        BY <1>3, <2>2, <3>1, <3>2, <4>1 DEF RegInv, DependenciesFirst
      <4>2. CASE j = Len(pending) + 1
        BY <1>3, <1>5, <3>1, <3>2, <4>2
      <4> QED BY <1>3, <4>1, <4>2
    <3>3. ASSUME NEW d \in graph.imports[pending'[i]]
          PROVE  \E j \in 1..(i - 1) : pending'[j] = d
      <4>1. PICK j \in 1..(i - 1) : pending[j] = d
        BY <2>2, <3>1, <3>3 DEF RegInv, DependenciesFirst
      <4>2. pending'[j] = d
        BY <1>3, <2>2, <4>1
      <4> QED BY <4>2
    <3> QED BY <3>2, <3>3
  <2>3. CASE i = Len(pending) + 1
    BY <1>3, <1>5, <2>1, <2>3
  <2> QED BY <1>3, <2>2, <2>3
<1>8. VisitsOK'
  <2> SUFFICES ASSUME NEW p \in 1..Len(visiting')
               PROVE  /\ visiting'[p].module \notin Registered'
                      /\ \A q \in 1..Len(visiting') :
                            visiting'[p].module = visiting'[q].module => p = q
                      /\ \A d \in graph.imports[visiting'[p].module] :
                            \/ d \in visiting'[p].imports
                            \/ d \in Registered'
                            \/ p < Len(visiting') /\ visiting'[p + 1].module = d
    BY <1>4 DEF VisitsOK
  <2>1. p \in 1..n /\ p # n /\ n \in 1..n /\ visiting'[p] = visiting[p]
    BY <1>1, <1>4
  <2>2. visiting[p].module # m
    BY <1>2, <2>1 DEF RegInv, VisitsOK, n
  <2>3. visiting'[p].module \notin Registered'
    BY <1>3, <2>1, <2>2 DEF RegInv, VisitsOK, n
  <2>4. \A q \in 1..Len(visiting') : visiting'[p].module = visiting'[q].module => p = q
    BY <1>1, <1>4, <2>1 DEF RegInv, VisitsOK, n
  <2>5. ASSUME NEW d \in graph.imports[visiting'[p].module],
               d \notin visiting'[p].imports, d \notin Registered'
        PROVE  p < Len(visiting') /\ visiting'[p + 1].module = d
    <3>1. p < n /\ visiting[p + 1].module = d
      BY <1>3, <2>1, <2>5 DEF RegInv, VisitsOK, n
    <3>2. p + 1 # n
      BY <1>2, <1>3, <2>5, <3>1
    <3> QED BY <1>1, <1>4, <2>1, <3>1, <3>2
  <2> QED BY <2>3, <2>4, <2>5
<1> QED BY <1>6, <1>7, <1>8 DEF RegInv

LEMMA RegistryStepInv == RegInv /\ RegistryNext => RegInv'
BY EntryNextInv, ImportNextInv, ForwardImportNextInv, RegistersInv DEF RegistryNext

-----------------------------------------------------------------------------
(* A cycle is reported of real cycles only.                                *)

Successors(m) == graph.imports[m] \cup graph.forward[m]

(* Each module being registered is reached from those around it, and has   *)
(* left to import what it imports.                                         *)
Chained(v) ==
    /\ \A p \in 1..Len(v) : /\ v[p].imports \subseteq graph.imports[v[p].module]
                            /\ v[p].forward \subseteq graph.forward[v[p].module]
    /\ \A p, q \in 1..Len(v) : p < q => v[q].module \in Reaches(v[p].module)

CycleInv == RegInv /\ Chained(visiting) /\ RefusedOnCycle

LEMMA ReachesOn ==
    ASSUME RegistryTypeOK, NEW m \in Modules, NEW t \in {m} \cup Reaches(m),
           NEW d \in Successors(t)
    PROVE  d \in Reaches(m)
<1>1. t \in Modules
  BY DEF Reaches
<1>2. d \in Modules
  BY <1>1, GraphTypes DEF Successors
<1>3. ASSUME NEW S \in SUBSET Modules, Successors(m) \subseteq S,
             \A k \in S : Successors(k) \subseteq S
      PROVE  d \in S
  <2>1. CASE t = m
    BY <1>3, <2>1
  <2>2. CASE t \in Reaches(m)
    <3>1. t \in S
      BY <1>3, <2>2 DEF Reaches, Successors
    <3> QED BY <1>3, <3>1
  <2> QED BY <2>1, <2>2
<1> QED BY <1>2, <1>3 DEF Reaches, Successors

(* What the innermost module imports is reached from all of them.          *)
LEMMA ReachedFromAll ==
    ASSUME CycleInv, visiting # <<>>, NEW m \in Top.imports \cup Top.forward,
           NEW p \in 1..Len(visiting)
    PROVE  m \in Reaches(visiting[p].module)
<1>1. /\ Len(visiting) \in Nat \ {0} /\ Top = visiting[Len(visiting)] /\ Top \in Frame
      /\ visiting[p] \in Frame /\ RegistryTypeOK
  BY FrontOf DEF CycleInv, RegInv, RegistryTypeOK, Top
<1>2. m \in Successors(Top.module)
  BY <1>1 DEF CycleInv, Chained, Successors
<1>3. Top.module \in {visiting[p].module} \cup Reaches(visiting[p].module)
  BY <1>1 DEF CycleInv, Chained
<1>4. visiting[p].module \in Modules
  BY <1>1 DEF Frame
<1> QED BY <1>1, <1>2, <1>3, <1>4, ReachesOn

LEMMA ChainKept ==
    ASSUME CycleInv, visiting # <<>>, NEW f \in Frame, f.module = Top.module,
           f.imports \subseteq Top.imports, f.forward \subseteq Top.forward
    PROVE  Chained(Updated(f))
<1> DEFINE v == Updated(f)
<1>1. /\ Len(visiting) \in Nat \ {0}
      /\ Front(visiting) \in Seq(Frame) /\ Len(Front(visiting)) = Len(visiting) - 1
      /\ \A i \in 1..(Len(visiting) - 1) : Front(visiting)[i] = visiting[i]
      /\ Top = visiting[Len(visiting)]
  BY FrontOf DEF CycleInv, RegInv, RegistryTypeOK, Top
<1>2. /\ v \in Seq(Frame) /\ Len(v) = Len(visiting)
      /\ \A i \in 1..(Len(visiting) - 1) : v[i] = visiting[i]
      /\ v[Len(visiting)] = f
  BY <1>1, Appended DEF Updated
<1> HIDE DEF v
<1>3. ASSUME NEW p \in 1..Len(v)
      PROVE  /\ v[p].module = visiting[p].module
             /\ v[p].imports \subseteq visiting[p].imports
             /\ v[p].forward \subseteq visiting[p].forward
  <2>1. CASE p = Len(v)
    BY <1>1, <1>2, <2>1
  <2>2. CASE p # Len(v)
    BY <1>1, <1>2, <2>2
  <2> QED BY <2>1, <2>2
<1>4. ASSUME NEW p \in 1..Len(v)
      PROVE  /\ v[p].imports \subseteq graph.imports[v[p].module]
             /\ v[p].forward \subseteq graph.forward[v[p].module]
  BY <1>2, <1>3 DEF CycleInv, Chained
<1>5. ASSUME NEW p \in 1..Len(v), NEW q \in 1..Len(v), p < q
      PROVE  v[q].module \in Reaches(v[p].module)
  BY <1>2, <1>3, <1>5 DEF CycleInv, Chained
<1>6. Chained(v)
  BY <1>4, <1>5 DEF Chained
<1> QED BY <1>6 DEF v

LEMMA ChainGrows ==
    ASSUME RegistryTypeOK, NEW v \in Seq(Frame), Chained(v), NEW m \in Modules,
           \A p \in 1..Len(v) : m \in Reaches(v[p].module)
    PROVE  Chained(Append(v, NewFrame(m)))
<1> DEFINE w == Append(v, NewFrame(m))
<1>1. /\ NewFrame(m) \in Frame /\ NewFrame(m).module = m
      /\ NewFrame(m).imports = graph.imports[m]
      /\ NewFrame(m).forward = graph.forward[m]
  BY GraphTypes DEF NewFrame
<1>2. /\ Len(v) \in Nat /\ Len(w) = Len(v) + 1
      /\ \A i \in 1..Len(v) : w[i] = v[i]
      /\ w[Len(v) + 1] = NewFrame(m)
  BY <1>1, Appended
<1> HIDE DEF w
<1>3. ASSUME NEW p \in 1..Len(w)
      PROVE  /\ w[p].imports \subseteq graph.imports[w[p].module]
             /\ w[p].forward \subseteq graph.forward[w[p].module]
  <2>1. CASE p \in 1..Len(v)
    BY <1>2, <2>1 DEF Chained
  <2>2. CASE p = Len(v) + 1
    BY <1>1, <1>2, <2>2
  <2> QED BY <1>2, <2>1, <2>2
<1>4. ASSUME NEW p \in 1..Len(w), NEW q \in 1..Len(w), p < q
      PROVE  w[q].module \in Reaches(w[p].module)
  <2>1. p \in 1..Len(v) /\ w[p] = v[p]
    BY <1>2, <1>4
  <2>2. CASE q \in 1..Len(v)
    BY <1>2, <1>4, <2>1, <2>2 DEF Chained
  <2>3. CASE q = Len(v) + 1
    BY <1>1, <1>2, <2>1, <2>3
  <2> QED BY <1>2, <2>2, <2>3
<1>5. Chained(w)
  BY <1>3, <1>4 DEF Chained
<1> QED BY <1>5 DEF w

LEMMA ChainCarried ==
    ASSUME NEW v, Chained(v), graph' = graph, visiting' = v
    PROVE  Chained(visiting)'
BY DEF Chained, Reaches

LEMMA CycleStep == ASSUME CycleInv, RegistryNext PROVE CycleInv'
<1>1. /\ RegInv /\ RegistryTypeOK /\ refused = None /\ graph' = graph
      /\ RegInv'
  BY RegistryStepInv DEF CycleInv, RegInv, RegistryNext, EntryNext, ImportNext,
     ForwardImportNext, Registers, Registering
<1>2. visiting \in Seq(Frame) /\ Chained(visiting)
  BY <1>1 DEF CycleInv, RegistryTypeOK
<1>3. ASSUME EntryNext PROVE Chained(visiting)' /\ RefusedOnCycle'
  <2>1. PICK m \in Modules : m = Head(entry)
    BY <1>1, <1>3 DEF RegistryTypeOK, EntryNext
  <2>2. visiting = <<>> /\ Register(m, <<>>)
    BY <1>3, <2>1 DEF EntryNext
  <2>3. m \notin Active
    BY <2>2 DEF Active, ToSet
  <2>4. refused' = None /\ (visiting' = <<>> \/ visiting' = Append(<<>>, NewFrame(m)))
    BY <1>1, <2>2, <2>3 DEF Register
  <2>5. <<>> \in Seq(Frame) /\ Chained(<<>>)
    BY DEF Chained
  <2>6. Chained(Append(<<>>, NewFrame(m)))
    <3>1. PICK v \in Seq(Frame) : v = <<>>
      BY <2>5
    <3>2. Chained(v) /\ \A p \in 1..Len(v) : m \in Reaches(v[p].module)
      BY <2>5, <3>1
    <3>3. Chained(Append(v, NewFrame(m)))
      BY <1>1, <3>2, ChainGrows
    <3> QED BY <3>1, <3>3
  <2>7. Chained(visiting)'
    BY <1>1, <2>4, <2>5, <2>6, ChainCarried
  <2> QED BY <2>4, <2>7 DEF RefusedOnCycle
<1>4. ASSUME NEW m \in Modules, ImportNext(m)
      PROVE  Chained(visiting)' /\ RefusedOnCycle'
  <2> DEFINE f == [Top EXCEPT !.imports = @ \ {m}]
  <2>1. /\ visiting # <<>> /\ m \in Top.imports /\ Top \in Frame
    BY <1>2, <1>4, FrontOf DEF ImportNext, Top
  <2>2. /\ f \in Frame /\ f.module = Top.module
        /\ f.imports \subseteq Top.imports /\ f.forward \subseteq Top.forward
        /\ Top.imports \subseteq f.imports \cup {m}
    BY <2>1 DEF Frame
  <2>3. Register(m, Updated(f))
    BY <1>4 DEF ImportNext
  <2> HIDE DEF f
  <2>4. Chained(Updated(f))
    BY <2>1, <2>2, ChainKept
  <2>5. /\ Updated(f) \in Seq(Frame) /\ Len(Updated(f)) = Len(visiting)
        /\ \A p \in 1..Len(visiting) : Updated(f)[p].module = visiting[p].module
    BY <1>1, <2>1, <2>2, LeavesAside DEF Visits
  <2>6. \A p \in 1..Len(visiting) : m \in Reaches(visiting[p].module)
    BY <2>1, ReachedFromAll
  <2>7. CASE visiting' = Updated(f) /\ refused' = refused
    BY <1>1, <2>4, <2>7, ChainCarried DEF RefusedOnCycle
  <2>8. CASE m \in Active /\ refused' = m /\ visiting' = visiting
    <3>1. PICK p \in 1..Len(visiting) : visiting[p].module = m
      BY <1>2, <2>8, ToSetOf DEF Active
    <3>2. m \in Reaches(m)
      BY <2>6, <3>1
    <3> QED BY <1>1, <1>2, <2>8, <3>2, ChainCarried DEF RefusedOnCycle, Reaches
  <2>9. CASE visiting' = Append(Updated(f), NewFrame(m)) /\ refused' = refused
    <3>1. Chained(Append(Updated(f), NewFrame(m)))
      BY <1>1, <2>4, <2>5, <2>6, ChainGrows
    <3> QED BY <1>1, <2>9, <3>1, ChainCarried DEF RefusedOnCycle
  <2> QED BY <2>3, <2>7, <2>8, <2>9 DEF Register
<1>5. ASSUME NEW m \in Modules, ForwardImportNext(m)
      PROVE  Chained(visiting)' /\ RefusedOnCycle'
  <2> DEFINE f == [Top EXCEPT !.forward = @ \ {m}]
  <2>1. /\ visiting # <<>> /\ m \in Top.forward /\ Top \in Frame
    BY <1>2, <1>5, FrontOf DEF ForwardImportNext, Top
  <2>2. /\ f \in Frame /\ f.module = Top.module
        /\ f.imports \subseteq Top.imports /\ f.forward \subseteq Top.forward
        /\ Top.imports \subseteq f.imports \cup {}
    BY <2>1 DEF Frame
  <2>3. RegisterForward(m, Updated(f))
    BY <1>5 DEF ForwardImportNext
  <2> HIDE DEF f
  <2>4. Chained(Updated(f))
    BY <2>1, <2>2, ChainKept
  <2>5. /\ Updated(f) \in Seq(Frame) /\ Len(Updated(f)) = Len(visiting)
        /\ \A p \in 1..Len(visiting) : Updated(f)[p].module = visiting[p].module
    BY <1>1, <2>1, <2>2, LeavesAside DEF Visits
  <2>6. \A p \in 1..Len(visiting) : m \in Reaches(visiting[p].module)
    BY <2>1, ReachedFromAll
  <2>7. RefusedOnCycle'
    BY <1>1, <2>3 DEF RegisterForward, RefusedOnCycle
  <2>8. CASE visiting' = Updated(f)
    BY <1>1, <2>4, <2>7, <2>8, ChainCarried
  <2>9. CASE visiting' = Append(Updated(f), NewFrame(m))
    <3>1. Chained(Append(Updated(f), NewFrame(m)))
      BY <1>1, <2>4, <2>5, <2>6, ChainGrows
    <3> QED BY <1>1, <2>7, <2>9, <3>1, ChainCarried
  <2> QED BY <2>3, <2>8, <2>9 DEF RegisterForward
<1>6. ASSUME Registers PROVE Chained(visiting)' /\ RefusedOnCycle'
  <2>1. /\ visiting' = Front(visiting) /\ Len(visiting) \in Nat \ {0}
        /\ Len(Front(visiting)) = Len(visiting) - 1
        /\ \A i \in 1..(Len(visiting) - 1) : Front(visiting)[i] = visiting[i]
    BY <1>2, <1>6, FrontOf DEF Registers
  <2>2. Chained(Front(visiting))
    BY <1>2, <2>1 DEF Chained
  <2>3. refused' = refused
    BY <1>6 DEF Registers
  <2> QED BY <1>1, <2>1, <2>2, <2>3, ChainCarried DEF RefusedOnCycle
<1> QED BY <1>1, <1>3, <1>4, <1>5, <1>6 DEF RegistryNext, CycleInv

-----------------------------------------------------------------------------
(* The agendas.                                                            *)

Own(m) == [module |-> m, part |-> "module"]

Providers(m) == [module |-> m, part |-> "providers"]

(* Two positions of an agenda for each module.                             *)
LEMMA Halves ==
    /\ \A k \in Int : /\ (2 * k) \div 2 = k /\ (2 * k) % 2 = 0
                     /\ (2 * k + 1) \div 2 = k /\ (2 * k + 1) % 2 = 1
    /\ \A i \in Int : \E k \in Int : i = 2 * k \/ i = 2 * k + 1
OBVIOUS

(* Three rounds of n positions.                                            *)
LEMMA Rounds ==
    ASSUME NEW n \in Nat \ {0}, NEW a \in 0..(3 * n - 1)
    PROVE  /\ a % n \in 0..(n - 1) /\ a % n <= a /\ a \div n \in 0..2
           /\ a < n => a % n = a
OBVIOUS

UpwardsShape(stage) ==
    /\ Size \in Nat /\ Len(Upwards(stage)) = 2 * Size
    /\ \A i \in 1..(2 * Size) :
          /\ Upwards(stage)[i].stage = stage
          /\ \E k \in 1..Size :
                \/ i = 2 * k - 1 /\ Upwards(stage)[i].hook = Providers(pending[k])
                \/ i = 2 * k /\ Upwards(stage)[i].hook = Own(pending[k])
    /\ \A k \in 1..Size :
          /\ Upwards(stage)[2 * k - 1].hook = Providers(pending[k])
          /\ Upwards(stage)[2 * k].hook = Own(pending[k])

(* On the way up the hooks of a module follow those of its providers.      *)
LEMMA UpwardsHooks ==
    ASSUME RegistryTypeOK, NEW stage
    PROVE  UpwardsShape(stage)
<1>1. Size \in Nat
  BY DEF RegistryTypeOK, Size
<1> HIDE DEF Size
<1>2. Len(Upwards(stage)) = 2 * Size
  BY <1>1 DEF Upwards
<1>3. ASSUME NEW k \in 1..Size
      PROVE  /\ 2 * k - 1 \in 1..(2 * Size) /\ 2 * k \in 1..(2 * Size)
             /\ Upwards(stage)[2 * k - 1].hook = Providers(pending[k])
             /\ Upwards(stage)[2 * k].hook = Own(pending[k])
  <2>1. /\ 2 * k - 1 \in 1..(2 * Size) /\ 2 * k \in 1..(2 * Size)
        /\ 2 * k - 1 + 1 = 2 * k /\ 2 * k - 1 = 2 * (k - 1) + 1
    BY <1>1, <1>3
  <2>2. /\ (2 * k - 1 + 1) \div 2 = k /\ (2 * k - 1) % 2 = 1
        /\ (2 * k + 1) \div 2 = k /\ (2 * k) % 2 = 0
    BY <2>1, Halves
  <2> QED BY <2>1, <2>2 DEF Upwards, Providers, Own
<1>4. ASSUME NEW i \in 1..(2 * Size)
      PROVE  \E k \in 1..Size : i = 2 * k - 1 \/ i = 2 * k
  <2>1. PICK k \in Int : i = 2 * k \/ i = 2 * k + 1
    BY Halves
  <2>2. CASE i = 2 * k
    BY <1>1, <2>2
  <2>3. CASE i = 2 * k + 1
    <3>1. k + 1 \in 1..Size /\ i = 2 * (k + 1) - 1
      BY <1>1, <2>3
    <3> QED BY <3>1
  <2> QED BY <2>1, <2>2, <2>3
<1>5. \A i \in 1..(2 * Size) : Upwards(stage)[i].stage = stage
  BY DEF Upwards
<1> QED BY <1>1, <1>2, <1>3, <1>4, <1>5 DEF UpwardsShape

(* A position of the shutdown agenda is a position of one of its rounds.   *)
LEMMA ShutdownAt ==
    ASSUME RegistryTypeOK, NEW i \in 1..(6 * Size)
    PROVE  \E j \in 0..(2 * Size - 1) :
              /\ j <= i - 1 /\ (i <= 2 * Size => j = i - 1)
              /\ ShutdownAgenda[i].stage \in Range(Stages)
              /\ ShutdownAgenda[i].hook =
                    [module |-> pending[Size - (j \div 2)],
                     part |-> IF j % 2 = 0 THEN "module" ELSE "providers"]
<1>1. Size \in Nat
  BY DEF RegistryTypeOK, Size
<1> HIDE DEF Size
<1>2. PICK n \in Nat \ {0} : n = 2 * Size
  BY <1>1
<1>3. PICK a \in 0..(3 * n - 1) : a = i - 1
  BY <1>1, <1>2
<1>4. PICK j \in 0..(n - 1) : j = a % n /\ j <= a /\ (a < n => j = a)
  BY Rounds
<1>5. PICK r \in 0..2 : r = a \div n
  BY Rounds
<1>6. ShutdownAgenda[i] =
        [stage |-> Stages[r + 1],
         hook |-> [module |-> pending[Size - (j \div 2)],
                   part |-> IF j % 2 = 0 THEN "module" ELSE "providers"]]
  BY <1>2, <1>3, <1>4, <1>5 DEF ShutdownAgenda
<1>7. Stages[r + 1] \in Range(Stages)
  <2>1. DOMAIN Stages = 1..3 /\ r + 1 \in 1..3
    BY DEF Stages
  <2> QED BY <2>1 DEF Range
<1>8. j \in 0..(2 * Size - 1) /\ j <= i - 1 /\ (i <= 2 * Size => j = i - 1)
  BY <1>1, <1>2, <1>3, <1>4
<1> QED BY <1>6, <1>7, <1>8

(* The bootstrap ends with the gateways.                                   *)
LEMMA BootstrapHooks ==
    ASSUME RegistryTypeOK
    PROVE  /\ Size \in Nat /\ Len(BootstrapAgenda) = 2 * Size + 1
           /\ \A i \in 1..(2 * Size) :
                 /\ BootstrapAgenda[i].stage = "bootstrap"
                 /\ \E k \in 1..Size :
                       \/ i = 2 * k - 1 /\ BootstrapAgenda[i].hook = Providers(pending[k])
                       \/ i = 2 * k /\ BootstrapAgenda[i].hook = Own(pending[k])
           /\ \A k \in 1..Size :
                 /\ BootstrapAgenda[2 * k - 1].hook = Providers(pending[k])
                 /\ BootstrapAgenda[2 * k].hook = Own(pending[k])
           /\ BootstrapAgenda[2 * Size + 1] = [stage |-> "bootstrap", hook |-> Gateways]
<1> DEFINE U == Upwards("bootstrap")
<1>1. UpwardsShape("bootstrap")
  BY UpwardsHooks
<1>2. PICK n \in Nat : n = 2 * Size /\ Size \in Nat
  BY <1>1 DEF UpwardsShape
<1>3. U = [i \in 1..n |-> U[i]]
  BY <1>2 DEF Upwards
<1>4. PICK T : \A i \in 1..n : U[i] \in T
  <2> WITNESS {U[i] : i \in 1..n}
  <2> QED OBVIOUS
<1>5. U \in Seq(T \cup {[stage |-> "bootstrap", hook |-> Gateways]})
  BY <1>3, <1>4
<1>6. /\ Len(BootstrapAgenda) = n + 1
      /\ \A i \in 1..n : BootstrapAgenda[i] = U[i]
      /\ BootstrapAgenda[n + 1] = [stage |-> "bootstrap", hook |-> Gateways]
  <2>1. Len(U) = n
    BY <1>1, <1>2 DEF UpwardsShape
  <2> QED BY <1>5, <2>1, Appended DEF BootstrapAgenda
<1> HIDE DEF U
<1>7. ASSUME NEW k \in 1..Size
      PROVE  /\ BootstrapAgenda[2 * k - 1].hook = Providers(pending[k])
             /\ BootstrapAgenda[2 * k].hook = Own(pending[k])
  <2>1. 2 * k - 1 \in 1..n /\ 2 * k \in 1..n
    BY <1>2, <1>7
  <2> QED BY <1>1, <1>6, <2>1 DEF UpwardsShape, U
<1>8. ASSUME NEW i \in 1..(2 * Size)
      PROVE  /\ BootstrapAgenda[i].stage = "bootstrap"
             /\ \E k \in 1..Size :
                   \/ i = 2 * k - 1 /\ BootstrapAgenda[i].hook = Providers(pending[k])
                   \/ i = 2 * k /\ BootstrapAgenda[i].hook = Own(pending[k])
  <2>1. BootstrapAgenda[i] = U[i]
    BY <1>2, <1>6
  <2> QED BY <1>1, <2>1 DEF UpwardsShape, U
<1> QED BY <1>2, <1>6, <1>7, <1>8

(* On the way down they precede them, the last module's first.             *)
LEMMA DownwardsHooks ==
    ASSUME RegistryTypeOK
    PROVE  /\ Size \in Nat /\ Len(ShutdownAgenda) = 6 * Size
           /\ \A i \in 1..(6 * Size) :
                 /\ ShutdownAgenda[i].stage \in Range(Stages)
                 /\ \E k \in 1..Size :
                       \/ ShutdownAgenda[i].hook = Own(pending[k])
                       \/ /\ ShutdownAgenda[i].hook = Providers(pending[k])
                          /\ i >= 2 * (Size - k) + 2
           /\ \A k \in 1..Size :
                 /\ ShutdownAgenda[2 * (Size - k) + 1].hook = Own(pending[k])
                 /\ ShutdownAgenda[2 * (Size - k) + 2].hook = Providers(pending[k])
<1>1. Size \in Nat
  BY DEF RegistryTypeOK, Size
<1> HIDE DEF Size
<1>2. Len(ShutdownAgenda) = 6 * Size
  BY <1>1 DEF ShutdownAgenda
<1>5. ASSUME NEW i \in 1..(6 * Size)
      PROVE  /\ ShutdownAgenda[i].stage \in Range(Stages)
             /\ \E k \in 1..Size :
                   \/ ShutdownAgenda[i].hook = Own(pending[k])
                   \/ /\ ShutdownAgenda[i].hook = Providers(pending[k])
                      /\ i >= 2 * (Size - k) + 2
  <2>1. PICK j \in 0..(2 * Size - 1) :
           /\ j <= i - 1
           /\ ShutdownAgenda[i].stage \in Range(Stages)
           /\ ShutdownAgenda[i].hook =
                 [module |-> pending[Size - (j \div 2)],
                  part |-> IF j % 2 = 0 THEN "module" ELSE "providers"]
    BY ShutdownAt
  <2>2. PICK h \in Int : j = 2 * h \/ j = 2 * h + 1
    BY Halves
  <2>3. PICK k \in 1..Size : k = Size - h
    BY <1>1, <2>2
  <2>4. CASE j = 2 * h
    BY <2>1, <2>3, <2>4, Halves DEF Own
  <2>5. CASE j = 2 * h + 1
    <3>1. ShutdownAgenda[i].hook = Providers(pending[k])
      BY <2>1, <2>3, <2>5, Halves DEF Providers
    <3>2. i >= 2 * (Size - k) + 2
      BY <1>1, <2>1, <2>3, <2>5
    <3> QED BY <2>1, <3>1, <3>2
  <2> QED BY <2>2, <2>4, <2>5
<1>6. ASSUME NEW k \in 1..Size
      PROVE  /\ ShutdownAgenda[2 * (Size - k) + 1].hook = Own(pending[k])
             /\ ShutdownAgenda[2 * (Size - k) + 2].hook = Providers(pending[k])
  <2>1. PICK h \in Int : h = Size - k
    BY <1>1
  <2>2. /\ Size - h = k
        /\ 2 * h + 1 \in 1..(6 * Size) /\ 2 * h + 1 <= 2 * Size
        /\ 2 * h + 2 \in 1..(6 * Size) /\ 2 * h + 2 <= 2 * Size
        /\ 2 * h + 1 - 1 = 2 * h /\ 2 * h + 2 - 1 = 2 * h + 1
    BY <1>1, <2>1
  <2>3. ASSUME NEW i \in 1..(6 * Size), i <= 2 * Size
        PROVE  ShutdownAgenda[i].hook =
                 [module |-> pending[Size - ((i - 1) \div 2)],
                  part |-> IF (i - 1) % 2 = 0 THEN "module" ELSE "providers"]
    BY <2>3, ShutdownAt
  <2>4. /\ ShutdownAgenda[2 * h + 1].hook = Own(pending[k])
        /\ ShutdownAgenda[2 * h + 2].hook = Providers(pending[k])
    BY <2>2, <2>3, Halves DEF Own, Providers
  <2> QED BY <2>1, <2>4
<1> QED BY <1>1, <1>2, <1>5, <1>6

-----------------------------------------------------------------------------
(* The inductive invariant of the lifecycle.                               *)

AllUp == \A h \in Local \cup {Gateways} : Up(h)

NoneUp == \A h \in Local : ~Up(h)

ShellTypeOK ==
    /\ shell \in {"handle", "plain"}
    /\ pc \in {"registering", "unbuilt", "idle", "hooks", "serving", "starting"}
    /\ call \in {"build", "init", "listen", "start", "close", "serve_with"}
    /\ kind \in {"build", "bootstrap", "undo", "close"}
    /\ initialized \in BOOLEAN /\ broken \in BOOLEAN
    /\ started \in 0..Microservices
    /\ calls \in 0..MaxCalls /\ faults \in 0..MaxFaults

(* Where the shell can be, and in which call.                              *)
Control ==
    /\ pc = "registering" => kind = "build" /\ at = 1
    /\ kind = "build" => ~initialized
    /\ pc = "starting" => shell = "handle"
    /\ pc \in {"serving", "starting"} /\ shell = "handle" => initialized
    /\ pc = "hooks" /\ kind = "bootstrap" =>
          IF shell = "handle" THEN call \in {"init", "listen", "start"}
          ELSE call = "serve_with"

(* What the agenda under way has brought up, or down.                      *)
Reached ==
    /\ \A h \in Hooks : Up(h) => kind # "build" /\ h \in Local \cup {Gateways}
    /\ pc = "hooks" /\ kind = "bootstrap" =>
          \A i \in 1..(at - 1) : Up(Agenda[i].hook)
    /\ pc = "hooks" /\ kind \in {"undo", "close"} =>
          \A i \in 1..(at - 1) : ~Up(Agenda[i].hook)

(* Between agendas all is up, or nothing is.                               *)
Settled ==
    ~broken =>
       /\ pc \in {"serving", "starting"} \/ (pc = "idle" /\ initialized) => AllUp
       /\ pc = "idle" /\ ~initialized => NoneUp

Inv == TypeOK /\ RegInv /\ Control /\ Reached /\ UpOnUp /\ Settled

-----------------------------------------------------------------------------
(* Which hooks an agenda runs.                                             *)

LEMMA HooksDiffer ==
    \A m, d : /\ Own(m) = Own(d) <=> m = d
              /\ Providers(m) = Providers(d) <=> m = d
              /\ Own(m) # Providers(d) /\ Own(m) # Gateways /\ Providers(m) # Gateways
<1> TAKE m, d
<1>1. /\ Own(m).module = m /\ Own(m).part = "module"
      /\ Providers(m).module = m /\ Providers(m).part = "providers"
      /\ Own(d).module = d /\ Providers(d).module = d /\ Providers(d).part = "providers"
      /\ Gateways.part = "gateways"
  BY DEF Own, Providers, Gateways
<1>2. "module" # "providers" /\ "module" # "gateways" /\ "providers" # "gateways"
  OBVIOUS
<1> QED BY <1>1, <1>2

LEMMA LocalHooks ==
    ASSUME RegistryTypeOK
    PROVE  /\ \A k \in 1..Size : Own(pending[k]) \in Local /\ Providers(pending[k]) \in Local
           /\ \A h \in Local : \E k \in 1..Size : h = Own(pending[k]) \/ h = Providers(pending[k])
           /\ Local \cup {Gateways} \subseteq Hooks
<1>1. /\ \A x : x \in Registered <=> \E k \in 1..Size : pending[k] = x
      /\ Registered \subseteq Modules
  <2>1. \A x : x \in Registered <=> \E k \in 1..Size : pending[k] = x
    BY ToSetOf DEF RegistryTypeOK, Registered, Size
  <2> QED BY <2>1 DEF RegistryTypeOK, Size
<1>2. \A k \in 1..Size : Own(pending[k]) \in Local /\ Providers(pending[k]) \in Local
  BY <1>1 DEF Own, Providers, Local, Parts
<1>3. ASSUME NEW h \in Local
      PROVE  \E k \in 1..Size : h = Own(pending[k]) \/ h = Providers(pending[k])
  <2>1. PICK k \in 1..Size : pending[k] = h.module
    BY <1>1, <1>3 DEF Local
  <2>2. h = [module |-> h.module, part |-> h.part] /\ h.part \in {"providers", "module"}
    BY <1>3 DEF Local, Parts
  <2> QED BY <2>1, <2>2 DEF Own, Providers
<1>4. Local \cup {Gateways} \subseteq Hooks
  BY <1>1 DEF Local, Hooks
<1> QED BY <1>2, <1>3, <1>4

LEMMA AgendaHooks ==
    ASSUME RegistryTypeOK, kind \in {"build", "bootstrap", "undo", "close"}
    PROVE  /\ Len(Agenda) \in Nat
           /\ \A i \in 1..Len(Agenda) :
                 /\ Agenda[i].hook \in Local \cup {Gateways}
                 /\ kind = "build" => Agenda[i].stage = "init"
                 /\ kind = "bootstrap" => Agenda[i].stage = "bootstrap"
                 /\ kind \in {"undo", "close"} => Agenda[i].stage \in Range(Stages)
<1>1. CASE kind = "build"
  <2>1. Agenda = Upwards("init")
    BY <1>1 DEF Agenda
  <2> UpwardsShape("init")
    BY UpwardsHooks
  <2>2. Len(Agenda) = 2 * Size /\ Size \in Nat
    BY <2>1 DEF UpwardsShape
  <2>3. ASSUME NEW i \in 1..(2 * Size)
        PROVE  Agenda[i].hook \in Local /\ Agenda[i].stage = "init"
    <3>1. PICK k \in 1..Size : \/ Agenda[i].hook = Providers(pending[k])
                               \/ Agenda[i].hook = Own(pending[k])
      BY <2>1 DEF UpwardsShape
    <3> QED BY <2>1, <3>1, LocalHooks DEF UpwardsShape
  <2> QED BY <1>1, <2>2, <2>3
<1>2. CASE kind = "bootstrap"
  <2>1. Agenda = BootstrapAgenda
    BY <1>2 DEF Agenda
  <2>2. Len(Agenda) = 2 * Size + 1 /\ Size \in Nat
    BY <2>1, BootstrapHooks
  <2>3. ASSUME NEW i \in 1..(2 * Size)
        PROVE  Agenda[i].hook \in Local /\ Agenda[i].stage = "bootstrap"
    <3>1. PICK k \in 1..Size : \/ Agenda[i].hook = Providers(pending[k])
                               \/ Agenda[i].hook = Own(pending[k])
      BY <2>1, BootstrapHooks
    <3> QED BY <2>1, <3>1, BootstrapHooks, LocalHooks
  <2>4. Agenda[2 * Size + 1].hook = Gateways /\ Agenda[2 * Size + 1].stage = "bootstrap"
    BY <2>1, BootstrapHooks
  <2>5. \A i \in 1..(2 * Size + 1) : i \in 1..(2 * Size) \/ i = 2 * Size + 1
    BY <2>2
  <2> QED BY <1>2, <2>2, <2>3, <2>4, <2>5
<1>3. CASE kind \in {"undo", "close"}
  <2>1. Agenda = ShutdownAgenda
    BY <1>3 DEF Agenda
  <2>2. Len(Agenda) = 6 * Size /\ Size \in Nat
    BY <2>1, DownwardsHooks
  <2>3. ASSUME NEW i \in 1..(6 * Size)
        PROVE  Agenda[i].hook \in Local /\ Agenda[i].stage \in Range(Stages)
    <3>1. PICK k \in 1..Size : \/ Agenda[i].hook = Providers(pending[k])
                               \/ Agenda[i].hook = Own(pending[k])
      BY <2>1, DownwardsHooks
    <3> QED BY <2>1, <3>1, DownwardsHooks, LocalHooks
  <2> QED BY <1>3, <2>2, <2>3
<1> QED BY <1>1, <1>2, <1>3

-----------------------------------------------------------------------------
(* An agenda at its end has brought everything up, or down.                *)
LEMMA AgendaDone ==
    ASSUME Inv, pc = "hooks", at > Len(Agenda)
    PROVE  /\ kind = "bootstrap" => AllUp
           /\ kind # "bootstrap" => NoneUp
<1>1. /\ RegistryTypeOK /\ kind \in {"build", "bootstrap", "undo", "close"}
      /\ at \in Int /\ Size \in Nat
  <2>1. Size \in Nat
    BY BootstrapHooks DEF Inv, RegInv
  <2>2. Len(Agenda) \in Nat
    BY AgendaHooks DEF Inv, RegInv, TypeOK
  <2> QED BY <2>1, <2>2 DEF Inv, TypeOK, RegInv
<1>2. CASE kind = "build"
  BY <1>1, <1>2, LocalHooks DEF Inv, Reached, NoneUp
<1>3. CASE kind = "bootstrap"
  <2>1. Agenda = BootstrapAgenda
    BY <1>3 DEF Agenda
  <2>2. \A i \in 1..(2 * Size + 1) : Up(Agenda[i].hook)
    BY <1>1, <1>3, <2>1, BootstrapHooks DEF Inv, Reached
  <2>3. Up(Gateways)
    BY <1>1, <2>1, <2>2, BootstrapHooks
  <2>4. ASSUME NEW k \in 1..Size PROVE Up(Own(pending[k])) /\ Up(Providers(pending[k]))
    <3>1. /\ 2 * k - 1 \in 1..(2 * Size) /\ 2 * k \in 1..(2 * Size)
          /\ 2 * k - 1 \in 1..(2 * Size + 1) /\ 2 * k \in 1..(2 * Size + 1)
      BY <1>1, <2>4
    <3>2. /\ Agenda[2 * k - 1].hook = Providers(pending[k])
          /\ Agenda[2 * k].hook = Own(pending[k])
      BY <1>1, <2>1, <3>1, BootstrapHooks
    <3>3. Up(Agenda[2 * k - 1].hook) /\ Up(Agenda[2 * k].hook)
      BY <2>2, <3>1
    <3> QED BY <3>2, <3>3
  <2>5. \A h \in Local : Up(h)
    BY <1>1, <2>4, LocalHooks
  <2> QED BY <1>3, <2>3, <2>5 DEF AllUp
<1>4. CASE kind \in {"undo", "close"}
  <2>1. Agenda = ShutdownAgenda
    BY <1>4 DEF Agenda
  <2>2. \A i \in 1..(6 * Size) : ~Up(Agenda[i].hook)
    BY <1>1, <1>4, <2>1, DownwardsHooks DEF Inv, Reached
  <2>3. ASSUME NEW k \in 1..Size PROVE ~Up(Own(pending[k])) /\ ~Up(Providers(pending[k]))
    <3>1. 2 * (Size - k) + 1 \in 1..(6 * Size) /\ 2 * (Size - k) + 2 \in 1..(6 * Size)
      BY <1>1, <2>3
    <3>2. /\ Agenda[2 * (Size - k) + 1].hook = Own(pending[k])
          /\ Agenda[2 * (Size - k) + 2].hook = Providers(pending[k])
      BY <1>1, <2>1, DownwardsHooks
    <3>3. /\ ~Up(Agenda[2 * (Size - k) + 1].hook)
          /\ ~Up(Agenda[2 * (Size - k) + 2].hook)
      BY <2>2, <3>1
    <3> QED BY <3>2, <3>3
  <2> QED BY <1>1, <1>4, <2>3, LocalHooks DEF NoneUp
<1> QED BY <1>1, <1>2, <1>3, <1>4

(* A hook on the way up finds what its module needs up already.            *)
LEMMA UpKeepsOrder ==
    ASSUME Inv, pc = "hooks", kind = "bootstrap", HookRuns
    PROVE  UpOnUp'
<1>1. /\ RegistryTypeOK /\ at \in 1..Len(Agenda) /\ Size \in Nat
      /\ Agenda = BootstrapAgenda /\ Len(Agenda) = 2 * Size + 1
  <2>1. Agenda = BootstrapAgenda
    BY DEF Agenda
  <2>2. RegistryTypeOK
    BY DEF Inv, RegInv
  <2> QED BY <2>1, <2>2, BootstrapHooks DEF Inv, TypeOK, HookRuns
<1> DEFINE g == Agenda[at].hook
<1>2. /\ g \in Local \cup {Gateways} /\ Agenda[at].stage = "bootstrap"
  BY <1>1, AgendaHooks
<1>3. /\ done \in [Hooks -> {"none", "init", "bootstrap"} \cup Range(Stages)]
      /\ g \in Hooks
  BY <1>1, <1>2, LocalHooks DEF Inv, TypeOK
<1>4. done' = [done EXCEPT ![g] = "bootstrap"] /\ graph' = graph
  BY <1>2 DEF HookRuns, registry
<1> HIDE DEF g
<1>5. \A h \in Hooks : Up(h)' <=> Up(h) \/ h = g
  BY <1>3, <1>4 DEF Up
<1>6. ASSUME NEW m \in Modules, Up(Own(m))', NEW d \in {m} \cup graph.imports[m]
      PROVE  Up(Providers(d))'
  <2>1. Own(m) \in Hooks /\ Providers(d) \in Hooks
    <3>1. d \in Modules
      BY <1>1, GraphTypes
    <3> QED BY <3>1 DEF Hooks, Parts, Own, Providers
  <2>2. CASE Up(Own(m))
    BY <1>5, <2>1, <2>2 DEF Inv, UpOnUp, Own, Providers
  <2>3. CASE g = Own(m)
    <3>1. at # 2 * Size + 1
      <4>1. Own(m) # Gateways
        BY HooksDiffer
      <4>2. BootstrapAgenda[2 * Size + 1].hook = Gateways
        BY <1>1, BootstrapHooks
      <4> QED BY <1>1, <2>3, <4>1, <4>2 DEF g
    <3>2. at \in 1..(2 * Size) /\ g = BootstrapAgenda[at].hook
      BY <1>1, <3>1 DEF g
    <3>3. PICK k \in 1..Size : \/ at = 2 * k - 1 /\ g = Providers(pending[k])
                               \/ at = 2 * k /\ g = Own(pending[k])
      BY <1>1, <3>2, BootstrapHooks
    <3>4. at = 2 * k /\ m = pending[k]
      BY <2>3, <3>3, HooksDiffer
    <3>5. PICK j \in 1..k : pending[j] = d
      <4>1. CASE d = m
        BY <3>4, <4>1
      <4>2. CASE d \in graph.imports[m]
        <5>1. \E j \in 1..(k - 1) : pending[j] = d
          BY <3>4, <4>2 DEF Inv, RegInv, DependenciesFirst, Size
        <5> QED BY <1>1, <5>1
      <4> QED BY <4>1, <4>2
    <3>6. /\ j \in 1..Size /\ 2 * j - 1 \in 1..(2 * Size) /\ 2 * j - 1 \in 1..(at - 1)
      BY <1>1, <3>4
    <3>7. Agenda[2 * j - 1].hook = Providers(d)
      BY <1>1, <3>5, <3>6, BootstrapHooks
    <3>8. Up(Agenda[2 * j - 1].hook)
      BY <3>6 DEF Inv, Reached
    <3> QED BY <1>5, <2>1, <3>7, <3>8
  <2> QED BY <1>5, <1>6, <2>1, <2>2, <2>3
<1> QED BY <1>4, <1>6 DEF UpOnUp, Own, Providers

(* A hook on the way down finds what needs its module down already.        *)
LEMMA DownKeepsOrder ==
    ASSUME Inv, pc = "hooks", kind \in {"undo", "close"}, HookRuns
    PROVE  UpOnUp'
<1>1. /\ RegistryTypeOK /\ at \in 1..Len(Agenda) /\ Size \in Nat
      /\ Agenda = ShutdownAgenda /\ Len(Agenda) = 6 * Size
  <2>1. Agenda = ShutdownAgenda
    BY DEF Agenda
  <2>2. RegistryTypeOK
    BY DEF Inv, RegInv
  <2> QED BY <2>1, <2>2, DownwardsHooks DEF Inv, TypeOK, HookRuns
<1> DEFINE g == Agenda[at].hook
<1>2. /\ g \in Local \cup {Gateways} /\ Agenda[at].stage \in Range(Stages)
  BY <1>1, AgendaHooks
<1>3. /\ done \in [Hooks -> {"none", "init", "bootstrap"} \cup Range(Stages)]
      /\ g \in Hooks
  BY <1>1, <1>2, LocalHooks DEF Inv, TypeOK
<1>4. done' = [done EXCEPT ![g] = Agenda[at].stage] /\ graph' = graph
  BY <1>2 DEF HookRuns, registry
<1>5. Agenda[at].stage # "bootstrap"
  BY <1>2 DEF Stages, Range
<1>6. PICK k \in 1..Size : \/ g = Own(pending[k])
                           \/ g = Providers(pending[k]) /\ at >= 2 * (Size - k) + 2
  BY <1>1, DownwardsHooks
<1>7. \A h \in Hooks : Up(h)' <=> Up(h) /\ h # g
  BY <1>3, <1>4, <1>5 DEF Up
<1> HIDE DEF g
<1>8. ASSUME NEW m \in Modules, Up(Own(m))', NEW d \in {m} \cup graph.imports[m]
      PROVE  Up(Providers(d))'
  <2>1. Own(m) \in Hooks /\ Providers(d) \in Hooks
    <3>1. d \in Modules
      BY <1>1, GraphTypes
    <3> QED BY <3>1 DEF Hooks, Parts, Own, Providers
  <2>2. Up(Own(m)) /\ Up(Providers(d))
    <3>1. Up(Own(m))
      BY <1>7, <1>8, <2>1
    <3> QED BY <3>1 DEF Inv, UpOnUp, Own, Providers
  <2>3. g # Providers(d)
    <3> SUFFICES ASSUME g = Providers(d) PROVE FALSE
      OBVIOUS
    <3>1. d = pending[k] /\ at >= 2 * (Size - k) + 2
      BY <1>6, HooksDiffer
    <3>2. PICK j \in k..Size : m = pending[j]
      <4>1. CASE d = m
        <5>1. k \in k..Size
          BY <1>1
        <5> QED BY <3>1, <4>1, <5>1
      <4>2. CASE d \in graph.imports[m]
        <5>1. Own(m) \in Local
          BY <2>1, <2>2, HooksDiffer DEF Inv, Reached
        <5>2. PICK j \in 1..Size : m = pending[j]
          <6>1. PICK j \in 1..Size : \/ Own(m) = Own(pending[j])
                                     \/ Own(m) = Providers(pending[j])
            BY <1>1, <5>1, LocalHooks
          <6> QED BY <6>1, HooksDiffer
        <5>3. PICK l \in 1..(j - 1) : pending[l] = d
          BY <4>2, <5>2 DEF Inv, RegInv, DependenciesFirst, Size
        <5>4. l = k
          BY <1>1, <3>1, <5>2, <5>3 DEF Inv, RegInv, DependenciesFirst, Size
        <5> QED BY <1>1, <5>2, <5>3, <5>4
      <4> QED BY <4>1, <4>2
    <3>3. j \in 1..Size /\ 2 * (Size - j) + 1 \in 1..(at - 1)
      BY <1>1, <3>1
    <3>4. Agenda[2 * (Size - j) + 1].hook = Own(m)
      BY <1>1, <3>2, <3>3, DownwardsHooks
    <3>5. ~Up(Agenda[2 * (Size - j) + 1].hook)
      BY <3>3 DEF Inv, Reached
    <3> QED BY <2>2, <3>4, <3>5
  <2> QED BY <1>7, <2>1, <2>2, <2>3
<1> QED BY <1>4, <1>8 DEF UpOnUp, Own, Providers

-----------------------------------------------------------------------------
(* A hook keeps the invariant.                                             *)

LEMMA HookRunsInv == ASSUME Inv, HookRuns PROVE Inv'
<1>1. /\ RegistryTypeOK /\ RegInv /\ at \in 1..Len(Agenda) /\ at + 1 \in 1..(Len(Agenda) + 1)
      /\ pc = "hooks" /\ kind \in {"build", "bootstrap", "undo", "close"}
  <2>1. RegistryTypeOK /\ kind \in {"build", "bootstrap", "undo", "close"}
    BY DEF Inv, TypeOK
  <2>2. Len(Agenda) \in Nat
    BY <2>1, AgendaHooks
  <2> QED BY <2>1, <2>2 DEF Inv, TypeOK, HookRuns
<1>2. /\ graph' = graph /\ entry' = entry /\ visiting' = visiting
      /\ pending' = pending /\ refused' = refused
      /\ shell' = shell /\ pc' = pc /\ call' = call /\ kind' = kind
      /\ at' = at + 1
      /\ initialized' = initialized /\ started' = started /\ broken' = broken
      /\ calls' = calls /\ faults' = faults
  BY DEF HookRuns, registry
<1>3. Agenda' = Agenda /\ Local' = Local /\ Registered' = Registered /\ RegInv'
  <2>1. Agenda' = Agenda
    BY <1>2 DEF Agenda, Upwards, BootstrapAgenda, ShutdownAgenda, Size
  <2>2. Registered' = Registered
    BY <1>2 DEF Registered
  <2>3. RegistryTypeOK' /\ DependenciesFirst' /\ VisitsOK'
    BY <1>1, <1>2, <2>2 DEF RegInv, RegistryTypeOK, DependenciesFirst, VisitsOK
  <2> QED BY <2>1, <2>2, <2>3 DEF Local, RegInv
<1> DEFINE g == Agenda[at].hook
           e == Agenda[at].stage
<1>4. /\ g \in Local \cup {Gateways} /\ g \in Hooks
      /\ kind = "build" => e = "init"
      /\ kind = "bootstrap" => e = "bootstrap"
      /\ kind \in {"undo", "close"} => e \in Range(Stages)
  BY <1>1, AgendaHooks, LocalHooks
<1>5. done' = [done EXCEPT ![g] = e]
  BY DEF HookRuns
<1>6. done \in [Hooks -> {"none", "init", "bootstrap"} \cup Range(Stages)]
  BY DEF Inv, TypeOK
<1>7. e \in {"none", "init", "bootstrap"} \cup Range(Stages)
  BY <1>1, <1>4
<1>8. "bootstrap" \notin Range(Stages)
  BY DEF Stages, Range
<1> HIDE DEF g, e
<1>9. \A h \in Hooks : Up(h)' <=> IF h = g THEN kind = "bootstrap" ELSE Up(h)
  BY <1>1, <1>4, <1>5, <1>6, <1>8 DEF Up
<1>10. done' \in [Hooks -> {"none", "init", "bootstrap"} \cup Range(Stages)]
  BY <1>5, <1>6, <1>7
<1>11. TypeOK'
  <2>1. RegistryTypeOK' /\ at' \in 1..(Len(Agenda') + 1)
    BY <1>1, <1>2, <1>3 DEF RegInv
  <2> QED BY <1>2, <1>10, <2>1 DEF Inv, TypeOK
<1>12. Control'
  BY <1>1, <1>2 DEF Inv, Control
<1>13. Reached'
  <2>1. \A h \in Hooks : Up(h)' => kind # "build" /\ h \in Local \cup {Gateways}
    BY <1>4, <1>9 DEF Inv, Reached
  <2>2. \A i \in 1..at : Agenda[i].hook \in Hooks
    BY <1>1, AgendaHooks, LocalHooks
  <2>3. \A i \in 1..at : i \in 1..(at - 1) \/ Agenda[i].hook = g
    BY <1>1 DEF g
  <2>4. kind = "bootstrap" => \A i \in 1..at : Up(Agenda[i].hook)'
    <3> SUFFICES ASSUME kind = "bootstrap", NEW i \in 1..at PROVE Up(Agenda[i].hook)'
      OBVIOUS
    <3>1. CASE Agenda[i].hook = g
      BY <1>3, <1>4, <1>9, <3>1 DEF Up
    <3>2. CASE i \in 1..(at - 1)
      <4>1. Up(Agenda[i].hook)
        BY <1>1, <3>2 DEF Inv, Reached
      <4> QED BY <1>3, <1>9, <2>2, <4>1 DEF Up
    <3> QED BY <2>3, <3>1, <3>2
  <2>5. kind \in {"undo", "close"} => \A i \in 1..at : ~Up(Agenda[i].hook)'
    <3> SUFFICES ASSUME kind \in {"undo", "close"}, NEW i \in 1..at
                 PROVE  ~Up(Agenda[i].hook)'
      OBVIOUS
    <3>1. CASE Agenda[i].hook = g
      BY <1>3, <1>4, <1>9, <3>1 DEF Up
    <3>2. CASE i \in 1..(at - 1)
      <4>1. ~Up(Agenda[i].hook)
        BY <1>1, <3>2 DEF Inv, Reached
      <4> QED BY <1>3, <1>9, <2>2, <4>1 DEF Up
    <3> QED BY <2>3, <3>1, <3>2
  <2>6. at' - 1 = at
    BY <1>1, <1>2
  <2> QED BY <1>2, <1>3, <2>1, <2>4, <2>5, <2>6 DEF Reached
<1>14. UpOnUp'
  <2>1. CASE kind = "build"
    <3>1. \A m \in Modules : ~Up([module |-> m, part |-> "module"])'
      <4> TAKE m \in Modules
      <4>1. [module |-> m, part |-> "module"] \in Hooks
        BY DEF Hooks, Parts
      <4> QED BY <1>9, <2>1, <4>1 DEF Inv, Reached
    <3> QED BY <3>1 DEF UpOnUp
  <2> QED BY <1>1, <2>1, UpKeepsOrder, DownKeepsOrder
<1>15. Settled'
  BY <1>1, <1>2 DEF Settled
<1> QED BY <1>3, <1>11, <1>12, <1>13, <1>14, <1>15 DEF Inv

-----------------------------------------------------------------------------
(* The steps that run no hook.                                             *)

(* Where an agenda starts, or goes on.                                     *)
LEMMA QuietInv ==
    ASSUME Inv, UNCHANGED registry, done' = done,
           ShellTypeOK', Control', Settled',
           \/ kind' = kind /\ at' = at /\ (pc' = "hooks" => pc = "hooks")
           \/ at' = 1 /\ (kind' = "build" => kind = "build")
    PROVE  Inv'
<1>1. /\ graph' = graph /\ entry' = entry /\ visiting' = visiting
      /\ pending' = pending /\ refused' = refused
  BY DEF registry
<1>2. Local' = Local /\ Registered' = Registered /\ RegInv' /\ RegistryTypeOK'
  <2>1. Registered' = Registered
    BY <1>1 DEF Registered
  <2>2. RegistryTypeOK' /\ DependenciesFirst' /\ VisitsOK'
    BY <1>1, <2>1 DEF Inv, RegInv, RegistryTypeOK, DependenciesFirst, VisitsOK
  <2> QED BY <2>1, <2>2 DEF Local, RegInv
<1>3. UpOnUp'
  BY <1>1 DEF Inv, UpOnUp, Up
<1>4. Agenda' = Agenda \/ Len(Agenda') \in Nat
  <2>1. CASE kind' = "build"
    <3>1. Agenda' = Upwards("init")
      BY <1>1, <2>1 DEF Agenda, Upwards, Size
    <3>2. UpwardsShape("init")
      BY UpwardsHooks DEF Inv, TypeOK
    <3> QED BY <3>1, <3>2 DEF UpwardsShape
  <2>2. CASE kind' = "bootstrap"
    <3>1. Agenda' = BootstrapAgenda
      BY <1>1, <2>2 DEF Agenda, BootstrapAgenda, Upwards, Size
    <3>2. Len(BootstrapAgenda) = 2 * Size + 1 /\ Size \in Nat
      BY BootstrapHooks DEF Inv, TypeOK
    <3> QED BY <3>1, <3>2
  <2>3. CASE kind' \in {"undo", "close"}
    <3>1. Agenda' = ShutdownAgenda
      BY <1>1, <2>3 DEF Agenda, ShutdownAgenda, Size
    <3>2. Len(ShutdownAgenda) = 6 * Size /\ Size \in Nat
      BY DownwardsHooks DEF Inv, TypeOK
    <3> QED BY <3>1, <3>2
  <2> QED BY <2>1, <2>2, <2>3 DEF ShellTypeOK
<1>5. kind' = kind => Agenda' = Agenda
  BY <1>1 DEF Agenda, Upwards, BootstrapAgenda, ShutdownAgenda, Size
<1>6. Len(Agenda') \in Nat
  <2>1. Len(Agenda) \in Nat
    BY AgendaHooks DEF Inv, TypeOK
  <2> QED BY <1>4, <2>1
<1>7. at' \in 1..(Len(Agenda') + 1)
  <2>1. CASE kind' = kind /\ at' = at
    BY <1>5, <2>1 DEF Inv, TypeOK
  <2>2. CASE at' = 1
    BY <1>6, <2>2
  <2> QED BY <2>1, <2>2
<1>8. TypeOK'
  BY <1>2, <1>7 DEF Inv, TypeOK, ShellTypeOK
<1>9. Reached'
  <2>1. \A h \in Hooks : Up(h)' => kind' # "build" /\ h \in Local' \cup {Gateways}
    BY <1>2 DEF Inv, Reached, Up
  <2>2. CASE kind' = kind /\ at' = at /\ (pc' = "hooks" => pc = "hooks")
    BY <1>5, <2>1, <2>2 DEF Inv, Reached, Up
  <2>3. CASE at' = 1
    BY <2>1, <2>3 DEF Reached
  <2> QED BY <2>1, <2>2, <2>3
<1> QED BY <1>2, <1>3, <1>8, <1>9 DEF Inv

(* What is up stays up.                                                    *)
LEMMA QuietHooks ==
    ASSUME UNCHANGED registry, done' = done
    PROVE  (AllUp' <=> AllUp) /\ (NoneUp' <=> NoneUp)
BY DEF registry, AllUp, NoneUp, Local, Registered, Up

LEMMA ShellTypes == Inv => ShellTypeOK
BY DEF Inv, TypeOK, ShellTypeOK

LEMMA RegistrationInv == ASSUME Inv, Registration PROVE Inv'
<1>1. /\ shell' = shell /\ pc' = pc /\ call' = call /\ kind' = kind /\ at' = at
      /\ initialized' = initialized /\ done' = done /\ started' = started
      /\ broken' = broken /\ calls' = calls /\ faults' = faults
      /\ pc = "registering" /\ kind = "build" /\ at = 1
  BY DEF Registration, lifecycle, Inv, Control
<1>2. RegInv' /\ RegistryTypeOK'
  BY RegistryStepInv DEF Inv, Registration, RegInv
<1>3. \A h \in Hooks : ~Up(h)'
  BY <1>1 DEF Inv, Reached, Up
<1>4. 1 \in 1..(Len(Agenda') + 1)
  <2>1. pending' \in Seq(Modules) /\ Len(pending') \in Nat
    BY <1>2 DEF RegistryTypeOK
  <2>2. Len(Agenda') = 2 * Len(pending')
    BY <1>1, <2>1 DEF Agenda, Upwards, Size
  <2> QED BY <2>1, <2>2
<1>5. TypeOK'
  BY <1>1, <1>2, <1>4 DEF Inv, TypeOK
<1>6. Control' /\ Settled'
  BY <1>1 DEF Inv, Control, Settled
<1>7. Reached'
  BY <1>1, <1>3 DEF Reached
<1>8. UpOnUp'
  <2> SUFFICES ASSUME NEW m \in Modules
               PROVE  ~Up([module |-> m, part |-> "module"])'
    BY DEF UpOnUp
  <2>1. [module |-> m, part |-> "module"] \in Hooks
    BY DEF Hooks, Parts
  <2> QED BY <1>3, <2>1
<1> QED BY <1>2, <1>5, <1>6, <1>7, <1>8 DEF Inv

LEMMA FinalizedInv == ASSUME Inv, Finalized PROVE Inv'
<1>1. ShellTypeOK' /\ Control' /\ Settled'
  BY ShellTypes DEF Inv, Finalized, Runs, ShellTypeOK, Control, Settled
<1> QED BY <1>1, QuietInv DEF Finalized, Runs, Inv, Control

LEMMA BuildFailsInv == ASSUME Inv, BuildFails PROVE Inv'
<1>1. ShellTypeOK'
  BY ShellTypes, CountsAssumption DEF BuildFails, ShellTypeOK
<1>2. Control' /\ Settled'
  BY DEF Inv, BuildFails, Control, Settled
<1> QED BY <1>1, <1>2, QuietInv DEF BuildFails

LEMMA AssemblyFailsInv == ASSUME Inv, AssemblyFails PROVE Inv'
<1>1. ShellTypeOK'
  BY ShellTypes, CountsAssumption DEF AssemblyFails, ShellTypeOK
<1>2. Control' /\ Settled'
  BY DEF Inv, AssemblyFails, Control, Settled
<1> QED BY <1>1, <1>2, QuietInv DEF AssemblyFails

(* Open bootstraps an application only when it is not initialized.         *)
LEMMA OpenInv ==
    ASSUME Inv, NEW c \in {"init", "listen", "start"}, Open(c) PROVE Inv'
<1>1. /\ pc = "idle" /\ shell = "handle" /\ shell' = shell /\ call' = c
      /\ initialized' = initialized /\ broken' = broken /\ faults' = faults
      /\ calls < MaxCalls /\ calls' = calls + 1
      /\ UNCHANGED registry /\ done' = done
  BY DEF Open, Called
<1>2. ShellTypeOK
  BY ShellTypes DEF Inv
<1>3. AllUp' <=> AllUp
  BY <1>1, QuietHooks
<1>4. CASE ~initialized
  <2>1. pc' = "hooks" /\ kind' = "bootstrap" /\ at' = 1 /\ started' = started
    BY <1>4 DEF Open, Runs
  <2>2. ShellTypeOK'
    BY <1>1, <1>2, <2>1, CountsAssumption DEF ShellTypeOK
  <2>3. Control' /\ Settled'
    BY <1>1, <1>2, <2>1 DEF Control, Settled, ShellTypeOK
  <2> QED BY <1>1, <2>1, <2>2, <2>3, QuietInv
<1>5. CASE initialized
  <2>1. Serves(c)
    BY <1>5 DEF Open
  <2>2. /\ kind' = kind /\ at' = at /\ pc' \in {"idle", "starting", "serving"}
        /\ started' \in 0..Microservices
    BY <1>2, <2>1, CountsAssumption DEF Serves, Returns, ShellTypeOK
  <2>3. ShellTypeOK'
    BY <1>1, <1>2, <2>2, CountsAssumption DEF ShellTypeOK
  <2>4. Control' /\ Settled'
    BY <1>1, <1>3, <1>5, <2>2 DEF Inv, Control, Settled
  <2> QED BY <1>1, <2>2, <2>3, <2>4, QuietInv
<1> QED BY <1>2, <1>4, <1>5 DEF ShellTypeOK

LEMMA CloseInv == ASSUME Inv, Close PROVE Inv'
<1>1. /\ pc = "idle" /\ shell = "handle" /\ shell' = shell /\ call' = "close"
      /\ initialized' = initialized /\ broken' = broken /\ faults' = faults
      /\ calls < MaxCalls /\ calls' = calls + 1
      /\ UNCHANGED registry /\ done' = done
  BY DEF Close, Called
<1>2. ShellTypeOK
  BY ShellTypes DEF Inv
<1>3. NoneUp' <=> NoneUp
  BY <1>1, QuietHooks
<1>4. CASE ~initialized
  <2>1. pc' = "idle" /\ kind' = kind /\ at' = at /\ started' = started
    BY <1>4 DEF Close, Returns
  <2>2. ShellTypeOK'
    BY <1>1, <1>2, <2>1, CountsAssumption DEF ShellTypeOK
  <2>3. Control' /\ Settled'
    BY <1>1, <1>3, <1>4, <2>1 DEF Inv, Control, Settled
  <2> QED BY <1>1, <2>1, <2>2, <2>3, QuietInv
<1>5. CASE initialized
  <2>1. pc' = "hooks" /\ kind' = "close" /\ at' = 1 /\ started' = started
    BY <1>5 DEF Close, Runs
  <2>2. ShellTypeOK'
    BY <1>1, <1>2, <2>1, CountsAssumption DEF ShellTypeOK
  <2>3. Control' /\ Settled'
    BY <2>1 DEF Control, Settled
  <2> QED BY <1>1, <2>1, <2>2, <2>3, QuietInv
<1> QED BY <1>2, <1>4, <1>5 DEF ShellTypeOK

LEMMA ServeWithInv == ASSUME Inv, ServeWith PROVE Inv'
<1>1. /\ pc = "idle" /\ shell = "plain" /\ shell' = shell /\ call' = "serve_with"
      /\ initialized' = initialized /\ broken' = broken /\ faults' = faults
      /\ calls < MaxCalls /\ calls' = calls + 1
      /\ UNCHANGED registry /\ done' = done
      /\ pc' = "hooks" /\ kind' = "bootstrap" /\ at' = 1 /\ started' = started
  BY DEF ServeWith, Called, Runs
<1>2. ShellTypeOK'
  BY <1>1, ShellTypes, CountsAssumption DEF ShellTypeOK
<1>3. Control' /\ Settled'
  BY <1>1 DEF Control, Settled
<1> QED BY <1>1, <1>2, <1>3, QuietInv

(* A failed bootstrap is undone; a failed shutdown is left unfinished.     *)
LEMMA HookFailsInv == ASSUME Inv, HookFails PROVE Inv'
<1>1. /\ pc = "hooks" /\ faults < MaxFaults /\ faults' = faults + 1
      /\ UNCHANGED registry /\ done' = done /\ shell' = shell /\ call' = call
      /\ initialized' = initialized /\ calls' = calls
  BY DEF HookFails
<1>2. ShellTypeOK
  BY ShellTypes DEF Inv
<1>3. CASE kind = "build" /\ pc' = "unbuilt" /\ UNCHANGED <<kind, at, started, broken>>
  <2>1. ShellTypeOK'
    BY <1>1, <1>2, <1>3, CountsAssumption DEF ShellTypeOK
  <2>2. Control' /\ Settled'
    BY <1>1, <1>3 DEF Inv, Control, Settled
  <2> QED BY <1>1, <1>3, <2>1, <2>2, QuietInv
<1>4. CASE kind = "bootstrap" /\ Runs("undo") /\ UNCHANGED broken
  <2>1. ShellTypeOK'
    BY <1>1, <1>2, <1>4, CountsAssumption DEF ShellTypeOK, Runs
  <2>2. Control' /\ Settled'
    BY <1>4 DEF Runs, Control, Settled
  <2> QED BY <1>1, <1>4, <2>1, <2>2, QuietInv DEF Runs
<1>5. CASE kind \in {"undo", "close"} /\ Returns /\ broken' = TRUE
  <2>1. ShellTypeOK'
    BY <1>1, <1>2, <1>5, CountsAssumption DEF ShellTypeOK, Returns
  <2>2. Control' /\ Settled'
    BY <1>1, <1>5 DEF Inv, Returns, Control, Settled
  <2> QED BY <1>1, <1>5, <2>1, <2>2, QuietInv DEF Returns
<1> QED BY <1>3, <1>4, <1>5 DEF HookFails

(* An agenda that ends leaves all up, and is served, or nothing.           *)
LEMMA AgendaEndsInv == ASSUME Inv, AgendaEnds PROVE Inv'
<1>1. /\ pc = "hooks" /\ at > Len(Agenda)
      /\ UNCHANGED registry /\ done' = done /\ shell' = shell /\ call' = call
      /\ initialized' = (shell = "handle" /\ kind = "bootstrap")
      /\ broken' = broken /\ calls' = calls /\ faults' = faults
  BY DEF AgendaEnds
<1>2. ShellTypeOK
  BY ShellTypes DEF Inv
<1>3. (AllUp' <=> AllUp) /\ (NoneUp' <=> NoneUp)
  BY <1>1, QuietHooks
<1>4. CASE kind = "bootstrap"
  <2>1. AllUp'
    BY <1>1, <1>3, <1>4, AgendaDone
  <2>2. Serves(call)
    BY <1>4 DEF AgendaEnds
  <2>3. /\ kind' = kind /\ at' = at /\ started' \in 0..Microservices
        /\ pc' \in {"idle", "starting", "serving"}
        /\ pc' = "idle" => call \in {"init", "start"}
        /\ pc' = "starting" => call = "start"
    BY <1>2, <2>2, CountsAssumption DEF Serves, Returns, ShellTypeOK
  <2>4. IF shell = "handle" THEN call \in {"init", "listen", "start"}
        ELSE call = "serve_with"
    BY <1>1, <1>4 DEF Inv, Control
  <2>5. shell = "handle" \/ pc' = "serving"
    BY <2>3, <2>4
  <2>6. initialized' <=> shell = "handle"
    BY <1>1, <1>4
  <2>7. ShellTypeOK'
    BY <1>1, <1>2, <2>3 DEF ShellTypeOK
  <2>8. Control'
    BY <1>1, <1>4, <2>3, <2>5, <2>6 DEF Control
  <2>9. Settled'
    BY <1>1, <2>1, <2>3, <2>5, <2>6 DEF Settled
  <2> QED BY <1>1, <2>3, <2>7, <2>8, <2>9, QuietInv
<1>5. CASE kind # "bootstrap"
  <2>1. NoneUp'
    BY <1>1, <1>3, <1>5, AgendaDone
  <2>2. pc' = "idle" /\ kind' = kind /\ at' = at /\ started' = started /\ ~initialized'
    BY <1>1, <1>5 DEF AgendaEnds, Returns
  <2>3. ShellTypeOK'
    BY <1>1, <1>2, <2>2 DEF ShellTypeOK
  <2>4. Control' /\ Settled'
    BY <2>1, <2>2 DEF Control, Settled
  <2> QED BY <1>1, <2>2, <2>3, <2>4, QuietInv
<1> QED BY <1>4, <1>5

LEMMA ServingEndsInv == ASSUME Inv, ServingEnds PROVE Inv'
<1>1. ShellTypeOK'
  BY ShellTypes DEF ServingEnds, Runs, ShellTypeOK
<1>2. Control' /\ Settled'
  BY DEF ServingEnds, Runs, Control, Settled
<1> QED BY <1>1, <1>2, QuietInv DEF ServingEnds, Runs

LEMMA MicroserviceReturnsInv == ASSUME Inv, MicroserviceReturns PROVE Inv'
<1>1. /\ pc = "starting" /\ UNCHANGED registry /\ done' = done /\ shell' = shell
      /\ call' = call /\ initialized' = initialized /\ broken' = broken
      /\ calls' = calls /\ faults' = faults /\ kind' = kind /\ at' = at
      /\ pc' = "starting" \/ pc' = "idle"
  BY DEF MicroserviceReturns, Returns
<1>2. ShellTypeOK'
  <2>1. started' \in 0..Microservices
    BY ShellTypes, CountsAssumption DEF MicroserviceReturns, Returns, ShellTypeOK
  <2> QED BY <1>1, <2>1, ShellTypes DEF ShellTypeOK
<1>3. AllUp' <=> AllUp
  BY <1>1, QuietHooks
<1>4. Control' /\ Settled'
  BY <1>1, <1>3 DEF Inv, Control, Settled
<1> QED BY <1>1, <1>2, <1>4, QuietInv

LEMMA MicroserviceFailsInv == ASSUME Inv, MicroserviceFails PROVE Inv'
<1>1. /\ pc = "starting" /\ UNCHANGED registry /\ done' = done /\ shell' = shell
      /\ call' = call /\ initialized' = initialized /\ broken' = broken
      /\ calls' = calls /\ faults < MaxFaults /\ faults' = faults + 1
      /\ kind' = kind /\ at' = at /\ pc' = "idle" /\ started' = started
  BY DEF MicroserviceFails, Returns
<1>2. ShellTypeOK'
  BY <1>1, ShellTypes, CountsAssumption DEF ShellTypeOK
<1>3. AllUp' <=> AllUp
  BY <1>1, QuietHooks
<1>4. Control' /\ Settled'
  BY <1>1, <1>3 DEF Inv, Control, Settled
<1> QED BY <1>1, <1>2, <1>4, QuietInv

LEMMA DroppedInv == ASSUME Inv, Dropped PROVE Inv'
<1>1. /\ pc \in {"hooks", "serving", "starting"} /\ UNCHANGED registry /\ done' = done
      /\ shell' = shell /\ call' = call /\ initialized' = initialized
      /\ broken' = (broken \/ pc = "hooks" \/ shell = "plain")
      /\ calls' = calls /\ faults < MaxFaults /\ faults' = faults + 1
      /\ kind' = kind /\ at' = at /\ pc' = "idle" /\ started' = started
  BY DEF Dropped, Returns
<1>2. ShellTypeOK
  BY ShellTypes DEF Inv
<1>3. ShellTypeOK'
  BY <1>1, <1>2, CountsAssumption DEF ShellTypeOK
<1>4. AllUp' <=> AllUp
  BY <1>1, QuietHooks
<1>5. Control'
  BY <1>1 DEF Inv, Control
<1>6. Settled'
  <2>1. ~broken' => ~broken /\ pc \in {"serving", "starting"} /\ shell = "handle"
    BY <1>1, <1>2 DEF ShellTypeOK
  <2> QED BY <1>1, <1>4, <2>1 DEF Inv, Control, Settled
<1> QED BY <1>1, <1>3, <1>5, <1>6, QuietInv

-----------------------------------------------------------------------------
(* The theorems.                                                           *)

LEMMA InitInv == Init => Inv
<1> SUFFICES ASSUME Init PROVE Inv
  OBVIOUS
<1>1. RegInv /\ RegistryTypeOK
  BY RegistryInitInv DEF Init, RegInv
<1>2. \A h \in Hooks : done[h] = "none" /\ ~Up(h)
  BY DEF Init, Up
<1>3. TypeOK
  <2>1. Len(Agenda) \in Nat
    BY <1>1, AgendaHooks DEF Init
  <2>2. at \in 1..(Len(Agenda) + 1)
    BY <2>1 DEF Init
  <2>3. done \in [Hooks -> {"none", "init", "bootstrap"} \cup Range(Stages)]
    BY DEF Init
  <2>4. started \in 0..Microservices /\ calls \in 0..MaxCalls /\ faults \in 0..MaxFaults
    BY CountsAssumption DEF Init
  <2> QED BY <1>1, <2>2, <2>3, <2>4 DEF Init, TypeOK
<1>4. Control /\ Reached /\ Settled
  BY <1>2 DEF Init, Control, Reached, Settled
<1>5. UpOnUp
  <2> SUFFICES ASSUME NEW m \in Modules
               PROVE  ~Up([module |-> m, part |-> "module"])
    BY DEF UpOnUp
  <2>1. [module |-> m, part |-> "module"] \in Hooks
    BY DEF Hooks, Parts
  <2> QED BY <1>2, <2>1
<1> QED BY <1>1, <1>3, <1>4, <1>5 DEF Inv

LEMMA StepInv == Inv /\ [Next]_vars => Inv'
<1> SUFFICES ASSUME Inv, [Next]_vars PROVE Inv'
  OBVIOUS
<1>1. CASE UNCHANGED vars
  <2>1. /\ UNCHANGED registry /\ done' = done
        /\ shell' = shell /\ pc' = pc /\ call' = call /\ kind' = kind /\ at' = at
        /\ initialized' = initialized /\ started' = started /\ broken' = broken
        /\ calls' = calls /\ faults' = faults
    BY <1>1 DEF vars, lifecycle
  <2>2. (AllUp' <=> AllUp) /\ (NoneUp' <=> NoneUp)
    BY <2>1, QuietHooks
  <2>3. ShellTypeOK' /\ Control' /\ Settled'
    BY <2>1, <2>2, ShellTypes DEF Inv, ShellTypeOK, Control, Settled
  <2> QED BY <2>1, <2>3, QuietInv
<1>2. CASE Proceeds
  BY <1>2, RegistrationInv, FinalizedInv, BuildFailsInv, HookRunsInv, AgendaEndsInv
  DEF Proceeds
<1>3. CASE \E c \in {"init", "listen", "start"} : Open(c)
  BY <1>3, OpenInv
<1>4. CASE HookFails \/ AssemblyFails \/ Close \/ ServeWith
  BY <1>4, HookFailsInv, AssemblyFailsInv, CloseInv, ServeWithInv
<1>5. CASE ServingEnds \/ MicroserviceReturns \/ MicroserviceFails \/ Dropped
  BY <1>5, ServingEndsInv, MicroserviceReturnsInv, MicroserviceFailsInv, DroppedInv
<1> QED BY <1>1, <1>2, <1>3, <1>4, <1>5 DEF Next

LEMMA Invariant == Spec => []Inv
BY InitInv, StepInv, PTL DEF Spec

(* The state of builder, registry and shells is of its types throughout.   *)
THEOREM Typing == Spec => []TypeOK
<1>1. Inv => TypeOK
  BY DEF Inv
<1> QED BY <1>1, Invariant, PTL

(* The builder refuses as cyclic only modules that import themselves,      *)
(* directly or through others (ModuleRegistry::enter_module).              *)
THEOREM OnlyRealCycles == Spec => []RefusedOnCycle
<1>1. Init => CycleInv
  <2> SUFFICES ASSUME Init PROVE CycleInv
    OBVIOUS
  <2>1. RegInv
    BY RegistryInitInv DEF Init
  <2> QED BY <2>1 DEF Init, RegistryInit, CycleInv, Chained, RefusedOnCycle
<1>2. CycleInv /\ [Next]_vars => CycleInv'
  <2> SUFFICES ASSUME CycleInv, [Next]_vars PROVE CycleInv'
    OBVIOUS
  <2>1. RegistryNext \/ UNCHANGED registry
    BY DEF Next, Proceeds, Registration, Finalized, BuildFails, HookRuns, AgendaEnds,
       HookFails, AssemblyFails, Open, Called, Close, ServeWith, ServingEnds,
       MicroserviceReturns, MicroserviceFails, Dropped, vars
  <2>2. CASE UNCHANGED registry
    <3>1. /\ graph' = graph /\ entry' = entry /\ visiting' = visiting
          /\ pending' = pending /\ refused' = refused
      BY <2>2 DEF registry
    <3>2. RegInv'
      <4>1. Registered' = Registered
        BY <3>1 DEF Registered
      <4>2. RegistryTypeOK'
        BY <3>1 DEF CycleInv, RegInv, RegistryTypeOK
      <4>3. DependenciesFirst'
        BY <3>1 DEF CycleInv, RegInv, DependenciesFirst
      <4>4. VisitsOK'
        BY <3>1, <4>1 DEF CycleInv, RegInv, VisitsOK
      <4> QED BY <4>2, <4>3, <4>4 DEF RegInv
    <3>3. RefusedOnCycle'
      BY <3>1 DEF CycleInv, RefusedOnCycle, Reaches
    <3> QED BY <3>1, <3>2, <3>3, ChainCarried DEF CycleInv
  <2> QED BY <2>1, <2>2, CycleStep
<1>3. CycleInv => RefusedOnCycle
  BY DEF CycleInv
<1> QED BY <1>1, <1>2, <1>3, PTL DEF Spec
(* Whatever the graph, and whichever hooks fail and calls are dropped, a   *)
(* module is registered once and after its imports, or refused for a real  *)
(* cycle; it is up only while its imports are; and an undisturbed shutdown *)
(* leaves no module up (registration.rs, application.rs, handle.rs).       *)
THEOREM InOrder == Spec => []UpInOrder
<1>1. Inv /\ RefusedOnCycle => UpInOrder
  BY DEF Inv, RegInv, Settled, NoneUp, UpInOrder, NothingLeftUp
<1> QED BY <1>1, Invariant, OnlyRealCycles, PTL

(* A request or a message is served only by an application all of whose    *)
(* hooks were bootstrapped, unless a shutdown was left unfinished before.  *)
THEOREM Serving == Spec => []ServesWhileUp
<1>1. Inv => ServesWhileUp
  BY DEF Inv, Settled, AllUp, ServesWhileUp
<1> QED BY <1>1, Invariant, PTL
=============================================================================
