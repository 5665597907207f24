--------------------------- MODULE ComponentProofs ---------------------------
(***************************************************************************)
(* What Components promises of its parts, proved for all values of their   *)
(* constants.  Each part has a section: what its constants must be, the    *)
(* inductive invariant as a conjunction of named parts, a lemma for each   *)
(* kind of step, and the theorem.  RequestProofs and DeclaredProofs have   *)
(* the sections of further parts.                                          *)
(***************************************************************************)
EXTENDS Components, Subsequences, FiniteSetTheorems, SequenceTheorems,
        WellFoundedInduction, TLAPS

(* The part under way begins and steps as its component does.              *)
LEMMA PartsBegin ==
    ASSUME PartsInit
    PROVE  /\ part = "dispatch" => Pipeline!Init
           /\ part = "gateway" => Sockets!Init
           /\ part = "transport" => Messages!Init
           /\ part = "database" => Db!Init
           /\ part = "cache" => Caching!Init
           /\ part = "sessions" => Cookies!Init
           /\ part = "discovery" => Etcd!Init
           /\ part = "limits" => Limiter!Init
           /\ part = "handlers" => Handlers!Init
           /\ part = "lazy" => Lazy!Init
           /\ part = "scheduler" => Schedule!Init
           /\ part = "routing" => Routes!Init
           /\ part = "buses" => Bus!Init
           /\ part = "composition" => Composed!Init
           /\ part = "exchange" => Exchange!Init
           /\ part = "payloads" => Payload!Init
           /\ part = "openapi" => Document!Init
BY DEF PartsInit

LEMMA PartsStep ==
    ASSUME [PartsNext]_parts
    PROVE  /\ part' = part
           /\ part = "dispatch" => [Pipeline!Next]_PipelineVars
           /\ part = "gateway" => [Sockets!Next]_SocketsVars
           /\ part = "transport" => [Messages!Next]_MessagesVars
           /\ part = "database" => [Db!Next]_DbVars
           /\ part = "cache" => [Caching!Next]_CachingVars
           /\ part = "sessions" => [Cookies!Next]_CookiesVars
           /\ part = "discovery" => [Etcd!Next]_EtcdVars
           /\ part = "limits" => [Limiter!Next]_LimiterVars
           /\ part = "handlers" => [Handlers!Next]_HandlersVars
           /\ part = "lazy" => [Lazy!Next]_LazyVars
           /\ part = "scheduler" => [Schedule!Next]_ScheduleVars
           /\ part = "routing" => [Routes!Next]_RoutesVars
           /\ part = "buses" => [Bus!Next]_BusVars
           /\ part = "composition" => [Composed!Next]_ComposedVars
           /\ part = "exchange" => [Exchange!Next]_ExchangeVars
           /\ part = "payloads" => [Payload!Next]_PayloadVars
           /\ part = "openapi" => [Document!Next]_DocumentVars
<1>1. CASE PartsNext
  BY <1>1 DEF PartsNext
<1>2. CASE UNCHANGED parts
  BY <1>2 DEF parts
<1> QED BY <1>1, <1>2

-----------------------------------------------------------------------------
(* Positions of a sequence (Subsequences), and how numbers are counted up  *)
(* to: every set of them has a least one.                                  *)

LEMMA BelowIs ==
    ASSUME NEW x \in Nat, NEW y \in Nat, y < x
    PROVE  <<y, x>> \in OpToRel(<, Nat)
BY DEF OpToRel

LEMMA LeastOf ==
    ASSUME NEW S \in SUBSET Nat, S # {}
    PROVE  \E n \in S : \A k \in S : n <= k
<1>1. \A R, X, T : IsWellFoundedOn(R, X) /\ T \subseteq X /\ T # {}
        => \E x \in T : \A y \in T : ~(<<y, x>> \in R)
  BY WFMin
<1>2. \E x \in S : \A y \in S : ~(<<y, x>> \in OpToRel(<, Nat))
  BY <1>1, NatLessThanWellFounded
<1>3. PICK x \in S : \A y \in S : ~(<<y, x>> \in OpToRel(<, Nat))
  BY <1>2
<1>4. \A y \in S : ~(y < x)
  BY <1>3, BelowIs
<1> QED BY <1>4

LEMMA InductionOn ==
    ASSUME NEW S \in SUBSET Nat, 0 \in S, \A n \in S : n + 1 \in S
    PROVE  S = Nat
<1> SUFFICES ASSUME Nat \ S # {} PROVE FALSE
  OBVIOUS
<1>1. PICK n \in Nat \ S : \A k \in Nat \ S : n <= k
  BY LeastOf
<1>2. n # 0 /\ n - 1 \in Nat /\ n - 1 \in S
  BY <1>1
<1> QED BY <1>1, <1>2

LEMMA EarliestIs ==
    ASSUME NEW S \in SUBSET Nat, S # {}
    PROVE  Earliest(S) \in S /\ \A k \in S : Earliest(S) <= k
BY LeastOf DEF Earliest

UpTo(S, n) == {k \in S : k <= n}

LEMMA PositionsAre ==
    ASSUME NEW m \in Nat, NEW S, S \subseteq 1..m
    PROVE  \A k \in S : k \in Nat /\ 1 <= k /\ k <= m
OBVIOUS

LEMMA UpToCounts ==
    ASSUME NEW m \in Nat, NEW S, S \subseteq 1..m
    PROVE  /\ IsFiniteSet(S) /\ Cardinality(S) \in Nat
           /\ \A n : IsFiniteSet(UpTo(S, n)) /\ Cardinality(UpTo(S, n)) \in Nat
           /\ \A n : Cardinality(UpTo(S, n)) <= Cardinality(S)
           /\ \A n \in Nat, k \in Nat : n <= k =>
                Cardinality(UpTo(S, n)) <= Cardinality(UpTo(S, k))
<1>0. \A k \in S : k \in Nat /\ 1 <= k /\ k <= m
  BY PositionsAre
<1>1. IsFiniteSet(1..m)
  BY FS_Interval
<1>2. IsFiniteSet(S)
  BY <1>1, FS_Subset
<1>3. ASSUME NEW n PROVE /\ IsFiniteSet(UpTo(S, n)) /\ Cardinality(UpTo(S, n)) \in Nat
                         /\ Cardinality(UpTo(S, n)) <= Cardinality(S)
  BY <1>2, FS_Subset, FS_CardinalityType DEF UpTo
<1>4. ASSUME NEW n \in Nat, NEW k \in Nat, n <= k
      PROVE  Cardinality(UpTo(S, n)) <= Cardinality(UpTo(S, k))
  <2>1. \A i \in S : i <= n => i <= k
    BY <1>4, <1>0
  <2>2. UpTo(S, n) \subseteq UpTo(S, k)
    BY <2>1 DEF UpTo
  <2> QED BY <2>2, <1>3, FS_Subset
<1> QED BY <1>2, <1>3, <1>4, FS_CardinalityType

LEMMA NthIs ==
    ASSUME NEW m \in Nat, NEW S, S \subseteq 1..m,
           NEW r \in Nat, 1 <= r, r <= Cardinality(S)
    PROVE  Nth(S, r) \in S /\ Cardinality(UpTo(S, Nth(S, r))) = r
<1> DEFINE count(n) == Cardinality(UpTo(S, n))
           enough == {n \in Nat : count(n) >= r}
<1>0. \A k \in S : k \in Nat /\ 1 <= k /\ k <= m
  BY PositionsAre
<1>1. \A n \in Nat : count(n) \in Nat
  BY UpToCounts
<1>2. \A k \in S : k <= m
  BY <1>0
<1>3. UpTo(S, m) = S
  BY <1>2 DEF UpTo
<1>4. m \in enough
  BY <1>1, <1>3, UpToCounts
<1>5. PICK n \in enough : \A k \in enough : n <= k
  BY <1>4, LeastOf
<1>6. n \in Nat /\ count(n) >= r
  BY <1>5
<1>7. n # 0
  <2>1. \A k \in S : ~(k <= 0)
    BY <1>0
  <2>2. UpTo(S, 0) = {}
    BY <2>1 DEF UpTo
  <2>3. count(0) = 0
    BY <2>2, FS_EmptySet
  <2> QED BY <2>3, <1>6
<1>8. n - 1 \in Nat /\ count(n - 1) < r
  BY <1>5, <1>6, <1>7, <1>1
<1> HIDE DEF count, enough
<1>9. n \in S
  <2> SUFFICES ASSUME n \notin S PROVE FALSE
    OBVIOUS
  <2>1. \A k \in S : k <= n <=> k <= n - 1
    BY <1>6, <1>8, <1>0
  <2>2. UpTo(S, n) = UpTo(S, n - 1)
    BY <2>1 DEF UpTo
  <2> QED BY <2>2, <1>1, <1>6, <1>8 DEF count
<1>10. \A k \in S : (k <= n <=> k <= n - 1 \/ k = n) /\ ~(n <= n - 1)
  BY <1>6, <1>8, <1>0
<1>11. UpTo(S, n) = UpTo(S, n - 1) \cup {n} /\ n \notin UpTo(S, n - 1)
  BY <1>9, <1>10 DEF UpTo
<1>12. count(n) = count(n - 1) + 1
  BY <1>11, FS_AddElement, UpToCounts DEF count
<1>13. count(n) = r
  BY <1>1, <1>6, <1>8, <1>12
<1>14. \E k \in S : Cardinality({j \in S : j <= k}) = r
  BY <1>9, <1>13 DEF UpTo, count
<1> QED BY <1>14 DEF Nth, UpTo

LEMMA NthGrows ==
    ASSUME NEW m \in Nat, NEW S, S \subseteq 1..m,
           NEW r \in Nat, 1 <= r, NEW t \in Nat, r < t, t <= Cardinality(S)
    PROVE  Nth(S, r) < Nth(S, t)
<1>a. Cardinality(S) \in Nat
  BY UpToCounts
<1>0. r <= Cardinality(S) /\ 1 <= t
  BY <1>a
<1>1. Nth(S, r) \in S /\ Cardinality(UpTo(S, Nth(S, r))) = r
  BY NthIs, <1>0
<1>2. Nth(S, t) \in S /\ Cardinality(UpTo(S, Nth(S, t))) = t
  BY NthIs, <1>0
<1>3. Nth(S, r) \in Nat /\ Nth(S, t) \in Nat
  BY <1>1, <1>2, PositionsAre
<1>4. Nth(S, t) <= Nth(S, r) => t <= r
  BY <1>1, <1>2, <1>3, UpToCounts
<1> QED BY <1>3, <1>4

LEMMA OnlyIs ==
    ASSUME NEW T, NEW s \in Seq(T), NEW S, S \subseteq 1..Len(s)
    PROVE  /\ Only(s, S) \in Seq(T)
           /\ Len(Only(s, S)) = Cardinality(S) /\ Cardinality(S) \in Nat
           /\ DOMAIN Only(s, S) = 1..Cardinality(S)
           /\ \A r \in 1..Cardinality(S) :
                 Nth(S, r) \in S /\ Only(s, S)[r] = s[Nth(S, r)]
<1>1. Len(s) \in Nat
  OBVIOUS
<1>2. Cardinality(S) \in Nat
  BY <1>1, UpToCounts
<1>3. ASSUME NEW r \in 1..Cardinality(S) PROVE Nth(S, r) \in S
  <2>1. r \in Nat /\ 1 <= r /\ r <= Cardinality(S)
    BY <1>2
  <2> QED BY <2>1, <1>1, NthIs
<1>4. \A k \in 1..Len(s) : s[k] \in T
  OBVIOUS
<1>5. \A r \in 1..Cardinality(S) : s[Nth(S, r)] \in T
  BY <1>1, <1>3, <1>4
<1> QED BY <1>2, <1>3, <1>5 DEF Only

-----------------------------------------------------------------------------
(* Request pipelines (Dispatch).                                           *)

PipelineGiven == InterceptorCount \in Nat

(* Behind a level whose future does not run nothing runs.                  *)
ChainInv ==
    /\ PipelineGiven
    /\ live \in [Pipeline!Levels -> {0, 1}]
    /\ running \in [Pipeline!Levels -> BOOLEAN]
    /\ \A k \in Pipeline!Levels : running[k] <=> live[k] = 1
    /\ \A k \in Pipeline!Levels : k > 1 /\ live[k] = 1 => live[k - 1] = 1
    /\ handling \in Nat /\ handling <= live[Pipeline!Terminal]

LEMMA LevelsAre ==
    ASSUME PipelineGiven
    PROVE  /\ Pipeline!Terminal \in Nat \ {0}
           /\ Pipeline!Terminal \in Pipeline!Levels
           /\ Pipeline!Levels = 1..Pipeline!Terminal
           /\ \A k \in Pipeline!Levels : k \in Nat /\ k > 0
                /\ (k > 1 => k - 1 \in Pipeline!Levels)
BY DEF PipelineGiven, Pipeline!Terminal, Pipeline!Levels

LEMMA ReleasedInv ==
    ASSUME ChainInv, NEW k \in Pipeline!Levels, live[k] > 0, Pipeline!Released(k)
    PROVE  ChainInv'
<1>1. live[k] = 1 /\ k \in Nat
  BY LevelsAre DEF ChainInv
<1>2. /\ \A j \in Pipeline!Levels : /\ live'[j] = IF j < k THEN live[j] ELSE 0
                                    /\ running'[j] = (j < k /\ running[j])
      /\ live' \in [Pipeline!Levels -> {0, 1}]
      /\ running' \in [Pipeline!Levels -> BOOLEAN]
  <2>1. ASSUME NEW j \in Pipeline!Levels
        PROVE  (IF j < k THEN live[j] ELSE IF j = k THEN live[j] - 1 ELSE 0)
                   = IF j < k THEN live[j] ELSE 0
    BY <1>1 DEF ChainInv
  <2> QED BY <2>1, LevelsAre DEF Pipeline!Released, ChainInv
<1>3. \A j \in Pipeline!Levels : running'[j] <=> live'[j] = 1
  BY <1>2 DEF ChainInv
<1>4. ASSUME NEW j \in Pipeline!Levels, j > 1, live'[j] = 1 PROVE live'[j - 1] = 1
  BY <1>1, <1>2, <1>4, LevelsAre DEF ChainInv
<1>5. handling' = 0 /\ live'[Pipeline!Terminal] \in {0, 1}
  BY <1>2, LevelsAre DEF Pipeline!Released, ChainInv
<1> QED BY <1>2, <1>3, <1>4, <1>5
           DEF ChainInv, PipelineGiven, Pipeline!Terminal, Pipeline!Levels

LEMMA ChainNext == ASSUME ChainInv, [Pipeline!Next]_PipelineVars PROVE ChainInv'
<1>a. PipelineGiven /\ Pipeline!Terminal \in Pipeline!Levels
  BY LevelsAre DEF ChainInv
<1>1. ASSUME NEW k \in Pipeline!Levels, Pipeline!Poll(k) PROVE ChainInv'
  <2>1. live[k] = 0 /\ (k > 1 => k - 1 \in Pipeline!Levels /\ live[k - 1] = 1)
    <3>1. ~running[k] /\ live[k] \in {0, 1} /\ (running[k] <=> live[k] = 1)
      BY <1>1 DEF Pipeline!Poll, ChainInv
    <3>2. ASSUME k > 1 PROVE k - 1 \in Pipeline!Levels /\ live[k - 1] = 1
      <4>1. k - 1 \in Pipeline!Levels /\ k # 1
        BY <1>a, <3>2, LevelsAre
      <4>2. live[k - 1] > 0 /\ live[k - 1] \in {0, 1}
        BY <1>1, <4>1
           DEF Pipeline!Poll, Pipeline!Polled, Pipeline!Caller, ChainInv
      <4> QED BY <4>1, <4>2
    <3> QED BY <3>1, <3>2
  <2>2. \A j \in Pipeline!Levels : /\ live'[j] = IF j = k THEN 1 ELSE live[j]
                                   /\ running'[j] = IF j = k THEN TRUE
                                        ELSE running[j]
    BY <1>1, <2>1 DEF Pipeline!Poll, ChainInv
  <2>3. live' \in [Pipeline!Levels -> {0, 1}]
          /\ running' \in [Pipeline!Levels -> BOOLEAN]
    BY <1>1, <2>1 DEF Pipeline!Poll, ChainInv
  <2>4. ASSUME NEW j \in Pipeline!Levels, j > 1, live'[j] = 1 PROVE live'[j - 1] = 1
    <3>1. j - 1 \in Pipeline!Levels
      BY <1>a, <2>4, LevelsAre
    <3>2. live[j - 1] = 1
      BY <2>1, <2>2, <2>4 DEF ChainInv
    <3> QED BY <2>2, <3>1, <3>2
  <2>5. handling' = handling /\ handling <= live'[Pipeline!Terminal]
    BY <1>1, <1>a, <2>1, <2>2 DEF Pipeline!Poll, ChainInv
  <2>6. ASSUME NEW j \in Pipeline!Levels PROVE running'[j] <=> live'[j] = 1
    <3>1. CASE j = k
      BY <2>2, <3>1
    <3>2. CASE j # k
      <4>1. running'[j] = running[j] /\ live'[j] = live[j]
        BY <2>2, <3>2
      <4>2. running[j] <=> live[j] = 1
        BY DEF ChainInv
      <4> QED BY <4>1, <4>2
    <3> QED BY <3>1, <3>2
  <2> QED BY <1>a, <2>3, <2>4, <2>5, <2>6
             DEF ChainInv, PipelineGiven, Pipeline!Terminal, Pipeline!Levels
<1>2. ASSUME NEW k \in Pipeline!Levels, NEW how, Pipeline!Ends(k, how) \/ Pipeline!Dropped(k)
      PROVE  ChainInv'
  BY <1>2, ReleasedInv DEF Pipeline!Ends, Pipeline!Dropped
<1>3. CASE \/ Pipeline!PipeFails
           \/ \E how \in {"reply", "error"} :
                 Pipeline!HandlerEnds(how)
                     \/ \E k \in Pipeline!Levels : Pipeline!Intercepted(k, how)
  BY <1>2, <1>3, <1>a
     DEF Pipeline!PipeFails, Pipeline!HandlerEnds, Pipeline!Intercepted
<1>4. CASE Pipeline!Handle
  BY <1>4, <1>a DEF Pipeline!Handle, ChainInv
<1>5. CASE UNCHANGED <<live, running, handling>>
  BY <1>5 DEF ChainInv, PipelineGiven, Pipeline!Terminal, Pipeline!Levels
<1>6. CASE \/ Pipeline!MiddlewarePassed \/ Pipeline!GuardActivates
           \/ Pipeline!Refused \/ Pipeline!GuardsPassed
           \/ Pipeline!Pipe \/ Pipeline!Unfiltered \/ UNCHANGED PipelineVars
           \/ \E answers \in BOOLEAN : Pipeline!Middleware(answers)
           \/ \E k \in Pipeline!Levels : Pipeline!PollRefused(k)
           \/ \E says \in {"nothing", "reply", "error"} : Pipeline!Filter(says)
  BY <1>5, <1>6
     DEF Pipeline!MiddlewarePassed, Pipeline!GuardActivates, Pipeline!Refused,
         Pipeline!GuardsPassed, Pipeline!Pipe, Pipeline!Unfiltered,
         PipelineVars, Pipeline!Middleware, Pipeline!PollRefused,
         Pipeline!Filter, Pipeline!Chain
<1> QED BY <1>1, <1>2, <1>3, <1>4, <1>6 DEF Pipeline!Next

(* However interceptors call what is behind them, again, twice at a time   *)
(* or after they dropped it: it runs once at a time, and is open again as  *)
(* soon as a run is over (CallHandler::handle, CallHandlerReset).          *)
THEOREM OneRun == ASSUME PipelineGiven PROVE PartsSpec => []OneRunAtATime
<1>1. Pipeline!Init => ChainInv
  <2> SUFFICES ASSUME Pipeline!Init PROVE ChainInv
    OBVIOUS
  <2>1. Pipeline!Terminal \in Pipeline!Levels
    BY LevelsAre
  <2> QED BY <2>1 DEF Pipeline!Init, ChainInv
<1>2. ChainInv /\ [Pipeline!Next]_PipelineVars => ChainInv'
  BY ChainNext
<1>3. ChainInv => Pipeline!OneRunAtATime
  <2> SUFFICES ASSUME ChainInv PROVE Pipeline!OneRunAtATime
    OBVIOUS
  <2>1. live[Pipeline!Terminal] \in {0, 1}
    BY LevelsAre DEF ChainInv
  <2> QED BY <2>1 DEF ChainInv, Pipeline!OneRunAtATime
<1>4. PartsInit => (part = "dispatch" => ChainInv)
  BY <1>1, PartsBegin
<1>5. (part = "dispatch" => ChainInv) /\ [PartsNext]_parts
        => (part = "dispatch" => ChainInv)'
  BY <1>2, PartsStep
<1>6. (part = "dispatch" => ChainInv) => OneRunAtATime
  BY <1>3 DEF OneRunAtATime
<1> QED BY <1>4, <1>5, <1>6, PTL DEF PartsSpec

-----------------------------------------------------------------------------
(* Connections of WebSocket gateways.                                      *)

(* Closers have names of their own; a gateway has some number of hooks.    *)
GatewayGiven == Nobody \notin {"task", "clone", "lost"}

SocketTypes ==
    /\ task \in [Connections -> {"new", "opening", "serving", "closing", "gone"}]
    /\ opened \in [Connections -> BOOLEAN]
    /\ closer \in [Connections -> {Nobody, "task", "clone", "lost"}]
    /\ rounds \in [Connections -> Nat]
    /\ table = [c \in DOMAIN table |-> table[c]]

(* A connection whose flag is set is in the table and nobody closed it; a  *)
(* new one is in no table.                                                 *)
SocketHeld(c) ==
    /\ opened[c] => rounds[c] = 0 /\ closer[c] = Nobody /\ c \in DOMAIN table
    /\ task[c] = "new" => ~opened[c] /\ rounds[c] = 0 /\ closer[c] = Nobody
    /\ ~opened[c] /\ closer[c] = Nobody => c \notin DOMAIN table
    /\ rounds[c] <= 1

SocketInv == GatewayGiven /\ SocketTypes /\ \A c \in Connections : SocketHeld(c)

(* What a step of one connection leaves of the others.                     *)
OthersStay(c) ==
    \A d \in Connections \ {c} :
        /\ task'[d] = task[d] /\ opened'[d] = opened[d] /\ closer'[d] = closer[d]
        /\ rounds'[d] = rounds[d] /\ (d \in DOMAIN table' <=> d \in DOMAIN table)

LEMMA StaysHeld ==
    ASSUME SocketInv, NEW c \in Connections, OthersStay(c), SocketTypes',
           SocketHeld(c)'
    PROVE  SocketInv'
<1>1. ASSUME NEW d \in Connections \ {c} PROVE SocketHeld(d)'
  <2>1. /\ task'[d] = task[d] /\ opened'[d] = opened[d] /\ closer'[d] = closer[d]
        /\ rounds'[d] = rounds[d] /\ (d \in DOMAIN table' <=> d \in DOMAIN table)
    BY DEF OthersStay
  <2>2. SocketHeld(d)
    BY DEF SocketInv
  <2> QED BY <2>1, <2>2 DEF SocketHeld
<1> QED BY <1>1 DEF SocketInv, GatewayGiven

LEMMA SocketNext == ASSUME SocketInv, [Sockets!Next]_SocketsVars PROVE SocketInv'
<1> USE DEF Sockets!Registry, Sockets!Closing
<1>1. ASSUME NEW c \in Connections, Sockets!Open(c) PROVE SocketInv'
  <2>1. SocketTypes' /\ OthersStay(c) /\ SocketHeld(c)'
    BY <1>1
       DEF Sockets!Open, Sockets!Register, SocketInv, SocketTypes, OthersStay,
           SocketHeld
  <2> QED BY <2>1, StaysHeld
<1>2. ASSUME NEW c \in Connections, Sockets!ConnectHookFails(c) PROVE SocketInv'
  <2>1. SocketTypes' /\ OthersStay(c) /\ SocketHeld(c)'
    BY <1>2
       DEF Sockets!ConnectHookFails, Sockets!Unregister, SocketInv, SocketTypes,
           OthersStay, SocketHeld
  <2> QED BY <2>1, StaysHeld
<1>3. ASSUME NEW c \in Connections,
             Sockets!ConnectHook(c) \/ Sockets!Opened(c)
                 \/ Sockets!WriterEnds(c) \/ Sockets!TaskFindsClosed(c)
                 \/ Sockets!DisconnectHook(c) \/ Sockets!TaskPanics(c)
                 \/ Sockets!CutShort(c)
      PROVE  SocketInv'
  <2>1. SocketTypes' /\ OthersStay(c) /\ SocketHeld(c)'
    BY <1>3
       DEF Sockets!ConnectHook, Sockets!Opened, Sockets!WriterEnds,
           Sockets!TaskFindsClosed, Sockets!DisconnectHook,
           Sockets!TaskPanics, Sockets!CutShort, SocketInv, SocketTypes,
           OthersStay, SocketHeld, GatewayGiven
  <2> QED BY <2>1, StaysHeld
<1>4. ASSUME NEW c \in Connections, Sockets!CloneCloses(c) \/ Sockets!TaskCloses(c)
      PROVE  SocketInv'
  <2>1. PICK who \in {"clone", "task"} :
           Sockets!Swapped(c, who) /\ table' = table
               /\ task' \in {task, [task EXCEPT ![c] = "closing"]}
    BY <1>4 DEF Sockets!CloneCloses, Sockets!TaskCloses
  <2>2. opened[c] /\ rounds[c] = 0 /\ c \in DOMAIN table /\ task[c] # "new"
    BY <2>1 DEF Sockets!Swapped, SocketInv, SocketHeld
  <2>3. /\ task' \in [Connections -> {"new", "opening", "serving", "closing",
                                      "gone"}]
        /\ opened' \in [Connections -> BOOLEAN]
        /\ closer' \in [Connections -> {Nobody, "task", "clone", "lost"}]
        /\ rounds' \in [Connections -> Nat]
    BY <2>1 DEF Sockets!Swapped, SocketInv, SocketTypes
  <2>4. OthersStay(c)
    BY <2>1 DEF Sockets!Swapped, SocketInv, SocketTypes, OthersStay
  <2>5. ~opened'[c] /\ closer'[c] = who /\ rounds'[c] = 1 /\ task'[c] # "new"
    BY <2>1, <2>2 DEF Sockets!Swapped, SocketInv, SocketTypes
  <2>6. SocketHeld(c)'
    BY <2>1, <2>2, <2>5 DEF SocketHeld, SocketInv, GatewayGiven
  <2>7. SocketTypes'
    BY <2>1, <2>3 DEF SocketTypes, SocketInv
  <2> QED BY <2>4, <2>6, <2>7, StaysHeld
<1>5. ASSUME NEW c \in Connections, Sockets!Closed(c) PROVE SocketInv'
  <2>1. /\ task' \in [Connections -> {"new", "opening", "serving", "closing",
                                      "gone"}]
        /\ closer' \in [Connections -> {Nobody, "task", "clone", "lost"}]
        /\ opened' = opened /\ rounds' = rounds
        /\ table' = [d \in DOMAIN table \ {c} |-> table[d]]
    BY <1>5 DEF Sockets!Closed, Sockets!Unregister, SocketInv, SocketTypes
  <2>2. /\ closer'[c] = Nobody /\ task'[c] \in {task[c], "gone"}
        /\ \A d \in Connections \ {c} : task'[d] = task[d] /\ closer'[d] = closer[d]
    BY <1>5 DEF Sockets!Closed, SocketInv, SocketTypes
  <2>3. DOMAIN table' = DOMAIN table \ {c}
          /\ table' = [d \in DOMAIN table' |-> table'[d]]
    BY <2>1
  <2>4. SocketTypes' /\ OthersStay(c)
    BY <2>1, <2>2, <2>3 DEF SocketInv, SocketTypes, OthersStay
  <2>5. SocketHeld(c)'
    BY <1>5, <2>1, <2>2, <2>3
       DEF Sockets!Closed, SocketInv, SocketTypes, SocketHeld, GatewayGiven
  <2> QED BY <2>4, <2>5, StaysHeld
<1>6. ASSUME NEW c \in Connections, NEW room \in Rooms,
             Sockets!Join(c, room) \/ Sockets!Leave(c, room)
      PROVE  SocketInv'
  <2>1. SocketTypes' /\ OthersStay(c) /\ SocketHeld(c)'
    BY <1>6
       DEF Sockets!Join, Sockets!Leave, SocketInv, SocketTypes, OthersStay,
           SocketHeld
  <2> QED BY <2>1, StaysHeld
<1>7. CASE \/ \E room \in Rooms : Sockets!Broadcast(room)
           \/ Sockets!SendNext
           \/ UNCHANGED SocketsVars
  BY <1>7
     DEF Sockets!Broadcast, Sockets!SendNext, SocketsVars, SocketInv,
         SocketTypes, SocketHeld, GatewayGiven
<1> QED BY <1>1, <1>2, <1>3, <1>4, <1>5, <1>6, <1>7 DEF Sockets!Next

(* Whoever closes a connection, and however many do at once: it leaves the *)
(* table and its rooms, and its disconnect hooks are run by one of them    *)
(* (open, close and join of connection.rs, state.rs).                      *)
THEOREM ConnectionsClosed ==
    ASSUME GatewayGiven PROVE PartsSpec => []ConnectionsClose
<1>1. Sockets!Init => SocketInv
  BY DEF Sockets!Init, SocketInv, SocketTypes, SocketHeld
<1>2. SocketInv /\ [Sockets!Next]_SocketsVars => SocketInv'
  BY SocketNext
<1>3. SocketInv => Sockets!GoneIsForgotten /\ Sockets!DisconnectedOnce
  BY DEF SocketInv, SocketHeld, Sockets!GoneIsForgotten,
         Sockets!DisconnectedOnce
<1>4. PartsInit => (part = "gateway" => SocketInv)
  BY <1>1, PartsBegin
<1>5. (part = "gateway" => SocketInv) /\ [PartsNext]_parts
        => (part = "gateway" => SocketInv)'
  BY <1>2, PartsStep
<1>6. (part = "gateway" => SocketInv) => ConnectionsClose
  BY <1>3 DEF ConnectionsClose
<1> QED BY <1>4, <1>5, <1>6, PTL DEF PartsSpec

-----------------------------------------------------------------------------
(* Messages over the transports.                                           *)

TaskRecords == [server : Servers, connection : Nat, call : Sends,
                at : {"dispatch", "publish", "ack"}]

MessageTypes ==
    /\ message \in [Sends -> [kind : {"request", "event"}, decodes : BOOLEAN,
                              at : {"idle", "waiting", "replied", "sent", "refused",
                                    "error"}]]
    /\ serves \in [Servers -> Nat]
    /\ deliveries \subseteq TaskRecords
    /\ unacked \subseteq Servers \X Sends

(* A task past its dispatch has run its handler to the end.                *)
PastDispatch == \A t \in deliveries : t.at # "dispatch" => t.call \in ended

MessageInv == MessageTypes /\ PastDispatch /\ Messages!AckedIsHandled
    /\ Messages!AnsweredIsHandled

Held == queue \cup ended \cup {x[2] : x \in unacked}

LEMMA AckedAre ==
    Messages!AckedIsHandled <=>
        (transport = "rabbitmq" =>
            \A c \in Sends : message[c].at # "idle" /\ message[c].decodes
                => c \in Held)
BY DEF Messages!AckedIsHandled, Held

(* Nobody takes a call from queue, unacked and ended at once, and none is  *)
(* published but by Calling.                                               *)
LEMMA StaysHandled ==
    ASSUME Messages!AckedIsHandled, transport' = transport,
           \A c \in Sends : /\ message'[c].decodes = message[c].decodes
                            /\ message'[c].at # "idle" => message[c].at # "idle",
           transport = "rabbitmq" =>
               \A c \in Sends : message[c].decodes /\ c \in Held => c \in Held'
    PROVE  Messages!AckedIsHandled'
BY DEF Messages!AckedIsHandled, Held

(* A new reply is that of a handler that ended, or of no message.          *)
LEMMA StaysAnswered ==
    ASSUME Messages!AnsweredIsHandled, ended \subseteq ended',
           \A c \in Sends : message'[c].decodes = message[c].decodes,
           \A c \in Sends :
               c \in replies' \/ message'[c].at = "replied" =>
                   \/ c \in replies \/ message[c].at = "replied"
                   \/ c \in ended \/ ~message[c].decodes
    PROVE  Messages!AnsweredIsHandled'
BY DEF Messages!AnsweredIsHandled

LEMMA TaskGrown ==
    ASSUME MessageInv, NEW s \in Servers, NEW c \in Sends,
           deliveries' = deliveries \cup {Messages!Task(s, c, "dispatch")},
           UNCHANGED ended
    PROVE  deliveries' \subseteq TaskRecords /\ PastDispatch'
BY DEF MessageInv, MessageTypes, PastDispatch, Messages!Task, TaskRecords

LEMMA TaskMoved ==
    ASSUME MessageInv, NEW t \in deliveries, NEW at \in {"publish", "ack", "over"},
           deliveries' = Messages!To(t, at) \/ deliveries' = deliveries \ {t},
           t.call \in ended',
           ended \subseteq ended'
    PROVE  deliveries' \subseteq TaskRecords /\ PastDispatch'
BY DEF MessageInv, MessageTypes, PastDispatch, Messages!To, TaskRecords

LEMMA CallingInv ==
    ASSUME MessageInv, NEW c \in Sends, Messages!Calling(c) PROVE MessageInv'
<1>0. message[c] \in [kind : {"request", "event"}, decodes : BOOLEAN,
                      at :
                          {"idle", "waiting", "replied", "sent", "refused",
                           "error"}]
  BY DEF MessageInv, MessageTypes
<1>1. /\ \E at \in {"waiting", "sent", "refused"} : Messages!Moved(c, at)
      /\ \/ deliveries' = deliveries
         \/ \E s \in Servers :
              deliveries' = deliveries \cup {Messages!Task(s, c, "dispatch")}
      /\ queue' = queue \/ queue' = queue \cup {c}
      /\ transport = "rabbitmq" => c \in queue'
  <2>1. Messages!Waits(c) \in {"waiting", "sent"}
    BY DEF Messages!Waits
  <2>2. CASE Messages!RabbitMqPublish(c)
    BY <2>1, <2>2 DEF Messages!RabbitMqPublish
  <2>3. CASE transport # "rabbitmq" /\ Messages!Refused(c)
    BY <2>3 DEF Messages!Refused
  <2>4. CASE transport # "rabbitmq" /\ \E a : Messages!Published(c, a)
    BY <2>1, <2>4 DEF Messages!Published
  <2>5. CASE transport # "rabbitmq" /\ \E s \in Servers :
               Messages!Connects(c, s, "waiting")
    BY <2>3, <2>5 DEF Messages!Connects
  <2>6. CASE transport # "rabbitmq" /\ Messages!InProcessSend(c)
    BY <2>6 DEF Messages!InProcessSend
  <2> QED BY <2>2, <2>3, <2>4, <2>5, <2>6
             DEF Messages!Calling, Messages!Send, Messages!Emit,
                 Messages!RedisSend, Messages!RedisEmit, Messages!NatsSend,
                 Messages!NatsEmit, Messages!MqttSend, Messages!MqttEmit,
                 Messages!KafkaSend, Messages!KafkaEmit, Messages!RabbitMqSend,
                 Messages!RabbitMqEmit, Messages!TcpSend, Messages!TcpEmit,
                 Messages!GrpcSend, Messages!GrpcEmit
<1>2. UNCHANGED <<transport, serving, serves, unacked, replies, ended, losses>>
  BY DEF Messages!Calling
<1>3. /\ message' \in [Sends -> [kind : {"request", "event"}, decodes : BOOLEAN,
                                 at : {"idle", "waiting", "replied", "sent", "refused",
                                       "error"}]]
      /\ \A d \in Sends \ {c} : message'[d] = message[d]
      /\ message'[c].decodes = message[c].decodes
  BY <1>1 DEF Messages!Moved, MessageInv, MessageTypes
<1>4. deliveries' \subseteq TaskRecords /\ PastDispatch'
  <2>1. CASE deliveries' = deliveries
    BY <1>2, <2>1 DEF MessageInv, MessageTypes, PastDispatch
  <2> QED BY <1>1, <1>2, <2>1, TaskGrown
<1>5. MessageTypes'
  BY <1>2, <1>3, <1>4 DEF MessageTypes, MessageInv
<1>6. Messages!AckedIsHandled'
  BY <1>1, <1>2, <1>3 DEF MessageInv, Messages!AckedIsHandled
<1>7. Messages!AnsweredIsHandled'
  <2>1. message'[c].at # "replied"
    BY <1>0, <1>1 DEF Messages!Moved, MessageInv, MessageTypes
  <2> QED BY <1>2, <1>3, <2>1, StaysAnswered DEF MessageInv
<1> QED BY <1>4, <1>5, <1>6, <1>7 DEF MessageInv

(* What a step of a server or a task does to the calls themselves: at most *)
(* a step of one that is under way.                                        *)
LEMMA CallsStay ==
    ASSUME MessageInv, UNCHANGED message
    PROVE  \A c \in Sends : /\ message'[c].decodes = message[c].decodes
                            /\ message'[c].at # "idle" => message[c].at # "idle"
OBVIOUS

LEMMA MessageNext ==
    ASSUME MessageInv, [Messages!Next]_MessagesVars PROVE MessageInv'
<1>1. ASSUME NEW c \in Sends,
             Messages!Answered(c) \/ Messages!TimesOut(c) \/ Messages!Closed(c)
      PROVE  MessageInv'
  <2>0. message[c] \in [kind : {"request", "event"}, decodes : BOOLEAN,
                        at :
                            {"idle", "waiting", "replied", "sent", "refused",
                             "error"}]
    BY DEF MessageInv, MessageTypes
  <2>a. /\ UNCHANGED <<transport, serves, queue, unacked, deliveries, ended>>
        /\ message[c].at = "waiting" /\ replies' \subseteq replies
        /\ \E at \in {"replied", "error"} :
              Messages!Moved(c, at) /\ (at = "replied" => c \in replies)
    BY <1>1 DEF Messages!Answered, Messages!TimesOut, Messages!Closed
  <2>1. /\ message' \in [Sends -> [kind : {"request", "event"}, decodes : BOOLEAN,
                                   at : {"idle", "waiting", "replied", "sent", "refused",
                                         "error"}]]
        /\ \A d \in Sends : /\ message'[d].decodes = message[d].decodes
                            /\ message'[d].at # "idle" => message[d].at # "idle"
                            /\ message'[d].at = "replied" =>
                                  message[d].at = "replied" \/ d \in replies
    BY <2>0, <2>a DEF Messages!Moved, MessageInv, MessageTypes
  <2>2. Messages!AckedIsHandled'
    BY <2>1, <2>a DEF MessageInv, Messages!AckedIsHandled
  <2>3. Messages!AnsweredIsHandled'
    BY <2>1, <2>a, StaysAnswered DEF MessageInv
  <2> QED BY <2>1, <2>2, <2>3, <2>a DEF MessageInv, MessageTypes, PastDispatch
<1>2. ASSUME NEW s \in Servers, Messages!Serve(s) PROVE MessageInv'
  <2>1. /\ UNCHANGED <<transport, message, queue, unacked, deliveries, replies,
                         ended>>
        /\ serves' \in [Servers -> Nat]
    BY <1>2 DEF Messages!Serve, MessageInv, MessageTypes
  <2> QED BY <2>1
             DEF MessageInv, MessageTypes, PastDispatch, Messages!AckedIsHandled,
                 Messages!AnsweredIsHandled
<1>3. ASSUME NEW s \in Servers, Messages!StopsServing(s) \/ Messages!Crash(s)
      PROVE  MessageInv'
  <2>1. UNCHANGED <<transport, message, serves, replies, ended>>
          /\ deliveries' \subseteq deliveries
    BY <1>3 DEF Messages!StopsServing, Messages!Crash
  <2>2. /\ queue' = queue \cup {x[2] : x \in {y \in unacked : y[1] = s}}
        /\ unacked' = {x \in unacked : x[1] # s}
    BY <1>3 DEF Messages!StopsServing, Messages!Crash, Messages!Disconnects
  <2>3. MessageTypes' /\ PastDispatch'
    BY <2>1, <2>2 DEF MessageInv, MessageTypes, PastDispatch
  <2>4. ASSUME NEW c \in Held PROVE c \in Held'
    BY <2>1, <2>2 DEF Held
  <2>5. Messages!AnsweredIsHandled'
    BY <2>1, StaysAnswered DEF MessageInv
  <2> QED BY <2>1, <2>3, <2>4, <2>5, CallsStay, StaysHandled DEF MessageInv
<1>4. ASSUME NEW s \in Servers, NEW c \in Sends, Messages!Receive(s, c)
      PROVE  MessageInv'
  <2>1. /\ UNCHANGED <<transport, message, serves, queue, unacked, ended>>
        /\ deliveries' = deliveries
             \/ deliveries' = deliveries \cup {Messages!Task(s, c, "dispatch")}
        /\ replies' = replies
             \/ (replies' = replies \cup {c} /\ ~message[c].decodes)
    BY <1>4
       DEF Messages!Receive, Messages!RedisReceives, Messages!NatsReceives,
           Messages!MqttReceives, Messages!KafkaReceives, Messages!TcpReceives,
           Messages!GrpcReceives, Messages!Spawned, Messages!Errs,
           Messages!Skipped
  <2>2. deliveries' \subseteq TaskRecords /\ PastDispatch'
    <3>1. CASE deliveries' = deliveries
      BY <2>1, <3>1 DEF MessageInv, MessageTypes, PastDispatch
    <3> QED BY <2>1, <3>1, TaskGrown
  <2>3. Messages!AnsweredIsHandled'
    BY <2>1, StaysAnswered DEF MessageInv
  <2> QED BY <2>1, <2>2, <2>3 DEF MessageInv, MessageTypes, Messages!AckedIsHandled
<1>5. ASSUME NEW s \in Servers, NEW c \in Sends, Messages!Deliver(s, c)
      PROVE  MessageInv'
  <2>1. /\ UNCHANGED <<transport, message, serves, replies, ended>>
        /\ queue' = queue \ {c}
        /\ \/ ~message[c].decodes /\ UNCHANGED <<deliveries, unacked>>
           \/ /\ deliveries' = deliveries \cup {Messages!Task(s, c, "dispatch")}
              /\ unacked' = unacked \cup {<<s, c>>}
    BY <1>5 DEF Messages!Deliver, Messages!Spawned, Messages!Skipped
  <2>2. deliveries' \subseteq TaskRecords /\ PastDispatch'
    <3>1. CASE deliveries' = deliveries
      BY <2>1, <3>1 DEF MessageInv, MessageTypes, PastDispatch
    <3> QED BY <2>1, <3>1, TaskGrown
  <2>3. ASSUME NEW d \in Held, d # c \/ message[c].decodes PROVE d \in Held'
    <3>1. CASE d = c /\ unacked' = unacked \cup {<<s, c>>}
      <4>1. <<s, c>> \in unacked' /\ <<s, c>>[2] = c
        BY <3>1
      <4> QED BY <3>1, <4>1 DEF Held
    <3> QED BY <2>1, <2>3, <3>1 DEF Held
  <2>4. MessageTypes'
    BY <2>1, <2>2 DEF MessageInv, MessageTypes
  <2>5. Messages!AnsweredIsHandled'
    BY <2>1, StaysAnswered DEF MessageInv
  <2> QED BY <2>1, <2>2, <2>3, <2>4, <2>5, CallsStay, StaysHandled DEF MessageInv
<1>6. ASSUME NEW t \in deliveries, Messages!Dispatch(t) PROVE MessageInv'
  <2>1. UNCHANGED <<transport, message, serves, queue, unacked, replies>>
          /\ ended' = ended \cup {t.call}
    BY <1>6 DEF Messages!Dispatch
  <2>2. deliveries' \subseteq TaskRecords /\ PastDispatch'
    <3>1. Messages!Afterwards(t.call) \in {"publish", "ack", "over"}
      BY DEF Messages!Afterwards
    <3> QED BY <1>6, <2>1, <3>1, TaskMoved DEF Messages!Dispatch
  <2>3. Messages!AnsweredIsHandled'
    BY <2>1, StaysAnswered DEF MessageInv
  <2> QED BY <2>1, <2>2, <2>3 DEF MessageInv, MessageTypes, Messages!AckedIsHandled
<1>7. ASSUME NEW t \in deliveries, Messages!Panic(t) \/ Messages!PublishReply(t)
               \/ Messages!PublishFails(t)
      PROVE  MessageInv'
  <2>1. /\ UNCHANGED <<transport, message, serves, queue, unacked, ended>>
        /\ \/ deliveries' = deliveries \ {t}
           \/ t.at = "publish"
                /\ (deliveries' = Messages!To(t, "ack")
                    \/ deliveries' = Messages!To(t, "over"))
        /\ replies' = replies \/ (replies' = replies \cup {t.call} /\ t.at = "publish")
    BY <1>7 DEF Messages!Panic, Messages!PublishReply, Messages!PublishFails
  <2>2. deliveries' \subseteq TaskRecords /\ PastDispatch'
    <3>1. CASE deliveries' = deliveries \ {t}
      BY <2>1, <3>1 DEF MessageInv, MessageTypes, PastDispatch
    <3>2. CASE t.at = "publish"
                 /\ (deliveries' = Messages!To(t, "ack")
                     \/ deliveries' = Messages!To(t, "over"))
      <4>1. t.call \in ended'
        BY <2>1, <3>2 DEF MessageInv, PastDispatch
      <4> QED BY <2>1, <3>2, <4>1, TaskMoved
    <3> QED BY <2>1, <3>1, <3>2
  <2>3. Messages!AnsweredIsHandled'
    <3>1. t.at = "publish" => t.call \in ended
      BY DEF MessageInv, PastDispatch
    <3> QED BY <2>1, <3>1, StaysAnswered DEF MessageInv
  <2> QED BY <2>1, <2>2, <2>3 DEF MessageInv, MessageTypes, Messages!AckedIsHandled
<1>8. ASSUME NEW t \in deliveries, Messages!Ack(t) PROVE MessageInv'
  <2>1. /\ UNCHANGED <<transport, message, serves, queue, replies, ended>>
        /\ deliveries' = deliveries \ {t}
        /\ t.call \in ended
        /\ unacked' \subseteq unacked
        /\ unacked \ {<<t.server, t.call>>} \subseteq unacked'
    BY <1>8 DEF Messages!Ack, MessageInv, PastDispatch
  <2>2. MessageTypes' /\ PastDispatch'
    BY <2>1 DEF MessageInv, MessageTypes, PastDispatch
  <2>3. ASSUME NEW c \in Held PROVE c \in Held'
    BY <2>1 DEF Held
  <2>4. Messages!AnsweredIsHandled'
    BY <2>1, StaysAnswered DEF MessageInv
  <2> QED BY <2>1, <2>2, <2>3, <2>4, CallsStay, StaysHandled DEF MessageInv
<1>9. CASE UNCHANGED MessagesVars
  BY <1>9
     DEF MessagesVars, MessageInv, MessageTypes, PastDispatch,
         Messages!AckedIsHandled, Messages!AnsweredIsHandled
<1> QED BY <1>1, <1>2, <1>3, <1>4, <1>5, <1>6, <1>7, <1>8, <1>9, CallingInv
           DEF Messages!Next

(* Whatever panics, crashes, stops or loses its connection, and however    *)
(* often a delivery is repeated: a RabbitMQ queue gives up a call only     *)
(* after its handler ran to the end (the ack is the last step of           *)
(* src/transport/rabbitmq.rs), and over no protocol is a call answered     *)
(* before, unless it does not decode (src/transport/).                     *)
THEOREM AckedIsHandledAlways == PartsSpec => []AckedIsHandled
<1>1. Messages!Init => MessageInv
  <2> SUFFICES ASSUME Messages!Init PROVE MessageInv
    OBVIOUS
  <2>1. MessageTypes
    BY DEF Messages!Init, MessageTypes
  <2> QED BY <2>1
             DEF Messages!Init, MessageInv, PastDispatch,
                 Messages!AckedIsHandled, Messages!AnsweredIsHandled
<1>2. MessageInv /\ [Messages!Next]_MessagesVars => MessageInv'
  BY MessageNext
<1>3. MessageInv => Messages!AckedIsHandled /\ Messages!AnsweredIsHandled
  BY DEF MessageInv
<1>4. PartsInit => (part = "transport" => MessageInv)
  BY <1>1, PartsBegin
<1>5. (part = "transport" => MessageInv) /\ [PartsNext]_parts
        => (part = "transport" => MessageInv)'
  BY <1>2, PartsStep
<1>6. (part = "transport" => MessageInv) => AckedIsHandled
  BY <1>3 DEF AckedIsHandled
<1> QED BY <1>4, <1>5, <1>6, PTL DEF PartsSpec

-----------------------------------------------------------------------------
(* Transactions of the database module.                                    *)

Entries == [id : Transactions, committed : BOOLEAN, statements : Seq(Statements)]

DatabaseTypes ==
    /\ executed \in Seq(Statements) /\ log \in Seq(Entries)
    /\ staged \in [Transactions -> Seq(Statements)]
    /\ finished \in [Transactions -> BOOLEAN]
    /\ statement \in [Statements -> [at : {"idle", "open", "ok", "error"},
                                     of : Transactions]]
    /\ callback \in [Transactions -> {"idle", "callback", "commit", "rollback",
                                      "ok",
                                      "error", "dropped"}]
    /\ before \in [Transactions -> SUBSET Statements]

(* What was accepted is pending, or was executed outside of a transaction. *)
AcceptedIsPending ==
    \A s \in Statements :
        statement[s].at = "ok" =>
            s \in Db!Range(executed) \cup Db!Range(staged[statement[s].of])

(* What is pending was accepted, and is pending once.                      *)
PendingOnce ==
    \A t \in Transactions :
        /\ Db!IsInjective(staged[t])
        /\ \A s \in Db!Range(staged[t]) : statement[s].at = "ok"

LoggedIsFinished == \A n \in DOMAIN log : finished[log[n].id]

DatabaseInv ==
    DatabaseTypes /\ AcceptedIsPending /\ PendingOnce /\ LoggedIsFinished
        /\ Db!LoggedOnce

LEMMA AppendedSet ==
    ASSUME NEW S, NEW q \in Seq(S), NEW x \in S
    PROVE  /\ Append(q, x) \in Seq(S)
           /\ DOMAIN Append(q, x) = DOMAIN q \cup {Len(q) + 1}
           /\ Append(q, x)[Len(q) + 1] = x /\ Len(q) + 1 \notin DOMAIN q
           /\ \A n \in DOMAIN q : Append(q, x)[n] = q[n]
           /\ Db!Range(Append(q, x)) = Db!Range(q) \cup {x}
           /\ Db!IsInjective(q) /\ x \notin Db!Range(q)
                 => Db!IsInjective(Append(q, x))
<1>1. /\ Append(q, x) \in Seq(S)
      /\ DOMAIN Append(q, x) = DOMAIN q \cup {Len(q) + 1}
      /\ Append(q, x)[Len(q) + 1] = x /\ Len(q) + 1 \notin DOMAIN q
      /\ \A n \in DOMAIN q : Append(q, x)[n] = q[n]
  OBVIOUS
<1> QED BY <1>1 DEF Db!Range, Db!IsInjective

LEMMA FinishInv ==
    ASSUME DatabaseInv, NEW t \in Transactions, NEW committed \in BOOLEAN,
           Db!Finish(t, committed), UNCHANGED <<executed, staged, statement>>,
           callback' \in [Transactions -> {"idle", "callback", "commit",
                                           "rollback", "ok",
                                           "error", "dropped"}],
           \A u \in Transactions : callback'[u] = "ok"
               => callback[u] = "ok" \/ (u = t /\ committed)
    PROVE  DatabaseInv'
<1> DEFINE e == [id |-> t, committed |-> committed, statements |-> staged[t]]
<1>1. e \in Entries /\ log \in Seq(Entries) /\ log' = Append(log, e)
  BY DEF Db!Finish, DatabaseInv, DatabaseTypes, Entries
<1>2. /\ log' \in Seq(Entries) /\ DOMAIN log' = DOMAIN log \cup {Len(log) + 1}
      /\ log'[Len(log) + 1] = e /\ Len(log) + 1 \notin DOMAIN log
      /\ \A n \in DOMAIN log : log'[n] = log[n]
  BY <1>1, AppendedSet
<1>3. \A n \in DOMAIN log : log[n].id # t /\ log[n] \in Entries
  BY <1>1 DEF Db!Finish, DatabaseInv, LoggedIsFinished
<1>4. /\ finished' \in [Transactions -> BOOLEAN] /\ finished'[t]
      /\ \A u \in Transactions : finished[u] => finished'[u]
  BY DEF Db!Finish, DatabaseInv, DatabaseTypes
<1>5. before' \in [Transactions -> SUBSET Statements]
        /\ before'[t] \subseteq Db!Range(staged[t])
      /\ \A u \in Transactions \ {t} : before'[u] = before[u]
  BY DEF Db!Finish, Db!Accepted, DatabaseInv, DatabaseTypes, AcceptedIsPending
<1> HIDE DEF e
<1>e. e.id = t /\ e.committed = committed /\ e.statements = staged[t]
  BY DEF e
<1>6. DatabaseTypes'
  BY <1>2, <1>4, <1>5 DEF DatabaseInv, DatabaseTypes
<1>7. AcceptedIsPending'
  BY DEF DatabaseInv, AcceptedIsPending
<1>p. PendingOnce' /\ Db!IsInjective(staged[t])
  BY DEF DatabaseInv, PendingOnce, Db!IsInjective, Db!Range
<1>8. LoggedIsFinished'
  <2> SUFFICES ASSUME NEW n \in DOMAIN log' PROVE finished'[log'[n].id]
    BY DEF LoggedIsFinished
  <2>1. CASE n = Len(log) + 1
    BY <1>2, <1>4, <1>e, <2>1
  <2>2. CASE n \in DOMAIN log
    BY <1>2, <1>3, <1>4, <2>2 DEF DatabaseInv, LoggedIsFinished, Entries
  <2> QED BY <1>2, <2>1, <2>2
<1>9. \A n, k \in DOMAIN log' : log'[n].id = log'[k].id => n = k
  BY <1>2, <1>3, <1>e DEF DatabaseInv, Db!LoggedOnce
<1>10. ASSUME NEW u \in Transactions, callback'[u] = "ok"
       PROVE  \E n \in DOMAIN log' : log'[n].id = u /\ log'[n].committed
  <2>1. CASE callback[u] = "ok"
    BY <1>2, <2>1 DEF DatabaseInv, Db!LoggedOnce
  <2>2. CASE u = t /\ committed
    BY <1>2, <1>e, <2>2
  <2> QED BY <1>10, <2>1, <2>2
<1>11. ASSUME NEW n \in DOMAIN log'
       PROVE  /\ before'[log'[n].id] \subseteq Db!Range(log'[n].statements)
              /\ Db!IsInjective(log'[n].statements)
  <2>1. CASE n = Len(log) + 1
    BY <1>2, <1>5, <1>e, <1>p, <2>1
  <2>2. CASE n \in DOMAIN log
    <3>1. log'[n] = log[n] /\ log[n].id \in Transactions \ {t}
      BY <1>2, <1>3, <2>2 DEF Entries
    <3> QED BY <1>5, <3>1, <2>2 DEF DatabaseInv, Db!LoggedOnce
  <2> QED BY <1>2, <2>1, <2>2
<1>12. Db!LoggedOnce'
  BY <1>9, <1>10, <1>11 DEF Db!LoggedOnce, Db!IsInjective, Db!Range
<1> QED BY <1>6, <1>7, <1>p, <1>8, <1>12 DEF DatabaseInv

LEMMA DatabaseNext == ASSUME DatabaseInv, [Db!Next]_DbVars PROVE DatabaseInv'
<1>1. ASSUME NEW s \in Statements, Db!ExecuteDirectly(s) PROVE DatabaseInv'
  <2>1. executed' \in Seq(Statements)
          /\ Db!Range(executed') = Db!Range(executed) \cup {s}
    BY <1>1, AppendedSet DEF Db!ExecuteDirectly, DatabaseInv, DatabaseTypes
  <2>2. DatabaseTypes'
    BY <1>1, <2>1 DEF Db!ExecuteDirectly, DatabaseInv, DatabaseTypes
  <2>3. AcceptedIsPending'
    BY <1>1, <2>1
       DEF Db!ExecuteDirectly, DatabaseInv, DatabaseTypes, AcceptedIsPending
  <2>4. PendingOnce'
    BY <1>1 DEF Db!ExecuteDirectly, DatabaseInv, DatabaseTypes, PendingOnce,
                Db!IsInjective, Db!Range
  <2> QED BY <1>1, <2>2, <2>3, <2>4
             DEF Db!ExecuteDirectly, DatabaseInv, LoggedIsFinished,
                 Db!LoggedOnce, Db!IsInjective, Db!Range
<1>2. ASSUME NEW s \in Statements, Db!PushPending(s) PROVE DatabaseInv'
  <2> DEFINE t == statement[s].of
  <2>1. t \in Transactions /\ staged[t] \in Seq(Statements)
    BY DEF DatabaseInv, DatabaseTypes
  <2>2. staged' = [staged EXCEPT ![t] = Append(staged[t], s)]
    BY <1>2 DEF Db!PushPending
  <2>3. Append(staged[t], s) \in Seq(Statements)
        /\ Db!Range(Append(staged[t], s)) = Db!Range(staged[t]) \cup {s}
        /\ Db!IsInjective(Append(staged[t], s))
    <3>1. s \notin Db!Range(staged[t])
      BY <1>2, <2>1 DEF Db!PushPending, DatabaseInv, PendingOnce
    <3> QED BY <2>1, <3>1, AppendedSet DEF DatabaseInv, PendingOnce
  <2>4. /\ staged' \in [Transactions -> Seq(Statements)]
        /\ Db!Range(staged'[t]) = Db!Range(staged[t]) \cup {s}
        /\ staged'[t] = Append(staged[t], s)
        /\ \A u \in Transactions \ {t} : staged'[u] = staged[u]
    BY <2>1, <2>2, <2>3 DEF DatabaseInv, DatabaseTypes
  <2>5. /\ statement' \in [Statements -> [at : {"idle", "open", "ok", "error"},
                                          of : Transactions]]
        /\ \A r \in Statements : statement'[r].of = statement[r].of
        /\ \A r \in Statements \ {s} : statement'[r] = statement[r]
        /\ statement'[s].at = "ok"
    BY <1>2 DEF Db!PushPending, DatabaseInv, DatabaseTypes
  <2>6. DatabaseTypes'
    BY <1>2, <2>4, <2>5 DEF Db!PushPending, DatabaseInv, DatabaseTypes
  <2>7. ASSUME NEW r \in Statements, statement'[r].at = "ok"
        PROVE  r \in Db!Range(executed') \cup Db!Range(staged'[statement'[r].of])
    <3>1. statement'[r].of \in Transactions /\ statement'[r].of = statement[r].of
      BY <2>5 DEF DatabaseInv, DatabaseTypes
    <3>2. Db!Range(staged[statement[r].of]) \subseteq Db!Range(staged'[statement[r].of])
      BY <2>4, <3>1
    <3>3. CASE r = s
      BY <2>4, <3>1, <3>3
    <3>4. CASE r # s
      BY <1>2, <2>5, <2>7, <3>1, <3>2, <3>4
         DEF Db!PushPending, DatabaseInv, AcceptedIsPending
    <3> QED BY <3>3, <3>4
  <2>8. AcceptedIsPending'
    BY <2>7 DEF AcceptedIsPending
  <2>9. ASSUME NEW u \in Transactions
        PROVE  /\ Db!IsInjective(staged'[u])
               /\ \A r \in Db!Range(staged'[u]) : statement'[r].at = "ok"
    <3>1. /\ Db!IsInjective(staged[u]) /\ Db!Range(staged[u]) \subseteq Statements
          /\ \A r \in Db!Range(staged[u]) : statement[r].at = "ok"
      BY DEF DatabaseInv, DatabaseTypes, PendingOnce, Db!Range
    <3>2. \A r \in Db!Range(staged[u]) \cup {s} : statement'[r].at = "ok"
      BY <2>5, <3>1
    <3>3. CASE u = t
      BY <2>3, <2>4, <3>2, <3>3
    <3>4. CASE u # t
      BY <2>4, <3>1, <3>2, <3>4
    <3> QED BY <3>3, <3>4
  <2>10. PendingOnce'
    BY <2>9 DEF PendingOnce, Db!IsInjective, Db!Range
  <2> QED BY <1>2, <2>6, <2>8, <2>10
             DEF Db!PushPending, DatabaseInv, LoggedIsFinished, Db!LoggedOnce,
                 Db!IsInjective, Db!Range
<1>3. ASSUME NEW s \in Statements, Db!CheckOpen(s) PROVE DatabaseInv'
  <2>1. DatabaseTypes' /\ AcceptedIsPending'
    BY <1>3 DEF Db!CheckOpen, DatabaseInv, DatabaseTypes, AcceptedIsPending
  <2>2. PendingOnce'
    BY <1>3 DEF Db!CheckOpen, DatabaseInv, DatabaseTypes, PendingOnce,
                Db!IsInjective, Db!Range
  <2> QED BY <1>3, <2>1, <2>2
             DEF Db!CheckOpen, DatabaseInv, LoggedIsFinished, Db!LoggedOnce,
                 Db!IsInjective, Db!Range
<1>4. ASSUME NEW t \in Transactions, NEW ok \in BOOLEAN,
             Db!Begin(t) \/ Db!Dropped(t) \/ Db!CallbackEnds(t, ok)
             \/ (callback' = [callback EXCEPT ![t] = "error"] /\ Db!Refused(t)
                 /\ UNCHANGED <<executed, staged, statement>>)
      PROVE  DatabaseInv'
  <2>1. /\ UNCHANGED <<executed, log, staged, finished, statement, before>>
        /\ callback' \in [Transactions -> {"idle", "callback", "commit",
                                           "rollback", "ok",
                                           "error", "dropped"}]
        /\ \A u \in Transactions : callback'[u] = "ok" => callback[u] = "ok"
    BY <1>4
       DEF Db!Begin, Db!Dropped, Db!CallbackEnds, Db!Refused, DatabaseInv,
           DatabaseTypes
  <2>2. DatabaseTypes' /\ AcceptedIsPending' /\ LoggedIsFinished'
    BY <2>1 DEF DatabaseInv, DatabaseTypes, AcceptedIsPending, LoggedIsFinished
  <2>3. PendingOnce'
    BY <2>1 DEF DatabaseInv, PendingOnce, Db!IsInjective, Db!Range
  <2>4. Db!LoggedOnce'
    BY <2>1 DEF DatabaseInv, Db!LoggedOnce, Db!IsInjective, Db!Range
  <2> QED BY <2>2, <2>3, <2>4 DEF DatabaseInv
<1>5. ASSUME NEW t \in Transactions, NEW b \in BOOLEAN, Db!FinishesItself(t, b)
      PROVE  DatabaseInv'
  <2>1. /\ UNCHANGED <<executed, staged, statement, callback>> /\ Db!Finish(t, b)
    BY <1>5 DEF Db!FinishesItself
  <2>2. /\ callback' \in [Transactions -> {"idle", "callback", "commit",
                                           "rollback", "ok",
                                           "error", "dropped"}]
        /\ \A u \in Transactions : callback'[u] = "ok" => callback[u] = "ok"
    BY <2>1 DEF DatabaseInv, DatabaseTypes
  <2>3. \A u \in Transactions : callback'[u] = "ok"
          => callback[u] = "ok" \/ (u = t /\ b)
    BY <2>2
  <2> QED BY <2>1, <2>2, <2>3, FinishInv
<1>6. ASSUME NEW t \in Transactions, Db!Commits(t) PROVE DatabaseInv'
  <2>1. CASE Db!Finish(t, TRUE) /\ callback' = [callback EXCEPT ![t] = "ok"]
    <3>1. /\ UNCHANGED <<executed, staged, statement>>
          /\ callback' \in [Transactions -> {"idle", "callback", "commit",
                                             "rollback", "ok",
                                             "error", "dropped"}]
          /\ \A u \in Transactions : callback'[u] = "ok"
               => callback[u] = "ok" \/ u = t
      BY <1>6, <2>1 DEF Db!Commits, DatabaseInv, DatabaseTypes
    <3> QED BY <2>1, <3>1, FinishInv
  <2> QED BY <1>4, <1>6, <2>1 DEF Db!Commits
<1>7. ASSUME NEW t \in Transactions, Db!RollsBack(t) PROVE DatabaseInv'
  <2>1. CASE Db!Finish(t, FALSE)
    <3>1. /\ UNCHANGED <<executed, staged, statement>>
          /\ callback' \in [Transactions -> {"idle", "callback", "commit",
                                             "rollback", "ok",
                                             "error", "dropped"}]
          /\ \A u \in Transactions : callback'[u] = "ok" => callback[u] = "ok"
      BY <1>7, <2>1 DEF Db!RollsBack, DatabaseInv, DatabaseTypes
    <3>2. \A u \in Transactions : callback'[u] = "ok"
            => callback[u] = "ok" \/ (u = t /\ FALSE)
      BY <3>1
    <3> QED BY <2>1, <3>1, <3>2, FinishInv
  <2> QED BY <1>4, <1>7, <2>1 DEF Db!RollsBack
<1>8. CASE UNCHANGED DbVars
  BY <1>8
     DEF DbVars, DatabaseInv, DatabaseTypes, AcceptedIsPending, PendingOnce,
         LoggedIsFinished, Db!LoggedOnce, Db!IsInjective, Db!Range
<1> QED BY <1>1, <1>2, <1>3, <1>4, <1>5, <1>6, <1>7, <1>8 DEF Db!Next

(* However clones of a transaction commit it or roll it back beside its    *)
(* callback: it is logged once, as committed if transaction() returned Ok, *)
(* with every statement that had returned by then and none twice (finish,  *)
(* execute and transaction of src/database.rs).                            *)
THEOREM LoggedOnceAlways == PartsSpec => []LoggedOnce
<1>1. Db!Init => DatabaseInv
  <2> SUFFICES ASSUME Db!Init PROVE DatabaseInv
    OBVIOUS
  <2>1. executed \in Seq(Statements) /\ log \in Seq(Entries) /\ DOMAIN log = {}
    BY DEF Db!Init
  <2> QED BY <2>1
             DEF Db!Init, DatabaseInv, DatabaseTypes, AcceptedIsPending, PendingOnce,
                 LoggedIsFinished, Db!LoggedOnce, Db!IsInjective, Db!Range
<1>2. DatabaseInv /\ [Db!Next]_DbVars => DatabaseInv'
  BY DatabaseNext
<1>3. DatabaseInv => Db!LoggedOnce
  BY DEF DatabaseInv
<1>4. PartsInit => (part = "database" => DatabaseInv)
  BY <1>1, PartsBegin
<1>5. (part = "database" => DatabaseInv) /\ [PartsNext]_parts
        => (part = "database" => DatabaseInv)'
  BY <1>2, PartsStep
<1>6. (part = "database" => DatabaseInv) => LoggedOnce
  BY <1>3 DEF LoggedOnce
<1> QED BY <1>4, <1>5, <1>6, PTL DEF PartsSpec

-----------------------------------------------------------------------------
(* The response cache.                                                     *)

(* None is no time; an option or a route gives a number of ticks, or none. *)
CacheGiven ==
    /\ NoValue \notin Nat /\ DefaultTtls \subseteq Nat \cup {NoValue}
    /\ \A j \in Jobs : j.ttl \in Nat \cup {NoValue}

CacheTypes ==
    /\ entries = [k \in Caching!Keys \ {NoValue} |-> entries[k]]
    /\ now \in Nat /\ default_ttl \in Nat \cup {NoValue}
    /\ step \in [CacheClients -> {"idle", "called", "handles", "made", "stores"}]
    /\ job \in [CacheClients -> Jobs \cup {NoValue}]
    /\ response = [c \in CacheClients |-> response[c]]
    /\ expires = [c \in CacheClients |-> expires[c]]
    /\ answer = [c \in CacheClients |-> answer[c]]

(* What a value says of itself, found under a key that it is to leave at a *)
(* time.                                                                   *)
TrueValue(value, key) ==
    /\ value.for = key
    /\ value.of = "response" => Caching!IsCacheable(value.made)

Timed(entry) ==
    entry.value.ttl # NoValue =>
        /\ entry.expires \in Nat /\ entry.value.ttl \in Nat
        /\ entry.value.stored \in Nat
        /\ entry.expires <= entry.value.stored + entry.value.ttl

TrueEntries ==
    \A k \in Caching!Keys \ {NoValue} :
        entries[k] # NoValue => TrueValue(entries[k].value, k) /\ Timed(entries[k])

(* What a client is about to store is for the cache, and not for longer    *)
(* than its time from now on.                                              *)
Storing(c) ==
    /\ job[c].op = "request" => Caching!IsCacheable(response[c])
    /\ Caching!Ttl(job[c]) # NoValue
         => expires[c] \in Nat /\ expires[c] <= now + Caching!Ttl(job[c])

TrueAnswer(c) ==
    LET value == answer[c].value IN
    /\ TrueValue(value, Caching!KeyOf(job[c])) /\ Caching!Fits(value, job[c])
    /\ value.ttl # NoValue => answer[c].at < value.stored + value.ttl

ClientHolds(c) ==
    /\ step[c] # "idle" => job[c] \in Jobs /\ answer[c] = NoValue
    /\ step[c] = "stores" => Storing(c)
    /\ answer[c] # NoValue => TrueAnswer(c)

CacheInv ==
    CacheGiven /\ CacheTypes /\ TrueEntries
        /\ \A c \in CacheClients : ClientHolds(c)

LEMMA KeysAre ==
    ASSUME NEW j \in Jobs PROVE Caching!KeyOf(j) \in Caching!Keys \cup {NoValue}
BY DEF Caching!KeyOf, Caching!Keys

LEMMA TtlIs ==
    ASSUME CacheInv, NEW j \in Jobs PROVE Caching!Ttl(j) \in Nat \cup {NoValue}
BY DEF CacheInv, CacheGiven, CacheTypes, Caching!Ttl

LEMMA OthersHold ==
    ASSUME CacheInv, NEW c \in CacheClients, UNCHANGED <<now, default_ttl>>,
           CacheTypes',
           TrueEntries', ClientHolds(c)',
           \A d \in CacheClients \ {c} :
               /\ step'[d] = step[d] /\ job'[d] = job[d]
               /\ response'[d] = response[d]
               /\ expires'[d] = expires[d] /\ answer'[d] = answer[d]
    PROVE  CacheInv'
<1>1. ASSUME NEW d \in CacheClients \ {c} PROVE ClientHolds(d)'
  <2>1. /\ step'[d] = step[d] /\ job'[d] = job[d] /\ response'[d] = response[d]
        /\ expires'[d] = expires[d] /\ answer'[d] = answer[d]
    OBVIOUS
  <2>2. ClientHolds(d)
    BY DEF CacheInv
  <2>3. Caching!Ttl(job[d])' = Caching!Ttl(job[d])
    BY <2>1 DEF Caching!Ttl
  <2>4. Storing(d) => Storing(d)'
    BY <2>1, <2>3 DEF Storing, Caching!IsCacheable
  <2>5. TrueAnswer(d) => TrueAnswer(d)'
    BY <2>1
       DEF TrueAnswer, TrueValue, Caching!KeyOf, Caching!Fits,
           Caching!IsCacheable
  <2> QED BY <2>1, <2>2, <2>4, <2>5 DEF ClientHolds
<1> QED BY <1>1 DEF CacheInv, CacheGiven

LEMMA EntriesStay ==
    ASSUME CacheInv, entries' = entries
             \/ entries' = [k \in DOMAIN entries |-> NoValue]
                     \/ \E key : entries' = [entries EXCEPT ![key] = NoValue]
    PROVE  /\ TrueEntries'
           /\ entries' = [k \in Caching!Keys \ {NoValue} |-> entries'[k]]
<1>1. entries = [k \in Caching!Keys \ {NoValue} |-> entries[k]]
  BY DEF CacheInv, CacheTypes
<1>2. \A k \in Caching!Keys \ {NoValue} : entries'[k] = entries[k]
        \/ entries'[k] = NoValue
  BY <1>1
<1>3. entries' = [k \in Caching!Keys \ {NoValue} |-> entries'[k]]
  BY <1>1
<1>4. TrueEntries'
  BY <1>2 DEF CacheInv, TrueEntries, TrueValue, Timed, Caching!IsCacheable
<1> QED BY <1>3, <1>4

LEMMA LookUpInv ==
    ASSUME CacheInv, NEW c \in CacheClients, Caching!LookUp(c) PROVE CacheInv'
<1> DEFINE j == job[c]
           key == Caching!KeyOf(j)
<1>1. /\ UNCHANGED <<default_ttl, provided, now, job, response, expires, looks>>
      /\ step[c] = "called" /\ j \in Jobs
  BY DEF Caching!LookUp, Caching!Options, CacheInv, ClientHolds
<1>2. /\ \E at \in {"handles", "idle"} : Caching!Goes(c, at)
      /\ entries' = entries \/ entries' = [entries EXCEPT ![key] = NoValue]
  BY DEF Caching!LookUp
<1>3. /\ step' \in [CacheClients -> {"idle", "called", "handles", "made", "stores"}]
      /\ \A d \in CacheClients \ {c} : step'[d] = step[d]
      /\ step'[c] \in {"handles", "idle"}
  BY <1>2 DEF Caching!Goes, CacheInv, CacheTypes
<1>4. TrueEntries' /\ entries' = [k \in Caching!Keys \ {NoValue} |-> entries'[k]]
  BY <1>2, EntriesStay
<1>5. CASE answer' = answer
  <2>1. CacheTypes'
    BY <1>1, <1>3, <1>4, <1>5 DEF CacheInv, CacheTypes
  <2>2. ClientHolds(c)'
    BY <1>1, <1>3, <1>5 DEF CacheInv, ClientHolds
  <2> QED BY <1>1, <1>3, <1>4, <1>5, <2>1, <2>2, OthersHold
<1>6. CASE /\ key # NoValue /\ Caching!Live(key)
           /\ step' = [step EXCEPT ![c] = "idle"]
           /\ answer' = [answer EXCEPT ![c] =
                    IF Caching!Fits(entries[key].value, j)
                    THEN [value |-> entries[key].value, at |-> now]
                    ELSE NoValue]
  <2>1. key \in Caching!Keys \ {NoValue} /\ entries[key] # NoValue
    BY <1>1, <1>6, KeysAre DEF Caching!Live
  <2>2. TrueValue(entries[key].value, key) /\ Timed(entries[key])
    BY <2>1 DEF CacheInv, TrueEntries
  <2>3. /\ answer' = [d \in CacheClients |-> answer'[d]]
        /\ \A d \in CacheClients \ {c} : answer'[d] = answer[d]
        /\ answer'[c] = IF Caching!Fits(entries[key].value, j)
                        THEN [value |-> entries[key].value, at |-> now]
                        ELSE NoValue
    BY <1>6 DEF CacheInv, CacheTypes
  <2>4. entries[key].value.ttl # NoValue =>
            now < entries[key].value.stored + entries[key].value.ttl
    <3> SUFFICES ASSUME entries[key].value.ttl # NoValue
                 PROVE  now < entries[key].value.stored + entries[key].value.ttl
      OBVIOUS
    <3>1. /\ entries[key].expires \in Nat /\ entries[key].value.ttl \in Nat
          /\ entries[key].value.stored \in Nat
          /\ entries[key].expires <= entries[key].value.stored + entries[key].value.ttl
      BY <2>2 DEF Timed
    <3>2. now \in Nat /\ now < entries[key].expires
      BY <1>6, <3>1
         DEF Caching!Live, Caching!IsExpired, CacheInv, CacheTypes, CacheGiven
    <3> QED BY ONLY <3>1, <3>2
  <2>5. CASE Caching!Fits(entries[key].value, j)
    <3>1. answer'[c].value = entries[key].value /\ answer'[c].at = now
      BY <2>3, <2>5
    <3>2. TrueAnswer(c)'
      BY <1>1, <2>2, <2>4, <2>5, <3>1
         DEF TrueAnswer, TrueValue, Caching!KeyOf, Caching!Fits,
             Caching!IsCacheable
    <3>3. step'[c] = "idle"
      BY <1>6, <1>3 DEF CacheInv, CacheTypes
    <3>4. ClientHolds(c)'
      BY <3>2, <3>3 DEF ClientHolds
    <3>5. CacheTypes'
      BY <1>1, <1>3, <1>4, <2>3 DEF CacheInv, CacheTypes
    <3> QED BY <1>1, <1>3, <1>4, <2>3, <3>4, <3>5, OthersHold
  <2>6. CASE ~Caching!Fits(entries[key].value, j)
    <3>1. answer'[c] = NoValue /\ step'[c] = "idle"
      BY <1>3, <1>6, <2>3, <2>6 DEF CacheInv, CacheTypes
    <3>2. CacheTypes'
      BY <1>1, <1>3, <1>4, <2>3 DEF CacheInv, CacheTypes
    <3>3. ClientHolds(c)'
      BY <3>1 DEF ClientHolds
    <3> QED BY <1>1, <1>3, <1>4, <2>3, <3>2, <3>3, OthersHold
  <2> QED BY <2>5, <2>6
<1> QED BY <1>5, <1>6 DEF Caching!LookUp, Caching!Goes

LEMMA StoreInv ==
    ASSUME CacheInv, NEW c \in CacheClients, Caching!Store(c) PROVE CacheInv'
<1> DEFINE j == job[c]
           e == [value |-> Caching!Cached(j, response[c]), expires |-> expires[c]]
<1>1. /\ UNCHANGED <<default_ttl, provided, now, job, answer, looks>>
      /\ step[c] = "stores" /\ j \in Jobs /\ answer[c] = NoValue /\ Storing(c)
      /\ entries' = [entries EXCEPT ![Caching!KeyOf(j)] = e]
  BY DEF Caching!Store, Caching!Options, CacheInv, ClientHolds
<1>2. /\ step' \in [CacheClients -> {"idle", "called", "handles", "made", "stores"}]
      /\ step'[c] = "idle"
      /\ response' = [d \in CacheClients |-> response'[d]]
      /\ expires' = [d \in CacheClients |-> expires'[d]]
      /\ \A d \in CacheClients \ {c} : /\ step'[d] = step[d]
           /\ response'[d] = response[d]
                                       /\ expires'[d] = expires[d]
  BY DEF Caching!Store, Caching!Forgets, Caching!Goes, CacheInv, CacheTypes
<1>3. TrueValue(e.value, Caching!KeyOf(j))
  BY <1>1 DEF Caching!Cached, TrueValue, Storing
<1>4. Timed(e)
  <2>1. e.value.ttl = Caching!Ttl(j) /\ e.value.stored = now
          /\ e.expires = expires[c]
    BY DEF Caching!Cached
  <2>2. now \in Nat /\ Caching!Ttl(j) \in Nat \cup {NoValue}
    BY <1>1, TtlIs DEF CacheInv, CacheTypes
  <2> HIDE DEF e
  <2> QED BY <1>1, <2>1, <2>2 DEF Timed, Storing
<1> HIDE DEF e
<1>5. TrueEntries' /\ entries' = [k \in Caching!Keys \ {NoValue} |-> entries'[k]]
  <2>1. entries = [k \in Caching!Keys \ {NoValue} |-> entries[k]]
    BY DEF CacheInv, CacheTypes
  <2>2. entries' = [k \in Caching!Keys \ {NoValue} |-> entries'[k]]
    BY <1>1, <2>1
  <2>3. \A k \in Caching!Keys \ {NoValue} :
          entries'[k] = IF k = Caching!KeyOf(j) THEN e ELSE entries[k]
    BY <1>1, <2>1
  <2>4. ASSUME NEW k \in Caching!Keys \ {NoValue}, entries'[k] # NoValue
        PROVE  TrueValue(entries'[k].value, k) /\ Timed(entries'[k])
    <3>1. CASE k = Caching!KeyOf(j)
      BY <1>3, <1>4, <2>3, <3>1
    <3>2. CASE k # Caching!KeyOf(j)
      BY <2>3, <2>4, <3>2 DEF CacheInv, TrueEntries
    <3> QED BY <3>1, <3>2
  <2>5. TrueEntries'
    BY <2>4 DEF TrueEntries, TrueValue, Timed, Caching!IsCacheable
  <2> QED BY <2>2, <2>5
<1>6. CacheTypes'
  BY <1>1, <1>2, <1>5 DEF CacheInv, CacheTypes
<1>7. ClientHolds(c)'
  BY <1>1, <1>2 DEF ClientHolds
<1> QED BY <1>1, <1>2, <1>5, <1>6, <1>7, OthersHold

LEMMA CacheNext == ASSUME CacheInv, [Caching!Next]_CachingVars PROVE CacheInv'
<1>1. CASE Caching!Tick
  <2>1. /\ UNCHANGED <<entries, default_ttl, step, job, response, expires, answer>>
        /\ now' = now + 1 /\ now \in Nat
    BY <1>1 DEF Caching!Tick, Caching!Options, CacheInv, CacheTypes
  <2>2. CacheTypes' /\ TrueEntries'
    BY <2>1
       DEF CacheInv, CacheTypes, TrueEntries, TrueValue, Timed,
           Caching!IsCacheable
  <2>3. ASSUME NEW c \in CacheClients PROVE ClientHolds(c)'
    <3>1. ClientHolds(c)
      BY DEF CacheInv
    <3>2. Caching!Ttl(job[c])' = Caching!Ttl(job[c])
            /\ (step[c] # "idle" => Caching!Ttl(job[c]) \in Nat \cup {NoValue})
      BY <2>1, <3>1, TtlIs DEF Caching!Ttl, ClientHolds
    <3>3. step[c] = "stores" => Storing(c)'
      BY <2>1, <3>1, <3>2 DEF Storing, Caching!IsCacheable, ClientHolds
    <3>4. TrueAnswer(c) => TrueAnswer(c)'
      BY <2>1
         DEF TrueAnswer, TrueValue, Caching!KeyOf, Caching!Fits,
             Caching!IsCacheable
    <3> QED BY <2>1, <3>1, <3>3, <3>4 DEF ClientHolds
  <2> QED BY <2>2, <2>3 DEF CacheInv, CacheGiven
<1>2. ASSUME NEW c \in CacheClients, NEW j \in Jobs, Caching!Start(c, j)
      PROVE  CacheInv'
  <2>1. /\ UNCHANGED <<default_ttl, entries, now, response, expires>>
        /\ step' = [step EXCEPT ![c] = "called"] /\ job' = [job EXCEPT ![c] = j]
        /\ answer' = [answer EXCEPT ![c] = NoValue]
    BY <1>2 DEF Caching!Start, Caching!Options, Caching!Goes
  <2>2. CacheTypes'
    BY <2>1 DEF CacheInv, CacheTypes
  <2>3. /\ step'[c] = "called" /\ job'[c] = j /\ answer'[c] = NoValue
        /\ \A d \in CacheClients \ {c} : step'[d] = step[d] /\ job'[d] = job[d]
             /\ answer'[d] = answer[d]
    BY <2>1 DEF CacheInv, CacheTypes
  <2>4. TrueEntries' /\ ClientHolds(c)'
    BY <2>1, <2>3, EntriesStay DEF ClientHolds
  <2> QED BY <2>1, <2>2, <2>3, <2>4, OthersHold
<1>3. ASSUME NEW c \in CacheClients, NEW r, Caching!Handle(c, r) PROVE CacheInv'
  <2>1. /\ UNCHANGED <<default_ttl, entries, now, job, expires, answer>>
        /\ step[c] = "handles"
        /\ \/ response' = [response EXCEPT ![c] = r]
                /\ step' = [step EXCEPT ![c] = "made"]
           \/ response' = response /\ step' = [step EXCEPT ![c] = "idle"]
    BY <1>3 DEF Caching!Handle, Caching!Options, Caching!Goes
  <2>2. CacheTypes'
    BY <2>1 DEF CacheInv, CacheTypes
  <2>3. /\ step'[c] \in {"made", "idle"}
        /\ \A d \in CacheClients \ {c} : step'[d] = step[d]
             /\ response'[d] = response[d]
    BY <2>1 DEF CacheInv, CacheTypes
  <2>4. TrueEntries' /\ ClientHolds(c)'
    BY <2>1, <2>3, EntriesStay DEF ClientHolds, CacheInv
  <2> QED BY <2>1, <2>2, <2>3, <2>4, OthersHold
<1>4. ASSUME NEW c \in CacheClients, Caching!Passes(c) PROVE CacheInv'
  <2>1. /\ UNCHANGED <<default_ttl, entries, now, job, answer>>
        /\ step[c] = "made" /\ step' = [step EXCEPT ![c] = "idle"]
        /\ response' = [response EXCEPT ![c] = NoValue]
        /\ expires' = [expires EXCEPT ![c] = NoValue]
    BY <1>4 DEF Caching!Passes, Caching!Options, Caching!Forgets, Caching!Goes
  <2>2. CacheTypes'
    BY <2>1 DEF CacheInv, CacheTypes
  <2>3. /\ step'[c] = "idle"
        /\ \A d \in CacheClients \ {c} : /\ step'[d] = step[d]
             /\ response'[d] = response[d]
                                         /\ expires'[d] = expires[d]
    BY <2>1 DEF CacheInv, CacheTypes
  <2>4. TrueEntries' /\ ClientHolds(c)'
    BY <2>1, <2>3, EntriesStay DEF ClientHolds, CacheInv
  <2> QED BY <2>1, <2>2, <2>3, <2>4, OthersHold
<1>5. ASSUME NEW c \in CacheClients, Caching!ReadClock(c) PROVE CacheInv'
  <2>1. /\ UNCHANGED <<default_ttl, entries, now, job, answer, response>>
        /\ step[c] = "made" /\ step' = [step EXCEPT ![c] = "stores"]
        /\ job[c].op = "request" => Caching!IsCacheable(response[c])
        /\ expires' = [expires EXCEPT ![c] =
                IF Caching!Ttl(job[c]) = NoValue THEN NoValue
                    ELSE now + Caching!Ttl(job[c])]
        /\ job[c] \in Jobs /\ answer[c] = NoValue /\ now \in Nat
    BY <1>5
       DEF Caching!ReadClock, Caching!Options, Caching!Goes, CacheInv,
           ClientHolds, CacheTypes
  <2>2. CacheTypes'
    BY <2>1 DEF CacheInv, CacheTypes
  <2>3. /\ step'[c] = "stores"
        /\ expires'[c] = IF Caching!Ttl(job[c]) = NoValue THEN NoValue
             ELSE now + Caching!Ttl(job[c])
        /\ \A d \in CacheClients \ {c} : step'[d] = step[d]
             /\ expires'[d] = expires[d]
    BY <2>1 DEF CacheInv, CacheTypes
  <2>4. Caching!Ttl(job[c])' = Caching!Ttl(job[c])
          /\ Caching!Ttl(job[c]) \in Nat \cup {NoValue}
    BY <2>1, TtlIs DEF Caching!Ttl
  <2>5. Storing(c)'
    BY <2>1, <2>3, <2>4 DEF Storing, Caching!IsCacheable
  <2>6. TrueEntries' /\ ClientHolds(c)'
    BY <2>1, <2>3, <2>5, EntriesStay DEF ClientHolds
  <2> QED BY <2>1, <2>2, <2>3, <2>6, OthersHold
<1>6. ASSUME NEW c \in CacheClients, Caching!Remove(c) \/ Caching!Clear(c)
      PROVE  CacheInv'
  <2>1. /\ UNCHANGED <<default_ttl, now, job, answer, response, expires>>
        /\ step[c] = "called" /\ step' = [step EXCEPT ![c] = "idle"]
        /\ \/ entries' = [k \in DOMAIN entries |-> NoValue]
           \/ \E key : entries' = [entries EXCEPT ![key] = NoValue]
    BY <1>6 DEF Caching!Remove, Caching!Clear, Caching!Options, Caching!Goes
  <2>2. TrueEntries' /\ entries' = [k \in Caching!Keys \ {NoValue} |-> entries'[k]]
    BY <2>1, EntriesStay
  <2>3. CacheTypes'
    BY <2>1, <2>2 DEF CacheInv, CacheTypes
  <2>4. step'[c] = "idle" /\ \A d \in CacheClients \ {c} : step'[d] = step[d]
    BY <2>1 DEF CacheInv, CacheTypes
  <2>5. ClientHolds(c)'
    BY <2>1, <2>4 DEF ClientHolds, CacheInv
  <2> QED BY <2>1, <2>2, <2>3, <2>4, <2>5, OthersHold
<1>7. CASE UNCHANGED CachingVars
  <2>1. UNCHANGED <<entries, now, default_ttl, step, job, response, expires,
          answer>>
    BY <1>7 DEF CachingVars
  <2>2. CacheTypes' /\ TrueEntries'
    BY <2>1, EntriesStay DEF CacheInv, CacheTypes
  <2>3. ASSUME NEW c \in CacheClients PROVE ClientHolds(c)'
    <3>1. ClientHolds(c)
      BY DEF CacheInv
    <3>2. Storing(c) => Storing(c)'
      BY <2>1 DEF Storing, Caching!IsCacheable, Caching!Ttl
    <3>3. TrueAnswer(c) => TrueAnswer(c)'
      BY <2>1
         DEF TrueAnswer, TrueValue, Caching!KeyOf, Caching!Fits,
             Caching!IsCacheable
    <3> QED BY <2>1, <3>1, <3>2, <3>3 DEF ClientHolds
  <2> QED BY <2>2, <2>3 DEF CacheInv, CacheGiven
<1> QED BY <1>1, <1>2, <1>3, <1>4, <1>5, <1>6, <1>7, LookUpInv, StoreInv
           DEF Caching!Next

(* Whatever else clients look up, store, remove or clear meanwhile: what a *)
(* request finds was made for its key and is whole, successful and not     *)
(* older than it may be (cache_key_for_context, is_cacheable_response and  *)
(* InMemoryCacheStore of src/cache.rs).                                    *)
THEOREM HitsAreTrueAlways == ASSUME CacheGiven PROVE PartsSpec => []HitsAreTrue
<1>1. Caching!Init => CacheInv
  <2> SUFFICES ASSUME Caching!Init PROVE CacheInv
    OBVIOUS
  <2>1. CacheTypes
    BY DEF Caching!Init, CacheTypes, CacheGiven
  <2>2. TrueEntries
    BY DEF Caching!Init, TrueEntries
  <2> QED BY <2>1, <2>2 DEF Caching!Init, CacheInv, ClientHolds
<1>2. CacheInv /\ [Caching!Next]_CachingVars => CacheInv'
  BY CacheNext
<1>3. CacheInv => Caching!HitsAreTrue
  BY DEF CacheInv, ClientHolds, TrueAnswer, TrueValue, Caching!Fits,
         Caching!HitsAreTrue, Caching!IsCacheable
<1>4. PartsInit => (part = "cache" => CacheInv)
  BY <1>1, PartsBegin
<1>5. (part = "cache" => CacheInv) /\ [PartsNext]_parts
        => (part = "cache" => CacheInv)'
  BY <1>2, PartsStep
<1>6. (part = "cache" => CacheInv) => HitsAreTrue
  BY <1>3 DEF HitsAreTrue
<1> QED BY <1>4, <1>5, <1>6, PTL DEF PartsSpec

-----------------------------------------------------------------------------
(* Sessions and their cookies.                                             *)

SessionsGiven == NoValue \notin Visits /\ "expire" \notin Visits
    /\ NoValue # "expire"

SessionRecords ==
    [at : {"idle", "handler", "set", "remove", "interceptor", "response", "over"},
     cookie : Visits \cup {NoValue}, id : Visits \cup {NoValue},
     data : SUBSET (Data \cup {NoValue}),
     key : Data \cup {NoValue}, answer : Visits \cup {"expire", NoValue}]

SessionTypes ==
    /\ store \in [Visits -> SUBSET (Data \cup {NoValue})]
    /\ jar \in Visits \cup {NoValue}
    /\ visit \in [Visits -> SessionRecords]

(* The id that a request works on is that of its cookie, or a new one.     *)
OwnId(r) ==
    /\ visit[r].id \in Visits
    /\ visit[r].cookie # NoValue => visit[r].id = visit[r].cookie

(* What the browser will have after the response of a request that is      *)
(* alone: the cookie of the data there is.                                 *)
Carries(r) ==
    /\ jar = visit[r].cookie
    /\ \A i \in Visits : store[i] # {} => i = visit[r].id
    /\ visit[r].at = "response" /\ store[visit[r].id] # {} =>
           \/ visit[r].answer = visit[r].id
           \/ visit[r].answer = NoValue /\ jar = visit[r].id

(* No cookie without its data.                                             *)
Heals(r) ==
    /\ jar \in {NoValue, visit[r].cookie}
    /\ visit[r].at = "response" =>
           /\ visit[r].answer \in Visits => store[visit[r].answer] # {}
           /\ visit[r].answer = NoValue /\ jar # NoValue => store[jar] # {}

Alone == ~stray \/ ~torn => \A r, s \in Cookies!InFlight : r = s
AllCarry ==
    ~stray =>
        /\ Cookies!InFlight = {} => \A i \in Visits : store[i] # {} => jar = i
        /\ \A r \in Cookies!InFlight : Carries(r)
AllHeal == ~torn => \A r \in Cookies!InFlight : Heals(r)
Healed ==
    ~torn /\ Cookies!InFlight = {} => (jar # NoValue => store[jar] # {})

SessionInv ==
    /\ SessionsGiven /\ SessionTypes /\ \A r \in Cookies!InFlight : OwnId(r)
    /\ Alone /\ AllCarry /\ AllHeal /\ Healed

LEMMA FlightAfter ==
    ASSUME SessionInv, NEW r \in Visits, NEW new \in SessionRecords,
           Cookies!Becomes(r, new)
    PROVE  /\ visit' \in [Visits -> SessionRecords] /\ visit'[r] = new
           /\ \A s \in Visits \ {r} : visit'[s] = visit[s]
           /\ Cookies!InFlight' = IF new.at \in {"idle", "over"}
                THEN Cookies!InFlight \ {r}
                                  ELSE Cookies!InFlight \cup {r}
           /\ Cookies!InFlight \subseteq Visits
<1>1. /\ visit' \in [Visits -> SessionRecords] /\ visit'[r] = new
      /\ \A s \in Visits \ {r} : visit'[s] = visit[s]
  BY DEF Cookies!Becomes, SessionInv, SessionTypes
<1> QED BY <1>1 DEF Cookies!InFlight

LEMMA RecordIs ==
    ASSUME SessionInv, NEW r \in Visits
    PROVE  /\ visit[r] \in SessionRecords
           /\ r \in Cookies!InFlight <=> visit[r].at \notin {"idle", "over"}
BY DEF SessionInv, SessionTypes, Cookies!InFlight

(* While a request works on its session before its response.               *)
LEMMA WorkInv ==
    ASSUME SessionInv, NEW r \in Cookies!InFlight, NEW new \in SessionRecords,
           Cookies!Becomes(r, new),
           new.cookie = visit[r].cookie, new.id = visit[r].id,
           new.at \notin {"idle", "over", "response"}, visit[r].at # "response",
           store' \in [Visits -> SUBSET (Data \cup {NoValue})], jar' = jar,
           stray => stray', torn => torn',
           \A i \in Visits : i # visit[r].id => store'[i] \in {{}, store[i]}
    PROVE  SessionInv'
<1>1. /\ r \in Visits /\ visit' \in [Visits -> SessionRecords] /\ visit'[r] = new
      /\ \A s \in Visits \ {r} : visit'[s] = visit[s]
      /\ Cookies!InFlight' = Cookies!InFlight
      /\ Cookies!InFlight \subseteq Visits /\ Cookies!InFlight # {}
  <2>1. r \in Visits /\ Cookies!InFlight \cup {r} = Cookies!InFlight
    BY DEF Cookies!InFlight
  <2>2. Cookies!InFlight' = Cookies!InFlight \cup {r}
    BY <2>1, FlightAfter
  <2> QED BY <2>1, <2>2, FlightAfter
<1>2. SessionTypes' /\ \A s \in Cookies!InFlight : OwnId(s)'
  BY <1>1 DEF SessionInv, SessionTypes, OwnId
<1>4. Alone'
  BY <1>1 DEF SessionInv, Alone
<1>5. AllCarry'
  <2> SUFFICES ASSUME ~stray', NEW s \in Cookies!InFlight PROVE Carries(s)'
    BY <1>1 DEF AllCarry
  <2>2. s = r /\ Carries(r)
    BY <1>1 DEF SessionInv, Alone, AllCarry
  <2> QED BY <1>1, <2>2 DEF Carries
<1>6. AllHeal'
  <2> SUFFICES ASSUME ~torn', NEW s \in Cookies!InFlight PROVE Heals(s)'
    BY <1>1 DEF AllHeal
  <2>2. s = r /\ Heals(r)
    BY <1>1 DEF SessionInv, Alone, AllHeal
  <2> QED BY <1>1, <2>2 DEF Heals
<1>7. Healed'
  BY <1>1 DEF Healed
<1> QED BY <1>1, <1>2, <1>4, <1>5, <1>6, <1>7 DEF SessionInv, SessionsGiven

LEMMA MiddlewareInv ==
    ASSUME SessionInv, NEW r \in Visits, Cookies!Middleware(r) PROVE SessionInv'
<1> DEFINE new == [visit[r] EXCEPT !.at = "handler", !.cookie = jar,
                      !.id = IF jar # NoValue THEN jar ELSE r]
<1>1. /\ new \in SessionRecords /\ new.at = "handler" /\ new.cookie = jar
      /\ new.id = IF jar # NoValue THEN jar ELSE r
      /\ Cookies!Becomes(r, new) /\ UNCHANGED <<store, jar>> /\ visit[r].at = "idle"
  BY DEF Cookies!Middleware, SessionInv, SessionTypes, SessionRecords
<1> HIDE DEF new
<1>2. /\ visit' \in [Visits -> SessionRecords] /\ visit'[r] = new
      /\ \A s \in Visits \ {r} : visit'[s] = visit[s]
      /\ Cookies!InFlight' = Cookies!InFlight \cup {r}
      /\ Cookies!InFlight \subseteq Visits
      /\ r \notin Cookies!InFlight
  BY <1>1, FlightAfter DEF Cookies!InFlight
<1>3. (~stray' => ~stray) /\ (~stray' \/ ~torn' => Cookies!InFlight = {})
  BY DEF Cookies!Middleware
<1>4. SessionTypes' /\ \A s \in Cookies!InFlight' : OwnId(s)'
  <2>1. OwnId(r)'
    BY <1>1, <1>2 DEF OwnId, SessionInv, SessionTypes
  <2> QED BY <1>1, <1>2, <2>1 DEF SessionInv, SessionTypes, OwnId
<1>6. ~stray' \/ ~torn' => Cookies!InFlight' = {r} /\ Cookies!InFlight = {}
  BY <1>2, <1>3
<1>7. Alone'
  BY <1>6 DEF Alone
<1>8. AllCarry'
  <2> SUFFICES ASSUME ~stray' PROVE Carries(r)'
    BY <1>6 DEF AllCarry
  <2>1. \A i \in Visits : store[i] # {} => jar = i
    BY <1>3, <1>6 DEF SessionInv, AllCarry
  <2> QED BY <1>1, <1>2, <2>1 DEF Carries, SessionInv, SessionsGiven
<1>9. AllHeal'
  <2>1. Heals(r)'
    BY <1>1, <1>2 DEF Heals
  <2> QED BY <1>6, <2>1 DEF AllHeal
<1>10. Healed'
  BY <1>2 DEF Healed
<1> QED BY <1>4, <1>7, <1>8, <1>9, <1>10 DEF SessionInv, SessionsGiven

LEMMA InterceptorInv ==
    ASSUME SessionInv, NEW r \in Visits, Cookies!Interceptor(r) PROVE SessionInv'
<1> DEFINE me == visit[r]
           has_cookie == me.cookie = me.id
           has_data == store[me.id] # {}
           told == IF has_data /\ (~has_cookie \/ rolling) THEN me.id
                   ELSE IF ~has_data /\ has_cookie THEN "expire" ELSE NoValue
           new == [me EXCEPT !.at = "response", !.answer = told]
<1>1. /\ Cookies!Becomes(r, new) /\ UNCHANGED <<store, jar, stray, torn>>
      /\ me.at = "interceptor" /\ r \in Cookies!InFlight /\ OwnId(r)
      /\ me \in SessionRecords
  BY RecordIs DEF Cookies!Interceptor, SessionInv
<1>2. told \in Visits \cup {"expire", NoValue}
  BY <1>1 DEF OwnId
<1>3. /\ new \in SessionRecords /\ new.at = "response" /\ new.cookie = me.cookie
      /\ new.id = me.id /\ new.answer = told
  BY <1>1, <1>2 DEF SessionRecords
<1>4. /\ has_data => told = me.id \/ (told = NoValue /\ me.cookie = me.id)
      /\ told \in Visits => told = me.id /\ has_data
      /\ told = NoValue =>
             (has_data /\ me.cookie = me.id) \/ (~has_data /\ me.cookie = NoValue)
  <2>1. me.id \in Visits /\ NoValue \notin Visits /\ "expire" \notin Visits
        /\ NoValue # "expire" /\ (me.cookie # NoValue => me.id = me.cookie)
    BY <1>1 DEF OwnId, SessionInv, SessionsGiven
  <2>2. CASE has_data
    BY <2>1, <2>2
  <2>3. CASE ~has_data
    BY <2>1, <2>3
  <2> QED BY <2>2, <2>3
<1> HIDE DEF new, told
<1>5. /\ visit' \in [Visits -> SessionRecords] /\ visit'[r] = new
      /\ \A s \in Visits \ {r} : visit'[s] = visit[s]
      /\ Cookies!InFlight' = Cookies!InFlight /\ Cookies!InFlight \subseteq Visits
  BY <1>1, <1>3, FlightAfter
<1>6. SessionTypes' /\ \A s \in Cookies!InFlight : OwnId(s)'
  BY <1>1, <1>3, <1>5 DEF SessionInv, SessionTypes, OwnId
<1>8. Alone'
  BY <1>1, <1>5 DEF SessionInv, Alone
<1>9. AllCarry'
  <2> SUFFICES ASSUME ~stray', NEW s \in Cookies!InFlight PROVE Carries(s)'
    BY <1>1, <1>5 DEF AllCarry
  <2>2. s = r /\ Carries(r)
    BY <1>1 DEF SessionInv, Alone, AllCarry
  <2> QED BY <1>1, <1>3, <1>4, <1>5, <2>2 DEF Carries
<1>10. AllHeal'
  <2> SUFFICES ASSUME ~torn', NEW s \in Cookies!InFlight PROVE Heals(s)'
    BY <1>5 DEF AllHeal
  <2>2. s = r /\ Heals(r)
    BY <1>1 DEF SessionInv, Alone, AllHeal
  <2> QED BY <1>1, <1>3, <1>4, <1>5, <2>2 DEF Heals
<1>11. Healed'
  BY <1>1, <1>5 DEF Healed
<1> QED BY <1>5, <1>6, <1>8, <1>9, <1>10, <1>11 DEF SessionInv, SessionsGiven

(* A request is over, and the browser has its response or none.            *)
LEMMA OverInv ==
    ASSUME SessionInv, NEW r \in Cookies!InFlight,
           Cookies!Becomes(r, [visit[r] EXCEPT !.at = "over"]),
           UNCHANGED store, jar' \in Visits \cup {NoValue},
           stray => stray', torn => torn',
           ~stray' => \A i \in Visits : store[i] # {} => jar' = i,
           ~torn' => (jar' # NoValue => store[jar'] # {})
    PROVE  SessionInv'
<1> DEFINE new == [visit[r] EXCEPT !.at = "over"]
<1>1. r \in Visits /\ new \in SessionRecords /\ new.at = "over"
  BY RecordIs DEF Cookies!InFlight, SessionRecords
<1> HIDE DEF new
<1>2. /\ visit' \in [Visits -> SessionRecords] /\ visit'[r] = new
      /\ \A s \in Visits \ {r} : visit'[s] = visit[s]
      /\ Cookies!InFlight' = Cookies!InFlight \ {r}
      /\ Cookies!InFlight \subseteq Visits
  BY <1>1, FlightAfter DEF new
<1>3. SessionTypes' /\ \A s \in Cookies!InFlight' : OwnId(s)'
  BY <1>1, <1>2 DEF SessionInv, SessionTypes, OwnId
<1>4. ~stray' \/ ~torn' => Cookies!InFlight' = {}
  BY <1>2 DEF SessionInv, Alone
<1>5. Alone' /\ AllHeal'
  BY <1>4 DEF Alone, AllHeal
<1>6. AllCarry'
  BY <1>4 DEF AllCarry
<1>7. Healed'
  BY DEF Healed
<1> QED BY <1>3, <1>5, <1>6, <1>7 DEF SessionInv, SessionsGiven

LEMMA ResponseInv ==
    ASSUME SessionInv, NEW r \in Visits, Cookies!Response(r)
    PROVE  SessionInv'
<1> DEFINE me == visit[r]
<1>1. /\ me.at = "response" /\ UNCHANGED <<store, stray, torn>>
      /\ r \in Cookies!InFlight
      /\ Cookies!Becomes(r, [me EXCEPT !.at = "over"]) /\ OwnId(r)
      /\ me \in SessionRecords
      /\ jar' = IF me.answer = NoValue THEN jar
                ELSE IF me.answer = "expire" THEN NoValue ELSE me.answer
  BY RecordIs DEF Cookies!Response, Cookies!Goto, SessionInv, SessionsGiven
<1>2. jar' \in Visits \cup {NoValue}
  BY <1>1 DEF SessionInv, SessionTypes, SessionRecords
<1>4. ASSUME ~stray', NEW i \in Visits, store[i] # {} PROVE jar' = i
  <2>1. Carries(r)
    BY <1>1, <1>4 DEF SessionInv, AllCarry
  <2> QED BY <1>1, <1>4, <2>1 DEF Carries, SessionInv, SessionsGiven
<1>5. ASSUME ~torn', jar' # NoValue PROVE store[jar'] # {}
  <2>1. Heals(r)
    BY <1>1, <1>5 DEF SessionInv, AllHeal
  <2> QED BY <1>1, <1>5, <2>1 DEF Heals, SessionRecords
<1> QED BY <1>1, <1>2, <1>4, <1>5, OverInv

(* The cookie or an entry expires.                                         *)
LEMMA ExpiryInv ==
    ASSUME SessionInv, (\E i \in Visits : Cookies!EntryExpires(i))
             \/ Cookies!CookieExpires
    PROVE  SessionInv'
<1>1. /\ visit' = visit /\ Cookies!InFlight' = Cookies!InFlight
      /\ Cookies!InFlight \subseteq Visits
      /\ (stray => stray') /\ (torn => torn')
  BY DEF Cookies!EntryExpires, Cookies!CookieExpires, Cookies!InFlight
<1>2. ASSUME NEW i \in Visits, Cookies!EntryExpires(i) PROVE SessionInv'
  <2>1. /\ store' \in [Visits -> SUBSET (Data \cup {NoValue})] /\ jar' = jar
        /\ torn'
        /\ \A j \in Visits : store'[j] \in {{}, store[j]}
    BY <1>2 DEF Cookies!EntryExpires, SessionInv, SessionTypes
  <2>2. ASSUME NEW r \in Cookies!InFlight, Carries(r) PROVE Carries(r)'
    BY <1>1, <2>1, <2>2 DEF Carries, SessionInv, OwnId
  <2>3. AllCarry'
    BY <1>1, <2>1, <2>2 DEF SessionInv, AllCarry
  <2>4. AllHeal' /\ Healed'
    BY <2>1 DEF AllHeal, Healed
  <2> QED BY <1>1, <2>1, <2>3, <2>4
             DEF SessionInv, SessionsGiven, SessionTypes, OwnId, Alone
<1>3. CASE Cookies!CookieExpires
  <2>1. store' = store /\ jar' = NoValue /\ stray'
    BY <1>3 DEF Cookies!CookieExpires
  <2>2. AllCarry' /\ Healed'
    BY <2>1 DEF AllCarry, Healed
  <2>3. AllHeal'
    <3> SUFFICES ASSUME ~torn', NEW r \in Cookies!InFlight PROVE Heals(r)'
      BY <1>1 DEF AllHeal
    <3>1. Heals(r)
      BY <1>1 DEF SessionInv, AllHeal
    <3> QED BY <1>1, <2>1, <3>1 DEF Heals
  <2> QED BY <1>1, <2>1, <2>2, <2>3
             DEF SessionInv, SessionsGiven, SessionTypes, OwnId, Alone
<1> QED BY <1>2, <1>3

LEMMA SessionNext == ASSUME SessionInv, [Cookies!Next]_CookiesVars PROVE SessionInv'
<1>1. ASSUME NEW r \in Visits, NEW k \in Data,
             Cookies!SetLoads(r, k) \/ Cookies!RemoveLoads(r, k)
      PROVE  SessionInv'
  <2>1. PICK at \in {"set", "remove"} : Cookies!Loads(r, k, at)
    BY <1>1 DEF Cookies!SetLoads, Cookies!RemoveLoads
  <2> DEFINE new ==
      [visit[r] EXCEPT !.at = at, !.key = k, !.data = store[visit[r].id]]
  <2>2. /\ r \in Cookies!InFlight /\ visit[r].at = "handler"
        /\ visit[r] \in SessionRecords
        /\ Cookies!Becomes(r, new) /\ UNCHANGED <<store, jar, stray, torn>>
    BY <2>1, RecordIs DEF Cookies!Loads
  <2>3. store[visit[r].id] \in SUBSET (Data \cup {NoValue})
    BY <2>2 DEF SessionInv, SessionTypes, OwnId
  <2>4. /\ new \in SessionRecords /\ new.cookie = visit[r].cookie
        /\ new.id = visit[r].id /\ new.at = at
    BY <2>2, <2>3 DEF SessionRecords
  <2> HIDE DEF new
  <2>5. store' \in [Visits -> SUBSET (Data \cup {NoValue})]
    BY <2>2 DEF SessionInv, SessionTypes
  <2> QED BY <2>2, <2>4, <2>5, WorkInv
<1>2. ASSUME NEW r \in Visits, Cookies!SetSaves(r) \/ Cookies!RemoveStores(r)
               \/ Cookies!HandlerEnds(r)
      PROVE  SessionInv'
  <2>1. PICK at \in {"handler", "interceptor"} :
            Cookies!Becomes(r, [visit[r] EXCEPT !.at = at])
    BY <1>2
       DEF Cookies!SetSaves, Cookies!RemoveStores, Cookies!HandlerEnds,
           Cookies!Goto
  <2> DEFINE new == [visit[r] EXCEPT !.at = at]
  <2>2. /\ r \in Cookies!InFlight /\ visit[r].at \notin {"idle", "over", "response"}
        /\ visit[r] \in SessionRecords /\ UNCHANGED <<jar, stray, torn>>
    BY <1>2, RecordIs
       DEF Cookies!SetSaves, Cookies!RemoveStores, Cookies!HandlerEnds
  <2>3. /\ new \in SessionRecords /\ new.cookie = visit[r].cookie
        /\ new.id = visit[r].id /\ new.at = at
    BY <2>2 DEF SessionRecords
  <2>4. \/ store' = store
        \/ \E d \in SUBSET (Data \cup {NoValue}) :
             store' = [store EXCEPT ![visit[r].id] = d]
    <3>1. CASE Cookies!SetSaves(r)
      <4>1. visit[r].data \cup {visit[r].key} \in SUBSET (Data \cup {NoValue})
        BY <2>2 DEF SessionRecords
      <4> QED BY <3>1, <4>1 DEF Cookies!SetSaves
    <3>2. CASE Cookies!RemoveStores(r)
      BY <2>2, <3>2 DEF Cookies!RemoveStores, SessionRecords
    <3>3. CASE Cookies!HandlerEnds(r)
      BY <3>3 DEF Cookies!HandlerEnds
    <3> QED BY <1>2, <3>1, <3>2, <3>3
  <2> HIDE DEF new
  <2>5. /\ store' \in [Visits -> SUBSET (Data \cup {NoValue})]
        /\ \A i \in Visits : i # visit[r].id => store'[i] \in {{}, store[i]}
    BY <2>4 DEF SessionInv, SessionTypes
  <2>6. Cookies!Becomes(r, new)
    BY <2>1 DEF new
  <2> QED BY <2>2, <2>3, <2>5, <2>6, WorkInv
<1>3. ASSUME NEW r \in Visits, Cookies!Destroy(r) \/ Cookies!Clear(r)
      PROVE  SessionInv'
  <2>1. /\ r \in Cookies!InFlight /\ visit[r].at = "handler"
        /\ visit[r] \in SessionRecords
        /\ UNCHANGED <<jar, visit, stray>> /\ (torn => torn')
    BY <1>3, RecordIs DEF Cookies!Destroy, Cookies!Clear
  <2>2. Cookies!Becomes(r, visit[r])
    BY <2>1 DEF Cookies!Becomes, SessionInv, SessionTypes
  <2>3. /\ store' \in [Visits -> SUBSET (Data \cup {NoValue})]
        /\ \A i \in Visits : store'[i] \in {{}, store[i]}
    BY <1>3 DEF Cookies!Destroy, Cookies!Clear, SessionInv, SessionTypes
  <2> QED BY <2>1, <2>2, <2>3, WorkInv
<1>4. ASSUME NEW r \in Visits, Cookies!HandlerFails(r) PROVE SessionInv'
  <2>1. /\ r \in Cookies!InFlight
        /\ Cookies!Becomes(r, [visit[r] EXCEPT !.at = "over"])
        /\ UNCHANGED <<store, jar>> /\ stray' /\ torn'
        /\ jar' \in Visits \cup {NoValue}
    BY <1>4, RecordIs
       DEF Cookies!HandlerFails, Cookies!Goto, SessionInv, SessionTypes
  <2> QED BY <2>1, OverInv
<1>5. CASE UNCHANGED CookiesVars
  BY <1>5
     DEF CookiesVars, SessionInv, SessionsGiven, SessionTypes, Cookies!InFlight,
         OwnId, Alone, AllCarry, AllHeal, Healed, Carries, Heals
<1> QED BY <1>1, <1>2, <1>3, <1>4, <1>5, MiddlewareInv, InterceptorInv,
           ResponseInv, ExpiryInv DEF Cookies!Next

LEMMA SessionInit == ASSUME SessionsGiven, Cookies!Init PROVE SessionInv
<1>1. SessionTypes /\ Cookies!InFlight = {}
  BY DEF Cookies!Init, SessionTypes, SessionRecords, Cookies!InFlight
<1> QED BY <1>1 DEF Cookies!Init, SessionInv, Alone, AllCarry, AllHeal, Healed

(* As long as no handler fails and requests do not overlap, the browser    *)
(* has the cookie of the session with data; and, whatever happened before, *)
(* a request that has its session to itself leaves no cookie without data  *)
(* (middleware and interceptor of src/session, apply_session_cookie).      *)
THEOREM CookieFollowsDataAlways ==
    ASSUME SessionsGiven PROVE PartsSpec => []CookieFollowsData
<1>1. Cookies!Init => SessionInv
  BY SessionInit
<1>2. SessionInv /\ [Cookies!Next]_CookiesVars => SessionInv'
  BY SessionNext
<1>3. SessionInv => Cookies!CookieFollowsData
  BY DEF SessionInv, AllCarry, Healed, Cookies!CookieFollowsData
<1>4. PartsInit => (part = "sessions" => SessionInv)
  BY <1>1, PartsBegin
<1>5. (part = "sessions" => SessionInv) /\ [PartsNext]_parts
        => (part = "sessions" => SessionInv)'
  BY <1>2, PartsStep
<1>6. (part = "sessions" => SessionInv) => CookieFollowsData
  BY <1>3 DEF CookieFollowsData
<1> QED BY <1>4, <1>5, <1>6, PTL DEF PartsSpec

-----------------------------------------------------------------------------
(* Service discovery over etcd.                                            *)

(* What an instance says of itself is not the absence of one.              *)
InstancesGiven == NoValue \notin Health

Said == Health \cup {NoValue}
ToldOf == [id : Ids, value : Said]
LoopStates ==
    [at : {"open"}, events : Seq(ToldOf), cancelled : BOOLEAN]
    \cup [at : {"replace"}, snapshot : [Ids -> Said]]
    \cup [at : {"none", "last", "over"}]

DiscoveryTypes ==
    /\ stored \in [Ids -> Said] /\ cache \in [Ids -> Said]
    /\ loop \in [Loops -> LoopStates]
    /\ reg \in [Ids -> {"none", "put", "alive", "left", "deleted", "orphan"}]
    /\ removing \subseteq Ids /\ raced \subseteq Ids
    /\ boot.at = "got" => boot.snapshot \in [Ids -> Said]

(* The last of the events about an id says that it has the value v.        *)
Tells(events, i, v) ==
    \E n \in DOMAIN events :
        /\ events[n].id = i /\ events[n].value = v
        /\ \A m \in DOMAIN events : m > n => events[m].id # i
Silent(events, i) == \A n \in DOMAIN events : events[n].id # i

(* What is under way for an id that no two steps raced for is true.        *)
LoopTells(l, i) ==
    /\ loop[l].at = "open" =>
           \/ Tells(loop[l].events, i, stored[i])
           \/ Silent(loop[l].events, i) /\ cache[i] = stored[i]
    /\ loop[l].at = "replace" => loop[l].snapshot[i] = stored[i]
LocalTells(i) ==
    /\ reg[i] = "put" => stored[i] # NoValue
    /\ reg[i] = "deleted" \/ i \in removing => stored[i] = NoValue
TrueTo(i) ==
    /\ \A l \in Loops : LoopTells(l, i)
    /\ boot.at = "got" => boot.snapshot[i] = stored[i]
    /\ LocalTells(i)

DiscoveryInv == InstancesGiven /\ DiscoveryTypes /\ \A i \in Ids \ raced : TrueTo(i)

-----------------------------------------------------------------------------
LEMMA ToldLast ==
    ASSUME NEW events \in Seq(ToldOf), NEW e \in ToldOf
    PROVE  /\ Append(events, e) \in Seq(ToldOf)
           /\ Tells(Append(events, e), e.id, e.value)
           /\ \A j, v : j # e.id =>
                 /\ Tells(events, j, v) => Tells(Append(events, e), j, v)
                 /\ Silent(events, j) => Silent(Append(events, e), j)
<1> DEFINE new == Append(events, e)
<1>1. /\ new \in Seq(ToldOf) /\ DOMAIN new = DOMAIN events \cup {Len(events) + 1}
      /\ new[Len(events) + 1] = e /\ Len(events) \in Nat
      /\ \A n \in DOMAIN events : new[n] = events[n] /\ n \in Nat
           /\ n <= Len(events)
  OBVIOUS
<1> HIDE DEF new
<1>2. Tells(new, e.id, e.value)
  <2>1. Len(events) + 1 \in DOMAIN new
    BY <1>1
  <2>2. \A m \in DOMAIN new : ~(m > Len(events) + 1)
    BY <1>1
  <2> QED BY <1>1, <2>1, <2>2 DEF Tells
<1>3. ASSUME NEW j, NEW v, j # e.id, Tells(events, j, v) PROVE Tells(new, j, v)
  <2>1. PICK n \in DOMAIN events : /\ events[n].id = j /\ events[n].value = v
                                   /\ \A m \in DOMAIN events : m > n
                                        => events[m].id # j
    BY <1>3 DEF Tells
  <2>2. \A m \in DOMAIN new : m > n => new[m].id # j
    BY <1>1, <1>3, <2>1
  <2> QED BY <1>1, <2>1, <2>2 DEF Tells
<1>4. ASSUME NEW j, j # e.id, Silent(events, j) PROVE Silent(new, j)
  BY <1>1, <1>4 DEF Silent
<1> QED BY <1>1, <1>2, <1>3, <1>4 DEF new

LEMMA ToldFirst ==
    ASSUME NEW events \in Seq(ToldOf), events # <<>>
    PROVE  /\ Tail(events) \in Seq(ToldOf) /\ Head(events) \in ToldOf
           /\ \A j : Silent(events, j) => Silent(Tail(events), j)
           /\ \A j, v : Tells(events, j, v) =>
                 \/ Tells(Tail(events), j, v)
                 \/ /\ Silent(Tail(events), j)
                    /\ Head(events).id = j /\ Head(events).value = v
<1> DEFINE rest == Tail(events)
<1>1. /\ rest \in Seq(ToldOf) /\ Head(events) \in ToldOf /\ Head(events) = events[1]
      /\ \A n \in DOMAIN rest : n + 1 \in DOMAIN events /\ n \in Nat
           /\ rest[n] = events[n + 1]
      /\ \A n \in DOMAIN events : n \in Nat /\ (n = 1 \/ (n - 1 \in DOMAIN rest
                                                         /\ rest[n - 1]
                                                              = events[n]))
  OBVIOUS
<1> HIDE DEF rest
<1>2. ASSUME NEW j, Silent(events, j) PROVE Silent(rest, j)
  BY <1>1, <1>2 DEF Silent
<1>3. ASSUME NEW j, NEW v, Tells(events, j, v)
      PROVE  \/ Tells(rest, j, v)
             \/ Silent(rest, j) /\ Head(events).id = j /\ Head(events).value = v
  <2>1. PICK n \in DOMAIN events : /\ events[n].id = j /\ events[n].value = v
                                   /\ \A m \in DOMAIN events : m > n
                                        => events[m].id # j
    BY <1>3 DEF Tells
  <2>2. CASE n = 1
    <3>1. ASSUME NEW m \in DOMAIN rest PROVE rest[m].id # j
      <4>1. m + 1 \in DOMAIN events /\ m + 1 > 1 /\ rest[m] = events[m + 1]
        <5>1. m \in Nat /\ m # 0
          BY <1>1 DEF rest
        <5> QED BY <1>1, <5>1
      <4> QED BY <2>1, <2>2, <4>1
    <3> QED BY <1>1, <2>1, <2>2, <3>1 DEF Silent
  <2>3. CASE n # 1
    <3>1. n - 1 \in DOMAIN rest /\ rest[n - 1] = events[n] /\ n \in Nat
      BY <1>1, <2>3
    <3>2. ASSUME NEW m \in DOMAIN rest, m > n - 1 PROVE rest[m].id # j
      <4>1. /\ m + 1 \in DOMAIN events /\ m \in Nat /\ rest[m] = events[m + 1]
        BY <1>1
      <4>2. m + 1 > n
        BY <3>1, <3>2, <4>1
      <4> QED BY <2>1, <4>1, <4>2
    <3> QED BY <2>1, <3>1, <3>2 DEF Tells
  <2> QED BY <2>2, <2>3
<1> QED BY <1>1, <1>2, <1>3 DEF rest

LEMMA NothingTold ==
    \A i, v : Silent(<<>>, i) /\ ~Tells(<<>>, i, v)
BY DEF Silent, Tells

(* What leaves the store as it is and writes the cache, if at all, with    *)
(* what is stored, or for an id that was raced for.                        *)
LEMMA StoreStays ==
    ASSUME DiscoveryInv, stored' = stored, DiscoveryTypes', raced \subseteq raced',
           \A j \in Ids \ raced' : cache'[j] = cache[j] \/ cache'[j] = stored[j],
           \A j \in Ids : reg'[j] \in {"put", "deleted"} => reg'[j] = reg[j],
           removing' \subseteq removing,
           boot'.at = "got" => boot' = boot \/ boot'.snapshot = stored,
           \A l \in Loops :
              /\ loop'[l].at = "open" =>
                    \/ loop[l].at = "open" /\ loop'[l].events = loop[l].events
                    \/ /\ loop'[l].events = <<>>
                       /\ \A j \in Ids \ raced' : cache'[j] = stored[j]
              /\ loop'[l].at = "replace" =>
                    loop'[l] = loop[l] \/ loop'[l].snapshot = stored
    PROVE  DiscoveryInv'
<1>1. ASSUME NEW i \in Ids \ raced' PROVE TrueTo(i)'
  <2>1. i \in Ids \ raced /\ TrueTo(i)
    BY DEF DiscoveryInv
  <2>2. ASSUME NEW l \in Loops PROVE LoopTells(l, i)'
    <3>1. LoopTells(l, i)
      BY <2>1 DEF TrueTo
    <3>2. loop'[l].at = "open" => \/ Tells(loop'[l].events, i, stored[i])
                                  \/ Silent(loop'[l].events, i)
                                       /\ cache'[i] = stored[i]
      BY <3>1, NothingTold DEF LoopTells
    <3>3. loop'[l].at = "replace" => loop'[l].snapshot[i] = stored[i]
      BY <3>1 DEF LoopTells
    <3> QED BY <3>2, <3>3 DEF LoopTells, Tells, Silent
  <2>3. boot'.at = "got" => boot'.snapshot[i] = stored[i]
    BY <2>1 DEF TrueTo
  <2>4. LocalTells(i)'
    BY <2>1 DEF TrueTo, LocalTells
  <2> QED BY <2>2, <2>3, <2>4 DEF TrueTo
<1> QED BY <1>1 DEF DiscoveryInv, InstancesGiven

(* A change of the store, which every open watch is told of.               *)
LEMMA StoreChanges ==
    ASSUME DiscoveryInv, NEW i \in Ids, NEW v \in Said, Etcd!Store(i, v),
           UNCHANGED <<cache, boot>>,
           reg' \in [Ids -> {"none", "put", "alive", "left", "deleted", "orphan"}],
           removing' \subseteq Ids,
           \A j \in Ids \ {i} : reg'[j] = reg[j]
               /\ (j \in removing' <=> j \in removing),
           ~Etcd!Pending(i) => /\ reg'[i] = "put" => v # NoValue
                               /\ reg'[i] = "deleted" \/ i \in removing'
                                    => v = NoValue
    PROVE  DiscoveryInv'
<1> DEFINE e == [id |-> i, value |-> v]
<1>0. e \in ToldOf /\ e.id = i /\ e.value = v
  BY DEF ToldOf
<1>1. /\ stored' \in [Ids -> Said] /\ stored'[i] = v
      /\ \A j \in Ids \ {i} : stored'[j] = stored[j]
      /\ raced \subseteq raced' /\ raced' \subseteq Ids
      /\ i \notin raced' => ~Etcd!Pending(i)
  BY DEF Etcd!Store, DiscoveryInv, DiscoveryTypes
<1>2. ASSUME NEW l \in Loops
      PROVE  /\ loop[l] \in LoopStates /\ loop'[l] \in LoopStates
             /\ loop'[l].at = loop[l].at
             /\ IF loop[l].at = "open"
                THEN loop'[l].events = Append(loop[l].events, e)
                     /\ loop[l].events \in Seq(ToldOf)
                ELSE loop'[l] = loop[l]
  <2>1. loop[l] \in LoopStates
    BY DEF DiscoveryInv, DiscoveryTypes
  <2>2. CASE loop[l].at = "open"
    <3>1. loop[l] \in [at : {"open"}, events : Seq(ToldOf), cancelled : BOOLEAN]
      BY <2>1, <2>2 DEF LoopStates
    <3>2. loop'[l] = [loop[l] EXCEPT !.events = Append(loop[l].events, e)]
      BY <2>2 DEF Etcd!Store, Etcd!Open
    <3>3. Append(loop[l].events, e) \in Seq(ToldOf)
      BY <1>0, <3>1, ToldLast
    <3> HIDE DEF e
    <3> QED BY <2>2, <3>1, <3>2, <3>3 DEF LoopStates
  <2>3. CASE loop[l].at # "open"
    BY <2>1, <2>3 DEF Etcd!Store, Etcd!Open
  <2> QED BY <2>2, <2>3
<1> HIDE DEF e
<1>a. ASSUME NEW l \in Loops, loop[l].at = "open"
      PROVE  /\ Tells(loop'[l].events, i, v)
             /\ \A j, u : j # i =>
                   /\ Tells(loop[l].events, j, u) => Tells(loop'[l].events, j, u)
                   /\ Silent(loop[l].events, j) => Silent(loop'[l].events, j)
  <2> DEFINE old == loop[l].events
             new == loop'[l].events
  <2>1. new = Append(old, e) /\ old \in Seq(ToldOf)
    BY <1>2, <1>a
  <2> HIDE DEF old, new
  <2>2. /\ Tells(new, i, v)
        /\ \A j, u : j # i =>
               /\ Tells(old, j, u) => Tells(new, j, u)
               /\ Silent(old, j) => Silent(new, j)
    BY <1>0, <2>1, ToldLast
  <2> QED BY <2>2 DEF old, new
<1>3. DiscoveryTypes'
  <2>1. loop' \in [Loops -> LoopStates]
    <3>1. DOMAIN loop' = Loops /\ loop' = [l \in Loops |-> loop'[l]]
      BY DEF Etcd!Store
    <3> QED BY <1>2, <3>1
  <2> QED BY <1>1, <2>1 DEF DiscoveryInv, DiscoveryTypes
<1>4. ASSUME NEW j \in Ids \ raced' PROVE TrueTo(j)'
  <2>1. TrueTo(j)
    BY <1>1 DEF DiscoveryInv
  <2>2. CASE j # i
    <3>1. ASSUME NEW l \in Loops PROVE LoopTells(l, j)'
      <4>1. LoopTells(l, j) /\ stored'[j] = stored[j]
        BY <1>1, <2>1, <2>2 DEF TrueTo
      <4>2. loop'[l].at = "open" => \/ Tells(loop'[l].events, j, stored[j])
                                    \/ Silent(loop'[l].events, j)
                                         /\ cache[j] = stored[j]
        BY <1>2, <1>a, <2>2, <4>1 DEF LoopTells
      <4>3. loop'[l].at = "replace" => loop'[l].snapshot[j] = stored[j]
        BY <1>2, <4>1 DEF LoopTells
      <4> QED BY <4>1, <4>2, <4>3 DEF LoopTells, Tells, Silent
    <3>2. LocalTells(j)'
      BY <1>1, <2>1, <2>2 DEF TrueTo, LocalTells
    <3> QED BY <1>1, <2>1, <2>2, <3>1, <3>2 DEF TrueTo
  <2>3. CASE j = i
    <3>1. ~Etcd!Pending(i)
      BY <1>1, <2>3
    <3>2. ASSUME NEW l \in Loops PROVE LoopTells(l, i)'
      <4>1. loop[l].at # "replace"
        BY <3>1 DEF Etcd!Pending, Etcd!Reading
      <4>2. loop'[l].at = "open" => Tells(loop'[l].events, i, v)
        BY <1>2, <1>a
      <4> QED BY <1>1, <1>2, <4>1, <4>2 DEF LoopTells, Tells, Silent
    <3>3. LocalTells(i)'
      BY <1>1, <3>1 DEF LocalTells
    <3> QED BY <2>3, <3>1, <3>2, <3>3 DEF TrueTo, Etcd!Pending
  <2> QED BY <2>2, <2>3
<1> QED BY <1>3, <1>4 DEF DiscoveryInv, InstancesGiven

LEMMA LoopIs ==
    ASSUME DiscoveryInv, NEW l \in Loops
    PROVE  /\ loop[l] \in LoopStates
           /\ loop[l].at = "open" =>
                 loop[l] \in [at : {"open"}, events : Seq(ToldOf),
                              cancelled : BOOLEAN]
           /\ loop[l].at = "replace" =>
                 loop[l] \in [at : {"replace"}, snapshot : [Ids -> Said]]
           /\ loop[l].at \in {"none", "open", "replace", "last", "over"}
<1>1. loop[l] \in LoopStates
  BY DEF DiscoveryInv, DiscoveryTypes
<1> QED BY <1>1 DEF LoopStates

LEMMA ApplyInv ==
    ASSUME DiscoveryInv, NEW l \in Loops, Etcd!Apply(l) PROVE DiscoveryInv'
<1> DEFINE old == loop[l].events
           event == Head(old)
           i == event.id
<1>1. /\ loop[l] \in [at : {"open"}, events : Seq(ToldOf), cancelled : BOOLEAN]
      /\ old \in Seq(ToldOf) /\ old # <<>>
      /\ loop' = [loop EXCEPT ![l] = [loop[l] EXCEPT !.events = Tail(old)]]
  <2>1. loop[l].at = "open" /\ old # <<>>
        /\ loop' = [loop EXCEPT ![l] = [loop[l] EXCEPT !.events = Tail(old)]]
    BY DEF Etcd!Apply
  <2> QED BY <2>1, LoopIs
<1>2. /\ Tail(old) \in Seq(ToldOf) /\ event \in ToldOf
      /\ \A j : Silent(old, j) => Silent(Tail(old), j)
      /\ \A j, v : Tells(old, j, v) =>
            \/ Tells(Tail(old), j, v)
            \/ Silent(Tail(old), j) /\ event.id = j /\ event.value = v
      /\ ~Silent(old, i)
  <2>1. ~Silent(old, i)
    BY <1>1 DEF Silent
  <2> QED BY <1>1, <2>1, ToldFirst
<1>3. /\ cache' = [cache EXCEPT ![i] = event.value]
      /\ raced' = IF Etcd!Pending(i) \/ Etcd!Running # {l} THEN raced \cup {i}
           ELSE raced
      /\ UNCHANGED <<stored, boot, reg, removing>>
  BY DEF Etcd!Apply, Etcd!Cached, Etcd!callers, Etcd!local
<1>4. /\ loop' \in [Loops -> LoopStates]
      /\ loop'[l].at = "open" /\ loop'[l].events = Tail(old)
      /\ \A k \in Loops \ {l} : loop'[k] = loop[k]
  <2> DEFINE new == [loop[l] EXCEPT !.events = Tail(old)]
  <2>1. new \in LoopStates /\ new.at = "open" /\ new.events = Tail(old)
    BY <1>1, <1>2 DEF LoopStates
  <2> HIDE DEF new
  <2>2. loop' = [loop EXCEPT ![l] = new]
    BY <1>1 DEF new
  <2> QED BY <2>1, <2>2 DEF DiscoveryInv, DiscoveryTypes
<1>5. /\ i \in Ids /\ event.value \in Said /\ loop[l].at = "open"
  BY <1>1, <1>2 DEF ToldOf
<1>a. UNCHANGED <<stored, boot, reg, removing>> /\ DiscoveryInv
  BY <1>3
<1> HIDE DEF i, event, old
<1>6. /\ cache' \in [Ids -> Said] /\ cache'[i] = event.value
      /\ \A j \in Ids \ {i} : cache'[j] = cache[j]
      /\ raced \subseteq raced' /\ raced' \subseteq Ids
      /\ i \notin raced' => ~Etcd!Pending(i) /\ Etcd!Running = {l}
  BY <1>3, <1>5 DEF DiscoveryInv, DiscoveryTypes
<1>7. DiscoveryTypes'
  BY <1>a, <1>4, <1>6 DEF DiscoveryInv, DiscoveryTypes
<1>8. ASSUME NEW j \in Ids \ raced', NEW k \in Loops PROVE LoopTells(k, j)'
  <2>1. LoopTells(k, j) /\ LoopTells(l, j)
    BY <1>6 DEF DiscoveryInv, TrueTo
  <2>2. CASE k # l /\ j # i
    BY <1>a, <1>4, <1>6, <2>1, <2>2 DEF LoopTells, Tells, Silent
  <2>3. CASE k # l /\ j = i
    <3>1. k \notin Etcd!Running
      BY <1>6, <2>3
    <3>2. loop'[k].at \notin {"open", "replace"}
      BY <1>4, <2>3, <3>1 DEF Etcd!Running
    <3> QED BY <3>2 DEF LoopTells
  <2>4. CASE k = l /\ j # i
    <3>1. Tells(old, j, stored[j]) \/ (Silent(old, j) /\ cache[j] = stored[j])
      BY <1>5, <2>1 DEF LoopTells, old
    <3>2. \/ Tells(Tail(old), j, stored[j])
          \/ Silent(Tail(old), j) /\ cache[j] = stored[j]
      <4>1. event.id # j
        BY <2>4 DEF i
      <4> QED BY <1>2, <3>1, <4>1
    <3>3. cache'[j] = cache[j] /\ stored' = stored
      BY <1>a, <1>6, <2>4
    <3>4. \/ Tells(loop'[l].events, j, stored'[j])
          \/ Silent(loop'[l].events, j) /\ cache'[j] = stored'[j]
      BY <1>4, <3>2, <3>3
    <3> QED BY <1>4, <2>4, <3>4 DEF LoopTells, Tells, Silent
  <2>5. CASE k = l /\ j = i
    <3>1. Tells(old, i, stored[i])
      BY <1>2, <1>5, <2>1, <2>5 DEF LoopTells, old
    <3>2. \/ Tells(Tail(old), i, stored[i])
          \/ Silent(Tail(old), i) /\ event.value = stored[i]
      BY <1>2, <3>1
    <3>3. \/ Tells(loop'[l].events, i, stored'[i])
          \/ Silent(loop'[l].events, i) /\ cache'[i] = stored'[i]
      BY <1>a, <1>4, <1>6, <3>2
    <3> QED BY <1>4, <2>5, <3>3 DEF LoopTells, Tells, Silent
  <2> QED BY <2>2, <2>3, <2>4, <2>5
<1>9. ASSUME NEW j \in Ids \ raced' PROVE TrueTo(j)'
  <2>1. TrueTo(j)
    BY <1>6 DEF DiscoveryInv
  <2>2. LocalTells(j)' /\ (boot'.at = "got" => boot'.snapshot[j] = stored'[j])
    BY <1>a, <2>1 DEF TrueTo, LocalTells
  <2> QED BY <1>8, <2>2 DEF TrueTo
<1> QED BY <1>7, <1>9 DEF DiscoveryInv, InstancesGiven

(* What cancelling a loop changes of it.                                   *)
LEMMA CancelledIs ==
    ASSUME DiscoveryInv, NEW l, loop' \in {loop, Etcd!Cancelled(l)}
    PROVE  /\ loop' \in [Loops -> LoopStates]
           /\ \A k \in Loops :
                 /\ loop'[k].at = "open" =>
                        loop[k].at = "open" /\ loop'[k].events = loop[k].events
                 /\ loop'[k].at = "replace" => loop'[k] = loop[k]
<1>1. CASE loop' = loop
  BY <1>1 DEF DiscoveryInv, DiscoveryTypes
<1>0. CASE loop' = Etcd!Cancelled(l) /\ l \notin Loops
  <2>1. loop' = loop
    BY <1>0 DEF Etcd!Cancelled, DiscoveryInv, DiscoveryTypes
  <2> QED BY <1>1, <2>1
<1>2. CASE loop' = Etcd!Cancelled(l) /\ l \in Loops /\ loop[l].at = "open"
  <2> DEFINE new == [loop[l] EXCEPT !.cancelled = TRUE]
  <2>1. loop[l] \in [at : {"open"}, events : Seq(ToldOf), cancelled : BOOLEAN]
    BY <1>2, LoopIs
  <2>2. new \in LoopStates /\ new.at = "open" /\ new.events = loop[l].events
    BY <2>1 DEF LoopStates
  <2> HIDE DEF new
  <2>3. loop' = [loop EXCEPT ![l] = new]
    BY <1>2 DEF Etcd!Cancelled, new
  <2> QED BY <1>2, <2>2, <2>3 DEF DiscoveryInv, DiscoveryTypes
<1>3. CASE loop' = Etcd!Cancelled(l) /\ l \in Loops /\ loop[l].at # "open"
  <2>1. loop' = [loop EXCEPT ![l] = loop[l]]
    BY <1>3 DEF Etcd!Cancelled
  <2> QED BY <2>1 DEF DiscoveryInv, DiscoveryTypes
<1> QED BY <1>0, <1>1, <1>2, <1>3

(* One loop goes on to another state.                                      *)
LEMMA LoopGoes ==
    ASSUME DiscoveryInv, NEW l \in Loops, NEW new \in LoopStates,
           loop' = [loop EXCEPT ![l] = new]
    PROVE  /\ loop' \in [Loops -> LoopStates] /\ loop'[l] = new
           /\ \A k \in Loops \ {l} : loop'[k] = loop[k]
BY DEF DiscoveryInv, DiscoveryTypes

LEMMA WatchNext ==
    ASSUME DiscoveryInv, NEW l \in Loops,
           Etcd!LoopCancelled(l) \/ Etcd!LoopBreaks(l) \/ Etcd!LoopReplaces(l)
               \/ Etcd!LoopEnds(l)
    PROVE  DiscoveryInv'
<1>1. PICK new \in LoopStates :
         /\ loop' = [loop EXCEPT ![l] = new] /\ new.at # "open"
         /\ new.at = "replace" => new.snapshot = stored
  <2>1. [at |-> "last"] \in LoopStates /\ [at |-> "over"] \in LoopStates
    BY DEF LoopStates
  <2>2. [at |-> "replace", snapshot |-> stored] \in LoopStates
    BY DEF LoopStates, DiscoveryInv, DiscoveryTypes
  <2> QED BY <2>1, <2>2
             DEF Etcd!LoopCancelled, Etcd!LoopBreaks, Etcd!LoopReplaces,
                 Etcd!LoopEnds
<1>2. /\ loop' \in [Loops -> LoopStates] /\ loop'[l] = new
      /\ \A k \in Loops \ {l} : loop'[k] = loop[k]
  BY <1>1, LoopGoes
<1>3. UNCHANGED <<stored, boot, reg, removing, raced>>
  BY DEF Etcd!LoopCancelled, Etcd!LoopBreaks, Etcd!LoopReplaces, Etcd!LoopEnds,
         Etcd!callers, Etcd!local, Etcd!history
<1>4. /\ cache' \in [Ids -> Said]
      /\ \A j \in Ids \ raced : cache'[j] = cache[j] \/ cache'[j] = stored[j]
  <2>1. CASE Etcd!LoopReplaces(l)
    <3>1. /\ cache' = loop[l].snapshot /\ loop[l].at = "replace"
          /\ loop[l].snapshot \in [Ids -> Said]
      BY <2>1, LoopIs DEF Etcd!LoopReplaces
    <3> QED BY <3>1 DEF DiscoveryInv, TrueTo, LoopTells
  <2>2. CASE cache' = cache
    BY <2>2 DEF DiscoveryInv, DiscoveryTypes
  <2> QED BY <2>1, <2>2 DEF Etcd!LoopCancelled, Etcd!LoopBreaks, Etcd!LoopEnds
<1>5. DiscoveryTypes'
  BY <1>2, <1>3, <1>4 DEF DiscoveryInv, DiscoveryTypes
<1> QED BY <1>1, <1>2, <1>3, <1>4, <1>5, StoreStays

LEMMA BootNext ==
    ASSUME DiscoveryInv,
           \/ \E then \in {"watch", "return"} : Etcd!Get(then)
           \/ Etcd!Replace \/ Etcd!StartWatch \/ Etcd!WatchOpens
           \/ Etcd!WatchFails \/ Etcd!KeepHandles
           \/ Etcd!Shutdown \/ Etcd!ShutdownReturns
    PROVE  DiscoveryInv'
<1>1. UNCHANGED <<stored, reg, removing>>
  BY DEF Etcd!Get, Etcd!Replace, Etcd!StartWatch, Etcd!WatchOpens,
         Etcd!WatchFails, Etcd!KeepHandles, Etcd!Shutdown, Etcd!ShutdownReturns,
         Etcd!local
<1>2. ASSUME UNCHANGED <<cache, loop, raced>>,
             boot'.at = "got" => boot' = boot \/ boot'.snapshot = stored
      PROVE  DiscoveryInv'
  <2>1. DiscoveryTypes'
    BY <1>1, <1>2 DEF DiscoveryInv, DiscoveryTypes
  <2> QED BY <1>1, <1>2, <2>1, StoreStays DEF DiscoveryInv, DiscoveryTypes
<1>3. CASE \/ \E then \in {"watch", "return"} : Etcd!Get(then)
           \/ Etcd!StartWatch \/ Etcd!WatchFails \/ Etcd!ShutdownReturns
  <2>1. UNCHANGED <<cache, loop, raced>>
    BY <1>3
       DEF Etcd!Get, Etcd!StartWatch, Etcd!WatchFails, Etcd!ShutdownReturns,
           Etcd!watch, Etcd!history
  <2>2. boot'.at = "got" => boot' = boot \/ boot'.snapshot = stored
    BY <1>3
       DEF Etcd!Get, Etcd!StartWatch, Etcd!WatchFails, Etcd!ShutdownReturns,
           Etcd!Idle
  <2> QED BY <1>2, <2>1, <2>2
<1>4. CASE Etcd!Replace
  <2>1. /\ UNCHANGED <<loop, raced>> /\ cache' = boot.snapshot /\ boot'.at # "got"
        /\ boot.at = "got"
    BY <1>4 DEF Etcd!Replace, Etcd!watch, Etcd!history, Etcd!Idle
  <2>2. /\ cache' \in [Ids -> Said] /\ \A j \in Ids \ raced : cache'[j] = stored[j]
    BY <2>1 DEF DiscoveryInv, DiscoveryTypes, TrueTo
  <2>3. DiscoveryTypes'
    BY <1>1, <2>1, <2>2 DEF DiscoveryInv, DiscoveryTypes
  <2> QED BY <1>1, <2>1, <2>2, <2>3, StoreStays
<1>5. CASE Etcd!WatchOpens
  <2>1. PICK l \in Loops : loop' = [loop EXCEPT ![l] = Etcd!NewLoop]
    BY <1>5 DEF Etcd!WatchOpens
  <2>2. Etcd!NewLoop \in LoopStates /\ Etcd!NewLoop.at = "open"
          /\ Etcd!NewLoop.events = <<>>
    <3>1. Etcd!NewLoop \in [at : {"open"}, events : Seq(ToldOf),
                            cancelled : BOOLEAN]
      BY DEF Etcd!NewLoop
    <3> QED BY <3>1 DEF LoopStates, Etcd!NewLoop
  <2>3. /\ loop' \in [Loops -> LoopStates] /\ loop'[l] = Etcd!NewLoop
        /\ \A k \in Loops \ {l} : loop'[k] = loop[k]
    BY <2>1, <2>2, LoopGoes
  <2>4. /\ cache' = cache /\ boot'.at = "spawned"
        /\ raced' = raced \cup {i \in Ids : cache[i] # stored[i]}
    BY <1>5 DEF Etcd!WatchOpens
  <2>5. DiscoveryTypes'
    BY <1>1, <2>3, <2>4 DEF DiscoveryInv, DiscoveryTypes
  <2> QED BY <1>1, <2>2, <2>3, <2>4, <2>5, StoreStays
<1>6. ASSUME UNCHANGED <<cache, raced>>, boot' \in {boot, Etcd!Idle},
             NEW l, loop' \in {loop, Etcd!Cancelled(l)}
      PROVE  DiscoveryInv'
  <2>1. /\ loop' \in [Loops -> LoopStates]
        /\ \A k \in Loops :
              /\ loop'[k].at = "open" =>
                     loop[k].at = "open" /\ loop'[k].events = loop[k].events
              /\ loop'[k].at = "replace" => loop'[k] = loop[k]
    BY <1>6, CancelledIs
  <2>2. boot'.at = "got" => boot' = boot
    BY <1>6 DEF Etcd!Idle
  <2>3. DiscoveryTypes'
    BY <1>1, <1>6, <2>1, <2>2 DEF DiscoveryInv, DiscoveryTypes
  <2> QED BY <1>1, <1>6, <2>1, <2>2, <2>3, StoreStays
<1>7. CASE Etcd!KeepHandles \/ Etcd!Shutdown
  <2>1. UNCHANGED <<cache, raced>> /\ boot' \in {boot, Etcd!Idle}
    BY <1>7 DEF Etcd!KeepHandles, Etcd!Shutdown
  <2>2. CASE loop' = loop
    BY <1>2, <2>1, <2>2 DEF Etcd!Idle
  <2>3. CASE kept # NoValue /\ loop' = Etcd!Cancelled(kept)
    BY <1>6, <2>1, <2>3
  <2> QED BY <1>7, <2>2, <2>3 DEF Etcd!KeepHandles, Etcd!Shutdown
<1> QED BY <1>3, <1>4, <1>5, <1>7

LEMMA LocalNext ==
    ASSUME DiscoveryInv, NEW i \in Ids,
           \/ \E v \in Health : Etcd!Register(i, v) \/ Etcd!Registered(i, v)
           \/ \E v \in Said : Etcd!OtherHost(i, v)
           \/ Etcd!Deleted(i) \/ Etcd!Uncached(i) \/ Etcd!Dropped(i)
           \/ Etcd!LeaseRunsOut(i)
           \/ Etcd!Deregister(i) \/ Etcd!Deregistered(i)
    PROVE  DiscoveryInv'
<1> DEFINE Regs == {"none", "put", "alive", "left", "deleted", "orphan"}
<1>0. /\ reg \in [Ids -> Regs] /\ removing \subseteq Ids /\ NoValue \in Said
      /\ \A v \in Health : v \in Said /\ v # NoValue
      /\ (i \notin raced => LocalTells(i))
  BY DEF DiscoveryInv, DiscoveryTypes, InstancesGiven, Said, TrueTo
<1>1. ASSUME NEW v \in Said, Etcd!OtherHost(i, v) PROVE DiscoveryInv'
  <2>1. Etcd!Store(i, v) /\ UNCHANGED <<cache, boot, reg, removing>>
    BY <1>1 DEF Etcd!OtherHost, Etcd!callers, Etcd!local
  <2>2. ~Etcd!Pending(i) => reg[i] \notin {"put", "deleted"} /\ i \notin removing
    BY DEF Etcd!Pending
  <2> QED BY <1>0, <2>1, <2>2, StoreChanges
<1>2. ASSUME NEW v \in Health, Etcd!Register(i, v) PROVE DiscoveryInv'
  <2>1. /\ Etcd!Store(i, v) /\ UNCHANGED <<cache, boot, removing>>
        /\ \E at \in {"put", "orphan"} : reg' = [reg EXCEPT ![i] = at]
    BY <1>2 DEF Etcd!Register, Etcd!callers
  <2>2. /\ reg' \in [Ids -> Regs] /\ reg'[i] \in {"put", "orphan"}
        /\ \A j \in Ids \ {i} : reg'[j] = reg[j]
    BY <1>0, <2>1
  <2>3. ~Etcd!Pending(i) => i \notin removing
    BY DEF Etcd!Pending
  <2> QED BY <1>0, <2>1, <2>2, <2>3, StoreChanges
<1>3. ASSUME Etcd!Store(i, NoValue), UNCHANGED <<cache, boot, removing>>,
             NEW at \in {"deleted", "none"}, reg' = [reg EXCEPT ![i] = at]
      PROVE  DiscoveryInv'
  <2>1. /\ reg' \in [Ids -> Regs] /\ reg'[i] \in {"deleted", "none"}
        /\ \A j \in Ids \ {i} : reg'[j] = reg[j]
    BY <1>0, <1>3
  <2> QED BY <1>0, <1>3, <2>1, StoreChanges
<1>4. CASE Etcd!Deregister(i)
  <2>1. /\ Etcd!Store(i, NoValue) /\ UNCHANGED <<cache, boot, reg>>
        /\ removing' \in {removing, removing \cup {i}}
    BY <1>4 DEF Etcd!Deregister, Etcd!callers
  <2>2. ~Etcd!Pending(i) => reg[i] # "put"
    BY DEF Etcd!Pending
  <2>3. removing' \subseteq Ids /\ \A j \in Ids \ {i} : j \in removing'
          <=> j \in removing
    BY <1>0, <2>1
  <2> QED BY <1>0, <2>1, <2>2, <2>3, StoreChanges
<1>5. ASSUME UNCHANGED <<stored, loop, boot>>, NEW v \in Said,
             raced' \in {raced, raced \cup {i}},
             cache' = [cache EXCEPT ![i] = v], i \notin raced' => v = stored[i],
             reg' \in [Ids -> Regs],
             \A j \in Ids : reg'[j] \in {"put", "deleted"} => reg'[j] = reg[j],
             removing' \subseteq removing
      PROVE  DiscoveryInv'
  <2>1. /\ cache' \in [Ids -> Said]
        /\ \A j \in Ids \ raced' : cache'[j] = cache[j] \/ cache'[j] = stored[j]
    BY <1>5 DEF DiscoveryInv, DiscoveryTypes
  <2>2. DiscoveryTypes'
    BY <1>5, <2>1 DEF DiscoveryInv, DiscoveryTypes
  <2> QED BY <1>5, <2>1, <2>2, StoreStays
<1>6. ASSUME NEW v \in Health, Etcd!Registered(i, v) PROVE DiscoveryInv'
  <2>1. /\ UNCHANGED <<stored, loop, boot, raced, removing>>
        /\ cache' = [cache EXCEPT ![i] = v] /\ reg[i] = "put"
        /\ stored[i] \in {v, NoValue}
        /\ reg' = [reg EXCEPT ![i] = "alive"]
    BY <1>6
       DEF Etcd!Registered, Etcd!Cached, Etcd!watch, Etcd!callers, Etcd!history
  <2>2. i \notin raced => v = stored[i]
    BY <1>0, <2>1 DEF LocalTells
  <2>3. /\ reg' \in [Ids -> Regs]
        /\ \A j \in Ids : reg'[j] \in {"put", "deleted"} => reg'[j] = reg[j]
    BY <1>0, <2>1
  <2> QED BY <1>0, <1>5, <2>1, <2>2, <2>3
<1>7. CASE Etcd!Uncached(i) \/ Etcd!Deregistered(i)
  <2>1. /\ UNCHANGED <<stored, loop, boot>> /\ removing' \subseteq removing
        /\ cache' = [cache EXCEPT ![i] = NoValue]
        /\ \/ raced' = raced /\ (reg[i] = "deleted" \/ i \in removing)
           \/ raced' = raced \cup {i}
        /\ \/ reg' = reg
           \/ \E at \in {"none", "orphan"} : reg' = [reg EXCEPT ![i] = at]
    BY <1>7
       DEF Etcd!Uncached, Etcd!Deregistered, Etcd!Cached, Etcd!watch,
           Etcd!callers, Etcd!history
  <2>2. i \notin raced' => NoValue = stored[i]
    BY <1>0, <2>1 DEF LocalTells
  <2>3. /\ reg' \in [Ids -> Regs]
        /\ \A j \in Ids : reg'[j] \in {"put", "deleted"} => reg'[j] = reg[j]
    BY <1>0, <2>1
  <2> QED BY <1>0, <1>5, <2>1, <2>2, <2>3
<1>8. ASSUME UNCHANGED <<stored, cache, loop, boot, raced, removing>>,
             NEW at \in {"left", "orphan"}, reg' = [reg EXCEPT ![i] = at]
      PROVE  DiscoveryInv'
  <2>1. DiscoveryTypes'
    BY <1>0, <1>8 DEF DiscoveryInv, DiscoveryTypes
  <2>2. \A j \in Ids : reg'[j] \in {"put", "deleted"} => reg'[j] = reg[j]
    BY <1>0, <1>8
  <2> QED BY <1>8, <2>1, <2>2, StoreStays
<1>9. CASE Etcd!Dropped(i)
  BY <1>8, <1>9 DEF Etcd!Dropped, Etcd!watch, Etcd!callers, Etcd!history
<1>10. CASE Etcd!LeaseRunsOut(i)
  <2>1. PICK at \in {"deleted", "none"} : reg' = [reg EXCEPT ![i] = at]
    BY <1>10 DEF Etcd!LeaseRunsOut
  <2> QED BY <1>3, <1>10, <2>1 DEF Etcd!LeaseRunsOut, Etcd!callers
<1>11. CASE Etcd!Deleted(i)
  BY <1>3, <1>8, <1>11 DEF Etcd!Deleted, Etcd!callers
<1> QED BY <1>1, <1>2, <1>3, <1>4, <1>6, <1>7, <1>9, <1>10, <1>11

LEMMA DiscoveryNext == ASSUME DiscoveryInv, [Etcd!Next]_EtcdVars PROVE DiscoveryInv'
<1>1. CASE UNCHANGED EtcdVars
  <2>1. UNCHANGED <<stored, cache, loop, boot, reg, removing, raced>>
    BY <1>1 DEF EtcdVars
  <2>2. DiscoveryTypes'
    BY <2>1 DEF DiscoveryInv, DiscoveryTypes
  <2> QED BY <2>1, <2>2, StoreStays
<1> QED BY <1>1, ApplyInv, WatchNext, BootNext, LocalNext
           DEF Etcd!Next, Etcd!LoopStep, Said

(* Whatever snapshots, watch loops and registrations were under way: for   *)
(* an id that no two steps raced for, a watch that has nothing left to say *)
(* left in the cache what etcd has (refresh, start_watch, register,        *)
(* deregister and shutdown of src/service_discovery/etcd.rs).              *)
THEOREM CacheFollowsAlways ==
    ASSUME InstancesGiven PROVE PartsSpec => []CacheFollows
<1>1. Etcd!Init => DiscoveryInv
  <2> SUFFICES ASSUME Etcd!Init PROVE DiscoveryInv
    OBVIOUS
  <2>1. Etcd!NoLoop \in LoopStates
    BY DEF Etcd!NoLoop, LoopStates
  <2>2. Etcd!Nothing \in [Ids -> Said]
    BY DEF Etcd!Nothing, Said
  <2>3. DiscoveryTypes
    BY <2>1, <2>2 DEF Etcd!Init, DiscoveryTypes, Etcd!Idle
  <2> QED BY <2>3
             DEF Etcd!Init, DiscoveryInv, TrueTo, LoopTells, LocalTells,
                 Etcd!Idle, Etcd!NoLoop
<1>2. DiscoveryInv /\ [Etcd!Next]_EtcdVars => DiscoveryInv'
  BY DiscoveryNext
<1>3. DiscoveryInv => Etcd!CacheFollows
  <2> SUFFICES ASSUME DiscoveryInv, NEW i \in Ids \ raced, Etcd!Quiet(i)
               PROVE  i \in Etcd!Instances <=> stored[i] \in Healthy
    BY DEF Etcd!CacheFollows
  <2>1. cache[i] = stored[i]
    BY NothingTold DEF Etcd!Quiet, Etcd!Open, DiscoveryInv, TrueTo, LoopTells
  <2> QED BY <2>1 DEF Etcd!Instances
<1>4. PartsInit => (part = "discovery" => DiscoveryInv)
  BY <1>1, PartsBegin
<1>5. (part = "discovery" => DiscoveryInv) /\ [PartsNext]_parts
        => (part = "discovery" => DiscoveryInv)'
  BY <1>2, PartsStep
<1>6. (part = "discovery" => DiscoveryInv) => CacheFollows
  BY <1>3 DEF CacheFollows
<1> QED BY <1>4, <1>5, <1>6, PTL DEF PartsSpec

-----------------------------------------------------------------------------
(* Rate limits.                                                            *)

(* Durations and limits are natural numbers (Duration, usize).             *)
LimitsGiven ==
    /\ IsFiniteSet(Requests) /\ MaxWait \in Nat
    /\ Limits \subseteq [max : Nat, window : Nat]

LimitTypes ==
    /\ clock \in Nat
    /\ request \in [Requests -> [at : {"idle", "waiting", "allowed", "limited",
                                       "error"},
                                 now : Nat, of : Policies \X Subjects,
                                 limit : Limits]]
    /\ policies \in [DOMAIN policies -> Limits]
    /\ buckets \in [DOMAIN buckets -> [start : Nat, count : Nat]]
    /\ \A b \in DOMAIN buckets : b \in Policies \X Subjects
         /\ b[1] \in DOMAIN policies

(* A request that waits for the lock read the clock lately, and a window   *)
(* begins at a clock some request has read.                                *)
InTime ==
    /\ \A r \in Requests :
          request[r].at = "waiting" =>
              request[r].now <= clock /\ clock <= request[r].now + MaxWait
    /\ \A b \in DOMAIN buckets : buckets[b].start <= clock

(* Within the window from start, or before it by a wait for the lock.      *)
Inside(at, start, window) ==
    start <= at + MaxWait /\ (at <= start \/ at < start + window)

Counted(b, start, window) ==
    {o \in Requests : /\ request[o].at = "allowed" /\ request[o].of = b
                      /\ Inside(request[o].now, start, window)}

(* A bucket counts only requests that were let through in its window.      *)
CountsAllowed ==
    \A b \in DOMAIN buckets :
        buckets[b].count
            <= Cardinality(Counted(b, buckets[b].start, policies[b[1]].window))

LimitInv == LimitTypes /\ InTime /\ CountsAllowed /\ Limiter!LimitedWhenFull

-----------------------------------------------------------------------------
(* Subsets of the requests have cardinalities, and larger ones no smaller. *)
(* The model counts with FiniteSets, as the theorems about it do.          *)
LEMMA LimiterCounts == \A S : Limiter!Cardinality(S) = Cardinality(S)
BY DEF Limiter!Cardinality, Cardinality

LEMMA Growing ==
    ASSUME LimitsGiven, NEW S \in SUBSET Requests, NEW T \in SUBSET Requests,
           S \subseteq T
    PROVE  Cardinality(S) \in Nat /\ Cardinality(T) \in Nat
           /\ Cardinality(S) <= Cardinality(T)
BY FS_Subset, FS_CardinalityType DEF LimitsGiven

(* Those that the property asks for, of a request and its limit.           *)
Around(me) ==
    {o \in Requests :
        /\ request[o].at = "allowed" /\ request[o].of = me.of
        /\ request[o].now + me.limit.window + MaxWait > me.now
        /\ me.now + me.limit.window + MaxWait > request[o].now}

LimitedOK(q) ==
    request[q].at = "limited"
        => Cardinality(Around(request[q])) >= request[q].limit.max

(* Two instants inside one window are less than it and a wait apart.       *)
LEMMA InsideApart ==
    ASSUME LimitsGiven, NEW n \in Nat, NEW m \in Nat, NEW start \in Nat,
           NEW window \in Nat, window > 0,
           Inside(n, start, window), Inside(m, start, window)
    PROVE  n + window + MaxWait > m
BY DEF LimitsGiven, Inside

(* What is allowed stays allowed, and counted.                             *)
LEMMA CountedStays ==
    ASSUME LimitTypes, NEW r \in Requests, request[r].at # "allowed",
           \A o \in Requests \ {r} : request'[o] = request[o]
    PROVE  /\ \A b, start, window :
                Counted(b, start, window) \subseteq Counted(b, start, window)'
           /\ \A me : Around(me) \subseteq Around(me)'
BY DEF Counted, Around

(* A step of one request takes no permission of another's back.            *)
LEMMA LimitedStays ==
    ASSUME LimitsGiven, LimitTypes, Limiter!LimitedWhenFull, NEW r \in Requests,
           request[r].at # "allowed",
           \A o \in Requests \ {r} : request'[o] = request[o]
    PROVE  \A q \in Requests \ {r} : LimitedOK(q)'
<1> SUFFICES ASSUME NEW q \in Requests \ {r}, request'[q].at = "limited"
             PROVE  LimitedOK(q)'
  BY DEF LimitedOK
<1> PICK me : me = request[q]
  OBVIOUS
<1>1. request'[q] = me
  OBVIOUS
<1>2. Around(me) \subseteq Around(me)'
  BY CountedStays
<1>3. Around(me) \subseteq Requests /\ Around(me)' \subseteq Requests
  BY DEF Around
<1>4. Cardinality(Around(me)) >= me.limit.max
  BY <1>1, LimiterCounts DEF Limiter!LimitedWhenFull, Around
<1>5. me.limit.max \in Nat
  BY DEF LimitTypes, LimitsGiven
<1>6. Cardinality(Around(me)') >= me.limit.max
  BY <1>2, <1>3, <1>4, <1>5, Growing
<1> QED BY <1>1, <1>6 DEF LimitedOK, Around

-----------------------------------------------------------------------------
LEMMA LimitBegins == ASSUME LimitsGiven, Limiter!Init PROVE LimitInv
BY DEF Limiter!Init, LimitInv, LimitTypes, InTime, CountsAllowed,
       Limiter!LimitedWhenFull, LimitsGiven

LEMMA LimitTicks == ASSUME LimitsGiven, LimitInv, Limiter!Tick PROVE LimitInv'
<1>1. LimitTypes'
  BY DEF LimitInv, LimitTypes, Limiter!Tick
<1>2. InTime'
  <2>1. \A r \in Requests : request[r].at = "waiting" =>
            request[r].now <= clock + 1 /\ clock + 1 <= request[r].now + MaxWait
    BY DEF LimitInv, LimitTypes, InTime, Limiter!Tick, LimitsGiven
  <2> QED BY <2>1 DEF LimitInv, LimitTypes, InTime, Limiter!Tick
<1>3. CountsAllowed' /\ Limiter!LimitedWhenFull'
  BY DEF LimitInv, CountsAllowed, Counted, Limiter!LimitedWhenFull, Limiter!Tick
<1> QED BY <1>1, <1>2, <1>3 DEF LimitInv

(* Neither policies nor buckets change, and nobody is limited.             *)
LEMMA OthersWait ==
    ASSUME LimitsGiven, LimitInv, NEW r \in Requests, request[r].at # "allowed",
           \A o \in Requests \ {r} : request'[o] = request[o],
           request'[r].at # "limited", UNCHANGED <<policies, buckets>>
    PROVE  CountsAllowed' /\ Limiter!LimitedWhenFull'
<1>1. CountsAllowed'
  <2> SUFFICES ASSUME NEW b \in DOMAIN buckets
               PROVE  buckets[b].count <=
                   Cardinality(Counted(b, buckets[b].start, policies[b[1]].window)')
    BY DEF CountsAllowed, Counted
  <2> PICK s, w : s = buckets[b].start /\ w = policies[b[1]].window
    OBVIOUS
  <2>1. Counted(b, s, w) \subseteq Counted(b, s, w)'
    BY CountedStays DEF LimitInv
  <2>2. Counted(b, s, w) \subseteq Requests /\ Counted(b, s, w)' \subseteq Requests
    BY DEF Counted
  <2>3. buckets[b].count \in Nat
          /\ buckets[b].count <= Cardinality(Counted(b, s, w))
    BY DEF LimitInv, LimitTypes, CountsAllowed
  <2>4. buckets[b].count <= Cardinality(Counted(b, s, w)')
    BY <2>1, <2>2, <2>3, Growing
  <2> QED BY <2>4 DEF Counted
<1>2. \A q \in Requests \ {r} : LimitedOK(q)'
  BY LimitedStays DEF LimitInv
<1>3. Limiter!LimitedWhenFull'
  BY <1>2, LimiterCounts DEF Limiter!LimitedWhenFull, LimitedOK, Around
<1> QED BY <1>1, <1>3

LEMMA Arriving ==
    ASSUME LimitsGiven, LimitInv, NEW r \in Requests, Limiter!Arrives(r)
    PROVE  LimitInv'
<1>1. request'[r] = [request[r] EXCEPT !.at = "waiting", !.now = clock]
  BY DEF LimitInv, LimitTypes, Limiter!Arrives
<1>2. \A o \in Requests \ {r} : request'[o] = request[o]
  BY DEF LimitInv, LimitTypes, Limiter!Arrives
<1>3. LimitTypes'
  <2>1. /\ request' = [request EXCEPT ![r].at = "waiting", ![r].now = clock]
        /\ UNCHANGED <<clock, policies, buckets>>
    BY DEF Limiter!Arrives
  <2>2. request' \in [Requests ->
            [at : {"idle", "waiting", "allowed", "limited", "error"},
             now : Nat, of : Policies \X Subjects, limit : Limits]]
    <3> PICK me : me = request[r]
      OBVIOUS
    <3> DEFINE Type == [at : {"idle", "waiting", "allowed", "limited", "error"},
                         now : Nat, of : Policies \X Subjects, limit : Limits]
    <3>1. me \in Type /\ clock \in Nat
      BY DEF LimitInv, LimitTypes
    <3>2. [me EXCEPT !.at = "waiting", !.now = clock] \in Type
      BY <3>1
    <3>3. \A o \in Requests : request'[o] \in Type
      BY <1>1, <1>2, <3>2 DEF LimitInv, LimitTypes
    <3>4. request' = [o \in Requests |-> request'[o]]
      BY <2>1 DEF LimitInv, LimitTypes
    <3> QED BY <3>3, <3>4
  <2> QED BY <2>1, <2>2 DEF LimitInv, LimitTypes
<1>4. InTime'
  BY <1>1, <1>2 DEF LimitInv, LimitTypes, InTime, Limiter!Arrives, LimitsGiven
<1>5. CountsAllowed' /\ Limiter!LimitedWhenFull'
  BY <1>1, <1>2, OthersWait DEF LimitInv, LimitTypes, Limiter!Arrives
<1> QED BY <1>3, <1>4, <1>5 DEF LimitInv

(* Another limit under the policy's name: an error, and nothing changes.   *)
LEMMA RefusingLimits ==
    ASSUME LimitsGiven, LimitInv, NEW r \in Requests, Limiter!Acquire(r), Limiter!Conflicts(r)
    PROVE  LimitInv'
<1>1. /\ request' = [request EXCEPT ![r].at = "error"]
      /\ UNCHANGED <<clock, policies, buckets>> /\ request[r].at = "waiting"
  BY DEF Limiter!Acquire
<1>2. LimitTypes'
  BY <1>1 DEF LimitInv, LimitTypes
<1>3. InTime'
  BY <1>1 DEF LimitInv, LimitTypes, InTime
<1>4. request'[r].at = "error" /\ \A o \in Requests \ {r} : request'[o] = request[o]
  BY <1>1 DEF LimitInv, LimitTypes
<1>5. CountsAllowed' /\ Limiter!LimitedWhenFull'
  BY <1>1, <1>4, OthersWait
<1> QED BY <1>2, <1>3, <1>5 DEF LimitInv

-----------------------------------------------------------------------------
(* What acquire computes, of a request me, its policy p, the settings seen,*)
(* the buckets kept and the bucket old that is me's.                       *)
Acquired(r, me, p, seen, keep, old) ==
    /\ me = request[r] /\ p = me.of[1] /\ me.at = "waiting"
    /\ seen = [q \in DOMAIN policies \cup {p} |->
                  IF q = p THEN me.limit ELSE policies[q]]
    /\ keep = Limiter!Retained(me.now, seen)
    /\ old = IF me.of \in keep THEN buckets[me.of]
         ELSE [start |-> me.now, count |-> 0]
    /\ clock' = clock /\ policies' = seen
    /\ buckets' = [b \in keep \cup {me.of} |->
                      IF b = me.of
                      THEN IF old.count >= me.limit.max THEN old
                           ELSE [old EXCEPT !.count = @ + 1]
                      ELSE buckets[b]]
    /\ request' = [request EXCEPT ![r].at =
                       IF old.count >= me.limit.max THEN "limited" ELSE "allowed"]

LEMMA AcquireIs ==
    ASSUME NEW r \in Requests, Limiter!Acquire(r), ~Limiter!Conflicts(r)
    PROVE  \E me, p, seen, keep, old : Acquired(r, me, p, seen, keep, old)
<1> DEFINE me == request[r]
           p == me.of[1]
           seen == [q \in DOMAIN policies \cup {p} |->
                       IF q = p THEN me.limit ELSE policies[q]]
           keep == Limiter!Retained(me.now, seen)
           old == IF me.of \in keep THEN buckets[me.of]
                  ELSE [start |-> me.now, count |-> 0]
<1>1. Acquired(r, me, p, seen, keep, old)
  BY DEF Limiter!Acquire, Acquired
<1> HIDE DEF me, p, seen, keep, old
<1> QED BY <1>1

(* Types of all that, and that the settings of a policy never change.      *)
AcquiredOK(r, me, p, seen, keep, old) ==
    /\ me.now \in Nat /\ me.limit.max \in Nat /\ me.limit.window \in Nat
    /\ me.limit \in Limits /\ me.of \in Policies \X Subjects
    /\ keep \subseteq DOMAIN buckets
    /\ old \in [start : Nat, count : Nat]
    /\ seen[p] = me.limit
    /\ \A q \in DOMAIN policies : seen[q] = policies[q]
    /\ me.of \in keep => p \in DOMAIN policies /\ policies[p] = me.limit
    /\ \A o \in Requests \ {r} : request'[o] = request[o]
    /\ request'[r].at = IF old.count >= me.limit.max THEN "limited" ELSE "allowed"
    /\ request'[r].now = me.now /\ request'[r].of = me.of
    /\ request'[r].limit = me.limit

LEMMA AcquiredTypes ==
    ASSUME LimitsGiven, LimitInv, NEW r \in Requests, ~Limiter!Conflicts(r),
           NEW me, NEW p, NEW seen, NEW keep, NEW old,
           Acquired(r, me, p, seen, keep, old)
    PROVE  AcquiredOK(r, me, p, seen, keep, old)
<1>1. /\ me.now \in Nat /\ me.limit \in Limits /\ me.of \in Policies \X Subjects
      /\ me.limit.max \in Nat /\ me.limit.window \in Nat
  BY DEF Acquired, LimitInv, LimitTypes, LimitsGiven
<1>2. seen[p] = me.limit /\ \A q \in DOMAIN policies : seen[q] = policies[q]
  BY DEF Acquired, Limiter!Conflicts
<1>3. keep \subseteq DOMAIN buckets
  BY DEF Acquired, Limiter!Retained
<1>4. me.of \in keep => p \in DOMAIN policies /\ policies[p] = me.limit
  BY <1>2, <1>3 DEF Acquired, LimitInv, LimitTypes
<1>5. old \in [start : Nat, count : Nat]
  BY <1>1, <1>3 DEF Acquired, LimitInv, LimitTypes
<1>6. PICK at \in {"limited", "allowed"} :
        /\ at = IF old.count >= me.limit.max THEN "limited" ELSE "allowed"
        /\ request' = [request EXCEPT ![r].at = at] /\ me = request[r]
  BY DEF Acquired
<1>7. /\ \A o \in Requests \ {r} : request'[o] = request[o]
      /\ request'[r].at = at /\ request'[r].now = me.now
      /\ request'[r].of = me.of /\ request'[r].limit = me.limit
  BY <1>6 DEF LimitInv, LimitTypes
<1> QED BY <1>1, <1>2, <1>3, <1>4, <1>5, <1>6, <1>7 DEF AcquiredOK

(* A request that is served is inside the window of its bucket.            *)
LEMMA ServedInside ==
    ASSUME LimitsGiven, LimitInv, NEW r \in Requests, ~Limiter!Conflicts(r),
           NEW me, NEW p, NEW seen, NEW keep, NEW old,
           Acquired(r, me, p, seen, keep, old)
    PROVE  /\ Inside(me.now, old.start, me.limit.window)
           /\ me.of \in keep => me.limit.window > 0
           /\ old.start <= clock
<1> AcquiredOK(r, me, p, seen, keep, old)
  BY AcquiredTypes
<1>1. me.now <= clock /\ clock <= me.now + MaxWait
  BY DEF Acquired, LimitInv, InTime
<1>2. CASE me.of \in keep
  <2>1. old = buckets[me.of] /\ me.of \in DOMAIN buckets
    BY <1>2 DEF Acquired, AcquiredOK
  <2>2. Limiter!Elapsed(me.now, old.start) < me.limit.window
    <3>1. me.of \in Limiter!Retained(me.now, seen) /\ p = me.of[1]
      BY <1>2 DEF Acquired
    <3>2. seen[p] = me.limit
      BY DEF AcquiredOK
    <3> QED BY <2>1, <3>1, <3>2 DEF Limiter!Retained
  <2>3. old.start <= clock
    BY <2>1 DEF LimitInv, InTime
  <2>4. /\ me.now \in Nat /\ old.start \in Nat /\ me.limit.window \in Nat
        /\ clock \in Nat /\ MaxWait \in Nat
    BY DEF AcquiredOK, LimitInv, LimitTypes, LimitsGiven
  <2> QED BY <1>1, <1>2, <2>2, <2>3, <2>4 DEF Inside, Limiter!Elapsed
<1>3. CASE me.of \notin keep
  <2>1. old = [start |-> me.now, count |-> 0]
    BY <1>3 DEF Acquired
  <2>2. me.now \in Nat /\ clock \in Nat /\ MaxWait \in Nat
    BY DEF AcquiredOK, LimitInv, LimitTypes, LimitsGiven
  <2> QED BY <1>1, <1>3, <2>1, <2>2 DEF Inside
<1> QED BY <1>2, <1>3

(* The bucket after the step counts no more than were let through.         *)
LEMMA BucketCounts ==
    ASSUME LimitsGiven, LimitInv, NEW r \in Requests, ~Limiter!Conflicts(r),
           NEW me, NEW p, NEW seen, NEW keep, NEW old,
           Acquired(r, me, p, seen, keep, old),
           NEW start, start = old.start, NEW window, window = me.limit.window
    PROVE  /\ old.count <= Cardinality(Counted(me.of, start, window))
           /\ ~(old.count >= me.limit.max) =>
                 old.count + 1 <= Cardinality(Counted(me.of, start, window)')
<1> AcquiredOK(r, me, p, seen, keep, old)
  BY AcquiredTypes
<1> DEFINE C == Counted(me.of, start, window)
<1>1. C \subseteq Requests /\ IsFiniteSet(C) /\ Cardinality(C) \in Nat
  BY FS_Subset, FS_CardinalityType DEF Counted, LimitsGiven
<1>2. old.count <= Cardinality(C)
  <2>1. CASE me.of \in keep
    <3>1. old = buckets[me.of] /\ me.of \in DOMAIN buckets /\ p = me.of[1]
      BY <2>1 DEF Acquired, AcquiredOK
    <3>2. policies[me.of[1]].window = window
      BY <2>1, <3>1 DEF AcquiredOK
    <3> QED BY <3>1, <3>2 DEF LimitInv, CountsAllowed
  <2>2. CASE me.of \notin keep
    <3>1. old = [start |-> me.now, count |-> 0]
      BY <2>2 DEF Acquired
    <3> QED BY <1>1, <3>1
  <2> QED BY <2>1, <2>2
<1>3. ASSUME ~(old.count >= me.limit.max)
      PROVE  old.count + 1 <= Cardinality(Counted(me.of, start, window)')
  <2>1. r \notin C
    BY DEF Counted, Acquired
  <2>2. Cardinality(C \cup {r}) = Cardinality(C) + 1
    BY <1>1, <2>1, FS_AddElement
  <2>3. /\ request'[r].at = "allowed" /\ request'[r].of = me.of
        /\ request'[r].now = me.now
    BY <1>3 DEF AcquiredOK
  <2>4. Inside(me.now, start, window)
    BY ServedInside
  <2>5. r \in Counted(me.of, start, window)'
    BY <2>3, <2>4 DEF Counted
  <2>6. C \subseteq Counted(me.of, start, window)'
    BY CountedStays DEF Acquired, AcquiredOK, LimitInv
  <2>7. Counted(me.of, start, window)' \subseteq Requests
    BY DEF Counted
  <2>8. Cardinality(C \cup {r}) <= Cardinality(Counted(me.of, start, window)')
    BY <1>1, <2>5, <2>6, <2>7, Growing
  <2>9. Cardinality(Counted(me.of, start, window)') \in Nat
    BY <2>7, Growing
  <2> HIDE DEF C
  <2> QED BY <1>1, <1>2, <2>2, <2>8, <2>9 DEF AcquiredOK
<1> QED BY <1>2, <1>3

(* Who finds the bucket full finds as many around as its limit.            *)
LEMMA FullAround ==
    ASSUME LimitsGiven, LimitInv, NEW r \in Requests, ~Limiter!Conflicts(r),
           NEW me, NEW p, NEW seen, NEW keep, NEW old,
           Acquired(r, me, p, seen, keep, old), old.count >= me.limit.max
    PROVE  LimitedOK(r)'
<1> AcquiredOK(r, me, p, seen, keep, old)
  BY AcquiredTypes
<1> PICK start, window : start = old.start /\ window = me.limit.window
  OBVIOUS
<1> DEFINE C == Counted(me.of, start, window)
<1>1. old.count <= Cardinality(C)
  BY BucketCounts
<1>2. request'[r].now = me.now /\ request'[r].of = me.of
        /\ request'[r].limit = me.limit
  BY DEF AcquiredOK
<1>3. Around(me)' \subseteq Requests /\ Cardinality(Around(me)') \in Nat
  BY Growing DEF Around
<1>4. Cardinality(Around(me)') >= me.limit.max
  <2>1. CASE me.of \in keep
    <3>1. C \subseteq Around(me)
      <4>1. ASSUME NEW o \in C
            PROVE  /\ request[o].now + window + MaxWait > me.now
                   /\ me.now + window + MaxWait > request[o].now
        <5>1. Inside(request[o].now, start, window) /\ request[o].now \in Nat
          BY DEF Counted, LimitInv, LimitTypes
        <5>2. /\ Inside(me.now, start, window) /\ window > 0
              /\ me.now \in Nat /\ start \in Nat /\ window \in Nat
          BY <2>1, ServedInside DEF AcquiredOK
        <5> QED BY <5>1, <5>2, InsideApart
      <4> QED BY <4>1 DEF Counted, Around
    <3>2. Around(me) \subseteq Around(me)'
      BY CountedStays DEF Acquired, AcquiredOK, LimitInv
    <3>3. C \subseteq Requests
      BY DEF Counted
    <3>4. Cardinality(C) \in Nat /\ Cardinality(C) <= Cardinality(Around(me)')
      BY <1>3, <3>1, <3>2, <3>3, Growing
    <3> HIDE DEF C
    <3> QED BY <1>1, <1>3, <3>4 DEF AcquiredOK
  <2>2. CASE me.of \notin keep
    <3>1. old = [start |-> me.now, count |-> 0]
      BY <2>2 DEF Acquired
    <3> QED BY <1>3, <3>1 DEF AcquiredOK
  <2> QED BY <2>1, <2>2
<1> QED BY <1>2, <1>4 DEF LimitedOK, Around

LEMMA ServingLimits ==
    ASSUME LimitsGiven, LimitInv, NEW r \in Requests, Limiter!Acquire(r), ~Limiter!Conflicts(r)
    PROVE  LimitInv'
<1> PICK me, p, seen, keep, old : Acquired(r, me, p, seen, keep, old)
  BY AcquireIs
<1> AcquiredOK(r, me, p, seen, keep, old)
  BY AcquiredTypes
<1>1. LimitTypes'
  <2>1. clock' \in Nat
    BY DEF Acquired, LimitInv, LimitTypes
  <2>2. request' \in [Requests ->
            [at : {"idle", "waiting", "allowed", "limited", "error"},
             now : Nat, of : Policies \X Subjects, limit : Limits]]
    <3>1. PICK at \in {"limited", "allowed"} :
                 request' = [request EXCEPT ![r].at = at]
      BY DEF Acquired
    <3> QED BY <3>1 DEF LimitInv, LimitTypes
  <2>3. policies' \in [DOMAIN policies' -> Limits]
    BY DEF Acquired, AcquiredOK, LimitInv, LimitTypes
  <2>4. buckets' \in [DOMAIN buckets' -> [start : Nat, count : Nat]]
    <3> DEFINE new == IF old.count >= me.limit.max THEN old
                      ELSE [old EXCEPT !.count = @ + 1]
    <3>1. new \in [start : Nat, count : Nat]
      BY DEF AcquiredOK
    <3>2. \A b \in keep : buckets[b] \in [start : Nat, count : Nat]
      BY DEF AcquiredOK, LimitInv, LimitTypes
    <3>3. buckets' = [b \in keep \cup {me.of} |-> IF b = me.of THEN new
                      ELSE buckets[b]]
      BY DEF Acquired
    <3> HIDE DEF new
    <3> QED BY <3>1, <3>2, <3>3
  <2>5. \A b \in DOMAIN buckets' : b \in Policies \X Subjects
          /\ b[1] \in DOMAIN policies'
    BY DEF Acquired, AcquiredOK, LimitInv, LimitTypes
  <2> QED BY <2>1, <2>2, <2>3, <2>4, <2>5 DEF LimitTypes
<1>2. InTime'
  <2>1. \A q \in Requests : request'[q].at = "waiting" => request'[q] = request[q]
    BY DEF AcquiredOK
  <2>2. \A b \in DOMAIN buckets' : buckets'[b].start <= clock
    <3> SUFFICES ASSUME NEW b \in DOMAIN buckets'
                 PROVE  buckets'[b].start <= clock
      OBVIOUS
    <3>1. CASE b = me.of
      <4>1. buckets'[b].start = old.start
        BY <3>1 DEF Acquired, AcquiredOK
      <4> QED BY <4>1, ServedInside
    <3>2. CASE b # me.of
      <4>1. buckets'[b] = buckets[b] /\ b \in DOMAIN buckets
        BY <3>2 DEF Acquired, AcquiredOK
      <4> QED BY <4>1 DEF LimitInv, InTime
    <3> QED BY <3>1, <3>2
  <2>3. clock' = clock
    BY DEF Acquired
  <2> QED BY <2>1, <2>2, <2>3 DEF InTime, LimitInv
<1>3. CountsAllowed'
  <2> SUFFICES ASSUME NEW b \in DOMAIN buckets'
               PROVE  (buckets[b].count <=
                   Cardinality(Counted(b, buckets[b].start,
                                       policies[b[1]].window)))'
    BY DEF CountsAllowed, Counted
  <2> PICK s, w : s = buckets'[b].start /\ w = policies'[b[1]].window
    OBVIOUS
  <2>1. /\ Counted(b, s, w) \subseteq Counted(b, s, w)'
        /\ Counted(b, s, w) \subseteq Requests
        /\ Counted(b, s, w)' \subseteq Requests
    <3>1. /\ request[r].at # "allowed"
          /\ \A o \in Requests \ {r} : request'[o] = request[o]
      BY DEF Acquired, AcquiredOK
    <3>2. Counted(b, s, w) \subseteq Counted(b, s, w)'
      BY <3>1, CountedStays DEF LimitInv
    <3> QED BY <3>2 DEF Counted
  <2>2. /\ Cardinality(Counted(b, s, w)) <= Cardinality(Counted(b, s, w)')
        /\ Cardinality(Counted(b, s, w)) \in Nat
        /\ Cardinality(Counted(b, s, w)') \in Nat
    BY <2>1, Growing
  <2>3. buckets'[b].count <= Cardinality(Counted(b, s, w)')
    <3>1. CASE b = me.of
      <4>1. s = old.start /\ w = me.limit.window
        BY <3>1 DEF Acquired, AcquiredOK
      <4>2. CASE old.count >= me.limit.max
        <5>1. buckets'[b].count = old.count
          BY <3>1, <4>2 DEF Acquired
        <5>2. old.count <= Cardinality(Counted(b, s, w))
          BY <3>1, <4>1, BucketCounts
        <5> QED BY <5>1, <5>2, <2>2 DEF AcquiredOK
      <4>3. CASE ~(old.count >= me.limit.max)
        <5>1. buckets'[b].count = old.count + 1
          BY <3>1, <4>3 DEF Acquired, AcquiredOK
        <5>2. old.count + 1 <= Cardinality(Counted(b, s, w)')
          BY <3>1, <4>1, <4>3, BucketCounts
        <5> QED BY <5>1, <5>2
      <4> QED BY <4>2, <4>3
    <3>2. CASE b # me.of
      <4>1. b \in DOMAIN buckets /\ buckets'[b] = buckets[b]
              /\ b[1] \in DOMAIN policies
        BY <3>2 DEF Acquired, AcquiredOK, LimitInv, LimitTypes
      <4>2. policies'[b[1]] = policies[b[1]]
        BY <4>1 DEF Acquired, AcquiredOK
      <4>3. buckets[b].count <= Cardinality(Counted(b, s, w))
              /\ buckets[b].count \in Nat
        BY <4>1, <4>2 DEF LimitInv, CountsAllowed, LimitTypes
      <4> QED BY <4>1, <4>3, <2>2
    <3> QED BY <3>1, <3>2
  <2> QED BY <2>3 DEF Counted
<1>4. Limiter!LimitedWhenFull'
  <2>1. \A q \in Requests \ {r} : LimitedOK(q)'
    BY LimitedStays DEF Acquired, AcquiredOK, LimitInv
  <2>2. LimitedOK(r)'
    <3>1. CASE old.count >= me.limit.max
      BY <3>1, FullAround
    <3>2. CASE ~(old.count >= me.limit.max)
      <4>1. request'[r].at # "limited"
        BY <3>2 DEF AcquiredOK
      <4> QED BY <4>1 DEF LimitedOK
    <3> QED BY <3>1, <3>2
  <2> QED BY <2>1, <2>2, LimiterCounts
             DEF Limiter!LimitedWhenFull, LimitedOK, Around
<1> QED BY <1>1, <1>2, <1>3, <1>4 DEF LimitInv

-----------------------------------------------------------------------------
(* RateLimitGuard and acquire (rate_limit.rs): a request is refused only   *)
(* if as many as its limit allows were let through for its subject within  *)
(* a window of it and a wait for the lock, for any requests and settings   *)
(* and any order in which they read the clock and took the lock.           *)
THEOREM Limiting == ASSUME LimitsGiven PROVE PartsSpec => []LimitedWhenFull
<1>1. Limiter!Init => LimitInv
  BY LimitBegins
<1>2. LimitInv /\ [Limiter!Next]_LimiterVars => LimitInv'
  <2> SUFFICES ASSUME LimitInv, [Limiter!Next]_LimiterVars PROVE LimitInv'
    OBVIOUS
  <2>1. CASE Limiter!Tick
    BY <2>1, LimitTicks
  <2>2. ASSUME NEW r \in Requests, Limiter!Arrives(r) PROVE LimitInv'
    BY <2>2, Arriving
  <2>3. ASSUME NEW r \in Requests, Limiter!Acquire(r) PROVE LimitInv'
    BY <2>3, RefusingLimits, ServingLimits
  <2>4. CASE UNCHANGED LimiterVars
    BY <2>4
       DEF LimiterVars, LimitInv, LimitTypes, InTime, CountsAllowed, Counted,
           Limiter!LimitedWhenFull
  <2> QED BY <2>1, <2>2, <2>3, <2>4 DEF Limiter!Next
<1>3. LimitInv => Limiter!LimitedWhenFull
  BY DEF LimitInv
<1>4. PartsInit => (part = "limits" => LimitInv)
  BY <1>1, PartsBegin
<1>5. (part = "limits" => LimitInv) /\ [PartsNext]_parts
        => (part = "limits" => LimitInv)'
  BY <1>2, PartsStep
<1>6. (part = "limits" => LimitInv) => LimitedWhenFull
  BY <1>3 DEF LimitedWhenFull
<1> QED BY <1>4, <1>5, <1>6, PTL DEF PartsSpec

-----------------------------------------------------------------------------
(* Definitions of handlers.                                                *)

(* No metadata is no value.                                                *)
BuildersGiven == NoValue \notin Metadata

Piece == [type : Types \cup {NoValue}, replaced : BOOLEAN]

Definition ==
    [metadata : [MetaKeys -> Metadata \cup {NoValue}], pipeline : Seq(Piece),
     validates : BOOLEAN, disabled : BOOLEAN, options : SUBSET Toggles]

Member == [name : Names, own : Definition, def : Definition]

HandlerTypes ==
    /\ container \in Definition /\ draft \in Definition /\ members \in Seq(Member)
    /\ global \in [validates : BOOLEAN, options : SUBSET Toggles]
    /\ given \in [MetaKeys -> Seq(Metadata)]
    /\ handler \in {"controller", "gateway", "pattern"}

(* Whoever refuses validation has given up the request for it.             *)
Refusing(d) == d.disabled => ~d.validates

(* The value that the container knows is one that it was given.            *)
LastGiven ==
    \A k \in MetaKeys :
        IF given[k] = <<>> THEN container.metadata[k] = NoValue
        ELSE container.metadata[k] \in Handlers!Range(given[k])

(* What is known of a key where own is declared and S was given above.     *)
Reached(known, own, S) ==
    IF own # NoValue THEN known = own ELSE IF S = <<>> THEN known = NoValue
        ELSE known \in Handlers!Range(S)

MembersKnow ==
    \A i \in DOMAIN members, k \in MetaKeys :
        Reached(members[i].def.metadata[k], members[i].own.metadata[k], given[k])

(* A definition merged with one scope above it.                            *)
Merged(def, own, scope) ==
    /\ Refusing(own) /\ (def.disabled <=> own.disabled)
    /\ IF own.disabled THEN ~def.validates
       ELSE /\ def.validates <=> own.validates \/ scope.validates
            /\ def.options = own.options \cup scope.options

MembersMerged ==
    \A i \in DOMAIN members : Merged(members[i].def, members[i].own, container)

MembersDiffer ==
    handler = "gateway" =>
             \A i, j \in DOMAIN members : members[i].name = members[j].name => i = j

HandlerInv ==
    /\ BuildersGiven /\ HandlerTypes /\ Refusing(draft)
    /\ LastGiven /\ MembersKnow /\ MembersMerged /\ MembersDiffer
    /\ Handlers!MetadataReaches /\ Handlers!ValidationMerges
    /\ Handlers!NamesAreUnique

-----------------------------------------------------------------------------
(* The fields of what the helpers of the builders return.                  *)
LEMMA MetadataSet ==
    ASSUME NEW d \in Definition, NEW k \in MetaKeys, NEW v \in Metadata
    PROVE  /\ Handlers!WithMetadata(d, k, v) \in Definition
           /\ Handlers!WithMetadata(d, k, v).metadata = [d.metadata EXCEPT ![k] = v]
           /\ Handlers!WithMetadata(d, k, v).validates = d.validates
           /\ Handlers!WithMetadata(d, k, v).disabled = d.disabled
           /\ Handlers!WithMetadata(d, k, v).options = d.options
<1>1. Handlers!WithMetadata(d, k,
                            v) = [d EXCEPT !.metadata
                                = [d.metadata EXCEPT ![k] = v]]
  BY DEF Handlers!WithMetadata, Definition
<1>2. [d.metadata EXCEPT ![k] = v] \in [MetaKeys -> Metadata \cup {NoValue}]
  BY DEF Definition
<1> QED BY <1>1, <1>2 DEF Definition

LEMMA DefaultSet ==
    ASSUME NEW d \in Definition, NEW k \in MetaKeys, NEW v \in Metadata
    PROVE  /\ Handlers!WithDefault(d, k, v) \in Definition
           /\ Handlers!WithDefault(d, k, v).metadata =
                 [d.metadata EXCEPT ![k] = IF d.metadata[k] = NoValue THEN v
                  ELSE d.metadata[k]]
<1> DEFINE f ==
    [d.metadata EXCEPT ![k] = IF d.metadata[k] = NoValue THEN v
     ELSE d.metadata[k]]
<1>1. Handlers!WithDefault(d, k, v) = [d EXCEPT !.metadata = f]
  BY DEF Handlers!WithDefault, Definition
<1>2. f \in [MetaKeys -> Metadata \cup {NoValue}]
  BY DEF Definition
<1> HIDE DEF f
<1> QED BY <1>1, <1>2 DEF Definition, f

LEMMA DefaultKeeps ==
    ASSUME NEW d \in Definition, NEW k \in MetaKeys, NEW v \in Metadata
    PROVE  /\ Handlers!WithDefault(d, k, v).validates = d.validates
           /\ Handlers!WithDefault(d, k, v).disabled = d.disabled
           /\ Handlers!WithDefault(d, k, v).options = d.options
<1> DEFINE f ==
    [d.metadata EXCEPT ![k] = IF d.metadata[k] = NoValue THEN v
     ELSE d.metadata[k]]
<1>1. Handlers!WithDefault(d, k, v) = [d EXCEPT !.metadata = f]
  BY DEF Handlers!WithDefault, Definition
<1> HIDE DEF f
<1> QED BY <1>1 DEF Definition

LEMMA DefaultsSet ==
    ASSUME NEW d \in Definition,
           NEW metadata \in [MetaKeys -> Metadata \cup {NoValue}]
    PROVE  /\ Handlers!WithDefaults(d, metadata) \in Definition
           /\ \A k \in MetaKeys : Handlers!WithDefaults(d, metadata).metadata[k] =
                 IF d.metadata[k] = NoValue THEN metadata[k] ELSE d.metadata[k]
           /\ Handlers!WithDefaults(d, metadata).validates = d.validates
           /\ Handlers!WithDefaults(d, metadata).disabled = d.disabled
           /\ Handlers!WithDefaults(d, metadata).options = d.options
<1> DEFINE f ==
    [k \in MetaKeys |-> IF d.metadata[k] = NoValue THEN metadata[k]
     ELSE d.metadata[k]]
<1>1. Handlers!WithDefaults(d, metadata) = [d EXCEPT !.metadata = f]
  BY DEF Handlers!WithDefaults, Definition
<1>2. f \in [MetaKeys -> Metadata \cup {NoValue}]
  BY DEF Definition
<1>3. \A k \in MetaKeys : f[k] = IF d.metadata[k] = NoValue THEN metadata[k]
        ELSE d.metadata[k]
  OBVIOUS
<1> HIDE DEF f
<1> QED BY <1>1, <1>2, <1>3 DEF Definition

LEMMA PieceAdded ==
    ASSUME NEW d \in Definition, NEW type \in Types, NEW wrapped \in BOOLEAN
    PROVE  /\ Handlers!With(d, type, wrapped) \in Definition
           /\ Handlers!With(d, type, wrapped).metadata = d.metadata
           /\ Handlers!With(d, type, wrapped).validates = d.validates
           /\ Handlers!With(d, type, wrapped).disabled = d.disabled
           /\ Handlers!With(d, type, wrapped).options = d.options
<1> DEFINE p == Append(d.pipeline, Handlers!Component(type, wrapped))
<1>1. Handlers!With(d, type, wrapped) = [d EXCEPT !.pipeline = p]
  BY DEF Handlers!With, Definition
<1>2. d.pipeline \in Seq(Piece) /\ Handlers!Component(type, wrapped) \in Piece
  BY DEF Definition, Handlers!Component, Piece
<1>3. p \in Seq(Piece)
  BY <1>2
<1> HIDE DEF p
<1> QED BY <1>1, <1>3 DEF Definition

LEMMA ValidatingSet ==
    ASSUME NEW d \in Definition, NEW options \in SUBSET Toggles
    PROVE  Handlers!Validating(d, options) \in Definition
             /\ Refusing(Handlers!Validating(d, options))
<1>1. d.options \cup options \in SUBSET Toggles
  BY DEF Definition
<1> QED BY <1>1 DEF Handlers!Validating, Definition, Refusing

LEMMA WithoutSet ==
    ASSUME NEW d \in Definition
    PROVE  Handlers!WithoutValidation(d) \in Definition
             /\ Refusing(Handlers!WithoutValidation(d))
BY DEF Handlers!WithoutValidation, Definition, Refusing

LEMMA PrefixSet ==
    ASSUME NEW d \in Definition, NEW scope, scope.validates \in BOOLEAN,
           scope.options \in SUBSET Toggles
    PROVE  /\ Handlers!Prefixed(d, scope) \in Definition
           /\ Handlers!Prefixed(d, scope).metadata = d.metadata
           /\ Handlers!Prefixed(d, scope).pipeline = d.pipeline
           /\ Handlers!Prefixed(d, scope).disabled = d.disabled
           /\ d.disabled => Handlers!Prefixed(d, scope) = d
           /\ ~d.disabled => /\ Handlers!Prefixed(d, scope).validates = (scope.validates \/ d.validates)
                             /\ Handlers!Prefixed(d,
                                                  scope).options = scope.options
                                                      \cup d.options
<1> DEFINE v == scope.validates \/ d.validates  o == scope.options \cup d.options
<1>1. CASE d.disabled
  BY <1>1 DEF Handlers!Prefixed
<1>2. CASE ~d.disabled
  <2>1. Handlers!Prefixed(d, scope) = [d EXCEPT !.validates = v, !.options = o]
    BY <1>2 DEF Handlers!Prefixed, Definition
  <2>2. v \in BOOLEAN /\ o \in SUBSET Toggles
    BY DEF Definition
  <2> HIDE DEF v, o
  <2>3. /\ Handlers!Prefixed(d, scope) \in Definition
        /\ Handlers!Prefixed(d, scope).metadata = d.metadata
        /\ Handlers!Prefixed(d, scope).pipeline = d.pipeline
        /\ Handlers!Prefixed(d, scope).disabled = d.disabled
        /\ Handlers!Prefixed(d, scope).validates = v
        /\ Handlers!Prefixed(d, scope).options = o
    BY <2>1, <2>2 DEF Definition
  <2> QED BY <1>2, <2>3 DEF v, o
<1> QED BY <1>1, <1>2

(* A member keeps what it knows when the container is given no more.       *)
LEMMA Unbuilt == ASSUME HandlerInv, built = NoValue, built' = NoValue
                 PROVE  (Handlers!MetadataReaches /\ Handlers!ValidationMerges
                         /\ Handlers!NamesAreUnique)'
BY DEF Handlers!Compiled, Handlers!MetadataReaches, Handlers!ValidationMerges,
       Handlers!NamesAreUnique

LEMMA RefusingStays ==
    ASSUME NEW d, NEW e, Refusing(d), e.disabled = d.disabled,
           e.validates = d.validates
    PROVE  Refusing(e)
BY DEF Refusing

LEMMA MergedStays ==
    ASSUME NEW def, NEW own, NEW scope, Merged(def, own, scope), NEW def2,
           NEW scope2,
           def2.validates = def.validates, def2.disabled = def.disabled,
           def2.options = def.options, scope2.validates = scope.validates,
           scope2.options = scope.options
    PROVE  Merged(def2, own, scope2)
BY DEF Merged

LEMMA NamesStay ==
    ASSUME HandlerInv, UNCHANGED handler, DOMAIN members' = DOMAIN members,
           \A i \in DOMAIN members : members'[i].name = members[i].name
    PROVE  MembersDiffer'
<1> SUFFICES ASSUME handler = "gateway", NEW i \in DOMAIN members,
                    NEW j \in DOMAIN members,
                    members'[i].name = members'[j].name
             PROVE  i = j
  BY DEF MembersDiffer
<1> QED BY DEF HandlerInv, MembersDiffer

LEMMA DraftsPreserve ==
    ASSUME HandlerInv, NEW d \in Definition, Refusing(d), Handlers!Drafts(d)
    PROVE  HandlerInv'
<1>1. /\ built = NoValue /\ built' = NoValue /\ draft' = d
      /\ UNCHANGED <<handler, container, members, global, given>>
  BY DEF Handlers!Drafts, Handlers!Calls
<1>2. (Handlers!MetadataReaches /\ Handlers!ValidationMerges
       /\ Handlers!NamesAreUnique)'
  BY <1>1, Unbuilt
<1>3. HandlerTypes' /\ Refusing(draft')
  BY <1>1 DEF HandlerInv, HandlerTypes
<1>4. LastGiven' /\ MembersKnow' /\ MembersMerged' /\ MembersDiffer'
  BY <1>1 DEF HandlerInv, LastGiven, MembersKnow, MembersMerged, MembersDiffer
<1> QED BY <1>2, <1>3, <1>4 DEF HandlerInv

LEMMA DraftStepsPreserve ==
    ASSUME HandlerInv,
           \/ \E k \in MetaKeys, v \in Metadata : Handlers!DraftMetadata(k, v)
           \/ \E type \in Types, wrapped \in BOOLEAN :
                Handlers!DraftUses(type, wrapped)
           \/ \E options \in SUBSET Toggles : Handlers!DraftValidates(options)
           \/ Handlers!DraftWithoutValidation
    PROVE  HandlerInv'
<1>1. draft \in Definition /\ Refusing(draft)
  BY DEF HandlerInv, HandlerTypes
<1>2. ASSUME NEW k \in MetaKeys, NEW v \in Metadata, Handlers!DraftMetadata(k, v)
      PROVE  HandlerInv'
  <2>1. Handlers!WithMetadata(draft, k, v) \in Definition
          /\ Refusing(Handlers!WithMetadata(draft, k, v))
    <3>1. /\ Handlers!WithMetadata(draft, k, v) \in Definition
          /\ Handlers!WithMetadata(draft, k, v).disabled = draft.disabled
          /\ Handlers!WithMetadata(draft, k, v).validates = draft.validates
      BY <1>1, MetadataSet
    <3> QED BY <1>1, <3>1, RefusingStays
  <2> QED BY <1>2, <2>1, DraftsPreserve DEF Handlers!DraftMetadata
<1>3. ASSUME NEW type \in Types, NEW wrapped \in BOOLEAN,
             Handlers!DraftUses(type, wrapped)
      PROVE  HandlerInv'
  <2>1. Handlers!With(draft, type, wrapped) \in Definition
          /\ Refusing(Handlers!With(draft, type, wrapped))
    <3>1. /\ Handlers!With(draft, type, wrapped) \in Definition
          /\ Handlers!With(draft, type, wrapped).disabled = draft.disabled
          /\ Handlers!With(draft, type, wrapped).validates = draft.validates
      BY <1>1, PieceAdded
    <3> QED BY <1>1, <3>1, RefusingStays
  <2> QED BY <1>3, <2>1, DraftsPreserve DEF Handlers!DraftUses
<1>4. ASSUME NEW options \in SUBSET Toggles, Handlers!DraftValidates(options)
      PROVE  HandlerInv'
  BY <1>1, <1>4, ValidatingSet, DraftsPreserve DEF Handlers!DraftValidates
<1>5. CASE Handlers!DraftWithoutValidation
  BY <1>1, <1>5, WithoutSet, DraftsPreserve DEF Handlers!DraftWithoutValidation
<1> QED BY <1>2, <1>3, <1>4, <1>5

LEMMA AddPreserves ==
    ASSUME HandlerInv, NEW name \in Names, Handlers!Add(name) PROVE HandlerInv'
<1> DEFINE first == Handlers!WithDefaults(draft, container.metadata)
           added == Handlers!Prefixed(first, container)
           m == [name |-> name, own |-> draft, def |-> added]
           known == \E i \in DOMAIN members : members[i].name = name
<1>1. /\ HandlerTypes /\ Refusing(draft) /\ LastGiven /\ BuildersGiven
      /\ built = NoValue /\ draft' = Handlers!Undefined
      /\ UNCHANGED <<handler, container, global, given>>
      /\ IF handler = "gateway" /\ known THEN built' = <<>> /\ UNCHANGED members
         ELSE members' = Append(members, m) /\ UNCHANGED built
  BY DEF HandlerInv, Handlers!Add, Handlers!Calls
<1>2. container \in Definition /\ draft \in Definition /\ members \in Seq(Member)
  BY <1>1 DEF HandlerTypes
<1>3. Handlers!Undefined \in Definition /\ Refusing(Handlers!Undefined)
  <2>1. [k \in MetaKeys |-> NoValue] \in [MetaKeys -> Metadata \cup {NoValue}]
          /\ <<>> \in Seq(Piece)
    OBVIOUS
  <2> QED BY <2>1 DEF Handlers!Undefined, Definition, Refusing
<1>4. LastGiven'
  BY <1>1 DEF LastGiven
<1>5. CASE handler = "gateway" /\ known
  <2>1. built' = <<>> /\ UNCHANGED members
    BY <1>1, <1>5
  <2>2. DOMAIN built' = {}
    BY <2>1
  <2>3. (Handlers!MetadataReaches /\ Handlers!ValidationMerges
         /\ Handlers!NamesAreUnique)'
    BY <2>2
       DEF Handlers!MetadataReaches, Handlers!ValidationMerges,
           Handlers!NamesAreUnique
  <2>4. HandlerTypes'
    BY <1>1, <1>3, <2>1 DEF HandlerTypes
  <2>5. MembersKnow' /\ MembersMerged' /\ MembersDiffer'
    BY <1>1, <2>1 DEF HandlerInv, MembersKnow, MembersMerged, MembersDiffer
  <2> QED BY <1>1, <1>3, <1>4, <2>3, <2>4, <2>5 DEF HandlerInv
<1>6. CASE ~(handler = "gateway" /\ known)
  <2>1. members' = Append(members, m) /\ built' = NoValue
    BY <1>1, <1>6
  <2>2. container.metadata \in [MetaKeys -> Metadata \cup {NoValue}]
        /\ container.validates \in BOOLEAN /\ container.options \in SUBSET Toggles
    BY <1>2 DEF Definition
  <2>3. /\ first \in Definition
        /\ \A k \in MetaKeys : first.metadata[k] =
              IF draft.metadata[k] = NoValue THEN container.metadata[k]
                  ELSE draft.metadata[k]
        /\ first.validates = draft.validates /\ first.disabled = draft.disabled
        /\ first.options = draft.options
    BY <1>2, <2>2, DefaultsSet
  <2> HIDE DEF first
  <2>4. /\ added \in Definition /\ added.metadata = first.metadata
        /\ added.disabled = first.disabled
        /\ first.disabled => added = first
        /\ ~first.disabled => /\ added.validates = (container.validates \/ first.validates)
                              /\ added.options = container.options
                                   \cup first.options
    BY <2>2, <2>3, PrefixSet
  <2> HIDE DEF added
  <2>5. m \in Member /\ m.name = name /\ m.own = draft /\ m.def = added
    BY <1>2, <2>4 DEF Member
  <2>6. /\ members' \in Seq(Member) /\ Len(members') = Len(members) + 1
        /\ Len(members) \in Nat /\ DOMAIN members = 1..Len(members)
        /\ DOMAIN members' = 1..(Len(members) + 1)
        /\ members'[Len(members) + 1] = m
        /\ \A i \in DOMAIN members : members'[i] = members[i]
    BY <1>2, <2>1, <2>5
  <2> HIDE DEF m, known
  <2>7. \A i \in DOMAIN members' : i \in DOMAIN members \/ i = Len(members) + 1
    BY <2>6
  <2>8. (Handlers!MetadataReaches /\ Handlers!ValidationMerges
         /\ Handlers!NamesAreUnique)'
    BY <1>1, <2>1, Unbuilt
  <2>9. HandlerTypes' /\ Refusing(draft')
    BY <1>1, <1>3, <2>6 DEF HandlerTypes
  <2>10. MembersKnow'
    <3>1. ASSUME NEW k \in MetaKeys
          PROVE  Reached(added.metadata[k], draft.metadata[k], given[k])
      BY <1>1, <2>3, <2>4 DEF LastGiven, Reached
    <3>2. ASSUME NEW i \in DOMAIN members', NEW k \in MetaKeys
          PROVE  Reached(members'[i].def.metadata[k],
                         members'[i].own.metadata[k], given[k])
      <4>1. CASE i \in DOMAIN members
        BY <2>6, <4>1 DEF HandlerInv, MembersKnow
      <4>2. CASE i = Len(members) + 1
        BY <2>5, <2>6, <3>1, <4>2
      <4> QED BY <2>7, <4>1, <4>2
    <3> QED BY <1>1, <3>2 DEF MembersKnow
  <2>11. MembersMerged'
    <3>1. Merged(added, draft, container)
      <4>1. CASE draft.disabled
        BY <1>1, <2>3, <2>4, <4>1 DEF Merged, Refusing
      <4>2. CASE ~draft.disabled
        <5>1. /\ added.validates = (container.validates \/ draft.validates)
              /\ added.options = draft.options \cup container.options
              /\ added.disabled = draft.disabled
          BY <2>3, <2>4, <4>2
        <5>2. added.validates <=> draft.validates \/ container.validates
          BY <5>1
        <5> QED BY <1>1, <4>2, <5>1, <5>2 DEF Merged
      <4> QED BY <4>1, <4>2
    <3>2. ASSUME NEW i \in DOMAIN members'
          PROVE  Merged(members'[i].def, members'[i].own, container)
      <4>1. CASE i \in DOMAIN members
        BY <2>6, <4>1 DEF HandlerInv, MembersMerged
      <4>2. CASE i = Len(members) + 1
        BY <2>5, <2>6, <3>1, <4>2
      <4> QED BY <2>7, <4>1, <4>2
    <3> QED BY <1>1, <3>2 DEF MembersMerged
  <2>12. MembersDiffer'
    <3> SUFFICES ASSUME handler = "gateway", NEW i \in DOMAIN members',
                        NEW j \in DOMAIN members',
                        members'[i].name = members'[j].name
                 PROVE  i = j
      BY <1>1 DEF MembersDiffer
    <3>1. \A l \in DOMAIN members : members[l].name # name
      BY <1>6 DEF known
    <3>2. CASE i \in DOMAIN members /\ j \in DOMAIN members
      BY <2>6, <3>2 DEF HandlerInv, MembersDiffer
    <3>3. CASE ~(i \in DOMAIN members /\ j \in DOMAIN members)
      BY <2>5, <2>6, <2>7, <3>1, <3>3
    <3> QED BY <3>2, <3>3
  <2> QED BY <1>1, <1>4, <2>8, <2>9, <2>10, <2>11, <2>12 DEF HandlerInv
<1> QED BY <1>5, <1>6

(* A value given to a container reaches the members without one.           *)
LEMMA ContainerMetadataPreserves ==
    ASSUME HandlerInv, NEW k \in MetaKeys, NEW v \in Metadata,
           Handlers!ContainerMetadata(k, v)
    PROVE  HandlerInv'
<1>1. /\ HandlerTypes /\ Refusing(draft) /\ LastGiven /\ BuildersGiven
      /\ built = NoValue /\ built' = NoValue
      /\ container' = Handlers!WithMetadata(container, k, v)
      /\ members' = [i \in DOMAIN members |->
                       [members[i] EXCEPT !.def
                        = Handlers!WithDefault(members[i].def, k, v)]]
      /\ given' = [given EXCEPT ![k] = Append(given[k], v)]
      /\ UNCHANGED <<handler, draft, global>>
  BY DEF HandlerInv, Handlers!ContainerMetadata, Handlers!Calls
<1>2. container \in Definition /\ members \in Seq(Member)
        /\ given \in [MetaKeys -> Seq(Metadata)]
  BY <1>1 DEF HandlerTypes
<1>3. /\ container' \in Definition
      /\ container'.metadata = [container.metadata EXCEPT ![k] = v]
      /\ container'.validates = container.validates
      /\ container'.options = container.options
  BY <1>1, <1>2, MetadataSet
<1>4. \A i \in DOMAIN members :
         /\ members'[i] \in Member /\ members'[i].name = members[i].name
         /\ members'[i].own = members[i].own
         /\ members'[i].def = Handlers!WithDefault(members[i].def, k, v)
         /\ members[i].def \in Definition
  <2> TAKE i \in DOMAIN members
  <2>1. members[i] \in Member
    BY <1>2
  <2>2. members[i].def \in Definition
    BY <2>1 DEF Member
  <2>3. Handlers!WithDefault(members[i].def, k, v) \in Definition
    BY <2>2, DefaultSet
  <2>4. members'[i]
          = [members[i] EXCEPT !.def = Handlers!WithDefault(members[i].def, k,
                                                            v)]
    BY <1>1
  <2> QED BY <2>1, <2>2, <2>3, <2>4 DEF Member
<1>5. members' \in Seq(Member) /\ DOMAIN members' = DOMAIN members
  <2>1. Len(members) \in Nat /\ DOMAIN members = 1..Len(members)
    BY <1>2
  <2>2. members' \in [1..Len(members) -> Member]
    BY <1>1, <1>4, <2>1
  <2> QED BY <2>1, <2>2
<1>6. /\ given' \in [MetaKeys -> Seq(Metadata)] /\ given'[k] = Append(given[k], v)
      /\ \A l \in MetaKeys : l # k => given'[l] = given[l]
  <2>1. Append(given[k], v) \in Seq(Metadata)
    BY <1>2
  <2> QED BY <1>1, <1>2, <2>1
<1>7. /\ given'[k] # <<>> /\ v \in Handlers!Range(given'[k])
      /\ given[k] # <<>>
           => Handlers!Range(given[k]) \subseteq Handlers!Range(given'[k])
  <2> DEFINE s == given[k]
  <2>1. s \in Seq(Metadata)
    BY <1>2
  <2> HIDE DEF s
  <2>2. /\ Append(s, v) # <<>> /\ Append(s, v)[Len(s) + 1] = v
        /\ Len(s) + 1 \in DOMAIN Append(s, v)
        /\ \A i \in DOMAIN s : i \in DOMAIN Append(s, v) /\ Append(s, v)[i] = s[i]
    BY <2>1
  <2>3. v \in Handlers!Range(Append(s, v))
          /\ Handlers!Range(s) \subseteq Handlers!Range(Append(s, v))
    BY <2>2 DEF Handlers!Range
  <2> QED BY <1>6, <2>2, <2>3 DEF s
<1> DEFINE S == given[k]  T == given'[k]
<1>8. v # NoValue
  BY <1>1 DEF BuildersGiven
<1>9. HandlerTypes' /\ Refusing(draft')
  BY <1>1, <1>3, <1>5, <1>6 DEF HandlerTypes
<1>10. LastGiven'
  <2>1. container.metadata \in [MetaKeys -> Metadata \cup {NoValue}]
    BY <1>2 DEF Definition
  <2>2. ASSUME NEW l \in MetaKeys
        PROVE  IF given'[l] = <<>> THEN container'.metadata[l] = NoValue
               ELSE container'.metadata[l] \in Handlers!Range(given'[l])
    <3>1. CASE l = k
      BY <1>3, <1>7, <2>1, <3>1
    <3>2. CASE l # k
      BY <1>1, <1>3, <1>6, <2>1, <3>2 DEF LastGiven
    <3> QED BY <3>1, <3>2
  <2> QED BY <2>2 DEF LastGiven
<1>11. MembersKnow'
  <2> SUFFICES ASSUME NEW i \in DOMAIN members, NEW l \in MetaKeys
               PROVE  Reached(members'[i].def.metadata[l],
                              members'[i].own.metadata[l], given'[l])
    BY <1>5 DEF MembersKnow
  <2>1. Reached(members[i].def.metadata[l], members[i].own.metadata[l], given[l])
    BY DEF HandlerInv, MembersKnow
  <2>2. members[i].def \in Definition
          /\ members[i].def.metadata \in [MetaKeys -> Metadata \cup {NoValue}]
    BY <1>4 DEF Definition
  <2>3. members'[i].def.metadata =
          [members[i].def.metadata EXCEPT
              ![k] = IF members[i].def.metadata[k] = NoValue THEN v
                  ELSE members[i].def.metadata[k]]
    BY <1>4, <2>2, DefaultSet
  <2>4. CASE l # k
    BY <1>4, <1>6, <2>1, <2>2, <2>3, <2>4
  <2>5. CASE l = k
    <3>1. members'[i].def.metadata[k] =
             IF members[i].def.metadata[k] = NoValue THEN v
                 ELSE members[i].def.metadata[k]
      BY <2>2, <2>3
    <3> QED BY <1>4, <1>7, <1>8, <2>1, <2>5, <3>1 DEF Reached
  <2> QED BY <2>4, <2>5
<1>12. MembersMerged'
  <2> SUFFICES ASSUME NEW i \in DOMAIN members
               PROVE  Merged(members'[i].def, members'[i].own, container')
    BY <1>5 DEF MembersMerged
  <2>1. Merged(members[i].def, members[i].own, container)
    BY DEF HandlerInv, MembersMerged
  <2>2. /\ members'[i].def.validates = members[i].def.validates
        /\ members'[i].def.disabled = members[i].def.disabled
        /\ members'[i].def.options = members[i].def.options
    <3>1. members[i].def \in Definition
            /\ members'[i].def = Handlers!WithDefault(members[i].def, k, v)
      BY <1>4
    <3> QED BY <3>1, DefaultKeeps
  <2>3. members'[i].own = members[i].own
    BY <1>4
  <2> QED BY <1>3, <2>1, <2>2, <2>3, MergedStays
<1>13. MembersDiffer'
  <2>1. UNCHANGED handler /\ \A i \in DOMAIN members :
          members'[i].name = members[i].name
    BY <1>1, <1>4
  <2> QED BY <1>5, <2>1, NamesStay
<1>14. (Handlers!MetadataReaches /\ Handlers!ValidationMerges
        /\ Handlers!NamesAreUnique)'
  BY <1>1, Unbuilt
<1> QED BY <1>1, <1>9, <1>10, <1>11, <1>12, <1>13, <1>14 DEF HandlerInv

LEMMA ControllerValidatesPreserves ==
    ASSUME HandlerInv, NEW options \in SUBSET Toggles,
           Handlers!ControllerValidates(options)
    PROVE  HandlerInv'
<1> DEFINE scope == [validates |-> TRUE, options |-> options]
<1>1. /\ HandlerTypes /\ Refusing(draft) /\ LastGiven /\ BuildersGiven
      /\ built = NoValue /\ built' = NoValue
      /\ container' = [container EXCEPT !.validates = TRUE,
                                        !.options = container.options \cup options]
      /\ members' = [i \in DOMAIN members |->
                       [members[i] EXCEPT !.def
                        = Handlers!Prefixed(members[i].def, scope)]]
      /\ UNCHANGED <<handler, draft, global, given>>
  BY DEF HandlerInv, Handlers!ControllerValidates, Handlers!Calls
<1>2. container \in Definition /\ members \in Seq(Member)
  BY <1>1 DEF HandlerTypes
<1>3. /\ container' \in Definition /\ container'.metadata = container.metadata
      /\ container'.validates = TRUE
      /\ container'.options = container.options \cup options
  <2> DEFINE o == container.options \cup options
  <2>1. o \in SUBSET Toggles
    BY <1>2 DEF Definition
  <2> HIDE DEF o
  <2>2. /\ container' \in Definition /\ container'.metadata = container.metadata
        /\ container'.validates = TRUE /\ container'.options = o
    BY <1>1, <1>2, <2>1 DEF Definition, o
  <2> QED BY <2>2 DEF o
<1>4. /\ scope.validates = TRUE /\ scope.options = options
      /\ scope.validates \in BOOLEAN /\ scope.options \in SUBSET Toggles
  OBVIOUS
<1> HIDE DEF scope
<1>5. \A i \in DOMAIN members :
         /\ members'[i] \in Member /\ members'[i].name = members[i].name
         /\ members'[i].own = members[i].own
         /\ members'[i].def = Handlers!Prefixed(members[i].def, scope)
         /\ members[i].def \in Definition
  <2> TAKE i \in DOMAIN members
  <2>1. members[i] \in Member
    BY <1>2
  <2>2. members[i].def \in Definition
    BY <2>1 DEF Member
  <2>3. Handlers!Prefixed(members[i].def, scope) \in Definition
    BY <1>4, <2>2, PrefixSet
  <2>4. members'[i]
          = [members[i] EXCEPT !.def = Handlers!Prefixed(members[i].def, scope)]
    BY <1>1
  <2> QED BY <2>1, <2>2, <2>3, <2>4 DEF Member
<1>6. members' \in Seq(Member) /\ DOMAIN members' = DOMAIN members
  <2>1. Len(members) \in Nat /\ DOMAIN members = 1..Len(members)
    BY <1>2
  <2>2. members' \in [1..Len(members) -> Member]
    BY <1>1, <1>5, <2>1
  <2> QED BY <2>1, <2>2
<1>7. HandlerTypes' /\ Refusing(draft')
  BY <1>1, <1>3, <1>6 DEF HandlerTypes
<1>8. LastGiven'
  BY <1>1, <1>3 DEF LastGiven
<1>9. MembersKnow'
  <2> SUFFICES ASSUME NEW i \in DOMAIN members, NEW l \in MetaKeys
               PROVE  Reached(members'[i].def.metadata[l],
                              members'[i].own.metadata[l], given[l])
    BY <1>1, <1>6 DEF MembersKnow
  <2>1. members'[i].def.metadata = members[i].def.metadata
    <3>1. members[i].def \in Definition
            /\ members'[i].def = Handlers!Prefixed(members[i].def, scope)
      BY <1>5
    <3> QED BY <1>4, <3>1, PrefixSet
  <2> QED BY <1>5, <2>1 DEF HandlerInv, MembersKnow
<1>10. MembersMerged'
  <2> SUFFICES ASSUME NEW i \in DOMAIN members
               PROVE  Merged(members'[i].def, members'[i].own, container')
    BY <1>6 DEF MembersMerged
  <2>1. Merged(members[i].def, members[i].own, container)
    BY DEF HandlerInv, MembersMerged
  <2>2. /\ members'[i].def.disabled = members[i].def.disabled
        /\ members[i].def.disabled => members'[i].def = members[i].def
        /\ ~members[i].def.disabled =>
              /\ members'[i].def.validates = (TRUE \/ members[i].def.validates)
              /\ members'[i].def.options = options \cup members[i].def.options
    <3>1. members[i].def \in Definition
            /\ members'[i].def = Handlers!Prefixed(members[i].def, scope)
      BY <1>5
    <3> QED BY <1>4, <3>1, PrefixSet
  <2>3. CASE members[i].own.disabled
    BY <1>5, <2>1, <2>2, <2>3 DEF Merged
  <2>4. CASE ~members[i].own.disabled
    <3>1. ~members[i].def.disabled
            /\ members[i].def.options = members[i].own.options
                 \cup container.options
      BY <2>1, <2>4 DEF Merged
    <3>2. members'[i].def.validates = TRUE
      BY <2>2, <3>1
    <3>3. members'[i].def.options = members[i].own.options \cup container'.options
      BY <1>3, <2>2, <3>1
    <3> QED BY <1>3, <1>5, <2>1, <2>2, <2>4, <3>2, <3>3 DEF Merged
  <2> QED BY <2>3, <2>4
<1>11. MembersDiffer'
  <2>1. UNCHANGED handler /\ \A i \in DOMAIN members :
          members'[i].name = members[i].name
    BY <1>1, <1>5
  <2> QED BY <1>6, <2>1, NamesStay
<1>12. (Handlers!MetadataReaches /\ Handlers!ValidationMerges
        /\ Handlers!NamesAreUnique)'
  BY <1>1, Unbuilt
<1> QED BY <1>1, <1>7, <1>8, <1>9, <1>10, <1>11, <1>12 DEF HandlerInv

(* Nothing that members inherit changes.                                   *)
LEMMA ScopesPreserve ==
    ASSUME HandlerInv, built = NoValue, built' = NoValue,
           UNCHANGED <<handler, draft, members, given>>,
           container' \in Definition, container'.metadata = container.metadata,
           container'.validates = container.validates,
           container'.options = container.options,
           global' \in [validates : BOOLEAN, options : SUBSET Toggles]
    PROVE  HandlerInv'
<1>1. HandlerTypes' /\ LastGiven' /\ MembersKnow' /\ MembersDiffer'
        /\ Refusing(draft')
  BY DEF HandlerInv, HandlerTypes, LastGiven, MembersKnow, MembersDiffer
<1>2. MembersMerged'
  <2> SUFFICES ASSUME NEW i \in DOMAIN members
               PROVE  Merged(members[i].def, members[i].own, container')
    BY DEF MembersMerged
  <2>1. Merged(members[i].def, members[i].own, container)
    BY DEF HandlerInv, MembersMerged
  <2> QED BY <2>1, MergedStays
<1>3. (Handlers!MetadataReaches /\ Handlers!ValidationMerges
       /\ Handlers!NamesAreUnique)'
  BY Unbuilt
<1> QED BY <1>1, <1>2, <1>3 DEF HandlerInv

LEMMA GatewayUsesPreserves ==
    ASSUME HandlerInv, NEW type \in Types, NEW wrapped \in BOOLEAN,
           Handlers!GatewayUses(type, wrapped)
    PROVE  HandlerInv'
<1>1. /\ container \in Definition
      /\ global \in [validates : BOOLEAN, options : SUBSET Toggles]
      /\ container' = Handlers!With(container, type, wrapped) /\ built = NoValue
      /\ built' = NoValue
      /\ UNCHANGED <<handler, draft, members, global, given>>
  BY DEF HandlerInv, HandlerTypes, Handlers!GatewayUses, Handlers!Calls
<1> QED BY <1>1, PieceAdded, ScopesPreserve

LEMMA GlobalValidatesPreserves ==
    ASSUME HandlerInv, NEW options \in SUBSET Toggles,
           Handlers!GlobalValidates(options)
    PROVE  HandlerInv'
<1>1. /\ container \in Definition
      /\ global \in [validates : BOOLEAN, options : SUBSET Toggles]
      /\ global' = [validates |-> TRUE, options |-> global.options \cup options]
      /\ built = NoValue /\ built' = NoValue
      /\ UNCHANGED <<handler, container, draft, members, given>>
  BY DEF HandlerInv, HandlerTypes, Handlers!GlobalValidates, Handlers!Calls
<1>2. global' \in [validates : BOOLEAN, options : SUBSET Toggles]
  BY <1>1
<1> QED BY <1>1, <1>2, ScopesPreserve

LEMMA BuildPreserves ==
    ASSUME HandlerInv, NEW types \in SUBSET Types, Handlers!Build(types)
    PROVE  HandlerInv'
<1>1. /\ HandlerTypes
      /\ UNCHANGED <<handler, container, draft, members, global, given>>
      /\ members \in Seq(Member)
      /\ global.validates \in BOOLEAN /\ global.options \in SUBSET Toggles
  BY DEF HandlerInv, HandlerTypes, Handlers!Build
<1>2. /\ HandlerTypes' /\ Refusing(draft') /\ LastGiven' /\ MembersKnow'
      /\ MembersMerged'
      /\ MembersDiffer'
  BY <1>1
     DEF HandlerInv, HandlerTypes, LastGiven, MembersKnow, MembersMerged,
         MembersDiffer
<1>3. CASE built' = <<>>
  <2>1. DOMAIN built' = {}
    BY <1>3
  <2>2. (Handlers!MetadataReaches /\ Handlers!ValidationMerges
         /\ Handlers!NamesAreUnique)'
    BY <2>1
       DEF Handlers!MetadataReaches, Handlers!ValidationMerges,
           Handlers!NamesAreUnique
  <2> QED BY <1>2, <2>2 DEF HandlerInv
<1>4. CASE built' # <<>>
  <2> DEFINE Pieces(d) ==
      Handlers!Overridden(container.pipeline,
                          types) \o Handlers!Overridden(d.pipeline, types)
             Built(m) == [name |-> m.name,
                          def |-> [Handlers!Prefixed(m.def,
                                                     global) EXCEPT !.pipeline
                                                         = Pieces(m.def)]]
  <2>1. /\ built' = [i \in DOMAIN members |-> Built(members[i])]
        /\ handler = "pattern" => \A i, j \in DOMAIN members :
                   members[i].name = members[j].name => i = j
    BY <1>4 DEF Handlers!Build
  <2>2. ASSUME NEW i \in DOMAIN members
        PROVE  /\ built'[i].name = members[i].name
               /\ built'[i].def.metadata = members[i].def.metadata
               /\ built'[i].def.disabled = members[i].def.disabled
               /\ members[i].def.disabled
                    => built'[i].def.validates = members[i].def.validates
               /\ ~members[i].def.disabled =>
                     /\ built'[i].def.validates = (global.validates
                                                   \/ members[i].def.validates)
                     /\ built'[i].def.options = global.options
                          \cup members[i].def.options
    <3>1. members[i].def \in Definition
      <4>1. members[i] \in Member
        BY <1>1
      <4> QED BY <4>1 DEF Member
    <3> DEFINE d == Handlers!Prefixed(members[i].def, global)  p ==
        Pieces(members[i].def)
    <3>2. /\ d \in Definition /\ d.metadata = members[i].def.metadata
          /\ d.disabled = members[i].def.disabled
          /\ members[i].def.disabled => d = members[i].def
          /\ ~members[i].def.disabled => /\ d.validates = (global.validates \/ members[i].def.validates)
                                         /\ d.options = global.options
                                              \cup members[i].def.options
      BY <1>1, <3>1, PrefixSet
    <3>3. built'[i].name = members[i].name
            /\ built'[i].def = [d EXCEPT !.pipeline = p]
      BY <2>1
    <3> HIDE DEF d, p
    <3>4. /\ built'[i].def.metadata = d.metadata
          /\ built'[i].def.disabled = d.disabled
          /\ built'[i].def.validates = d.validates
          /\ built'[i].def.options = d.options
      BY <3>2, <3>3 DEF Definition
    <3> QED BY <3>2, <3>3, <3>4
  <2>3. DOMAIN built' = DOMAIN members
    BY <2>1
  <2> HIDE DEF Pieces, Built
  <2>4. Handlers!MetadataReaches'
    <3> SUFFICES ASSUME NEW i \in DOMAIN members, NEW k \in MetaKeys
                 PROVE  Reached(built'[i].def.metadata[k],
                                members[i].own.metadata[k], given[k])
      BY <1>1, <2>3 DEF Handlers!MetadataReaches, Reached
    <3> QED BY <2>2 DEF HandlerInv, MembersKnow
  <2>5. Handlers!ValidationMerges'
    <3> SUFFICES ASSUME NEW i \in DOMAIN members
                 PROVE  IF members[i].own.disabled THEN ~built'[i].def.validates
                        ELSE /\ built'[i].def.validates <=>
                                   \/ members[i].own.validates
                                   \/ container.validates
                                   \/ global.validates
                             /\ built'[i].def.options =
                                   members[i].own.options \cup container.options
                                       \cup global.options
      BY <1>1, <2>3 DEF Handlers!ValidationMerges
    <3>1. Merged(members[i].def, members[i].own, container)
      BY DEF HandlerInv, MembersMerged
    <3>2. CASE members[i].own.disabled
      BY <2>2, <3>1, <3>2 DEF Merged
    <3>3. CASE ~members[i].own.disabled
      <4>1. /\ ~members[i].def.disabled
            /\ members[i].def.validates
                 <=> members[i].own.validates \/ container.validates
            /\ members[i].def.options = members[i].own.options
                 \cup container.options
        BY <3>1, <3>3 DEF Merged
      <4>2. /\ built'[i].def.validates = (global.validates
                                          \/ members[i].def.validates)
            /\ built'[i].def.options = global.options \cup members[i].def.options
        BY <2>2, <4>1
      <4>3. built'[i].def.validates <=>
               members[i].own.validates \/ container.validates \/ global.validates
        BY <4>1, <4>2
      <4>4. built'[i].def.options =
               members[i].own.options \cup container.options \cup global.options
        BY <4>1, <4>2
      <4> QED BY <3>3, <4>3, <4>4
    <3> QED BY <3>2, <3>3
  <2>6. Handlers!NamesAreUnique'
    <3> SUFFICES ASSUME handler # "controller", NEW i \in DOMAIN members,
                        NEW j \in DOMAIN members,
                        members[i].name = members[j].name
                 PROVE  i = j
      BY <1>1, <2>2, <2>3 DEF Handlers!NamesAreUnique
    <3>1. handler = "gateway" \/ handler = "pattern"
      BY DEF HandlerInv, HandlerTypes
    <3> QED BY <2>1, <3>1 DEF HandlerInv, MembersDiffer
  <2> QED BY <1>2, <2>4, <2>5, <2>6 DEF HandlerInv
<1> QED BY <1>3, <1>4

LEMMA HandlerInit == ASSUME BuildersGiven, Handlers!Init PROVE HandlerInv
<1>1. Handlers!Undefined \in Definition /\ Refusing(Handlers!Undefined)
        /\ \A k \in MetaKeys : Handlers!Undefined.metadata[k] = NoValue
  <2>1. [k \in MetaKeys |-> NoValue] \in [MetaKeys -> Metadata \cup {NoValue}]
          /\ <<>> \in Seq(Piece)
    OBVIOUS
  <2> QED BY <2>1 DEF Handlers!Undefined, Definition, Refusing
<1>2. /\ handler \in {"controller", "gateway", "pattern"}
      /\ container = Handlers!Undefined
      /\ draft = Handlers!Undefined /\ members = <<>> /\ built = NoValue
      /\ global = [validates |-> FALSE, options |-> {}]
      /\ given = [k \in MetaKeys |-> <<>>]
  BY DEF Handlers!Init
<1>3. HandlerTypes /\ Refusing(draft)
  BY <1>1, <1>2 DEF HandlerTypes
<1>4. LastGiven
  BY <1>1, <1>2 DEF LastGiven
<1>5. DOMAIN members = {}
  BY <1>2
<1>6. MembersKnow /\ MembersMerged /\ MembersDiffer
  BY <1>5 DEF MembersKnow, MembersMerged, MembersDiffer
<1>7. Handlers!MetadataReaches /\ Handlers!ValidationMerges
        /\ Handlers!NamesAreUnique
  BY <1>2
     DEF Handlers!Compiled, Handlers!MetadataReaches, Handlers!ValidationMerges,
         Handlers!NamesAreUnique
<1> QED BY <1>3, <1>4, <1>6, <1>7 DEF HandlerInv

LEMMA HandlerStep == HandlerInv /\ [Handlers!Next]_HandlersVars => HandlerInv'
<1> SUFFICES ASSUME HandlerInv, [Handlers!Next]_HandlersVars PROVE HandlerInv'
  OBVIOUS
<1>1. CASE UNCHANGED HandlersVars
  BY <1>1
     DEF HandlersVars, HandlerInv, HandlerTypes, LastGiven, MembersKnow,
         MembersMerged, MembersDiffer, Handlers!MetadataReaches,
         Handlers!ValidationMerges, Handlers!NamesAreUnique, Handlers!Compiled
<1>2. ASSUME NEW k \in MetaKeys, NEW v \in Metadata,
             Handlers!DraftMetadata(k, v) \/ Handlers!ContainerMetadata(k, v)
      PROVE  HandlerInv'
  BY <1>2, DraftStepsPreserve, ContainerMetadataPreserves
<1>3. ASSUME NEW type \in Types, NEW wrapped \in BOOLEAN,
             Handlers!DraftUses(type, wrapped)
                 \/ Handlers!GatewayUses(type, wrapped)
      PROVE  HandlerInv'
  BY <1>3, DraftStepsPreserve, GatewayUsesPreserves
<1>4. ASSUME NEW options \in SUBSET Toggles,
             Handlers!DraftValidates(options)
                 \/ Handlers!ControllerValidates(options)
                 \/ Handlers!GlobalValidates(options)
      PROVE  HandlerInv'
  BY <1>4, DraftStepsPreserve, ControllerValidatesPreserves,
     GlobalValidatesPreserves
<1>5. CASE Handlers!DraftWithoutValidation
  BY <1>5, DraftStepsPreserve
<1>6. CASE (\E name \in Names : Handlers!Add(name))
             \/ (\E types \in SUBSET Types : Handlers!Build(types))
  BY <1>6, AddPreserves, BuildPreserves
<1> QED BY <1>1, <1>2, <1>3, <1>4, <1>5, <1>6 DEF Handlers!Next

(* What is declared for a controller, a gateway or the application is      *)
(* known to each handler, in whatever order the builders were called       *)
(* (definition.rs, with_metadata_default_value and with_validation_prefix; *)
(* controller.rs, route; gateway.rs, subscribe), and no two handlers of a  *)
(* gateway or of the patterns have one name (pattern.rs).                  *)
THEOREM HandlersKnowAlways ==
    ASSUME BuildersGiven PROVE PartsSpec => []HandlersKnow
<1>1. Handlers!Init => HandlerInv
  BY HandlerInit
<1>2. HandlerInv => Handlers!MetadataReaches /\ Handlers!ValidationMerges
        /\ Handlers!NamesAreUnique
  BY DEF HandlerInv
<1>3. PartsInit => (part = "handlers" => HandlerInv)
  BY <1>1, PartsBegin
<1>4. (part = "handlers" => HandlerInv) /\ [PartsNext]_parts
        => (part = "handlers" => HandlerInv)'
  BY HandlerStep, PartsStep
<1>5. (part = "handlers" => HandlerInv) => HandlersKnow
  BY <1>2 DEF HandlersKnow
<1> QED BY <1>3, <1>4, <1>5, PTL DEF PartsSpec

-----------------------------------------------------------------------------
(* Lazy modules.                                                           *)

(* Names of modules; an eager module is not one that a loader made.        *)
LazyGiven ==
    /\ Lazy!Eager \notin Loaders
    /\ Imports \in [Lazies -> Seq(Lazies)] /\ Forward \in [Lazies -> Seq(Lazies)]
    /\ \A eager \in EagerSets : eager \subseteq Lazies

Makers == Loaders \cup {Lazy!Eager}
Asks == [of : Lazies, forward : BOOLEAN]
Frames == [name : Lazies, left : Seq(Asks)]

(* The names a list asks for.                                              *)
Of(s) == {s[n].of : n \in DOMAIN s}
AskedNames(m) == Of(Lazy!Asked(m))

Settled(o) ==
    o = Lazy!Eager \/ (o \in Loaders /\ loading[o] \in {"return", "loaded"})

-----------------------------------------------------------------------------
(* The invariant.                                                          *)

LazyTypes ==
    /\ loading \in [Loaders -> {"idle", "register", "initialize", "cache",
                                "return", "loaded", "failed"}]
    /\ target \in [Loaders -> Lazies \cup {NoValue}]
    /\ walk \in [Loaders -> Seq(Frames)]
    /\ registered \in [Loaders -> SUBSET Lazies]
    /\ result \in [Loaders -> Lazy!Instances \cup {NoValue}]
    /\ links = [i \in Lazy!Instances |-> links[i]]
    /\ DOMAIN modules \subseteq Lazies

(* What loader l linked so far is its own, or of a load that is over.      *)
OwnOrSettled(l) ==
    \A m \in Lazies : \A k \in DOMAIN links[Lazy!Instance(l, m)] :
        \E o \in Makers :
            links[Lazy!Instance(l, m)][k] = Lazy!Instance(o, k)
                /\ (o = l \/ Settled(o))

(* The modules it is in the middle of: each has links to what it no longer *)
(* asks for, and asks next for the one entered after it.                   *)
StackIs(s, names, goal, dom) ==
    /\ \A n \in 1..Len(s) :
          /\ dom[s[n].name] \cup Of(s[n].left) = AskedNames(s[n].name)
          /\ s[n].name \notin names
    /\ \A n, k \in 1..Len(s) : s[n].name = s[k].name => n = k
    /\ \A n \in 1..(Len(s) - 1) :
          s[n].left # <<>> /\ Head(s[n].left).of = s[n + 1].name
    /\ s # <<>> => s[1].name = goal

Linked(l) == [m \in Lazies |-> DOMAIN links[Lazy!Instance(l, m)]]

Stack(l) == StackIs(walk[l], registered[l], target[l], Linked(l))

(* What it registered is complete, what it did not come to has no links.   *)
Graph(l) ==
    /\ \A m \in registered[l] : DOMAIN links[Lazy!Instance(l, m)] = AskedNames(m)
    /\ \A m \in Lazies \ (registered[l] \cup Lazy!Active(l)) :
          DOMAIN links[Lazy!Instance(l, m)] = {}
    /\ OwnOrSettled(l)

Progress(l) ==
    /\ loading[l] = "idle" => walk[l] = <<>> /\ registered[l] = {}
    /\ loading[l] # "idle" => target[l] \in Lazies
    /\ loading[l] = "register" => walk[l] # <<>>
    /\ loading[l] \in {"initialize", "cache"} => target[l] \in registered[l]
    /\ loading[l] \in {"return", "loaded"} => target[l] \in DOMAIN modules
    /\ loading[l] = "loaded" => result[l] = modules[target[l]]

Loading(l) == Stack(l) /\ Graph(l) /\ Progress(l)

(* A cached module was made eagerly, with its imports, or registered by a  *)
(* load that is over.                                                      *)
CachedBy(m, o) ==
    /\ modules[m] = Lazy!Instance(o, m) /\ Settled(o)
    /\ o # Lazy!Eager => m \in registered[o]
    /\ o = Lazy!Eager =>
          /\ DOMAIN links[modules[m]] = AskedNames(m)
          /\ \A k \in DOMAIN links[modules[m]] :
               links[modules[m]][k] = Lazy!Instance(Lazy!Eager, k)

Cached == \A m \in DOMAIN modules : \E o \in Makers : CachedBy(m, o)

LazyInv == LazyGiven /\ LazyTypes /\ Cached /\ \A l \in Loaders : Loading(l)

-----------------------------------------------------------------------------
(* Sequences of imports and of frames.                                     *)

LEMMA TailAsks ==
    ASSUME NEW s \in Seq(Asks), s # <<>>
    PROVE  /\ Head(s) \in Asks /\ Tail(s) \in Seq(Asks)
           /\ Of(s) = {Head(s).of} \cup Of(Tail(s))
<1>1. /\ Head(s) = s[1] /\ 1 \in DOMAIN s /\ Tail(s) \in Seq(Asks)
      /\ Head(s) \in Asks
      /\ DOMAIN s = 1..Len(s) /\ DOMAIN Tail(s) = 1..(Len(s) - 1) /\ Len(s) \in Nat
      /\ \A n \in 1..(Len(s) - 1) : Tail(s)[n] = s[n + 1]
  OBVIOUS
<1>2. ASSUME NEW x \in Of(s) PROVE x = Head(s).of \/ x \in Of(Tail(s))
  <2>1. PICK n \in 1..Len(s) : x = s[n].of
    BY <1>1, <1>2 DEF Of
  <2>2. CASE n = 1
    BY <1>1, <2>1, <2>2
  <2>3. CASE n # 1
    <3>1. n - 1 \in 1..(Len(s) - 1) /\ Tail(s)[n - 1] = s[n]
      BY <1>1, <2>1, <2>3
    <3> QED BY <1>1, <2>1, <3>1 DEF Of
  <2> QED BY <2>2, <2>3
<1>3. ASSUME NEW x \in Of(Tail(s)) PROVE x \in Of(s)
  <2>1. PICK n \in 1..(Len(s) - 1) : x = Tail(s)[n].of
    BY <1>1, <1>3 DEF Of
  <2>2. n + 1 \in 1..Len(s) /\ x = s[n + 1].of
    BY <1>1, <2>1
  <2> QED BY <1>1, <2>2 DEF Of
<1>4. Head(s).of \in Of(s)
  BY <1>1 DEF Of
<1> QED BY <1>1, <1>2, <1>3, <1>4

LEMMA AskedTypes ==
    ASSUME LazyGiven, NEW m \in Lazies PROVE Lazy!Asked(m) \in Seq(Asks)
<1> DEFINE a ==
    [n \in DOMAIN Imports[m] |-> [of |-> Imports[m][n], forward |-> FALSE]]
           b ==
               [n \in DOMAIN Forward[m] |-> [of |-> Forward[m][n],
                                             forward |-> TRUE]]
<1>1. Imports[m] \in Seq(Lazies) /\ Forward[m] \in Seq(Lazies)
  BY DEF LazyGiven
<1>2. a \in Seq(Asks)
  <2>1. DOMAIN Imports[m] = 1..Len(Imports[m]) /\ Len(Imports[m]) \in Nat
    BY <1>1
  <2>2. a \in [1..Len(Imports[m]) -> Asks]
    BY <1>1, <2>1 DEF Asks
  <2> HIDE DEF a
  <2> QED BY <2>1, <2>2, SeqDef
<1>3. b \in Seq(Asks)
  <2>1. DOMAIN Forward[m] = 1..Len(Forward[m]) /\ Len(Forward[m]) \in Nat
    BY <1>1
  <2>2. b \in [1..Len(Forward[m]) -> Asks]
    BY <1>1, <2>1 DEF Asks
  <2> HIDE DEF b
  <2> QED BY <2>1, <2>2, SeqDef
<1> QED BY <1>2, <1>3 DEF Lazy!Asked

LEMMA FrameTypes ==
    ASSUME NEW s \in Seq(Frames), NEW n \in 1..Len(s)
    PROVE  s[n] \in Frames /\ s[n].name \in Lazies /\ s[n].left \in Seq(Asks)
<1>1. s[n] \in Frames
  OBVIOUS
<1> QED BY <1>1 DEF Frames

(* The names of a stack of which only what is left at the top changed.     *)
LEMMA SameNames ==
    ASSUME NEW s \in Seq(Frames), NEW t \in Seq(Frames), NEW p \in Nat, Len(t) = p,
           p \in 1..Len(s), t[p].name = s[p].name, \A n \in 1..(p - 1) : t[n] = s[n]
    PROVE  /\ \A n \in 1..p : t[n].name = s[n].name
           /\ {t[n].name : n \in DOMAIN t} = {s[n].name : n \in 1..p}
<1>1. ASSUME NEW n \in 1..p PROVE t[n].name = s[n].name
  <2>1. n = p \/ n \in 1..(p - 1)
    OBVIOUS
  <2> QED BY <2>1
<1>2. DOMAIN t = 1..p
  OBVIOUS
<1> QED BY <1>1, <1>2

LEMMA FrontIs ==
    ASSUME NEW s \in Seq(Frames), s # <<>>
    PROVE  /\ Lazy!Popped(s) \in Seq(Frames) /\ Len(Lazy!Popped(s)) = Len(s) - 1
           /\ Len(s) \in Nat /\ Len(s) > 0
           /\ \A n \in 1..(Len(s) - 1) : Lazy!Popped(s)[n] = s[n]
<1> DEFINE k == Len(s) - 1
<1>1. Len(s) \in Nat /\ Len(s) > 0 /\ \A n \in 1..k : s[n] \in Frames
  OBVIOUS
<1>2. k \in Int /\ k >= 0 /\ k - 1 + 1 = k
  BY <1>1
<1>3. 1 \in Int
  OBVIOUS
<1>4. Lazy!Popped(s) = SubSeq(s, 1, k)
  BY DEF Lazy!Popped
<1> HIDE DEF k
<1>5. /\ SubSeq(s, 1, k) \in Seq(Frames)
      /\ Len(SubSeq(s, 1, k)) = IF 1 <= k THEN k - 1 + 1 ELSE 0
      /\ \A n \in 1..(k - 1 + 1) : SubSeq(s, 1, k)[n] = s[1 + n - 1]
  BY <1>1, <1>2, <1>3, SubSeqProperties
<1>6. Len(Lazy!Popped(s)) = k
  BY <1>2, <1>4, <1>5
<1>7. \A n \in 1..k : Lazy!Popped(s)[n] = s[n]
  BY <1>2, <1>4, <1>5
<1> QED BY <1>1, <1>4, <1>5, <1>6, <1>7 DEF k

(* The frame e in the place of the last, or of the last two.               *)
LEMMA Replaced ==
    ASSUME NEW s \in Seq(Frames), s # <<>>, NEW e \in Frames
    PROVE  /\ Lazy!Top(s) = s[Len(s)] /\ Len(s) \in 1..Len(s) /\ Len(s) \in Nat
           /\ Append(Lazy!Popped(s), e) \in Seq(Frames)
           /\ Len(Append(Lazy!Popped(s), e)) = Len(s)
           /\ Append(Lazy!Popped(s), e)[Len(s)] = e
           /\ \A n \in 1..(Len(s) - 1) : Append(Lazy!Popped(s), e)[n] = s[n]
<1> DEFINE f == Lazy!Popped(s)
<1>1. /\ f \in Seq(Frames) /\ Len(f) = Len(s) - 1 /\ Len(s) \in Nat /\ Len(s) > 0
      /\ \A n \in 1..(Len(s) - 1) : f[n] = s[n]
  BY FrontIs
<1> HIDE DEF f
<1>2. /\ Append(f, e) \in Seq(Frames) /\ Len(Append(f, e)) = Len(f) + 1
      /\ Append(f, e)[Len(f) + 1] = e
      /\ \A n \in 1..Len(f) : Append(f, e)[n] = f[n]
  BY <1>1
<1>3. Len(f) + 1 = Len(s)
  BY <1>1
<1>4. \A n \in 1..(Len(s) - 1) : Append(f, e)[n] = s[n]
  BY <1>1, <1>2
<1>5. Len(Append(f, e)) = Len(s) /\ Append(f, e)[Len(s)] = e
  BY <1>2, <1>3
<1>6. Len(s) \in 1..Len(s)
  BY <1>1
<1>7. Lazy!Top(s) = s[Len(s)]
  BY DEF Lazy!Top
<1> QED BY <1>1, <1>2, <1>4, <1>5, <1>6, <1>7 DEF f

LEMMA Shortened ==
    ASSUME NEW s \in Seq(Frames), Len(s) > 1, NEW e \in Frames
    PROVE  /\ Lazy!Top(Lazy!Popped(s)) = s[Len(s) - 1]
           /\ Len(s) - 1 \in 1..Len(s) /\ Len(s) \in Nat
           /\ Append(Lazy!Popped(Lazy!Popped(s)), e) \in Seq(Frames)
           /\ Len(Append(Lazy!Popped(Lazy!Popped(s)), e)) = Len(s) - 1
           /\ Append(Lazy!Popped(Lazy!Popped(s)), e)[Len(s) - 1] = e
           /\ \A n \in 1..(Len(s) - 2) :
                Append(Lazy!Popped(Lazy!Popped(s)), e)[n] = s[n]
<1> DEFINE f == Lazy!Popped(s)
           t == Append(Lazy!Popped(f), e)
<1>1. /\ f \in Seq(Frames) /\ Len(f) = Len(s) - 1 /\ Len(s) \in Nat /\ f # <<>>
      /\ \A n \in 1..(Len(s) - 1) : f[n] = s[n]
  BY FrontIs
<1> HIDE DEF f
<1>2. /\ Lazy!Top(f) = f[Len(f)] /\ t \in Seq(Frames) /\ Len(t) = Len(f)
      /\ t[Len(f)] = e
      /\ \A n \in 1..(Len(f) - 1) : t[n] = f[n]
  BY <1>1, Replaced
<1> HIDE DEF t
<1>3. \A n \in 1..(Len(s) - 2) : t[n] = s[n]
  BY <1>1, <1>2
<1>4. Lazy!Top(f) = s[Len(s) - 1] /\ Len(s) - 1 \in 1..Len(s)
  BY <1>1, <1>2
<1>5. Len(t) = Len(s) - 1 /\ t[Len(s) - 1] = e
  BY <1>1, <1>2
<1> QED BY <1>1, <1>2, <1>3, <1>4, <1>5 DEF f, t

LEMMA Pushed ==
    ASSUME NEW s \in Seq(Frames), NEW e \in Frames
    PROVE  /\ Append(s, e) \in Seq(Frames) /\ Len(s) \in Nat
           /\ Len(Append(s, e)) = Len(s) + 1 /\ Append(s, e)[Len(s) + 1] = e
           /\ \A n \in 1..Len(s) : Append(s, e)[n] = s[n]
OBVIOUS

-----------------------------------------------------------------------------
(* What a step of one loader leaves alone.                                 *)

LEMMA InstanceOf ==
    /\ \A o \in Makers, m \in Lazies : Lazy!Instance(o, m) \in Lazy!Instances
    /\ \A o, p, m, n : Lazy!Instance(o, m) = Lazy!Instance(p, n) => o = p /\ m = n
    /\ \A o, m : Lazy!Instance(o, m)[1] = o
BY DEF Lazy!Instance, Lazy!Instances, Makers

Confined(l) ==
    /\ \A k \in Loaders \ {l} :
          /\ loading'[k] = loading[k] /\ target'[k] = target[k]
          /\ walk'[k] = walk[k] /\ registered'[k] = registered[k]
          /\ result'[k] = result[k]
    /\ \A o \in Makers \ {l} : \A m \in Lazies :
          links'[Lazy!Instance(o, m)] = links[Lazy!Instance(o, m)]
    /\ \A m \in DOMAIN modules : m \in DOMAIN modules' /\ modules'[m] = modules[m]
    /\ loading[l] \in {"return", "loaded"} => loading'[l] \in {"return", "loaded"}

LEMMA SettledStays ==
    ASSUME LazyInv, NEW l \in Loaders, Confined(l), NEW o \in Makers, Settled(o)
    PROVE  Settled(o)'
<1>1. CASE o = Lazy!Eager
  BY <1>1 DEF Settled
<1>2. CASE o # Lazy!Eager
  <2>1. o \in Loaders /\ loading[o] \in {"return", "loaded"}
    BY <1>2 DEF Settled, Makers
  <2>2. loading'[o] \in {"return", "loaded"}
    BY <2>1 DEF Confined
  <2> QED BY <2>1, <2>2 DEF Settled
<1> QED BY <1>1, <1>2

LEMMA Others ==
    ASSUME LazyInv, NEW l \in Loaders, Confined(l), NEW k \in Loaders, k # l
    PROVE  Loading(k)'
<1>1. /\ loading'[k] = loading[k] /\ target'[k] = target[k] /\ walk'[k] = walk[k]
      /\ registered'[k] = registered[k] /\ result'[k] = result[k]
      /\ \A m \in Lazies : links'[Lazy!Instance(k, m)] = links[Lazy!Instance(k, m)]
  BY DEF Confined, Makers
<1>2. Loading(k) /\ walk[k] \in Seq(Frames) /\ registered[k] \in SUBSET Lazies
  BY DEF LazyInv, LazyTypes
<1>4. Stack(k)'
  <2>1. Linked(k)' = Linked(k)
    BY <1>1 DEF Linked
  <2>2. StackIs(walk[k], registered[k], target[k], Linked(k))
    BY <1>2 DEF Loading, Stack
  <2> QED BY <1>1, <2>1, <2>2 DEF Stack
<1>5. OwnOrSettled(k)'
  BY <1>1, <1>2, SettledStays DEF Loading, Graph, OwnOrSettled
<1>6. Lazy!Active(k)' = Lazy!Active(k)
  BY <1>1 DEF Lazy!Active
<1>7. Graph(k)'
  BY <1>1, <1>2, <1>5, <1>6 DEF Loading, Graph
<1>8. Progress(k)'
  BY <1>1, <1>2 DEF Loading, Progress, Confined
<1> QED BY <1>4, <1>7, <1>8 DEF Loading

LEMMA CachedStays ==
    ASSUME LazyInv, NEW l \in Loaders, Confined(l),
           registered[l] \subseteq registered'[l],
           NEW m \in DOMAIN modules
    PROVE  \E o \in Makers : CachedBy(m, o)'
<1>1. PICK o \in Makers : CachedBy(m, o)
  BY DEF LazyInv, Cached
<1>2. modules'[m] = modules[m] /\ Settled(o)' /\ m \in Lazies
  BY <1>1, SettledStays DEF Confined, CachedBy, LazyInv, LazyTypes
<1>3. o # Lazy!Eager => m \in registered'[o]
  BY <1>1 DEF CachedBy, Confined, Makers
<1>4. o = Lazy!Eager => links'[modules[m]] = links[modules[m]]
  BY <1>1, <1>2 DEF CachedBy, Confined, LazyInv, LazyGiven, Makers
<1> QED BY <1>1, <1>2, <1>3, <1>4 DEF CachedBy

(* What a loader finds in the cache or in its own graph.                   *)
LEMMA FoundIs ==
    ASSUME LazyInv, NEW l \in Loaders, NEW m \in Lazies
    PROVE  \E o \in Makers : Lazy!Found(l, m) = Lazy!Instance(o, m)
             /\ (o = l \/ Settled(o))
<1>1. CASE m \in DOMAIN modules
  BY <1>1 DEF Lazy!Found, LazyInv, Cached, CachedBy
<1>2. CASE m \notin DOMAIN modules
  BY <1>2 DEF Lazy!Found, Makers
<1> QED BY <1>1, <1>2

LEMMA CachedInstance ==
    ASSUME LazyInv, NEW m \in DOMAIN modules PROVE modules[m] \in Lazy!Instances
BY InstanceOf DEF LazyInv, LazyTypes, Cached, CachedBy

-----------------------------------------------------------------------------
(* Frame f, number p, takes instance i of the import m it asks for next,   *)
(* and the stack is t then.                                                *)

Takes(l, p, t, f, m, i) ==
    /\ p \in 1..Len(walk[l])
    /\ f = walk[l][p] /\ f.left # <<>> /\ m = Head(f.left).of
    /\ t \in Seq(Frames) /\ Len(t) = p
    /\ t[p] = [f EXCEPT !.left = Tail(@)]
    /\ \A n \in 1..(p - 1) : t[n] = walk[l][n]
    /\ walk' = [walk EXCEPT ![l] = t]
    /\ \E o \in Makers : i = Lazy!Instance(o, m) /\ (o = l \/ Settled(o))
    /\ links' = [links EXCEPT ![Lazy!Instance(l, f.name)] =
                    [x \in DOMAIN @ \cup {m} |-> IF x = m THEN i ELSE @[x]]]

(* What that does to the links of frame f, which asks for m.               *)
Taken(l, f, m, i) ==
    /\ f.name \in Lazies /\ m \in Lazies
    /\ links' = [x \in Lazy!Instances |-> links'[x]]
    /\ \A o \in Makers, n \in Lazies :
          ~(o = l /\ n = f.name)
              => links'[Lazy!Instance(o, n)] = links[Lazy!Instance(o, n)]
    /\ links'[Lazy!Instance(l, f.name)] =
          [x \in DOMAIN links[Lazy!Instance(l, f.name)] \cup {m} |->
             IF x = m THEN i ELSE links[Lazy!Instance(l, f.name)][x]]

LEMMA TakesLinks ==
    ASSUME LazyInv, NEW l \in Loaders, NEW p, NEW t, NEW f, NEW m, NEW i,
           Takes(l, p, t, f, m, i)
    PROVE  /\ Taken(l, f, m, i) /\ p \in 1..Len(walk[l])
           /\ Of(f.left) = {m} \cup Of(t[p].left) /\ t[p].name = f.name
<1>1. /\ p \in 1..Len(walk[l]) /\ f = walk[l][p] /\ m = Head(f.left).of
      /\ f.left # <<>> /\ t[p] = [f EXCEPT !.left = Tail(@)]
  BY DEF Takes
<1>2. walk[l] \in Seq(Frames)
  BY DEF LazyInv, LazyTypes
<1>4. /\ links' = [links EXCEPT ![Lazy!Instance(l, f.name)] =
                      [x \in DOMAIN @ \cup {m} |-> IF x = m THEN i ELSE @[x]]]
      /\ links = [x \in Lazy!Instances |-> links[x]]
  BY DEF Takes, LazyInv, LazyTypes
<1>3. f \in Frames /\ f.name \in Lazies /\ f.left \in Seq(Asks)
  BY <1>1, <1>2, FrameTypes
<1>5. m \in Lazies /\ Of(f.left) = {m} \cup Of(Tail(f.left))
  BY <1>1, <1>3, TailAsks DEF Asks
<1>6. t[p].left = Tail(f.left) /\ t[p].name = f.name
  BY <1>1, <1>3 DEF Frames
<1>7. Lazy!Instance(l, f.name) \in Lazy!Instances
  BY <1>3, InstanceOf DEF Makers
<1>8. links' = [x \in Lazy!Instances |-> links'[x]]
  BY <1>4
<1>9. \A o \in Makers, n \in Lazies :
         ~(o = l /\ n = f.name)
             => links'[Lazy!Instance(o, n)] = links[Lazy!Instance(o, n)]
  BY <1>4, InstanceOf
<1>10. links'[Lazy!Instance(l, f.name)] =
         [x \in DOMAIN links[Lazy!Instance(l, f.name)] \cup {m} |->
            IF x = m THEN i ELSE links[Lazy!Instance(l, f.name)][x]]
  BY <1>4, <1>7
<1> QED BY <1>1, <1>3, <1>5, <1>6, <1>8, <1>9, <1>10 DEF Taken

LEMMA TakesStack ==
    ASSUME LazyInv, NEW l \in Loaders, NEW p, NEW t, NEW f, NEW m, NEW i,
           Takes(l, p, t, f, m, i),
           target' = target,
           \A n \in 1..p : walk[l][n].name \notin registered'[l]
    PROVE  Stack(l)'
<1> DEFINE s == walk[l]
<1>a. f = s[p] /\ m = Head(f.left).of
  BY DEF Takes
<1>b. /\ Taken(l, f, m, i) /\ p \in 1..Len(s)
      /\ Of(f.left) = {m} \cup Of(t[p].left) /\ t[p].name = f.name
  BY <1>a, TakesLinks
<1>1. /\ Len(t) = p /\ walk'[l] = t
      /\ \A n \in 1..(p - 1) : t[n] = s[n]
  BY DEF Takes, LazyInv, LazyTypes
<1>2. s \in Seq(Frames) /\ Len(s) \in Nat /\ p \in Nat /\ p > 0 /\ p <= Len(s)
  BY <1>b DEF LazyInv, LazyTypes
<1> HIDE DEF s
<1> DEFINE dom == Linked(l)
           new == Linked(l)'
<1>2a. StackIs(s, registered[l], target[l], dom)
  BY DEF LazyInv, Loading, Stack, s
<1>2b. \A n, k \in 1..Len(s) : s[n].name = s[k].name => n = k
  BY <1>2a DEF StackIs
<1>0. /\ f.name \in Lazies
      /\ new[f.name] = dom[f.name] \cup {m}
      /\ \A n \in Lazies : n # f.name => new[n] = dom[n]
  BY <1>b DEF Taken, Makers, Linked
<1> HIDE DEF dom, new
<1>3. ASSUME NEW n \in 1..p
      PROVE  /\ n \in 1..Len(s) /\ s[n].name \in Lazies /\ t[n].name = s[n].name
             /\ n # p => n \in 1..(p - 1) /\ t[n] = s[n]
  <2>1. n \in 1..Len(s) /\ (n # p => n \in 1..(p - 1))
    BY <1>2
  <2> QED BY <1>a, <1>b, <1>1, <1>2, <2>1, FrameTypes
<1>4. \A n, k \in 1..p : t[n].name = t[k].name => n = k
  BY <1>2b, <1>3
<1>5. ASSUME NEW n \in 1..p
      PROVE  new[t[n].name] \cup Of(t[n].left) = AskedNames(t[n].name)
  <2>1. dom[s[n].name] \cup Of(s[n].left) = AskedNames(s[n].name)
    BY <1>2a, <1>3 DEF StackIs
  <2>2. CASE n = p
    BY <1>a, <1>b, <1>0, <2>1, <2>2
  <2>3. CASE n # p
    <3>1. t[n] = s[n]
      BY <1>3, <2>3
    <3>2. s[n].name # f.name
      BY <1>a, <1>b, <1>2b, <1>3, <2>3
    <3> QED BY <1>0, <1>3, <2>1, <3>1, <3>2
  <2> QED BY <2>2, <2>3
<1>6. ASSUME NEW n \in 1..(p - 1)
      PROVE  t[n].left # <<>> /\ Head(t[n].left).of = t[n + 1].name
  <2>1. n \in 1..(Len(s) - 1) /\ n + 1 \in 1..p /\ t[n] = s[n]
    BY <1>1, <1>2
  <2>2. s[n].left # <<>> /\ Head(s[n].left).of = s[n + 1].name
    BY <1>2a, <2>1 DEF StackIs
  <2> QED BY <1>3, <2>1, <2>2
<1>7. t[1].name = target[l]
  <2>1. 1 \in 1..p /\ s # <<>>
    BY <1>2
  <2> QED BY <1>2a, <1>3, <2>1 DEF StackIs
<1>8. \A n \in 1..p : t[n].name \notin registered'[l]
  BY <1>3 DEF s
<1>9. StackIs(t, registered'[l], target[l], new)
  BY <1>1, <1>4, <1>5, <1>6, <1>7, <1>8 DEF StackIs
<1> QED BY <1>1, <1>9 DEF Stack, new

LEMMA TakesOwn ==
    ASSUME LazyInv, NEW l \in Loaders, NEW p, NEW t, NEW f, NEW m, NEW i,
           Takes(l, p, t, f, m, i), Confined(l)
    PROVE  OwnOrSettled(l)'
<1>a. f = walk[l][p] /\ m = Head(f.left).of
  BY DEF Takes
<1>0. Taken(l, f, m, i)
  BY <1>a, TakesLinks
<1>1. PICK o \in Makers : i = Lazy!Instance(o, m) /\ (o = l \/ Settled(o))
  BY <1>a DEF Takes
<1>2. ASSUME NEW n \in Lazies, NEW k \in DOMAIN links'[Lazy!Instance(l, n)]
      PROVE  \E q \in Makers :
                links'[Lazy!Instance(l, n)][k] = Lazy!Instance(q, k)
                    /\ (q = l \/ Settled(q))
  <2>1. CASE n = f.name /\ k = m
    BY <1>0, <1>1, <2>1 DEF Taken
  <2>2. CASE ~(n = f.name /\ k = m)
    <3>1. k \in DOMAIN links[Lazy!Instance(l, n)]
          /\ links'[Lazy!Instance(l, n)][k] = links[Lazy!Instance(l, n)][k]
      BY <1>0, <1>2, <2>2 DEF Taken, Makers
    <3> QED BY <3>1 DEF LazyInv, Loading, Graph, OwnOrSettled
  <2> QED BY <2>1, <2>2
<1> QED BY <1>2, SettledStays DEF OwnOrSettled

-----------------------------------------------------------------------------
(* Each action of a loader.                                                *)

(* What it has to show of its own loader.                                  *)
Keeps(l) ==
    /\ LazyTypes' /\ Confined(l) /\ registered[l] \subseteq registered'[l]
    /\ Loading(l)'
    /\ \A m \in DOMAIN modules' \ DOMAIN modules : \E o \in Makers : CachedBy(m, o)'

LEMMA KeepsInv == ASSUME LazyInv, NEW l \in Loaders, Keeps(l) PROVE LazyInv'
<1>1. \A k \in Loaders : Loading(k)'
  BY Others DEF Keeps
<1>2. Cached'
  BY CachedStays DEF Keeps, Cached
<1> QED BY <1>1, <1>2 DEF LazyInv, LazyGiven, Keeps

LEMMA SameGraph ==
    ASSUME LazyInv, NEW l \in Loaders, Confined(l),
           UNCHANGED <<walk, registered, links>>
    PROVE  Graph(l)' /\ (target' = target => Stack(l)')
<1>1. Stack(l) /\ Graph(l)
  BY DEF LazyInv, Loading
<1>2. OwnOrSettled(l)'
  BY <1>1, SettledStays DEF Graph, OwnOrSettled
<1>3. Graph(l)'
  BY <1>1, <1>2 DEF Graph, Lazy!Active
<1>4. target' = target => Stack(l)'
  BY <1>1 DEF Stack, Linked
<1> QED BY <1>3, <1>4

LEMMA EmptyStack ==
    ASSUME NEW names, NEW goal, NEW dom PROVE StackIs(<<>>, names, goal, dom)
BY DEF StackIs

LEMMA EnteredIs ==
    ASSUME LazyGiven, NEW m \in Lazies
    PROVE  Lazy!Entered(m) \in Frames /\ Lazy!Entered(m).name = m
             /\ Of(Lazy!Entered(m).left) = AskedNames(m)
BY AskedTypes DEF Lazy!Entered, Frames, AskedNames

LEMMA FailKeeps ==
    ASSUME LazyInv, NEW l \in Loaders, Lazy!Fail(l) \/ Lazy!Initialize(l)
    PROVE  Keeps(l)
<1>1. /\ UNCHANGED <<modules, target, walk, registered, links, result>>
      /\ \/ loading' = [loading EXCEPT ![l] = "failed"]
              /\ loading[l] \in {"register", "initialize"}
         \/ loading' = [loading EXCEPT ![l] = "cache"] /\ loading[l] = "initialize"
  BY DEF Lazy!Fail, Lazy!Initialize, Lazy!Goto
<1>2. LazyTypes' /\ Confined(l)
  BY <1>1 DEF LazyInv, LazyTypes, Confined
<1>3. Progress(l)'
  BY <1>1 DEF LazyInv, LazyTypes, Loading, Progress
<1> QED BY <1>1, <1>2, <1>3, SameGraph DEF Keeps, Loading

LEMMA ReturnKeeps ==
    ASSUME LazyInv, NEW l \in Loaders, Lazy!Return(l) PROVE Keeps(l)
<1>1. /\ UNCHANGED <<modules, target, walk, registered, links>>
      /\ loading' = [loading EXCEPT ![l] = "loaded"] /\ loading[l] = "return"
      /\ result' = [result EXCEPT ![l] = modules[target[l]]]
  BY DEF Lazy!Return, Lazy!Goto
<1>2. target[l] \in DOMAIN modules /\ target[l] \in Lazies
  BY <1>1 DEF LazyInv, Loading, Progress
<1>3. LazyTypes' /\ Confined(l)
  BY <1>1, <1>2, CachedInstance DEF LazyInv, LazyTypes, Confined
<1>4. Progress(l)'
  BY <1>1, <1>2 DEF LazyInv, LazyTypes, Progress
<1> QED BY <1>1, <1>3, <1>4, SameGraph DEF Keeps, Loading

LEMMA CacheKeeps ==
    ASSUME LazyInv, NEW l \in Loaders, Lazy!CacheModules(l) PROVE Keeps(l)
<1>1. /\ UNCHANGED <<target, walk, registered, links, result>>
      /\ loading' = [loading EXCEPT ![l] = "return"] /\ loading[l] = "cache"
      /\ modules' = [m \in DOMAIN modules \cup registered[l] |->
                       IF m \in DOMAIN modules THEN modules[m]
                           ELSE Lazy!Instance(l, m)]
  BY DEF Lazy!CacheModules, Lazy!Goto
<1>2. target[l] \in registered[l] /\ target[l] \in Lazies
        /\ registered[l] \subseteq Lazies
  BY <1>1 DEF LazyInv, LazyTypes, Loading, Progress
<1>3. LazyTypes' /\ Confined(l)
  BY <1>1, <1>2 DEF LazyInv, LazyTypes, Confined
<1>4. Progress(l)'
  BY <1>1, <1>2 DEF LazyInv, LazyTypes, Progress
<1>5. ASSUME NEW m \in DOMAIN modules' \ DOMAIN modules
      PROVE  CachedBy(m, l)'
  <2>1. m \in registered'[l] /\ modules'[m] = Lazy!Instance(l, m)
    BY <1>1
  <2>2. l # Lazy!Eager /\ Settled(l)'
    BY <1>1 DEF Settled, LazyInv, LazyGiven, LazyTypes
  <2> QED BY <2>1, <2>2 DEF CachedBy
<1> QED BY <1>1, <1>3, <1>4, <1>5, SameGraph DEF Keeps, Loading, Makers

LEMMA LoadKeeps ==
    ASSUME LazyInv, NEW l \in Loaders, NEW m \in Lazies, Lazy!Load(l, m)
    PROVE  Keeps(l)
<1>1. /\ loading[l] = "idle" /\ target' = [target EXCEPT ![l] = m]
      /\ UNCHANGED <<modules, registered, links>>
      /\ walk[l] = <<>> /\ registered[l] = {}
  BY DEF Lazy!Load, LazyInv, Loading, Progress
<1>2. CASE m \in DOMAIN modules
  <2>1. /\ loading' = [loading EXCEPT ![l] = "loaded"]
        /\ result' = [result EXCEPT ![l] = modules[m]]
        /\ walk' = walk
    BY <1>2 DEF Lazy!Load, Lazy!Goto
  <2>2. LazyTypes' /\ Confined(l)
    BY <1>1, <1>2, <2>1, CachedInstance DEF LazyInv, LazyTypes, Confined
  <2>3. Progress(l)'
    BY <1>1, <1>2, <2>1 DEF LazyInv, LazyTypes, Progress
  <2>4. Stack(l)'
    BY <1>1, <2>1, EmptyStack DEF Stack
  <2> QED BY <1>1, <2>1, <2>2, <2>3, <2>4, SameGraph DEF Keeps, Loading
<1>3. CASE m \notin DOMAIN modules
  <2> DEFINE t == <<Lazy!Entered(m)>>
  <2>1. /\ loading' = [loading EXCEPT ![l] = "register"] /\ result' = result
        /\ walk' = [walk EXCEPT ![l] = t]
    BY <1>3 DEF Lazy!Load, Lazy!Goto
  <2>2. t \in Seq(Frames) /\ Len(t) = 1 /\ t[1] = Lazy!Entered(m) /\ t # <<>>
    BY EnteredIs DEF LazyInv
  <2> HIDE DEF t
  <2>3. LazyTypes' /\ Confined(l)
    BY <1>1, <2>1, <2>2 DEF LazyInv, LazyTypes, Confined
  <2>4. walk'[l] = t /\ target'[l] = m /\ loading'[l] = "register"
    BY <1>1, <2>1 DEF LazyInv, LazyTypes
  <2>5. Progress(l)'
    BY <2>2, <2>4 DEF Progress
  <2>6. Graph(l) /\ Lazy!Active(l) = {}
    BY <1>1 DEF LazyInv, Loading, Lazy!Active
  <2>7. \A n \in Lazies : DOMAIN links[Lazy!Instance(l, n)] = {}
    BY <1>1, <2>6 DEF Graph
  <2>8. Graph(l)'
    BY <1>1, <2>7 DEF Graph, OwnOrSettled
  <2>9. Linked(l)'[m] = {}
    BY <1>1, <2>7 DEF Linked
  <2> DEFINE dom == Linked(l)'
  <2>10. dom[m] = {}
    BY <2>9
  <2> HIDE DEF dom
  <2>11. Lazy!Entered(m).name = m /\ Of(Lazy!Entered(m).left) = AskedNames(m)
    BY EnteredIs DEF LazyInv
  <2>12. StackIs(t, registered[l], m, dom)
    BY <1>1, <2>2, <2>10, <2>11 DEF StackIs
  <2>13. Stack(l)'
    BY <1>1, <2>4, <2>12 DEF Stack, dom
  <2> QED BY <1>1, <2>3, <2>5, <2>8, <2>13 DEF Keeps, Loading
<1> QED BY <1>2, <1>3

(* What a loader has registered of its graph, down to frame p, when one of *)
(* its frames takes an import.                                             *)
GraphGrows(l, p) ==
    /\ loading[l] = "register" /\ UNCHANGED <<modules, loading, target, result>>
    /\ registered' \in [Loaders -> SUBSET Lazies]
    /\ \A k \in Loaders \ {l} : registered'[k] = registered[k]
    /\ registered[l] \subseteq registered'[l]
    /\ \A n \in 1..p : walk[l][n].name \notin registered'[l]
    /\ \A n \in registered'[l] : DOMAIN links[Lazy!Instance(l, n)] = AskedNames(n)
    /\ registered[l] \cup Lazy!Active(l) \subseteq registered'[l]
         \cup Lazy!Active(l)'

LEMMA TakesKeeps ==
    ASSUME LazyInv, NEW l \in Loaders, NEW p, NEW t, NEW f, NEW m, NEW i,
           Takes(l, p, t, f, m, i),
           GraphGrows(l, p)
    PROVE  Keeps(l)
<1> USE DEF GraphGrows
<1>a. f = walk[l][p] /\ m = Head(f.left).of
  BY DEF Takes
<1>0. Taken(l, f, m, i) /\ p \in 1..Len(walk[l]) /\ t[p].name = f.name
  BY <1>a, TakesLinks
<1>1. /\ walk' = [walk EXCEPT ![l] = t] /\ t \in Seq(Frames) /\ Len(t) = p
  BY DEF Takes
<1>2. walk \in [Loaders -> Seq(Frames)] /\ p \in Nat /\ p > 0
  BY <1>0 DEF LazyInv, LazyTypes
<1>3. LazyTypes'
  BY <1>0, <1>1, <1>2 DEF LazyInv, LazyTypes, Taken
<1>4. Confined(l)
  <2>1. \A o \in Makers \ {l} : \A n \in Lazies :
          links'[Lazy!Instance(o, n)] = links[Lazy!Instance(o, n)]
    BY <1>0 DEF Taken
  <2> QED BY <1>1, <1>2, <2>1 DEF Confined
<1>5. Stack(l)'
  BY TakesStack
<1>6. OwnOrSettled(l)'
  BY <1>4, TakesOwn
<1>7. walk'[l] = t /\ t # <<>>
  BY <1>1, <1>2
<1>8. Progress(l)'
  BY <1>7 DEF Progress, LazyInv, Loading
<1>9. f.name \notin registered'[l] /\ f.name \in Lazy!Active(l)'
  <2>1. p \in 1..p /\ p \in DOMAIN t
    BY <1>1, <1>2
  <2> QED BY <1>a, <1>0, <1>7, <2>1 DEF Lazy!Active
<1>10. Graph(l)'
  <2>1. ASSUME NEW n \in registered'[l]
        PROVE  DOMAIN links'[Lazy!Instance(l, n)] = AskedNames(n)
    BY <1>0, <1>9, <2>1 DEF Taken, Makers
  <2>2. ASSUME NEW n \in Lazies \ (registered'[l] \cup Lazy!Active(l)')
        PROVE  DOMAIN links'[Lazy!Instance(l, n)] = {}
    <3>1. n # f.name /\ n \notin registered[l] \cup Lazy!Active(l)
      BY <1>9
    <3>2. DOMAIN links[Lazy!Instance(l, n)] = {}
      BY <3>1 DEF LazyInv, Loading, Graph
    <3> QED BY <1>0, <3>1, <3>2 DEF Taken, Makers
  <2> QED BY <1>6, <2>1, <2>2 DEF Graph, AskedNames, Of, Lazy!Asked
<1> QED BY <1>3, <1>4, <1>5, <1>8, <1>10 DEF Keeps, Loading

LEMMA TopIs ==
    ASSUME LazyInv, NEW l \in Loaders, walk[l] # <<>>
    PROVE  LET s == walk[l] IN
           /\ s \in Seq(Frames) /\ Len(s) \in Nat /\ Len(s) \in 1..Len(s)
           /\ Lazy!Top(s) = s[Len(s)] /\ Lazy!Top(s) \in Frames
           /\ Lazy!Top(s).name \in Lazies /\ Lazy!Top(s).left \in Seq(Asks)
<1> DEFINE s == walk[l]
<1>1. s \in Seq(Frames) /\ s # <<>>
  BY DEF LazyInv, LazyTypes
<1>2. Len(s) \in Nat /\ Len(s) \in 1..Len(s) /\ Lazy!Top(s) = s[Len(s)]
  BY <1>1 DEF Lazy!Top
<1> QED BY <1>1, <1>2, FrameTypes

(* The names of a stack.                                                   *)
LEMMA ActiveNames ==
    ASSUME LazyInv, NEW l \in Loaders
    PROVE  /\ Lazy!Active(l) = {walk[l][n].name : n \in 1..Len(walk[l])}
           /\ Lazy!Active(l) \cap registered[l] = {}
<1>1. walk[l] \in Seq(Frames)
  BY DEF LazyInv, LazyTypes
<1>2. Lazy!Active(l) = {walk[l][n].name : n \in 1..Len(walk[l])}
  BY <1>1 DEF Lazy!Active
<1>3. StackIs(walk[l], registered[l], target[l], Linked(l))
  BY DEF LazyInv, Loading, Stack
<1> QED BY <1>2, <1>3 DEF StackIs

(* The module on top, import m of it, the instance, and the new stack.     *)
ImportStep(l, top, m, i, e, t) ==
    /\ loading[l] = "register" /\ walk[l] # <<>>
    /\ top = Lazy!Top(walk[l]) /\ top.left # <<>>
    /\ m = Head(top.left).of /\ i = Lazy!Found(l, m)
    /\ e = [top EXCEPT !.left = Tail(@)] /\ t = Append(Lazy!Popped(walk[l]), e)
    /\ walk' = [walk EXCEPT ![l] = t]
    /\ links' = [links EXCEPT ![Lazy!Instance(l, top.name)] =
                    [x \in DOMAIN @ \cup {m} |-> IF x = m THEN i ELSE @[x]]]
    /\ UNCHANGED <<modules, loading, target, registered, result>>

LEMMA ImportTakes ==
    ASSUME LazyInv, NEW l \in Loaders, NEW top, NEW m, NEW i, NEW e, NEW t,
           ImportStep(l, top, m, i, e, t)
    PROVE  Keeps(l)
<1> DEFINE s == walk[l]
           p == Len(s)
<1>1. /\ s \in Seq(Frames) /\ p \in Nat /\ p \in 1..p /\ top = s[p]
      /\ top \in Frames
      /\ top.name \in Lazies /\ top.left \in Seq(Asks) /\ top.left # <<>>
  BY TopIs DEF ImportStep
<1>2. m \in Lazies /\ Tail(top.left) \in Seq(Asks)
  BY <1>1, TailAsks DEF Asks, ImportStep
<1>3. e \in Frames /\ e.name = top.name
  BY <1>1, <1>2 DEF Frames, ImportStep
<1>4. /\ t \in Seq(Frames) /\ Len(t) = p /\ t[p] = e
      /\ \A n \in 1..(p - 1) : t[n] = s[n]
  <2>1. t = Append(Lazy!Popped(s), e) /\ s # <<>>
    BY DEF ImportStep
  <2> HIDE DEF s
  <2> QED BY <1>1, <1>3, <2>1, Replaced
<1>5. \E o \in Makers : i = Lazy!Instance(o, m) /\ (o = l \/ Settled(o))
  BY <1>2, FoundIs DEF ImportStep
<1>6. Takes(l, p, t, top, m, i)
  BY <1>1, <1>4, <1>5 DEF Takes, ImportStep
<1>7. t[p].name = s[p].name
  BY <1>1, <1>3, <1>4
<1>7a. {t[n].name : n \in DOMAIN t} = {s[n].name : n \in 1..p}
  <2> HIDE DEF s
  <2>1. p \in 1..Len(s)
    BY <1>1
  <2> HIDE DEF p
  <2> QED BY <1>1, <1>4, <1>7, <2>1, SameNames
<1>8. walk'[l] = t
  BY DEF LazyInv, LazyTypes, ImportStep
<1>9. Lazy!Active(l)' = Lazy!Active(l)
  <2>1. Lazy!Active(l) = {s[n].name : n \in 1..p}
    BY ActiveNames
  <2>2. Lazy!Active(l)' = {t[n].name : n \in DOMAIN t}
    BY <1>8 DEF Lazy!Active
  <2> QED BY <1>7a, <2>1, <2>2
<1>10. \A n \in 1..p : s[n].name \notin registered[l]
  BY ActiveNames
<1>11. registered' \in [Loaders -> SUBSET Lazies]
       /\ \A n \in registered[l] : DOMAIN links[Lazy!Instance(l, n)] = AskedNames(n)
       /\ registered' = registered
  BY DEF LazyInv, LazyTypes, Loading, Graph, ImportStep
<1>12. GraphGrows(l, p)
  BY <1>9, <1>10, <1>11 DEF GraphGrows, ImportStep
<1> QED BY <1>6, <1>12, TakesKeeps

LEMMA ImportEnters ==
    ASSUME LazyInv, NEW l \in Loaders, NEW m,
           loading[l] = "register", walk[l] # <<>>, Lazy!Top(walk[l]).left # <<>>,
           m = Head(Lazy!Top(walk[l]).left).of,
           m \notin registered[l] \cup Lazy!Active(l),
           walk' = [walk EXCEPT ![l] = Append(@, Lazy!Entered(m))],
           UNCHANGED <<modules, loading, target, registered, links, result>>
    PROVE  Keeps(l)
<1> DEFINE s == walk[l]
           p == Len(s)
           dom == Linked(l)
<1>a. PICK t : t = Append(s, Lazy!Entered(m))
  OBVIOUS
<1>1. /\ s \in Seq(Frames) /\ p \in Nat /\ p \in 1..p /\ Lazy!Top(s) = s[p]
      /\ Lazy!Top(s).left \in Seq(Asks)
  BY TopIs
<1>2. m \in Lazies
  BY <1>1, TailAsks DEF Asks
<1>3. /\ Lazy!Entered(m) \in Frames /\ Lazy!Entered(m).name = m
      /\ Of(Lazy!Entered(m).left) = AskedNames(m)
  BY <1>2, EnteredIs DEF LazyInv
<1>4. /\ t \in Seq(Frames) /\ Len(t) = p + 1 /\ t[p + 1] = Lazy!Entered(m)
      /\ \A n \in 1..p : t[n] = s[n]
  <2>1. s \in Seq(Frames) /\ Lazy!Entered(m) \in Frames
    BY <1>1, <1>3
  <2> HIDE DEF s
  <2> QED BY <1>a, <2>1, Pushed
<1>5. walk' = [walk EXCEPT ![l] = t] /\ walk'[l] = t
  BY <1>a DEF LazyInv, LazyTypes
<1>6. LazyTypes' /\ Confined(l)
  BY <1>4, <1>5 DEF LazyInv, LazyTypes, Confined
<1>7. Lazy!Active(l)' = Lazy!Active(l) \cup {m}
  <2>1. DOMAIN t = 1..(p + 1) /\ DOMAIN s = 1..p
    BY <1>1, <1>4
  <2>2. p \in Nat
    BY <1>1
  <2>3. /\ \A n \in 1..(p + 1) : n \in 1..p \/ n = p + 1
        /\ \A n \in 1..p : n \in 1..(p + 1)
        /\ p + 1 \in 1..(p + 1)
    BY ONLY <2>2
  <2>4. \A n \in 1..p : t[n].name = s[n].name
    BY <1>4
  <2>5. t[p + 1].name = m
    BY <1>3, <1>4
  <2> HIDE DEF s, p
  <2>6. {t[n].name : n \in DOMAIN t} = {s[n].name : n \in DOMAIN s} \cup {m}
    BY <2>1, <2>3, <2>4, <2>5
  <2> QED BY <1>5, <2>6 DEF Lazy!Active, s
<1>8. Graph(l) /\ StackIs(s, registered[l], target[l], dom)
  BY DEF LazyInv, Loading, Stack
<1>9. OwnOrSettled(l)'
  BY <1>6, <1>8, SettledStays DEF Graph, OwnOrSettled
<1>10. Graph(l)'
  BY <1>7, <1>8, <1>9 DEF Graph
<1>11. dom[m] = {} /\ Linked(l)' = dom
  BY <1>2, <1>8 DEF Graph, Linked
<1>12. Lazy!Active(l) = {s[n].name : n \in 1..p}
  BY ActiveNames
<1> HIDE DEF s, dom
<1>13. StackIs(t, registered[l], target[l], dom)
  <2>1. ASSUME NEW n \in 1..(p + 1)
        PROVE  /\ dom[t[n].name] \cup Of(t[n].left) = AskedNames(t[n].name)
               /\ t[n].name \notin registered[l]
    <3>1. CASE n = p + 1
      BY <1>3, <1>4, <1>11, <3>1
    <3>2. CASE n # p + 1
      <4>1. n \in 1..p /\ t[n] = s[n]
        BY <1>1, <1>4, <3>2
      <4> QED BY <1>8, <4>1 DEF StackIs
    <3> QED BY <3>1, <3>2
  <2>2. ASSUME NEW n \in 1..(p + 1), NEW k \in 1..(p + 1), t[n].name = t[k].name
        PROVE  n = k
    <3>1. \A j \in 1..(p + 1) : j = p + 1 \/ (j \in 1..p /\ t[j] = s[j])
      BY <1>1, <1>4
    <3>2. \A j \in 1..p : s[j].name # m
      BY <1>12
    <3>3. CASE n \in 1..p /\ k \in 1..p
      BY <1>8, <2>2, <3>3, <1>4 DEF StackIs
    <3> QED BY <1>3, <1>4, <2>2, <3>1, <3>2, <3>3
  <2>3. ASSUME NEW n \in 1..p
        PROVE  t[n].left # <<>> /\ Head(t[n].left).of = t[n + 1].name
    <3>1. CASE n = p
      BY <1>1, <1>3, <1>4, <3>1 DEF s
    <3>2. CASE n # p
      <4>1. n \in 1..(p - 1) /\ n + 1 \in 1..p /\ t[n] = s[n] /\ t[n + 1] = s[n + 1]
        BY <1>1, <1>4, <3>2
      <4> QED BY <1>8, <4>1 DEF StackIs
    <3> QED BY <3>1, <3>2
  <2>4. t[1].name = target[l]
    <3>1. 1 \in 1..p /\ s # <<>>
      BY <1>1 DEF s
    <3> QED BY <1>4, <1>8, <3>1 DEF StackIs
  <2>5. Len(t) - 1 = p
    BY <1>1, <1>4
  <2> QED BY <1>4, <2>1, <2>2, <2>3, <2>4, <2>5 DEF StackIs
<1>14. Stack(l)'
  BY <1>5, <1>11, <1>13 DEF Stack
<1>15. Progress(l)'
  <2>1. t # <<>>
    BY <1>1, <1>4
  <2> QED BY <1>5, <2>1 DEF Progress, LazyInv, Loading
<1> QED BY <1>6, <1>10, <1>14, <1>15 DEF Keeps, Loading

LEMMA ImportKeeps ==
    ASSUME LazyInv, NEW l \in Loaders, Lazy!Import(l) PROVE Keeps(l)
<1> DEFINE top == Lazy!Top(walk[l])
           m == Head(top.left).of
           e == [top EXCEPT !.left = Tail(@)]
           rest == Append(Lazy!Popped(walk[l]), e)
           i == Lazy!Found(l, m)
           known == m \in DOMAIN modules \cup registered[l]
<1>1. /\ loading[l] = "register" /\ walk[l] # <<>> /\ top.left # <<>>
      /\ UNCHANGED <<modules, target, registered, result>>
  BY DEF Lazy!Import
<1>2. CASE known \/ (m \in Lazy!Active(l) /\ Head(top.left).forward)
  <2>1. /\ walk' = [walk EXCEPT ![l] = rest]
        /\ links' = [links EXCEPT ![Lazy!Instance(l, top.name)] =
                       [x \in DOMAIN @ \cup {m} |-> IF x = m THEN i ELSE @[x]]]
        /\ UNCHANGED loading
    BY <1>2 DEF Lazy!Import
  <2> HIDE DEF top, m, e, rest, i
  <2>2. /\ top = Lazy!Top(walk[l]) /\ m = Head(top.left).of /\ i = Lazy!Found(l, m)
        /\ e = [top EXCEPT !.left = Tail(@)]
        /\ rest = Append(Lazy!Popped(walk[l]), e)
    BY DEF top, m, e, rest, i
  <2>3. ImportStep(l, top, m, i, e, rest)
    BY <1>1, <2>1, <2>2 DEF ImportStep
  <2> QED BY <2>3, ImportTakes
<1>3. CASE ~known /\ m \in Lazy!Active(l) /\ ~Head(top.left).forward
  <2>1. loading' = [loading EXCEPT ![l] = "failed"] /\ UNCHANGED <<walk, links>>
    BY <1>3 DEF Lazy!Import, Lazy!Goto
  <2>2. Lazy!Fail(l)
    BY <1>1, <2>1 DEF Lazy!Fail, Lazy!Goto
  <2> QED BY <2>2, FailKeeps
<1>4. CASE ~known /\ m \notin Lazy!Active(l)
  <2>1. walk' = [walk EXCEPT ![l] = Append(@, Lazy!Entered(m))]
          /\ UNCHANGED <<loading, links>>
    BY <1>4 DEF Lazy!Import
  <2> QED BY <1>1, <1>4, <2>1, ImportEnters
<1> QED BY <1>2, <1>3, <1>4

LEMMA RegisterKeeps ==
    ASSUME LazyInv, NEW l \in Loaders, Lazy!Register(l) PROVE Keeps(l)
<1> DEFINE s == walk[l]
           p == Len(s)
<1>a. PICK top, parent :
         top = Lazy!Top(s) /\ parent = IF Len(s) > 1
             THEN Lazy!Top(Lazy!Popped(s)) ELSE top
  OBVIOUS
<1>b. /\ loading[l] = "register" /\ s # <<>> /\ top.left = <<>>
      /\ registered' = [registered EXCEPT ![l] = @ \cup {top.name}]
      /\ UNCHANGED <<modules, target, result>>
      /\ IF parent = top
         THEN /\ walk' = [walk EXCEPT ![l] = <<>>]
              /\ loading' = [loading EXCEPT ![l] = "initialize"] /\ UNCHANGED links
         ELSE /\ walk' = [walk EXCEPT ![l] =
                    Append(Lazy!Popped(Lazy!Popped(@)),
                           [parent EXCEPT !.left = Tail(@)])]
              /\ links' = [links EXCEPT ![Lazy!Instance(l, parent.name)] =
                    [i \in DOMAIN @ \cup {top.name} |->
                       IF i = top.name THEN Lazy!Instance(l, i) ELSE @[i]]]
              /\ UNCHANGED loading
  BY <1>a DEF Lazy!Register, Lazy!Registered, Lazy!Goto
<1>1. /\ s \in Seq(Frames) /\ p \in Nat /\ p \in 1..p /\ top = s[p]
      /\ top.name \in Lazies
  BY <1>a, <1>b, TopIs
<1>2. StackIs(s, registered[l], target[l], Linked(l)) /\ Graph(l)
  BY DEF LazyInv, Loading, Stack
<1>3. Lazy!Active(l) = {s[n].name : n \in 1..p}
  BY ActiveNames
<1>4. DOMAIN links[Lazy!Instance(l, top.name)] = AskedNames(top.name)
  <2>1. Of(top.left) = {}
    BY <1>b DEF Of
  <2>2. Linked(l)[top.name] \cup Of(top.left) = AskedNames(top.name)
    BY <1>1, <1>2 DEF StackIs
  <2> QED BY <1>1, <2>1, <2>2 DEF Linked
<1>5. /\ registered' \in [Loaders -> SUBSET Lazies]
      /\ registered'[l] = registered[l] \cup {top.name}
      /\ \A k \in Loaders \ {l} : registered'[k] = registered[k]
  BY <1>b, <1>1 DEF LazyInv, LazyTypes
<1>6. \A m \in registered'[l] : DOMAIN links[Lazy!Instance(l, m)] = AskedNames(m)
  BY <1>2, <1>4, <1>5 DEF Graph
<1>7. CASE p = 1
  <2>1. parent = top
    BY <1>a, <1>7
  <2>2. /\ walk' = [walk EXCEPT ![l] = <<>>]
        /\ loading' = [loading EXCEPT ![l] = "initialize"] /\ links' = links
    BY <1>b, <2>1
  <2>3. <<>> \in Seq(Frames)
    OBVIOUS
  <2>4. LazyTypes' /\ Confined(l)
    BY <1>b, <1>5, <2>2, <2>3 DEF LazyInv, LazyTypes, Confined
  <2>5. walk'[l] = <<>> /\ loading'[l] = "initialize"
    BY <2>2 DEF LazyInv, LazyTypes
  <2>6. target[l] = top.name
    BY <1>b, <1>1, <1>2, <1>7 DEF StackIs
  <2>7. Progress(l)'
    BY <1>b, <1>1, <1>5, <2>5, <2>6 DEF Progress
  <2>8. Stack(l)'
    BY <2>5, EmptyStack DEF Stack
  <2>9. Lazy!Active(l)' = {} /\ Lazy!Active(l) = {top.name}
    BY <1>1, <1>3, <1>7, <2>5 DEF Lazy!Active
  <2>10. OwnOrSettled(l)'
    BY <1>2, <2>2, <2>4, SettledStays DEF Graph, OwnOrSettled
  <2>11. Graph(l)'
    BY <1>2, <1>5, <1>6, <2>2, <2>9, <2>10 DEF Graph
  <2> QED BY <1>b, <1>5, <2>4, <2>7, <2>8, <2>11 DEF Keeps, Loading
<1>8. CASE p > 1
  <2> DEFINE q == p - 1
             t ==
                 Append(Lazy!Popped(Lazy!Popped(s)),
                        [parent EXCEPT !.left = Tail(@)])
             i == Lazy!Instance(l, top.name)
  <2>1. q \in 1..p /\ q \in Nat /\ q + 1 = p /\ q \in 1..(p - 1) /\ q # p
    BY <1>1, <1>8
  <2>2. Lazy!Popped(s) \in Seq(Frames) /\ Len(Lazy!Popped(s)) = q
          /\ \A n \in 1..q : Lazy!Popped(s)[n] = s[n]
    BY <1>b, <1>1, FrontIs
  <2>3. parent = s[q]
    BY <1>a, <1>8, <2>1, <2>2 DEF Lazy!Top
  <2>4. parent.left # <<>> /\ Head(parent.left).of = top.name
    BY <1>1, <1>2, <2>1, <2>3 DEF StackIs
  <2>5. parent.name # top.name
    BY <1>1, <1>2, <2>1, <2>3 DEF StackIs
  <2>6. parent \in Frames /\ parent.left \in Seq(Asks)
    BY <1>1, <2>1, <2>3, FrameTypes
  <2>7. [parent EXCEPT !.left = Tail(@)] \in Frames
        /\ [parent EXCEPT !.left = Tail(@)].name = parent.name
    BY <2>4, <2>6, TailAsks DEF Frames
  <2> DEFINE e == [parent EXCEPT !.left = Tail(@)]
  <2>8. /\ t \in Seq(Frames) /\ Len(t) = q /\ t[q] = e
        /\ \A n \in 1..(q - 1) : t[n] = s[n]
    <3>1. e \in Frames
      BY <2>7
    <3>2. q - 1 = p - 2
      BY <1>1
    <3> HIDE DEF e
    <3> QED BY <1>1, <1>8, <3>1, <3>2, Shortened DEF e
  <2>9. /\ walk' = [walk EXCEPT ![l] = t]
        /\ links' = [links EXCEPT ![Lazy!Instance(l, parent.name)] =
              [x \in DOMAIN @ \cup {top.name} |-> IF x = top.name THEN i ELSE @[x]]]
        /\ UNCHANGED loading
    BY <1>b, <2>5
  <2>10. \E o \in Makers : i = Lazy!Instance(o, top.name) /\ (o = l \/ Settled(o))
    BY DEF Makers
  <2>e. e = [parent EXCEPT !.left = Tail(@)] /\ e.name = parent.name
    BY <2>7
  <2>m. PICK m : m = top.name
    OBVIOUS
  <2> HIDE DEF q, t, i, e
  <2>9a. links' = [links EXCEPT ![Lazy!Instance(l, parent.name)] =
              [x \in DOMAIN @ \cup {m} |-> IF x = m THEN i ELSE @[x]]]
    BY <2>9, <2>m
  <2>11. Takes(l, q, t, parent, m, i)
    BY <1>1, <2>1, <2>3, <2>4, <2>8, <2>9, <2>9a, <2>10, <2>e, <2>m DEF Takes
  <2>12. \A n \in 1..q : s[n].name \notin registered'[l]
    <3>1. ASSUME NEW n \in 1..q PROVE n \in 1..p /\ n # p
      BY <1>1, <2>1
    <3> QED BY <1>1, <1>2, <1>5, <3>1 DEF StackIs
  <2>13. registered[l] \cup Lazy!Active(l) \subseteq registered'[l]
           \cup Lazy!Active(l)'
    <3>0. t[q].name = s[q].name
      BY <2>3, <2>8, <2>e
    <3>1. {t[n].name : n \in DOMAIN t} = {s[n].name : n \in 1..q}
      <4> HIDE DEF s
      <4>1. q \in 1..Len(s)
        BY <2>1
      <4> QED BY <1>1, <2>1, <2>8, <3>0, <4>1, SameNames
    <3>2. walk'[l] = t
      BY <2>9 DEF LazyInv, LazyTypes
    <3>3. Lazy!Active(l)' = {s[n].name : n \in 1..q}
      BY <3>1, <3>2 DEF Lazy!Active
    <3>4. \A n \in 1..p : n = p \/ n \in 1..q
      BY <1>1, <2>1
    <3> QED BY <1>1, <1>3, <1>5, <3>3, <3>4
  <2>14. GraphGrows(l, q)
    BY <1>b, <1>5, <1>6, <2>9, <2>12, <2>13 DEF GraphGrows
  <2> HIDE DEF s, p
  <2> QED BY <2>11, <2>14, TakesKeeps
<1> HIDE DEF s, p
<1>9. p \in Nat /\ p \in 1..p
  BY <1>1
<1>10. p = 1 \/ p > 1
  BY ONLY <1>9
<1> QED BY <1>7, <1>8, <1>10

-----------------------------------------------------------------------------
(* Every step.                                                             *)

LEMMA LazyBegins == ASSUME LazyGiven, Lazy!Init PROVE LazyInv
<1>1. PICK eager \in EagerSets :
        /\ modules = [m \in eager |-> Lazy!Instance(Lazy!Eager, m)]
        /\ links = [i \in Lazy!Instances |->
                      IF i[1] = Lazy!Eager /\ i[2] \in eager
                      THEN [m \in {Lazy!Asked(i[2])[n].of : n \in DOMAIN Lazy!Asked(i[2])}
                              |-> Lazy!Instance(Lazy!Eager, m)]
                      ELSE <<>>]
        /\ loading = [l \in Loaders |-> "idle"]
        /\ target = [l \in Loaders |-> NoValue]
        /\ walk = [l \in Loaders |-> <<>>]
        /\ registered = [l \in Loaders |-> {}]
        /\ result = [l \in Loaders |-> NoValue]
  BY DEF Lazy!Init
<1>2. eager \subseteq Lazies /\ DOMAIN modules = eager
  BY <1>1 DEF LazyGiven
<1>3. LazyTypes
  BY <1>1, <1>2 DEF LazyTypes
<1>4. ASSUME NEW m \in DOMAIN modules PROVE CachedBy(m, Lazy!Eager)
  <2>1. m \in eager /\ m \in Lazies /\ modules[m] = Lazy!Instance(Lazy!Eager, m)
    BY <1>1, <1>2, <1>4
  <2>2. Lazy!Instance(Lazy!Eager, m) \in Lazy!Instances
          /\ Lazy!Instance(Lazy!Eager, m)[1] = Lazy!Eager
        /\ Lazy!Instance(Lazy!Eager, m)[2] = m
    BY <2>1, InstanceOf DEF Makers, Lazy!Instance
  <2>3. links[modules[m]] = [k \in AskedNames(m) |-> Lazy!Instance(Lazy!Eager, k)]
    BY <1>1, <2>1, <2>2 DEF AskedNames, Of
  <2> QED BY <2>1, <2>3 DEF CachedBy, Settled
<1>5. ASSUME NEW l \in Loaders PROVE Loading(l)
  <2>1. /\ loading[l] = "idle" /\ walk[l] = <<>> /\ registered[l] = {}
    BY <1>1
  <2>2. ASSUME NEW m \in Lazies PROVE DOMAIN links[Lazy!Instance(l, m)] = {}
    <3>1. Lazy!Instance(l, m) \in Lazy!Instances /\ Lazy!Instance(l, m)[1] = l
            /\ l # Lazy!Eager
      BY InstanceOf DEF Makers, LazyGiven
    <3>2. links[Lazy!Instance(l, m)] = <<>>
      BY <1>1, <3>1
    <3> QED BY <3>2
  <2>3. Graph(l)
    BY <2>1, <2>2 DEF Graph, OwnOrSettled
  <2>4. Stack(l)
    BY <2>1, EmptyStack DEF Stack
  <2>5. Progress(l)
    BY <2>1 DEF Progress
  <2> QED BY <2>3, <2>4, <2>5 DEF Loading
<1> QED BY <1>3, <1>4, <1>5 DEF LazyInv, Cached, Makers

LEMMA LazyNext == ASSUME LazyInv, [Lazy!Next]_LazyVars PROVE LazyInv'
<1>1. ASSUME NEW l \in Loaders,
             \/ \E m \in Lazies : Lazy!Load(l, m)
             \/ Lazy!Import(l) \/ Lazy!Register(l) \/ Lazy!Fail(l)
             \/ Lazy!Initialize(l)
             \/ Lazy!CacheModules(l) \/ Lazy!Return(l)
      PROVE  LazyInv'
  <2>1. Keeps(l)
    BY <1>1, LoadKeeps, ImportKeeps, RegisterKeeps, FailKeeps, CacheKeeps,
       ReturnKeeps
  <2> QED BY <2>1, KeepsInv
<1>2. CASE UNCHANGED LazyVars
  <2>1. ASSUME NEW l \in Loaders PROVE Loading(l)'
    <3>1. Stack(l)' /\ Graph(l)' /\ Progress(l)'
      BY <1>2
         DEF LazyVars, LazyInv, Loading, Stack, Linked, Graph, OwnOrSettled,
             Settled, Progress, Lazy!Active
    <3> QED BY <3>1 DEF Loading
  <2>2. LazyTypes'
    BY <1>2 DEF LazyVars, LazyInv, LazyTypes
  <2>3. Cached'
    BY <1>2 DEF LazyVars, LazyInv, Cached, CachedBy, Settled
  <2> QED BY <2>1, <2>2, <2>3 DEF LazyInv, LazyGiven
<1> QED BY <1>1, <1>2 DEF Lazy!Next

LEMMA LazyAlways == ASSUME LazyGiven PROVE PartsSpec => [](part = "lazy" => LazyInv)
<1>1. Lazy!Init => LazyInv
  BY LazyBegins
<1>2. PartsInit => (part = "lazy" => LazyInv)
  BY <1>1, PartsBegin
<1>3. (part = "lazy" => LazyInv) /\ [PartsNext]_parts => (part = "lazy" => LazyInv)'
  BY LazyNext, PartsStep
<1> QED BY <1>2, <1>3, PTL DEF PartsSpec

(* All who load a module get the instance that was cached first, whoever   *)
(* initialized more of them meanwhile, and a cached module has all its     *)
(* imports, none of them of a load that failed or is under way (load_arc,  *)
(* register_arc_inner, cache_modules).                                     *)
THEOREM OneInstancePerName == ASSUME LazyGiven PROVE PartsSpec => []OneModulePerName
<1>1. ASSUME LazyInv PROVE Lazy!OneModulePerName
  <2>1. ASSUME NEW l \in Loaders, NEW k \in Loaders,
               loading[l] = "loaded", loading[k] = "loaded", target[l] = target[k]
        PROVE  result[l] = result[k]
    BY <1>1, <2>1 DEF LazyInv, Loading, Progress
  <2>2. ASSUME NEW m \in DOMAIN modules
        PROVE  /\ DOMAIN links[modules[m]]
                    = {Lazy!Asked(m)[n].of : n \in DOMAIN Lazy!Asked(m)}
               /\ \A i \in DOMAIN links[modules[m]] :
                     \/ links[modules[m]][i][1] = Lazy!Eager
                     \/ loading[links[modules[m]][i][1]] \in {"return", "loaded"}
    <3>1. PICK o \in Makers : CachedBy(m, o)
      BY <1>1 DEF LazyInv, Cached
    <3>2. m \in Lazies
      BY <1>1 DEF LazyInv, LazyTypes
    <3>3. CASE o = Lazy!Eager
      BY <3>1, <3>3, InstanceOf DEF CachedBy, AskedNames, Of
    <3>4. CASE o # Lazy!Eager
      <4>1. o \in Loaders /\ m \in registered[o]
              /\ modules[m] = Lazy!Instance(o, m) /\ Settled(o)
        BY <3>1, <3>4 DEF CachedBy, Makers
      <4>2. Graph(o)
        BY <1>1, <4>1 DEF LazyInv, Loading
      <4>3. ASSUME NEW i \in DOMAIN links[Lazy!Instance(o, m)]
            PROVE  \/ links[Lazy!Instance(o, m)][i][1] = Lazy!Eager
                   \/ loading[links[Lazy!Instance(o, m)][i][1]] \in {"return",
                                                                     "loaded"}
        <5>1. PICK q \in Makers :
                     links[Lazy!Instance(o, m)][i] = Lazy!Instance(q, i)
                         /\ (q = o \/ Settled(q))
          BY <3>2, <4>2 DEF Graph, OwnOrSettled
        <5> QED BY <4>1, <5>1, InstanceOf DEF Settled
      <4> QED BY <4>1, <4>2, <4>3 DEF Graph, AskedNames, Of
    <3> QED BY <3>3, <3>4
  <2> QED BY <2>1, <2>2 DEF Lazy!OneModulePerName
<1>2. (part = "lazy" => LazyInv) => OneModulePerName
  BY <1>1 DEF OneModulePerName
<1> QED BY <1>2, LazyAlways, PTL
=============================================================================
