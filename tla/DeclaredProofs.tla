--------------------------- MODULE DeclaredProofs ----------------------------
(***************************************************************************)
(* What Components promises of what an application declares beside what    *)
(* requests meet, for all values of its constants: the jobs of its         *)
(* scheduler and the document of its routes.  The sections are like those  *)
(* of ComponentProofs, whose lemmas they use.                              *)
(***************************************************************************)
EXTENDS ComponentProofs

-----------------------------------------------------------------------------
(* The scheduler.                                                          *)

(* None is no number, and finitely many jobs are registered on module init. *)
SchedulerGiven == NoValue \notin Nat /\ IsFiniteSet(InitialJobs)

Scheduling == {"inserted", "spawning", "failed"}
Starting == {"starting", "spawning"}
Stopping == {"stopping", "aborting", "awaiting"}

Spawned == Cardinality(DOMAIN spawned)

(* The model counts with FiniteSets, as the theorems about it do.          *)
LEMMA SchedulerCounts ==
    /\ \A S : Schedule!Cardinality(S) = Cardinality(S)
    /\ \A S : Schedule!IsFiniteSet(S) <=> IsFiniteSet(S)
<1>1. \A S : Schedule!Cardinality(S) = Cardinality(S)
  BY DEF Schedule!Cardinality, Cardinality
<1>2. \A S : Schedule!IsFiniteSet(S) <=> IsFiniteSet(S)
  BY DEF Schedule!IsFiniteSet, IsFiniteSet
<1> QED BY <1>1, <1>2

TaskTypes ==
    /\ Spawned \in Nat /\ spawned \in [1..Spawned -> Schedule!Task]
    /\ handles \in [JobNames -> 1..Spawned \cup {NoValue}]
    /\ \A n \in JobNames : handles[n] # NoValue => spawned[handles[n]].name = n

JobTypes ==
    /\ registrations \in Nat /\ jobs \in [JobNames -> Nat \cup {NoValue}]
    /\ \A n \in JobNames : jobs[n] # NoValue => jobs[n] <= registrations
    /\ \A m, n \in JobNames : jobs[m] # NoValue /\ jobs[m] = jobs[n] => m = n

CallTypes ==
    /\ taken \in [Schedule!ClientOps -> Nat] /\ stops \in Nat
    /\ client = [c \in Clients |-> client[c]]
    /\ \A c \in Clients :
          /\ client[c].at \in Scheduling =>
                /\ client[c].name \in JobNames /\ client[c].job \in Nat
                /\ client[c].at = "spawning" => client[c].period \in Nat
                /\ "schedule" \in Schedule!Called
          /\ client[c].at = "removed" =>
                client[c].names \subseteq JobNames
                    /\ Schedule!Called \cap {"remove", "clear"} # {}

LifecycleTypes ==
    /\ starts \in Nat /\ starter \in Nat \cup {NoValue}
    /\ cycle.at \in {"idle"} \cup Starting \cup Stopping
    /\ cycle.at \in Starting => starter # NoValue
    /\ cycle.at \in Stopping => starter = NoValue /\ stops > 0
    /\ cycle.at = "spawning" =>
          /\ cycle \in [at : {"spawning"}, period : Nat,
                        todo : SUBSET [name : JobNames, job : Nat]]
          /\ cycle.period = starter
    /\ cycle.at \in {"aborting", "awaiting"} => cycle.todo \subseteq 1..Spawned

SchedulerTypes == TaskTypes /\ JobTypes /\ CallTypes /\ LifecycleTypes

(* A one-shot job runs at the end of its task's one sleep.                 *)
TimeoutRuns(T) ==
    \A t \in DOMAIN T :
        T[t].name \in OneShots =>
               T[t].runs <= 1
                   /\ (T[t].state \in {"sleeping", "polled"} => T[t].runs = 0)

(* Shutdown awaits each task that it stops before it goes on.              *)
Awaited ==
    \A t \in DOMAIN spawned :
        Schedule!Alive(t) /\ spawned[t].aborted = "stopped" =>
            cycle.at = "awaiting" /\ cycle.task = t

(* Nothing but schedule was called, or anything but schedule.              *)
OnlyScheduled == Schedule!Called \subseteq {"schedule"} /\ stops = 0
Orderly == OnlyScheduled \/ "schedule" \notin Schedule!Called

NoHandles ==
    Orderly /\ starter = NoValue /\ cycle.at # "stopping" =>
        \A n \in JobNames : handles[n] = NoValue

(* What will spawn the job n, or has found that it cannot.                 *)
Responsible(n) ==
    \/ handles[n] # NoValue
    \/ cycle.at = "starting"
    \/ cycle.at = "spawning" /\ \E x \in cycle.todo : x.name = n
    \/ \E c \in Clients : client[c].at \in Scheduling /\ client[c].name = n

Runs(t, j) == spawned[t].job = j /\ spawned[t].period = starter
    /\ spawned[t].aborted = "no"

JobsSpawned ==
    Orderly /\ starter # NoValue =>
        \A n \in JobNames : jobs[n] # NoValue =>
            Responsible(n) /\ (handles[n] # NoValue => Runs(handles[n], jobs[n]))

(* Who is about to spawn a job knows it by the number that is registered.  *)
NumbersKnown ==
    Orderly =>
        /\ cycle.at = "spawning" =>
              \A x \in cycle.todo : jobs[x.name] \in {x.job, NoValue}
        /\ \A c \in Clients :
              /\ client[c].at \in Scheduling => jobs[client[c].name] = client[c].job
              /\ client[c].at = "removed"
                   => \A n \in client[c].names : jobs[n] = NoValue
              /\ client[c].at \in {"spawning", "failed"} => starter # NoValue
              /\ client[c].at = "spawning" => client[c].period = starter

(* Without a remove or a shutdown every task keeps its handle.             *)
TasksKept ==
    OnlyScheduled =>
        /\ \A t \in DOMAIN spawned :
              /\ handles[spawned[t].name] = t
              /\ jobs[spawned[t].name] = spawned[t].job
        /\ cycle.at = "spawning" => \A x \in cycle.todo : jobs[x.name] = x.job

SchedulerInv ==
    /\ SchedulerGiven /\ SchedulerTypes
    /\ TimeoutRuns(spawned) /\ Schedule!Tracked /\ Awaited
    /\ NoHandles /\ JobsSpawned /\ NumbersKnown /\ TasksKept

-----------------------------------------------------------------------------
(* Calls are counted up: what was orderly after a call was so before.      *)
LEMMA OrderlyBefore ==
    ASSUME taken \in [Schedule!ClientOps -> Nat], stops \in Nat,
           stops <= stops', stops' \in Nat,
           taken' \in [Schedule!ClientOps -> Nat],
           \A op \in Schedule!ClientOps : taken[op] <= taken'[op]
    PROVE  /\ Schedule!Called \subseteq Schedule!Called'
           /\ OnlyScheduled' => OnlyScheduled
           /\ Orderly' => Orderly
<1>1. Schedule!Called \subseteq Schedule!Called'
  BY DEF Schedule!Called
<1>2. OnlyScheduled' => OnlyScheduled
  BY <1>1 DEF OnlyScheduled
<1> QED BY <1>1, <1>2 DEF Orderly

LEMMA SpawnedIs ==
    ASSUME TaskTypes PROVE DOMAIN spawned = 1..Spawned
BY DEF TaskTypes

LEMMA TaskIs ==
    ASSUME TaskTypes, SchedulerGiven, NEW t \in DOMAIN spawned
    PROVE  t \in 1..Spawned /\ t # NoValue /\ spawned[t].name \in JobNames
             /\ spawned[t].job \in Nat
<1>1. t \in 1..Spawned /\ t \in Nat /\ spawned[t] \in Schedule!Task
  BY SpawnedIs DEF TaskTypes
<1>2. t # NoValue
  BY <1>1 DEF SchedulerGiven
<1> QED BY <1>1, <1>2 DEF Schedule!Task

(* spawn_job: a new task with a handle, or nothing if there is one.        *)
LEMMA SpawnIs ==
    ASSUME TaskTypes, SchedulerGiven, NEW n \in JobNames, NEW j \in Nat,
           NEW p \in Nat,
           Schedule!Spawn(n, j, p)
    PROVE  \/ handles[n] # NoValue /\ UNCHANGED <<spawned, handles>>
           \/ /\ handles[n] = NoValue /\ Spawned' = Spawned + 1
              /\ spawned' \in [1..(Spawned + 1) -> Schedule!Task]
              /\ DOMAIN spawned' = 1..(Spawned + 1) /\ DOMAIN spawned = 1..Spawned
              /\ spawned'[Spawned + 1] = Schedule!NewTask(n, j, p)
              /\ \A t \in DOMAIN spawned : spawned'[t] = spawned[t]
              /\ handles' = [handles EXCEPT ![n] = Spawned + 1]
<1>1. CASE handles[n] # NoValue
  BY <1>1, SchedulerCounts DEF Schedule!Spawn
<1>2. CASE handles[n] = NoValue
  <2>1. /\ Spawned \in Nat /\ DOMAIN spawned = 1..Spawned
        /\ spawned' = [t \in 1..(Spawned + 1) |->
                          IF t \in DOMAIN spawned THEN spawned[t]
                              ELSE Schedule!NewTask(n, j, p)]
        /\ handles' = [handles EXCEPT ![n] = Spawned + 1]
    BY <1>2, SchedulerCounts DEF Schedule!Spawn, TaskTypes, Spawned
  <2>2. Schedule!NewTask(n, j, p) \in Schedule!Task
    BY DEF Schedule!NewTask, Schedule!Task
  <2>3. DOMAIN spawned' = 1..(Spawned + 1)
    BY <2>1
  <2>4. Cardinality(1..(Spawned + 1)) = Spawned + 1
    BY <2>1, FS_Interval
  <2>5. Spawned' = Spawned + 1
    BY <2>3, <2>4 DEF Spawned
  <2>6. spawned' \in [1..(Spawned + 1) -> Schedule!Task]
    BY <2>1, <2>2 DEF TaskTypes
  <2>7. spawned'[Spawned + 1] = Schedule!NewTask(n, j, p)
    BY <2>1
  <2>8. \A t \in DOMAIN spawned : spawned'[t] = spawned[t]
    BY <2>1
  <2> QED BY <1>2, <2>1, <2>3, <2>5, <2>6, <2>7, <2>8
<1> QED BY <1>1, <1>2
LEMMA CountersKept ==
    ASSUME UNCHANGED Schedule!counters
    PROVE  /\ UNCHANGED <<registrations, taken, starts, stops>>
           /\ Schedule!Called' = Schedule!Called
           /\ (OnlyScheduled' <=> OnlyScheduled) /\ (Orderly' <=> Orderly)
<1>1. UNCHANGED <<registrations, taken, starts, stops>>
  BY DEF Schedule!counters
<1>2. Schedule!Called' = Schedule!Called
  BY <1>1 DEF Schedule!Called
<1>3. OnlyScheduled' <=> OnlyScheduled
  BY <1>1, <1>2 DEF OnlyScheduled
<1> QED BY <1>1, <1>2, <1>3 DEF Orderly

LEMMA CallCounts ==
    ASSUME CallTypes, NEW c \in Clients, NEW op \in Schedule!ClientOps,
           Schedule!Call(c, op)
    PROVE  /\ client[c] = Schedule!Idle /\ UNCHANGED <<starts, stops>>
           /\ taken' \in [Schedule!ClientOps -> Nat] /\ op \in Schedule!Called'
           /\ Schedule!Called \subseteq Schedule!Called'
           /\ OnlyScheduled' => OnlyScheduled
           /\ Orderly' => Orderly
<1>1. /\ client[c] = Schedule!Idle /\ UNCHANGED <<starts, stops>>
      /\ taken \in [Schedule!ClientOps -> Nat] /\ stops \in Nat
      /\ taken' = [taken EXCEPT ![op] = taken[op] + 1]
  BY DEF Schedule!Call, CallTypes
<1>2. taken' \in [Schedule!ClientOps -> Nat]
        /\ \A o \in Schedule!ClientOps : taken[o] <= taken'[o]
  BY <1>1
<1>3. taken'[op] > 0
  BY <1>1
<1>4. op \in Schedule!Called'
  BY <1>3 DEF Schedule!Called
<1>5. stops <= stops' /\ stops' \in Nat
  BY <1>1
<1>6. /\ Schedule!Called \subseteq Schedule!Called'
      /\ OnlyScheduled' => OnlyScheduled
      /\ Orderly' => Orderly
  BY <1>1, <1>2, <1>5, OrderlyBefore
<1> QED BY <1>1, <1>2, <1>4, <1>6

LEMMA ClientMoves ==
    ASSUME CallTypes, NEW c \in Clients, NEW v, client' = [client EXCEPT ![c] = v]
    PROVE  /\ client'[c] = v
           /\ \A d \in Clients : d # c => client'[d] = client[d]
           /\ client' = [d \in Clients |-> client'[d]]
<1>1. client = [d \in Clients |-> client[d]]
  BY DEF CallTypes
<1> HIDE DEF CallTypes
<1>2. client' = [d \in Clients |-> IF d = c THEN v ELSE client[d]]
  BY <1>1
<1> QED BY <1>2

(* What a step of a task does: its state and runs.                         *)
LEMMA TasksRunOn ==
    ASSUME SchedulerInv, spawned' \in [1..Spawned -> Schedule!Task],
           \A t \in DOMAIN spawned :
              /\ spawned'[t].name = spawned[t].name
              /\ spawned'[t].job = spawned[t].job
              /\ spawned'[t].period = spawned[t].period
              /\ spawned'[t].aborted = spawned[t].aborted
              /\ Schedule!Alive(t)' => Schedule!Alive(t),
           TimeoutRuns(spawned)',
           UNCHANGED <<jobs, handles, starter, client, cycle, Schedule!counters>>
    PROVE  SchedulerInv'
<1>1. /\ DOMAIN spawned = 1..Spawned /\ DOMAIN spawned' = 1..Spawned
      /\ UNCHANGED <<jobs, handles, starter, client, cycle>>
      /\ UNCHANGED <<registrations, taken, starts, stops>>
      /\ Schedule!Called' = Schedule!Called
      /\ (OnlyScheduled' <=> OnlyScheduled) /\ (Orderly' <=> Orderly)
  BY SpawnedIs, CountersKept DEF SchedulerInv, SchedulerTypes
<1>2. Spawned' = Spawned
  BY <1>1 DEF Spawned
<1>3. TaskTypes'
  BY <1>1, <1>2 DEF SchedulerInv, SchedulerTypes, TaskTypes
<1>4. JobTypes' /\ CallTypes'
  BY <1>1 DEF SchedulerInv, SchedulerTypes, JobTypes, CallTypes
<1>5. LifecycleTypes'
  BY <1>1, <1>2 DEF SchedulerInv, SchedulerTypes, LifecycleTypes
<1>6. Schedule!Tracked'
  BY <1>1 DEF SchedulerInv, Schedule!Tracked, Schedule!Taken
<1>7. Awaited'
  BY <1>1 DEF SchedulerInv, Awaited
<1>8. NoHandles' /\ NumbersKnown'
  BY <1>1 DEF SchedulerInv, NoHandles, NumbersKnown
<1>9. JobsSpawned'
  <2> SUFFICES ASSUME Orderly, starter # NoValue, NEW n \in JobNames,
                      jobs[n] # NoValue
               PROVE  Responsible(n)'
                        /\ (handles[n] # NoValue => Runs(handles[n], jobs[n])')
    BY <1>1 DEF JobsSpawned
  <2>1. Responsible(n) /\ (handles[n] # NoValue => Runs(handles[n], jobs[n]))
    BY DEF SchedulerInv, JobsSpawned
  <2>2. Responsible(n)'
    BY <1>1, <2>1 DEF Responsible
  <2>3. handles[n] # NoValue => handles[n] \in DOMAIN spawned
    BY <1>1 DEF SchedulerInv, SchedulerTypes, TaskTypes
  <2> QED BY <1>1, <2>1, <2>2, <2>3 DEF Runs
<1>10. TasksKept'
  BY <1>1 DEF SchedulerInv, TasksKept
<1> QED BY <1>3, <1>4, <1>5, <1>6, <1>7, <1>8, <1>9, <1>10
        DEF SchedulerInv, SchedulerTypes

LEMMA TaskStepRuns ==
    ASSUME SchedulerInv, NEW t \in DOMAIN spawned,
           NEW from, NEW to \in {"polled", "busy", "ended", "sleeping"},
           NEW r \in Nat,
           Schedule!TaskStep(t, from, to, r), from # "ended",
           spawned[t].name \in OneShots =>
              r <= 1 /\ (to \in {"sleeping", "polled"} => r = 0)
    PROVE  SchedulerInv'
<1>1. /\ spawned[t].state = from
      /\ spawned' = [spawned EXCEPT ![t].state = to, ![t].runs = r]
      /\ UNCHANGED <<jobs, handles, starter, client, cycle, Schedule!counters>>
  BY DEF Schedule!TaskStep
<1>2. spawned \in [1..Spawned -> Schedule!Task] /\ DOMAIN spawned = 1..Spawned
  BY SpawnedIs DEF SchedulerInv, SchedulerTypes, TaskTypes
<1>3. spawned'[t] = [spawned[t] EXCEPT !.state = to, !.runs = r]
  BY <1>1, <1>2
<1>4. \A u \in DOMAIN spawned : u # t => spawned'[u] = spawned[u]
  BY <1>1, <1>2
<1>5. spawned[t] \in Schedule!Task
  BY <1>2
<1>6. /\ spawned'[t] \in Schedule!Task
      /\ spawned'[t].name = spawned[t].name /\ spawned'[t].job = spawned[t].job
      /\ spawned'[t].period = spawned[t].period
      /\ spawned'[t].aborted = spawned[t].aborted
      /\ spawned'[t].state = to /\ spawned'[t].runs = r
  BY <1>3, <1>5 DEF Schedule!Task
<1>7. spawned' \in [1..Spawned -> Schedule!Task]
  BY <1>1, <1>2, <1>4, <1>6
<1>8. \A u \in DOMAIN spawned :
         /\ spawned'[u].name = spawned[u].name /\ spawned'[u].job = spawned[u].job
         /\ spawned'[u].period = spawned[u].period
         /\ spawned'[u].aborted = spawned[u].aborted
         /\ Schedule!Alive(u)' => Schedule!Alive(u)
  BY <1>1, <1>4, <1>6 DEF Schedule!Alive
<1>9. TimeoutRuns(spawned)
  BY DEF SchedulerInv
<1>10. TimeoutRuns(spawned')
  BY <1>2, <1>4, <1>6, <1>7, <1>9 DEF TimeoutRuns
<1> QED BY <1>1, <1>7, <1>8, <1>10, TasksRunOn

LEMMA TasksPreserve ==
    ASSUME SchedulerInv, NEW t \in DOMAIN spawned,
           Schedule!TimerFires(t) \/ Schedule!TaskMoves(t)
    PROVE  SchedulerInv'
<1>1. /\ spawned[t].runs \in Nat
      /\ spawned[t].name \in OneShots =>
            spawned[t].runs <= 1
                /\ (spawned[t].state \in {"sleeping", "polled"}
                    => spawned[t].runs = 0)
  <2>1. spawned[t] \in Schedule!Task
    BY SpawnedIs DEF SchedulerInv, SchedulerTypes, TaskTypes
  <2> QED BY <2>1 DEF SchedulerInv, TimeoutRuns, Schedule!Task
<1>2. CASE Schedule!TimerFires(t)
  <2>1. Schedule!TaskStep(t, "sleeping", "polled", spawned[t].runs)
          /\ spawned[t].state = "sleeping"
    BY <1>2 DEF Schedule!TimerFires, Schedule!TaskStep
  <2> QED BY <1>1, <2>1, TaskStepRuns
<1>3. CASE Schedule!RunBegins(t)
  <2>1. Schedule!TaskStep(t, "polled", "busy", spawned[t].runs + 1)
          /\ spawned[t].state = "polled"
    BY <1>3 DEF Schedule!RunBegins, Schedule!TaskStep
  <2>2. spawned[t].runs + 1 \in Nat
    BY <1>1
  <2>3. spawned[t].name \in OneShots => spawned[t].runs + 1 <= 1
    BY <1>1, <2>1
  <2> QED BY <2>1, <2>2, <2>3, TaskStepRuns
<1>4. CASE Schedule!RunEnds(t)
  <2>1. Schedule!TaskStep(t, "busy", IF spawned[t].name \in OneShots
                          THEN "ended" ELSE "sleeping",
                          spawned[t].runs)
    BY <1>4 DEF Schedule!RunEnds
  <2> QED BY <1>1, <2>1, TaskStepRuns
<1>5. CASE Schedule!Cancelled(t)
  <2>1. \/ Schedule!TaskStep(t, "sleeping", "ended", spawned[t].runs)
        \/ Schedule!TaskStep(t, "busy", "ended", spawned[t].runs)
    BY <1>5 DEF Schedule!Cancelled
  <2> QED BY <1>1, <2>1, TaskStepRuns
<1> QED BY <1>2, <1>3, <1>4, <1>5 DEF Schedule!TaskMoves
-----------------------------------------------------------------------------
LEMMA InsertPreserves ==
    ASSUME SchedulerInv, NEW c \in Clients, NEW n \in JobNames,
           Schedule!ScheduleInsert(c, n)
    PROVE  SchedulerInv'
<1>1. /\ TaskTypes /\ JobTypes /\ CallTypes /\ LifecycleTypes /\ NoValue \notin Nat
      /\ UNCHANGED <<handles, starter, spawned, cycle>>
      /\ Schedule!Call(c, "schedule") /\ "schedule" \in Schedule!ClientOps
  BY DEF SchedulerInv, SchedulerTypes, SchedulerGiven, Schedule!ScheduleInsert,
         Schedule!ClientOps
<1>2. /\ client[c] = Schedule!Idle /\ UNCHANGED <<starts, stops>>
      /\ taken' \in [Schedule!ClientOps -> Nat]
      /\ "schedule" \in Schedule!Called'
      /\ Schedule!Called \subseteq Schedule!Called'
      /\ OnlyScheduled' => OnlyScheduled
      /\ Orderly' => OnlyScheduled /\ Orderly
  <2>1. /\ client[c] = Schedule!Idle /\ UNCHANGED <<starts, stops>>
        /\ taken' \in [Schedule!ClientOps -> Nat]
        /\ "schedule" \in Schedule!Called'
        /\ Schedule!Called \subseteq Schedule!Called'
        /\ OnlyScheduled' => OnlyScheduled
    BY <1>1, CallCounts
  <2> QED BY <2>1 DEF Orderly
<1>3. Spawned' = Spawned
  BY <1>1 DEF Spawned
<1>4. TaskTypes' /\ LifecycleTypes' /\ TimeoutRuns(spawned')
  BY <1>1, <1>2, <1>3 DEF TaskTypes, LifecycleTypes, SchedulerInv
<1>5. Schedule!Tracked' /\ Awaited'
  BY <1>1
     DEF SchedulerInv, Schedule!Tracked, Schedule!Taken, Awaited, Schedule!Alive
<1>6. NoHandles'
  BY <1>1, <1>2 DEF SchedulerInv, NoHandles
<1>7. CASE jobs[n] # NoValue
  <2>1. UNCHANGED <<jobs, client, registrations>>
    BY <1>7 DEF Schedule!ScheduleInsert
  <2>2. JobTypes' /\ CallTypes'
    BY <1>1, <1>2, <2>1 DEF JobTypes, CallTypes
  <2>3. JobsSpawned'
    BY <1>1, <1>2, <2>1 DEF SchedulerInv, JobsSpawned, Responsible, Runs
  <2>4. NumbersKnown' /\ TasksKept'
    BY <1>1, <1>2, <2>1 DEF SchedulerInv, NumbersKnown, TasksKept
  <2> QED BY <1>4, <1>5, <1>6, <2>2, <2>3, <2>4 DEF SchedulerInv, SchedulerTypes
<1>8. CASE jobs[n] = NoValue
  <2> DEFINE v == [at |-> "inserted", name |-> n, job |-> registrations + 1]
  <2>1. /\ registrations' = registrations + 1
        /\ jobs' = [jobs EXCEPT ![n] = registrations + 1]
        /\ client' = [client EXCEPT ![c] = v]
    BY <1>8 DEF Schedule!ScheduleInsert
  <2>2. /\ client'[c] = v
        /\ \A d \in Clients : d # c => client'[d] = client[d]
        /\ client' = [d \in Clients |-> client'[d]]
    BY <1>1, <2>1, ClientMoves
  <2>3. v.at = "inserted" /\ v.name = n /\ v.job = registrations + 1
    OBVIOUS
  <2> HIDE DEF v
  <2>4. /\ registrations \in Nat /\ jobs \in [JobNames -> Nat \cup {NoValue}]
        /\ jobs'[n] = registrations + 1 /\ registrations + 1 \in Nat
        /\ registrations + 1 # NoValue
        /\ \A m \in JobNames : m # n => jobs'[m] = jobs[m]
    BY <1>1, <2>1 DEF JobTypes
  <2>5. JobTypes'
    <3>1. jobs' \in [JobNames -> Nat \cup {NoValue}]
      BY <2>1, <2>4
    <3>2. \A m \in JobNames : jobs[m] # NoValue
            => jobs[m] \in Nat /\ jobs[m] <= registrations
      BY <1>1 DEF JobTypes
    <3>3. \A m \in JobNames : jobs'[m] # NoValue => jobs'[m] <= registrations'
      BY <2>1, <2>4, <3>2
    <3>4. \A m \in JobNames : m # n => jobs'[m] # registrations + 1
      BY <2>4, <3>2
    <3>5. \A m, k \in JobNames : jobs'[m] # NoValue /\ jobs'[m] = jobs'[k] => m = k
      BY <1>1, <2>4, <3>4 DEF JobTypes
    <3> QED BY <2>1, <2>4, <3>1, <3>3, <3>5 DEF JobTypes
  <2>6. CallTypes'
    BY <1>1, <1>2, <2>2, <2>3, <2>4 DEF CallTypes, Scheduling
  <2>7. ASSUME Orderly'
        PROVE  /\ handles[n] = NoValue
               /\ cycle.at = "spawning" =>
                     \A x \in cycle.todo : x.name \in JobNames /\ x.name # n
                         /\ jobs[x.name] = x.job
               /\ \A d \in Clients :
                     /\ client[d].at \in Scheduling => client[d].name # n
                     /\ client[d].at # "removed"
    <3>1. OnlyScheduled /\ Orderly
      BY <1>2, <2>7
    <3>2. \A t \in DOMAIN spawned : spawned[t].job \in Nat
            /\ spawned[t].name \in JobNames
      BY <1>1 DEF TaskTypes, Schedule!Task
    <3>3. handles[n] # NoValue => handles[n] \in DOMAIN spawned
            /\ spawned[handles[n]].name = n
      BY <1>1, SpawnedIs DEF TaskTypes
    <3>4. handles[n] = NoValue
      BY <1>1, <1>8, <3>1, <3>2, <3>3 DEF SchedulerInv, TasksKept
    <3>5. cycle.at = "spawning" =>
             \A x \in cycle.todo :
                x.name \in JobNames /\ x.job \in Nat /\ jobs[x.name] = x.job
      BY <1>1, <3>1 DEF SchedulerInv, TasksKept, LifecycleTypes
    <3>6. \A d \in Clients :
                     /\ client[d].at \in Scheduling => client[d].name # n
                     /\ client[d].at # "removed"
      BY <1>1, <1>8, <3>1
         DEF SchedulerInv, NumbersKnown, CallTypes, OnlyScheduled
    <3> QED BY <1>1, <1>8, <3>4, <3>5, <3>6
  <2>8. JobsSpawned'
    <3> SUFFICES ASSUME Orderly', starter # NoValue, NEW m \in JobNames,
                        jobs'[m] # NoValue
                 PROVE  Responsible(m)'
                          /\ (handles'[m] # NoValue
                              => Runs(handles[m], jobs[m])')
      BY <1>1 DEF JobsSpawned
    <3>1. CASE m = n
      <4>1. handles'[m] = NoValue
        BY <1>1, <2>7, <3>1
      <4>2. Responsible(m)'
        BY <2>2, <2>3, <3>1 DEF Responsible, Scheduling
      <4> QED BY <4>1, <4>2
    <3>2. CASE m # n
      <4>1. Responsible(m) /\ (handles[m] # NoValue => Runs(handles[m], jobs[m]))
        BY <1>2, <2>4, <3>2 DEF SchedulerInv, JobsSpawned
      <4>2. \A d \in Clients : client[d].at \in Scheduling => d # c
        BY <1>2 DEF Schedule!Idle, Scheduling
      <4>3. Responsible(m)'
        BY <1>1, <2>2, <4>1, <4>2 DEF Responsible
      <4>4. handles[m] # NoValue => Runs(handles[m], jobs[m])'
        BY <1>1, <2>4, <3>2, <4>1 DEF Runs
      <4> QED BY <1>1, <4>3, <4>4
    <3> QED BY <3>1, <3>2
  <2>9. NumbersKnown'
    <3> SUFFICES ASSUME Orderly'
                 PROVE  /\ cycle.at = "spawning" =>
                              \A x \in cycle.todo :
                                  jobs'[x.name] \in {x.job, NoValue}
                        /\ \A d \in Clients :
                              /\ client'[d].at \in Scheduling
                                   => jobs'[client'[d].name] = client'[d].job
                              /\ client'[d].at # "removed"
                              /\ client'[d].at \in {"spawning", "failed"}
                                   => starter # NoValue
                              /\ client'[d].at = "spawning"
                                   => client'[d].period = starter
      BY <1>1 DEF NumbersKnown
    <3>1. cycle.at = "spawning" => \A x \in cycle.todo :
            jobs'[x.name] \in {x.job, NoValue}
      BY <2>4, <2>7
    <3>2. ASSUME NEW d \in Clients
          PROVE  /\ client'[d].at \in Scheduling
                      => jobs'[client'[d].name] = client'[d].job
                 /\ client'[d].at # "removed"
                 /\ client'[d].at \in {"spawning", "failed"} => starter # NoValue
                 /\ client'[d].at = "spawning" => client'[d].period = starter
      <4>1. CASE d = c
        BY <2>2, <2>3, <2>4, <4>1
      <4>2. CASE d # c
        <5>1. client'[d] = client[d]
          BY <2>2, <4>2
        <5>2. /\ client[d].at \in Scheduling => client[d].name \in JobNames
              /\ client[d].at \in Scheduling => jobs[client[d].name] = client[d].job
              /\ client[d].at \in {"spawning", "failed"} => starter # NoValue
              /\ client[d].at = "spawning" => client[d].period = starter
          BY <1>1, <1>2 DEF SchedulerInv, NumbersKnown, CallTypes
        <5> QED BY <2>4, <2>7, <5>1, <5>2
      <4> QED BY <4>1, <4>2
    <3> QED BY <3>1, <3>2
  <2>10. TasksKept'
    <3> SUFFICES ASSUME OnlyScheduled'
                 PROVE  /\ \A t \in DOMAIN spawned :
                              handles[spawned[t].name] = t
                                  /\ jobs'[spawned[t].name] = spawned[t].job
                        /\ cycle.at = "spawning" =>
                              \A x \in cycle.todo : jobs'[x.name] = x.job
      BY <1>1 DEF TasksKept
    <3>1. Orderly' /\ OnlyScheduled
      BY <1>2 DEF Orderly
    <3>2. \A t \in DOMAIN spawned :
             /\ handles[spawned[t].name] = t
             /\ jobs[spawned[t].name] = spawned[t].job
             /\ spawned[t].name \in JobNames /\ t # NoValue
      BY <1>1, <3>1, TaskIs DEF SchedulerInv, TasksKept
    <3>3. \A t \in DOMAIN spawned : spawned[t].name # n
      BY <2>7, <3>1, <3>2
    <3> QED BY <2>4, <2>7, <3>1, <3>2, <3>3
  <2> QED BY <1>4, <1>5, <1>6, <2>5, <2>6, <2>8, <2>9, <2>10
             DEF SchedulerInv, SchedulerTypes
<1> QED BY <1>7, <1>8

(* A call that is under way goes on or returns: nothing but it changes.    *)
LEMMA CheckPreserves ==
    ASSUME SchedulerInv, NEW c \in Clients, Schedule!ScheduleCheck(c)
    PROVE  SchedulerInv'
<1> DEFINE v == IF starter = NoValue THEN Schedule!Idle
                ELSE [at |-> IF c \in Outside THEN "failed" ELSE "spawning",
                      name |-> client[c].name, job |-> client[c].job,
                      period |-> starter]
<1>1. /\ TaskTypes /\ JobTypes /\ CallTypes /\ LifecycleTypes
      /\ client[c].at = "inserted"
      /\ UNCHANGED <<jobs, handles, starter, spawned, cycle, registrations,
           taken, starts, stops>>
      /\ Schedule!Called' = Schedule!Called
      /\ (OnlyScheduled' <=> OnlyScheduled) /\ (Orderly' <=> Orderly)
  BY CountersKept DEF SchedulerInv, SchedulerTypes, Schedule!ScheduleCheck
<1>2. client' = [client EXCEPT ![c] = v]
  BY DEF Schedule!ScheduleCheck
<1>3. /\ client'[c] = v
      /\ \A d \in Clients : d # c => client'[d] = client[d]
      /\ client' = [d \in Clients |-> client'[d]]
  BY <1>1, <1>2, ClientMoves
<1>4. /\ starter = NoValue => v.at = "idle"
      /\ starter # NoValue =>
            /\ v.at \in {"failed", "spawning"} /\ v.name = client[c].name
            /\ v.job = client[c].job /\ v.period = starter
  BY DEF Schedule!Idle
<1> HIDE DEF v
<1>5. v.at \in Scheduling \cup {"idle"}
  BY <1>4 DEF Scheduling
<1>6. TaskTypes' /\ JobTypes' /\ LifecycleTypes' /\ TimeoutRuns(spawned')
        /\ Schedule!Tracked' /\ Awaited'
  <2>1. Spawned' = Spawned
    BY <1>1 DEF Spawned
  <2> QED BY <1>1, <2>1
             DEF TaskTypes, JobTypes, LifecycleTypes, SchedulerInv,
                 Schedule!Tracked, Schedule!Taken, Awaited, Schedule!Alive
<1>7. CallTypes'
  <2>1. starter # NoValue => starter \in Nat
    BY <1>1 DEF LifecycleTypes
  <2>2. ASSUME NEW d \in Clients
        PROVE  /\ client'[d].at \in Scheduling =>
                   /\ client'[d].name \in JobNames /\ client'[d].job \in Nat
                   /\ client'[d].at = "spawning" => client'[d].period \in Nat
                   /\ "schedule" \in Schedule!Called
               /\ client'[d].at = "removed" =>
                   client'[d].names \subseteq JobNames
                       /\ Schedule!Called \cap {"remove", "clear"} # {}
    <3>1. CASE d = c
      <4>1. client[c].name \in JobNames /\ client[c].job \in Nat
              /\ "schedule" \in Schedule!Called
        BY <1>1 DEF CallTypes, Scheduling
      <4> QED BY <1>3, <1>4, <2>1, <3>1, <4>1 DEF Scheduling
    <3>2. CASE d # c
      BY <1>1, <1>3, <3>2 DEF CallTypes
    <3> QED BY <3>1, <3>2
  <2> QED BY <1>1, <1>3, <2>2 DEF CallTypes
<1>8. NoHandles' /\ TasksKept'
  BY <1>1 DEF SchedulerInv, NoHandles, TasksKept
<1>9. JobsSpawned'
  <2> SUFFICES ASSUME Orderly, starter # NoValue, NEW n \in JobNames,
                      jobs[n] # NoValue
               PROVE  Responsible(n)'
                        /\ (handles[n] # NoValue => Runs(handles[n], jobs[n])')
    BY <1>1 DEF JobsSpawned
  <2>1. Responsible(n) /\ (handles[n] # NoValue => Runs(handles[n], jobs[n]))
    BY DEF SchedulerInv, JobsSpawned
  <2>2. \A d \in Clients : client'[d].at \in Scheduling
          <=> client[d].at \in Scheduling
    BY <1>1, <1>3, <1>4 DEF Scheduling
  <2>3. \A d \in Clients : client[d].at \in Scheduling
          => client'[d].name = client[d].name
    BY <1>3, <1>4
  <2>4. Responsible(n)'
    BY <1>1, <2>1, <2>2, <2>3 DEF Responsible
  <2> QED BY <1>1, <2>1, <2>4 DEF Runs
<1>10. NumbersKnown'
  <2> SUFFICES ASSUME Orderly, NEW d \in Clients
               PROVE  /\ client'[d].at \in Scheduling
                           => jobs[client'[d].name] = client'[d].job
                      /\ client'[d].at = "removed"
                           => \A n \in client'[d].names : jobs[n] = NoValue
                      /\ client'[d].at \in {"spawning", "failed"}
                           => starter # NoValue
                      /\ client'[d].at = "spawning" => client'[d].period = starter
    BY <1>1 DEF SchedulerInv, NumbersKnown
  <2>1. CASE d = c
    <3>1. jobs[client[c].name] = client[c].job
      BY <1>1 DEF SchedulerInv, NumbersKnown, Scheduling
    <3> QED BY <1>3, <1>4, <2>1, <3>1 DEF Scheduling
  <2>2. CASE d # c
    BY <1>3, <2>2 DEF SchedulerInv, NumbersKnown
  <2> QED BY <2>1, <2>2
<1> QED BY <1>6, <1>7, <1>8, <1>9, <1>10 DEF SchedulerInv, SchedulerTypes
(* What a call of spawn_job adds, whoever calls it.                        *)
Adds(n, j, p) ==
    /\ Spawned \in Nat /\ Spawned' \in Nat /\ Spawned <= Spawned'
    /\ DOMAIN spawned = 1..Spawned /\ DOMAIN spawned' = 1..Spawned'
    /\ \A t \in DOMAIN spawned : t \in DOMAIN spawned' /\ spawned'[t] = spawned[t]
    /\ \A m \in JobNames : m # n => handles'[m] = handles[m]
    /\ handles'[n] # NoValue
    /\ handles[n] # NoValue => spawned' = spawned /\ handles' = handles
    /\ handles[n] = NoValue =>
          /\ handles'[n] \in DOMAIN spawned' /\ handles'[n] \notin DOMAIN spawned
          /\ spawned'[handles'[n]] = Schedule!NewTask(n, j, p)
          /\ \A t \in DOMAIN spawned' : t \in DOMAIN spawned \/ t = handles'[n]

LEMMA SpawnAdds ==
    ASSUME TaskTypes, SchedulerGiven, NEW n \in JobNames, NEW j \in Nat,
           NEW p \in Nat,
           Schedule!Spawn(n, j, p)
    PROVE  Adds(n, j, p) /\ TaskTypes'
<1>0. /\ Spawned \in Nat /\ DOMAIN spawned = 1..Spawned /\ NoValue \notin Nat
      /\ spawned \in [1..Spawned -> Schedule!Task]
      /\ handles \in [JobNames -> 1..Spawned \cup {NoValue}]
      /\ \A m \in JobNames : handles[m] # NoValue => spawned[handles[m]].name = m
  BY SpawnedIs DEF TaskTypes, SchedulerGiven
<1>1. CASE handles[n] # NoValue /\ UNCHANGED <<spawned, handles>>
  <2>1. Spawned' = Spawned
    BY <1>1 DEF Spawned
  <2> QED BY <1>0, <1>1, <2>1 DEF TaskTypes, Adds
<1>2. CASE /\ handles[n] = NoValue /\ Spawned' = Spawned + 1
           /\ spawned' \in [1..(Spawned + 1) -> Schedule!Task]
           /\ DOMAIN spawned' = 1..(Spawned + 1) /\ DOMAIN spawned = 1..Spawned
           /\ spawned'[Spawned + 1] = Schedule!NewTask(n, j, p)
           /\ \A t \in DOMAIN spawned : spawned'[t] = spawned[t]
           /\ handles' = [handles EXCEPT ![n] = Spawned + 1]
  <2>1. /\ handles'[n] = Spawned + 1 /\ \A m \in JobNames : m # n
             => handles'[m] = handles[m]
        /\ Spawned + 1 \in Nat /\ Spawned + 1 # NoValue
    BY <1>0, <1>2
  <2>2. handles' \in [JobNames -> 1..Spawned' \cup {NoValue}]
    BY <1>0, <1>2
  <2>3. spawned'[Spawned + 1].name = n
    BY <1>2 DEF Schedule!NewTask
  <2>4. \A m \in JobNames : handles'[m] # NoValue => spawned'[handles'[m]].name = m
    BY <1>0, <1>2, <2>1, <2>3
  <2>5. TaskTypes'
    BY <1>2, <2>1, <2>2, <2>4 DEF TaskTypes
  <2>6. Adds(n, j, p)
    BY <1>0, <1>2, <2>1 DEF Adds
  <2> QED BY <2>5, <2>6
<1> QED BY <1>1, <1>2, SpawnIs

LEMMA SpawnPreserves ==
    ASSUME SchedulerInv, NEW n \in JobNames, NEW j \in Nat, NEW p \in Nat,
           Schedule!Spawn(n, j, p),
           UNCHANGED <<jobs, starter>>, UNCHANGED Schedule!counters,
           cycle'.at = cycle.at,
           cycle.at \in {"aborting", "awaiting"} => cycle' = cycle,
           Orderly => starter # NoValue /\ p = starter /\ jobs[n] \in {j, NoValue},
           OnlyScheduled => jobs[n] = j,
           \A m \in JobNames : m # n /\ Responsible(m) /\ handles[m] = NoValue
               => Responsible(m)'
    PROVE  /\ TaskTypes' /\ TimeoutRuns(spawned') /\ Schedule!Tracked' /\ Awaited'
           /\ NoHandles' /\ JobsSpawned'
           /\ OnlyScheduled => \A t \in DOMAIN spawned' :
                 handles'[spawned'[t].name] = t
                     /\ jobs'[spawned'[t].name] = spawned'[t].job
           /\ Adds(n, j, p)
<1>1. /\ TaskTypes /\ SchedulerGiven /\ NoValue \notin Nat
      /\ (Orderly' <=> Orderly)
      /\ UNCHANGED <<jobs, starter, registrations, taken, starts, stops>>
  BY CountersKept DEF SchedulerInv, SchedulerTypes, SchedulerGiven
<1>2. Adds(n, j, p) /\ TaskTypes'
  BY <1>1, SpawnAdds
<1>3. /\ Schedule!NewTask(n, j, p).name = n /\ Schedule!NewTask(n, j, p).job = j
      /\ Schedule!NewTask(n, j, p).period = p
      /\ Schedule!NewTask(n, j, p).aborted = "no"
      /\ Schedule!NewTask(n, j, p).state = "sleeping"
      /\ Schedule!NewTask(n, j, p).runs = 0
  BY DEF Schedule!NewTask
<1>4. TimeoutRuns(spawned')
  <2>1. TimeoutRuns(spawned)
    BY DEF SchedulerInv
  <2>2. SUFFICES ASSUME NEW t \in DOMAIN spawned',
                        spawned'[t].name \in OneShots
                 PROVE  /\ spawned'[t].runs <= 1
                        /\ spawned'[t].state \in {"sleeping", "polled"}
                             => spawned'[t].runs = 0
    BY DEF TimeoutRuns
  <2>3. CASE t \in DOMAIN spawned
    BY <1>2, <2>1, <2>2, <2>3 DEF Adds, TimeoutRuns
  <2>4. CASE t \notin DOMAIN spawned
    BY <1>2, <1>3, <2>4 DEF Adds
  <2> QED BY <2>3, <2>4
<1>5. Schedule!Tracked'
  <2>1. Schedule!Taken' = Schedule!Taken
    BY DEF Schedule!Taken
  <2>2. SUFFICES ASSUME NEW t \in DOMAIN spawned', spawned'[t].state # "ended",
                        spawned'[t].aborted = "no"
                 PROVE  handles'[spawned'[t].name] = t \/ t \in Schedule!Taken
    BY <2>1 DEF Schedule!Tracked, Schedule!Alive
  <2>3. CASE t \in DOMAIN spawned
    <3>1. spawned'[t] = spawned[t] /\ spawned[t].name \in JobNames /\ t # NoValue
      BY <1>1, <1>2, <2>3, TaskIs DEF Adds
    <3>2. handles[spawned[t].name] = t \/ t \in Schedule!Taken
      BY <2>2, <2>3, <3>1 DEF SchedulerInv, Schedule!Tracked, Schedule!Alive
    <3> QED BY <1>2, <3>1, <3>2 DEF Adds
  <2>4. CASE t \notin DOMAIN spawned
    BY <1>2, <1>3, <2>4 DEF Adds
  <2> QED BY <2>3, <2>4
<1>6. Awaited'
  <2>1. SUFFICES ASSUME NEW t \in DOMAIN spawned', spawned'[t].state # "ended",
                        spawned'[t].aborted = "stopped"
                 PROVE  cycle'.at = "awaiting" /\ cycle'.task = t
    BY DEF Awaited, Schedule!Alive
  <2>2. t \in DOMAIN spawned /\ spawned'[t] = spawned[t]
    BY <1>2, <1>3, <2>1 DEF Adds
  <2> QED BY <2>1, <2>2 DEF SchedulerInv, Awaited, Schedule!Alive
<1>7. NoHandles'
  BY <1>1 DEF NoHandles
<1>8. JobsSpawned'
  <2> SUFFICES ASSUME Orderly, NEW m \in JobNames, jobs[m] # NoValue
               PROVE  Responsible(m)'
                        /\ (handles'[m] # NoValue => Runs(handles[m], jobs[m])')
    BY <1>1 DEF JobsSpawned
  <2>0. handles[m] # NoValue => handles[m] \in DOMAIN spawned
    BY <1>1, <1>2 DEF TaskTypes, Adds
  <2>1. Responsible(m) /\ (handles[m] # NoValue => Runs(handles[m], jobs[m]))
    BY DEF SchedulerInv, JobsSpawned
  <2>2. CASE m # n
    <3>1. handles'[m] = handles[m]
      BY <1>2, <2>2 DEF Adds
    <3>2. Responsible(m)'
      BY <2>1, <2>2, <3>1 DEF Responsible
    <3>3. handles[m] # NoValue => spawned'[handles[m]] = spawned[handles[m]]
      BY <1>2, <2>0 DEF Adds
    <3> QED BY <1>1, <2>1, <3>1, <3>2, <3>3 DEF Runs
  <2>3. CASE m = n
    <3>1. handles'[n] # NoValue
      BY <1>2 DEF Adds
    <3>2. Responsible(n)'
      BY <3>1 DEF Responsible
    <3>3. CASE handles[n] # NoValue
      <4>1. spawned' = spawned /\ handles' = handles
        BY <1>2, <3>3 DEF Adds
      <4> QED BY <1>1, <2>1, <2>3, <3>2, <3>3, <4>1 DEF Runs
    <3>4. CASE handles[n] = NoValue
      <4>1. spawned'[handles'[n]] = Schedule!NewTask(n, j, p) /\ jobs[n] = j
              /\ p = starter
        BY <1>2, <2>3, <3>4 DEF Adds
      <4> QED BY <1>1, <1>3, <2>3, <3>2, <4>1 DEF Runs
    <3> QED BY <3>3, <3>4
  <2> QED BY <2>2, <2>3
<1>9. ASSUME OnlyScheduled, NEW t \in DOMAIN spawned'
      PROVE  handles'[spawned'[t].name] = t
               /\ jobs'[spawned'[t].name] = spawned'[t].job
  <2>1. CASE t \in DOMAIN spawned
    <3>1. spawned'[t] = spawned[t] /\ spawned[t].name \in JobNames /\ t # NoValue
      BY <1>1, <1>2, <2>1, TaskIs DEF Adds
    <3>2. handles[spawned[t].name] = t /\ jobs[spawned[t].name] = spawned[t].job
      BY <1>9, <2>1 DEF SchedulerInv, TasksKept
    <3> QED BY <1>1, <1>2, <3>1, <3>2 DEF Adds
  <2>2. CASE t \notin DOMAIN spawned
    <3>1. jobs[n] = j
      BY <1>9
    <3> QED BY <1>1, <1>2, <1>3, <2>2, <3>1 DEF Adds
  <2> QED BY <2>1, <2>2
<1> QED BY <1>2, <1>4, <1>5, <1>6, <1>7, <1>8, <1>9

LEMMA ScheduleSpawnPreserves ==
    ASSUME SchedulerInv, NEW c \in Clients, Schedule!ScheduleSpawn(c)
    PROVE  SchedulerInv'
<1> DEFINE n == client[c].name  j == client[c].job  p == client[c].period
<1>1. /\ JobTypes /\ CallTypes /\ LifecycleTypes
      /\ client[c].at = "spawning" /\ Schedule!Spawn(n, j, p)
      /\ UNCHANGED <<jobs, starter, cycle>> /\ UNCHANGED Schedule!counters
      /\ UNCHANGED <<registrations, taken, starts, stops>>
      /\ Schedule!Called' = Schedule!Called
      /\ (OnlyScheduled' <=> OnlyScheduled) /\ (Orderly' <=> Orderly)
  BY CountersKept DEF SchedulerInv, SchedulerTypes, Schedule!ScheduleSpawn
<1>2. /\ client'[c] = Schedule!Idle
      /\ \A d \in Clients : d # c => client'[d] = client[d]
      /\ client' = [d \in Clients |-> client'[d]]
  BY <1>1, ClientMoves DEF Schedule!ScheduleSpawn
<1>3. n \in JobNames /\ j \in Nat /\ p \in Nat
  BY <1>1 DEF CallTypes, Scheduling
<1>4. Orderly => starter # NoValue /\ p = starter /\ jobs[n] = j
  BY <1>1 DEF SchedulerInv, NumbersKnown, Scheduling
<1> HIDE DEF n, j, p
<1>5. ASSUME NEW m \in JobNames, m # n, Responsible(m), handles[m] = NoValue
      PROVE  Responsible(m)'
  <2>1. ASSUME NEW d \in Clients, client[d].at \in Scheduling, client[d].name = m
        PROVE  client'[d] = client[d]
    BY <1>2, <1>5, <2>1 DEF n
  <2> QED BY <1>1, <1>5, <2>1 DEF Responsible
<1>6. /\ TaskTypes' /\ TimeoutRuns(spawned') /\ Schedule!Tracked' /\ Awaited'
      /\ NoHandles' /\ JobsSpawned'
      /\ OnlyScheduled => \A t \in DOMAIN spawned' :
            handles'[spawned'[t].name] = t
                /\ jobs'[spawned'[t].name] = spawned'[t].job
      /\ Adds(n, j, p)
  <2>1. OnlyScheduled => jobs[n] = j
    BY <1>4 DEF Orderly
  <2> QED BY <1>1, <1>3, <1>4, <1>5, <2>1, SpawnPreserves
<1>7. JobTypes'
  BY <1>1 DEF JobTypes
<1>8. CallTypes'
  BY <1>1, <1>2 DEF CallTypes, Schedule!Idle, Scheduling
<1>9. LifecycleTypes'
  BY <1>1, <1>6 DEF LifecycleTypes, Adds
<1>10. NumbersKnown'
  BY <1>1, <1>2 DEF SchedulerInv, NumbersKnown, Schedule!Idle, Scheduling
<1>11. TasksKept'
  BY <1>1, <1>6 DEF SchedulerInv, TasksKept
<1> QED BY <1>6, <1>7, <1>8, <1>9, <1>10, <1>11 DEF SchedulerInv, SchedulerTypes

LEMMA StartSpawnsPreserves ==
    ASSUME SchedulerInv, NEW x, Schedule!StartSpawns(x)
    PROVE  SchedulerInv'
<1> DEFINE n == x.name  j == x.job  p == cycle.period
<1>1. /\ JobTypes /\ CallTypes /\ LifecycleTypes
      /\ cycle.at = "spawning" /\ x \in cycle.todo /\ Schedule!Spawn(n, j, p)
      /\ cycle' = [cycle EXCEPT !.todo = cycle.todo \ {x}]
      /\ UNCHANGED <<jobs, starter, client>> /\ UNCHANGED Schedule!counters
      /\ UNCHANGED <<registrations, taken, starts, stops>>
      /\ Schedule!Called' = Schedule!Called
      /\ (OnlyScheduled' <=> OnlyScheduled) /\ (Orderly' <=> Orderly)
  BY CountersKept DEF SchedulerInv, SchedulerTypes, Schedule!StartSpawns
<1>2. /\ cycle \in [at : {"spawning"}, period : Nat,
                    todo : SUBSET [name : JobNames, job : Nat]]
      /\ cycle.period = starter
  BY <1>1 DEF LifecycleTypes
<1>3. /\ cycle' \in [at : {"spawning"}, period : Nat,
                     todo : SUBSET [name : JobNames, job : Nat]]
      /\ cycle'.at = "spawning" /\ cycle'.period = starter
      /\ cycle'.todo = cycle.todo \ {x}
  BY <1>1, <1>2
<1>4. n \in JobNames /\ j \in Nat /\ p \in Nat /\ p = starter
  BY <1>1, <1>2
<1>5. starter # NoValue
  BY <1>1 DEF LifecycleTypes, Starting
<1>6. Orderly => jobs[n] \in {j, NoValue}
  BY <1>1 DEF SchedulerInv, NumbersKnown
<1>7. OnlyScheduled => jobs[n] = j
  BY <1>1 DEF SchedulerInv, TasksKept
<1> HIDE DEF n, j, p
<1>8. ASSUME NEW m \in JobNames, m # n, Responsible(m), handles[m] = NoValue
      PROVE  Responsible(m)'
  <2>1. ASSUME NEW y \in cycle.todo, y.name = m
        PROVE  y \in cycle'.todo
    BY <1>3, <1>8, <2>1 DEF n
  <2> QED BY <1>1, <1>3, <1>8, <2>1 DEF Responsible
<1>9. /\ TaskTypes' /\ TimeoutRuns(spawned') /\ Schedule!Tracked' /\ Awaited'
      /\ NoHandles' /\ JobsSpawned'
      /\ OnlyScheduled => \A t \in DOMAIN spawned' :
            handles'[spawned'[t].name] = t
                /\ jobs'[spawned'[t].name] = spawned'[t].job
  BY <1>1, <1>3, <1>4, <1>5, <1>6, <1>7, <1>8, SpawnPreserves
<1>10. JobTypes' /\ CallTypes'
  BY <1>1 DEF JobTypes, CallTypes
<1>11. LifecycleTypes'
  BY <1>1, <1>3, <1>5 DEF LifecycleTypes, Starting, Stopping
<1>12. NumbersKnown'
  BY <1>1, <1>3 DEF SchedulerInv, NumbersKnown
<1>13. TasksKept'
  BY <1>1, <1>3, <1>9 DEF SchedulerInv, TasksKept
<1> QED BY <1>9, <1>10, <1>11, <1>12, <1>13 DEF SchedulerInv, SchedulerTypes
-----------------------------------------------------------------------------
LEMMA UndoPreserves ==
    ASSUME SchedulerInv, NEW c \in Clients, Schedule!ScheduleUndo(c)
    PROVE  SchedulerInv'
<1> DEFINE n == client[c].name
<1>1. /\ TaskTypes /\ JobTypes /\ CallTypes /\ LifecycleTypes
      /\ client[c].at = "failed" /\ "undo" \in Schedule!ClientOps
      /\ "schedule" \in Schedule!Called
      /\ jobs' = [jobs EXCEPT ![n] = NoValue]
      /\ taken' = [taken EXCEPT !["undo"] = taken["undo"] + 1]
      /\ UNCHANGED <<handles, starter, spawned, cycle, registrations, starts,
           stops>>
  BY DEF SchedulerInv, SchedulerTypes, Schedule!ScheduleUndo, CallTypes,
         Scheduling, Schedule!ClientOps
<1>2. /\ client'[c] = Schedule!Idle
      /\ \A d \in Clients : d # c => client'[d] = client[d]
      /\ client' = [d \in Clients |-> client'[d]]
  BY <1>1, ClientMoves DEF Schedule!ScheduleUndo
<1>3. /\ taken' \in [Schedule!ClientOps -> Nat] /\ taken'["undo"] > 0
      /\ \A op \in Schedule!ClientOps : taken[op] <= taken'[op]
  BY <1>1 DEF CallTypes
<1>4. Schedule!Called \subseteq Schedule!Called' /\ "undo" \in Schedule!Called'
  BY <1>1, <1>3 DEF Schedule!Called, CallTypes
<1>5. ~Orderly' /\ ~OnlyScheduled'
  BY <1>1, <1>4 DEF Orderly, OnlyScheduled
<1> HIDE DEF n
<1>6. TaskTypes' /\ LifecycleTypes' /\ TimeoutRuns(spawned')
        /\ Schedule!Tracked' /\ Awaited'
  <2>1. Spawned' = Spawned
    BY <1>1 DEF Spawned
  <2> QED BY <1>1, <2>1
             DEF TaskTypes, LifecycleTypes, SchedulerInv, Schedule!Tracked,
                 Schedule!Taken, Awaited, Schedule!Alive
<1>7. JobTypes'
  <2>1. \A m \in JobNames : jobs'[m] = jobs[m] \/ jobs'[m] = NoValue
    BY <1>1 DEF JobTypes
  <2>2. jobs' \in [JobNames -> Nat \cup {NoValue}]
    BY <1>1 DEF JobTypes
  <2> QED BY <1>1, <2>1, <2>2 DEF JobTypes
<1>8. CallTypes'
  BY <1>1, <1>2, <1>3, <1>4 DEF CallTypes, Schedule!Idle, Scheduling
<1>9. NoHandles' /\ JobsSpawned' /\ NumbersKnown' /\ TasksKept'
  BY <1>5 DEF NoHandles, JobsSpawned, NumbersKnown, TasksKept
<1> QED BY <1>6, <1>7, <1>8, <1>9 DEF SchedulerInv, SchedulerTypes

LEMMA RemoveJobsPreserves ==
    ASSUME SchedulerInv, NEW c \in Clients, NEW S \in SUBSET JobNames,
           Schedule!RemoveJobs(c, S)
    PROVE  SchedulerInv'
<1>1. PICK op \in {"remove", "clear"} : Schedule!Call(c, op)
  BY DEF Schedule!RemoveJobs
<1>2. /\ TaskTypes /\ JobTypes /\ CallTypes /\ LifecycleTypes
      /\ op \in Schedule!ClientOps
      /\ jobs' = [n \in JobNames |-> IF n \in S THEN NoValue ELSE jobs[n]]
      /\ UNCHANGED <<handles, starter, spawned, cycle, registrations>>
  BY DEF SchedulerInv, SchedulerTypes, Schedule!RemoveJobs, Schedule!ClientOps
<1>3. /\ client[c] = Schedule!Idle /\ UNCHANGED <<starts, stops>>
      /\ taken' \in [Schedule!ClientOps -> Nat] /\ op \in Schedule!Called'
      /\ Schedule!Called \subseteq Schedule!Called'
      /\ OnlyScheduled' => OnlyScheduled
      /\ Orderly' => Orderly
  BY <1>1, <1>2, CallCounts
<1> DEFINE v == [at |-> "removed", names |-> S]
<1>4. /\ client'[c] = v
      /\ \A d \in Clients : d # c => client'[d] = client[d]
      /\ client' = [d \in Clients |-> client'[d]]
  BY <1>2, ClientMoves DEF Schedule!RemoveJobs
<1>5. v.at = "removed" /\ v.names = S
  OBVIOUS
<1> HIDE DEF v
<1>6. ~OnlyScheduled' /\ (Orderly' => Orderly /\ "schedule" \notin Schedule!Called)
  BY <1>3 DEF Orderly, OnlyScheduled
<1>7. Orderly' => \A d \in Clients : client[d].at \notin Scheduling
        /\ client'[d].at \notin Scheduling
  <2>1. "schedule" \notin Schedule!Called
          => \A d \in Clients : client[d].at \notin Scheduling
    BY <1>2 DEF CallTypes
  <2> QED BY <1>4, <1>5, <1>6, <2>1 DEF Scheduling
<1>8. \A n \in JobNames : jobs'[n] = (IF n \in S THEN NoValue ELSE jobs[n])
  BY <1>2
<1>9. TaskTypes' /\ LifecycleTypes' /\ TimeoutRuns(spawned')
        /\ Schedule!Tracked' /\ Awaited' /\ NoHandles'
  <2>1. Spawned' = Spawned
    BY <1>2 DEF Spawned
  <2> QED BY <1>2, <1>3, <2>1
             DEF TaskTypes, LifecycleTypes, SchedulerInv, Schedule!Tracked,
                 Schedule!Taken, Awaited, Schedule!Alive, NoHandles
<1>10. JobTypes'
  <2>1. jobs' \in [JobNames -> Nat \cup {NoValue}]
    BY <1>2 DEF JobTypes
  <2> QED BY <1>2, <1>8, <2>1 DEF JobTypes
<1>11. CallTypes'
  BY <1>2, <1>3, <1>4, <1>5 DEF CallTypes, Scheduling
<1>12. JobsSpawned'
  <2> SUFFICES ASSUME Orderly', starter # NoValue, NEW n \in JobNames,
                      jobs'[n] # NoValue
               PROVE  Responsible(n)'
                        /\ (handles[n] # NoValue => Runs(handles[n], jobs[n])')
    BY <1>2 DEF JobsSpawned
  <2>1. jobs[n] # NoValue /\ jobs'[n] = jobs[n]
    BY <1>8
  <2>2. Responsible(n) /\ (handles[n] # NoValue => Runs(handles[n], jobs[n]))
    BY <1>3, <2>1 DEF SchedulerInv, JobsSpawned
  <2>3. Responsible(n)'
    BY <1>2, <1>7, <2>2 DEF Responsible
  <2> QED BY <1>2, <2>1, <2>2, <2>3 DEF Runs
<1>13. NumbersKnown'
  <2> SUFFICES ASSUME Orderly'
               PROVE  /\ cycle.at = "spawning" =>
                            \A x \in cycle.todo : jobs'[x.name] \in {x.job, NoValue}
                      /\ \A d \in Clients :
                            client'[d].at = "removed"
                                => \A n \in client'[d].names :
                                    jobs'[n] = NoValue
    BY <1>2, <1>7 DEF NumbersKnown, Scheduling
  <2>1. cycle.at = "spawning" => \A x \in cycle.todo :
          jobs'[x.name] \in {x.job, NoValue}
    <3>1. cycle.at = "spawning" =>
              \A x \in cycle.todo : x.name \in JobNames
                  /\ jobs[x.name] \in {x.job, NoValue}
      BY <1>2, <1>6 DEF SchedulerInv, NumbersKnown, LifecycleTypes
    <3> QED BY <1>8, <3>1
  <2>2. ASSUME NEW d \in Clients, client'[d].at = "removed",
               NEW n \in client'[d].names
        PROVE  jobs'[n] = NoValue
    <3>1. CASE d = c
      BY <1>4, <1>5, <1>8, <2>2, <3>1
    <3>2. CASE d # c
      <4>1. client[d].at = "removed" /\ n \in client[d].names
        BY <1>4, <2>2, <3>2
      <4>2. n \in JobNames /\ jobs[n] = NoValue
        BY <1>2, <1>6, <4>1 DEF SchedulerInv, NumbersKnown, CallTypes
      <4> QED BY <1>8, <4>2
    <3> QED BY <3>1, <3>2
  <2> QED BY <2>1, <2>2
<1>14. TasksKept'
  BY <1>6 DEF TasksKept
<1> QED BY <1>9, <1>10, <1>11, <1>12, <1>13, <1>14
           DEF SchedulerInv, SchedulerTypes
LEMMA AbortIs ==
    ASSUME TaskTypes, NEW S, NEW by \in {"removed", "stopped"},
           spawned' = Schedule!Aborted(spawned, S, by)
    PROVE  /\ Spawned' = Spawned /\ DOMAIN spawned' = DOMAIN spawned
           /\ spawned' \in [1..Spawned -> Schedule!Task]
           /\ \A t \in DOMAIN spawned :
                 /\ spawned'[t].name = spawned[t].name
                 /\ spawned'[t].job = spawned[t].job
                 /\ spawned'[t].period = spawned[t].period
                 /\ spawned'[t].state = spawned[t].state
                 /\ spawned'[t].runs = spawned[t].runs
                 /\ t \in S => spawned'[t].aborted = by
                 /\ t \notin S => spawned'[t] = spawned[t]
<1>1. /\ DOMAIN spawned = 1..Spawned /\ spawned \in [1..Spawned -> Schedule!Task]
      /\ spawned' = [t \in DOMAIN spawned |-> IF t \in S THEN [spawned[t] EXCEPT !.aborted = by]
                                                          ELSE spawned[t]]
  BY SpawnedIs DEF TaskTypes, Schedule!Aborted
<1>2. DOMAIN spawned' = DOMAIN spawned /\ Spawned' = Spawned
  BY <1>1 DEF Spawned
<1>3. ASSUME NEW t \in DOMAIN spawned
      PROVE  /\ spawned'[t] \in Schedule!Task
             /\ spawned'[t].name = spawned[t].name
             /\ spawned'[t].job = spawned[t].job
             /\ spawned'[t].period = spawned[t].period
             /\ spawned'[t].state = spawned[t].state
             /\ spawned'[t].runs = spawned[t].runs
             /\ t \in S => spawned'[t].aborted = by
             /\ t \notin S => spawned'[t] = spawned[t]
  <2>1. spawned[t] \in Schedule!Task
    BY <1>1
  <2>2. CASE t \notin S
    BY <1>1, <2>1, <2>2
  <2>3. CASE t \in S
    <3>1. spawned'[t] = [spawned[t] EXCEPT !.aborted = by]
      BY <1>1, <2>3
    <3> QED BY <2>1, <2>3, <3>1 DEF Schedule!Task
  <2> QED BY <2>2, <2>3
<1>4. spawned' \in [1..Spawned -> Schedule!Task]
  BY <1>1, <1>3
<1> QED BY <1>2, <1>3, <1>4

LEMMA RemoveHandlesPreserves ==
    ASSUME SchedulerInv, NEW c \in Clients, Schedule!RemoveHandles(c)
    PROVE  SchedulerInv'
<1> DEFINE S == client[c].names
<1>1. /\ TaskTypes /\ JobTypes /\ CallTypes /\ LifecycleTypes /\ SchedulerGiven
      /\ client[c].at = "removed"
      /\ spawned' = Schedule!Aborted(spawned, Schedule!Held(S), "removed")
      /\ handles' = [n \in JobNames |-> IF n \in S THEN NoValue ELSE handles[n]]
      /\ UNCHANGED <<jobs, starter, cycle, registrations, taken, starts, stops>>
      /\ Schedule!Called' = Schedule!Called
      /\ (OnlyScheduled' <=> OnlyScheduled) /\ (Orderly' <=> Orderly)
  BY CountersKept DEF SchedulerInv, SchedulerTypes, Schedule!RemoveHandles
<1>2. /\ client'[c] = Schedule!Idle
      /\ \A d \in Clients : d # c => client'[d] = client[d]
      /\ client' = [d \in Clients |-> client'[d]]
  BY <1>1, ClientMoves DEF Schedule!RemoveHandles
<1>3. S \subseteq JobNames /\ ~OnlyScheduled
  BY <1>1 DEF CallTypes, OnlyScheduled
<1>4. Orderly => \A n \in S : jobs[n] = NoValue
  BY <1>1 DEF SchedulerInv, NumbersKnown
<1> HIDE DEF S
<1>5. /\ Spawned' = Spawned /\ DOMAIN spawned' = DOMAIN spawned
      /\ spawned' \in [1..Spawned -> Schedule!Task]
      /\ \A t \in DOMAIN spawned :
            /\ spawned'[t].name = spawned[t].name
            /\ spawned'[t].job = spawned[t].job
            /\ spawned'[t].period = spawned[t].period
            /\ spawned'[t].state = spawned[t].state
            /\ spawned'[t].runs = spawned[t].runs
            /\ t \in Schedule!Held(S) => spawned'[t].aborted = "removed"
            /\ t \notin Schedule!Held(S) => spawned'[t] = spawned[t]
  BY <1>1, AbortIs
<1>6. \A n \in JobNames : handles'[n] = (IF n \in S THEN NoValue ELSE handles[n])
  BY <1>1
<1>7. ASSUME NEW n \in JobNames, n \notin S, handles[n] # NoValue
      PROVE  handles[n] \in DOMAIN spawned /\ handles[n] \notin Schedule!Held(S)
  <2>1. \A m \in JobNames : handles[m] # NoValue => spawned[handles[m]].name = m
    BY <1>1 DEF TaskTypes
  <2>2. \A m \in S : handles[m] # NoValue => handles[m] # handles[n]
    BY <1>3, <1>7, <2>1
  <2>3. handles[n] \notin Schedule!Held(S)
    BY <2>2 DEF Schedule!Held
  <2>4. handles[n] \in DOMAIN spawned
    BY <1>1, <1>7, SpawnedIs DEF TaskTypes
  <2> QED BY <2>3, <2>4
<1>8. TaskTypes'
  <2>1. handles' \in [JobNames -> 1..Spawned \cup {NoValue}]
    BY <1>1 DEF TaskTypes
  <2>2. \A n \in JobNames : handles'[n] # NoValue => spawned'[handles'[n]].name = n
    BY <1>1, <1>5, <1>6, <1>7 DEF TaskTypes
  <2> QED BY <1>1, <1>5, <2>1, <2>2 DEF TaskTypes
<1>9. JobTypes'
  BY <1>1 DEF JobTypes
<1>10. CallTypes'
  BY <1>1, <1>2 DEF CallTypes, Schedule!Idle, Scheduling
<1>11. LifecycleTypes'
  BY <1>1, <1>5 DEF LifecycleTypes
<1>12. TimeoutRuns(spawned')
  BY <1>5 DEF SchedulerInv, TimeoutRuns
<1>13. Schedule!Tracked'
  <2>1. Schedule!Taken' = Schedule!Taken
    BY <1>1 DEF Schedule!Taken
  <2>2. SUFFICES ASSUME NEW t \in DOMAIN spawned, spawned'[t].state # "ended",
                        spawned'[t].aborted = "no"
                 PROVE  handles'[spawned[t].name] = t \/ t \in Schedule!Taken
    BY <1>5, <2>1 DEF Schedule!Tracked, Schedule!Alive
  <2>3. t \notin Schedule!Held(S) /\ spawned[t].aborted = "no"
          /\ spawned[t].state # "ended"
    BY <1>5, <2>2
  <2>4. handles[spawned[t].name] = t \/ t \in Schedule!Taken
    BY <2>3 DEF SchedulerInv, Schedule!Tracked, Schedule!Alive
  <2>5. spawned[t].name \in JobNames /\ t # NoValue
    BY <1>1, TaskIs
  <2>6. handles[spawned[t].name] = t => spawned[t].name \notin S
    BY <2>3, <2>5 DEF Schedule!Held
  <2> QED BY <1>6, <2>4, <2>5, <2>6
<1>14. Awaited'
  <2>1. \A t \in DOMAIN spawned :
           Schedule!Alive(t)' /\ spawned'[t].aborted = "stopped"
               => Schedule!Alive(t) /\ spawned[t].aborted = "stopped"
    BY <1>5 DEF Schedule!Alive
  <2> QED BY <1>1, <1>5, <2>1 DEF SchedulerInv, Awaited
<1>15. NoHandles'
  BY <1>1, <1>6 DEF SchedulerInv, NoHandles
<1>16. JobsSpawned'
  <2> SUFFICES ASSUME Orderly, starter # NoValue, NEW n \in JobNames,
                      jobs[n] # NoValue
               PROVE  Responsible(n)'
                        /\ (handles'[n] # NoValue => Runs(handles[n], jobs[n])')
    BY <1>1 DEF JobsSpawned
  <2>1. Responsible(n) /\ (handles[n] # NoValue => Runs(handles[n], jobs[n]))
    BY DEF SchedulerInv, JobsSpawned
  <2>2. handles'[n] = handles[n] /\ n \notin S
    BY <1>4, <1>6
  <2>3. \A d \in Clients : client[d].at \in Scheduling => client'[d] = client[d]
    BY <1>1, <1>2 DEF Scheduling
  <2>4. Responsible(n)'
    BY <1>1, <2>1, <2>2, <2>3 DEF Responsible
  <2>5. handles[n] # NoValue => spawned'[handles[n]] = spawned[handles[n]]
    BY <1>5, <1>7, <2>2
  <2> QED BY <1>1, <2>1, <2>2, <2>4, <2>5 DEF Runs
<1>17. NumbersKnown' /\ TasksKept'
  BY <1>1, <1>2, <1>3
     DEF SchedulerInv, NumbersKnown, TasksKept, Schedule!Idle, Scheduling
<1> QED BY <1>8, <1>9, <1>10, <1>11, <1>12, <1>13, <1>14, <1>15, <1>16, <1>17
        DEF SchedulerInv, SchedulerTypes

-----------------------------------------------------------------------------
LEMMA StartRunningPreserves ==
    ASSUME SchedulerInv, Schedule!StartRunning PROVE SchedulerInv'
<1>1. /\ TaskTypes /\ JobTypes /\ CallTypes /\ LifecycleTypes /\ SchedulerGiven
      /\ cycle.at = "idle" /\ starts' = starts + 1
      /\ UNCHANGED <<jobs, handles, spawned, client, registrations, taken, stops>>
      /\ \/ UNCHANGED <<starter, cycle>>
         \/ starter = NoValue /\ starter' = starts + 1 /\ cycle'.at = "starting"
  BY DEF SchedulerInv, SchedulerTypes, Schedule!StartRunning, Schedule!Idle
<1>2. Schedule!Called' = Schedule!Called /\ (OnlyScheduled' <=> OnlyScheduled)
        /\ (Orderly' <=> Orderly)
  BY <1>1 DEF Schedule!Called, OnlyScheduled, Orderly
<1>3. Spawned' = Spawned
  BY <1>1 DEF Spawned
<1>4. starts \in Nat /\ starts + 1 \in Nat /\ starts + 1 # NoValue
  BY <1>1 DEF LifecycleTypes, SchedulerGiven
<1>5. TaskTypes' /\ JobTypes' /\ CallTypes' /\ TimeoutRuns(spawned')
  BY <1>1, <1>2, <1>3 DEF TaskTypes, JobTypes, CallTypes, SchedulerInv
<1>6. Schedule!Tracked' /\ Awaited'
  <2>1. Schedule!Taken = {} /\ Schedule!Taken' = {}
    BY <1>1 DEF Schedule!Taken
  <2>2. \A t \in DOMAIN spawned :
          ~(Schedule!Alive(t) /\ spawned[t].aborted = "stopped")
    BY <1>1 DEF SchedulerInv, Awaited
  <2> QED BY <1>1, <2>1, <2>2
             DEF SchedulerInv, Schedule!Tracked, Awaited, Schedule!Alive
<1>7. LifecycleTypes'
  BY <1>1, <1>3, <1>4 DEF LifecycleTypes, Starting, Stopping
<1>8. NoHandles'
  BY <1>1, <1>2, <1>4 DEF SchedulerInv, NoHandles
<1>9. JobsSpawned'
  <2>1. CASE UNCHANGED <<starter, cycle>>
    BY <1>1, <1>2, <2>1 DEF SchedulerInv, JobsSpawned, Responsible, Runs
  <2>2. CASE starter = NoValue /\ starter' = starts + 1 /\ cycle'.at = "starting"
    <3>1. Orderly => \A n \in JobNames : handles[n] = NoValue
      BY <1>1, <2>2 DEF SchedulerInv, NoHandles
    <3>2. \A n \in JobNames : Responsible(n)'
      BY <2>2 DEF Responsible
    <3> QED BY <1>1, <1>2, <3>1, <3>2 DEF JobsSpawned
  <2> QED BY <1>1, <2>1, <2>2
<1>10. NumbersKnown'
  <2>1. CASE UNCHANGED <<starter, cycle>>
    BY <1>1, <1>2, <2>1 DEF SchedulerInv, NumbersKnown
  <2>2. CASE starter = NoValue /\ starter' = starts + 1 /\ cycle'.at = "starting"
    BY <1>1, <1>2, <1>4, <2>2 DEF SchedulerInv, NumbersKnown
  <2> QED BY <1>1, <2>1, <2>2
<1>11. TasksKept'
  BY <1>1, <1>2 DEF SchedulerInv, TasksKept
<1> QED BY <1>5, <1>6, <1>7, <1>8, <1>9, <1>10, <1>11
           DEF SchedulerInv, SchedulerTypes

LEMMA ReadsJobsPreserves ==
    ASSUME SchedulerInv, Schedule!StartReadsJobs PROVE SchedulerInv'
<1> DEFINE Todo ==
    {[name |-> n, job |-> jobs[n]] : n \in {m \in JobNames : jobs[m] # NoValue}}
<1>1. /\ TaskTypes /\ JobTypes /\ CallTypes /\ LifecycleTypes
      /\ cycle.at = "starting"
      /\ cycle' = [at |-> "spawning", period |-> starter, todo |-> Todo]
      /\ UNCHANGED <<jobs, handles, starter, spawned, client, registrations,
           taken, starts, stops>>
      /\ Schedule!Called' = Schedule!Called
      /\ (OnlyScheduled' <=> OnlyScheduled) /\ (Orderly' <=> Orderly)
  BY CountersKept DEF SchedulerInv, SchedulerTypes, Schedule!StartReadsJobs
<1>2. /\ \A x \in Todo : x \in [name : JobNames, job : Nat] /\ jobs[x.name] = x.job
      /\ \A n \in JobNames : jobs[n] # NoValue => \E x \in Todo : x.name = n
  <2>1. \A n \in JobNames : jobs[n] # NoValue => jobs[n] \in Nat
    BY <1>1 DEF JobTypes
  <2>2. \A x \in Todo : \E n \in JobNames : jobs[n] # NoValue
          /\ x = [name |-> n, job |-> jobs[n]]
    OBVIOUS
  <2>3. \A x \in Todo : x \in [name : JobNames, job : Nat] /\ jobs[x.name] = x.job
    BY <2>1, <2>2
  <2>4. \A n \in JobNames : jobs[n] # NoValue
          => [name |-> n, job |-> jobs[n]] \in Todo
    OBVIOUS
  <2>5. ASSUME NEW n \in JobNames, jobs[n] # NoValue
        PROVE  \E x \in Todo : x.name = n
    <3>1. [name |-> n, job |-> jobs[n]] \in Todo
            /\ [name |-> n, job |-> jobs[n]].name = n
      BY <2>4, <2>5
    <3> HIDE DEF Todo
    <3> QED BY <3>1
  <2> QED BY <2>3, <2>5
<1> HIDE DEF Todo
<1>3. starter \in Nat /\ starter # NoValue
  BY <1>1 DEF LifecycleTypes, Starting
<1>4. /\ cycle'.at = "spawning" /\ cycle'.period = starter /\ cycle'.todo = Todo
      /\ cycle' \in [at : {"spawning"}, period : Nat,
                     todo : SUBSET [name : JobNames, job : Nat]]
  BY <1>1, <1>2, <1>3
<1>5. Spawned' = Spawned
  BY <1>1 DEF Spawned
<1>6. TaskTypes' /\ JobTypes' /\ CallTypes' /\ TimeoutRuns(spawned')
  BY <1>1, <1>5 DEF TaskTypes, JobTypes, CallTypes, SchedulerInv
<1>7. Schedule!Tracked' /\ Awaited'
  <2>1. Schedule!Taken = {} /\ Schedule!Taken' = {}
    BY <1>1, <1>4 DEF Schedule!Taken
  <2>2. \A t \in DOMAIN spawned :
          ~(Schedule!Alive(t) /\ spawned[t].aborted = "stopped")
    BY <1>1 DEF SchedulerInv, Awaited
  <2> QED BY <1>1, <2>1, <2>2
             DEF SchedulerInv, Schedule!Tracked, Awaited, Schedule!Alive
<1>8. LifecycleTypes'
  BY <1>1, <1>3, <1>4 DEF LifecycleTypes, Starting, Stopping
<1>9. NoHandles'
  BY <1>1, <1>3 DEF NoHandles
<1>10. JobsSpawned'
  <2>1. \A n \in JobNames : jobs[n] # NoValue => Responsible(n)'
    BY <1>1, <1>2, <1>4 DEF Responsible
  <2> QED BY <1>1, <2>1 DEF SchedulerInv, JobsSpawned, Runs
<1>11. NumbersKnown' /\ TasksKept'
  BY <1>1, <1>2, <1>4 DEF SchedulerInv, NumbersKnown, TasksKept
<1> QED BY <1>6, <1>7, <1>8, <1>9, <1>10, <1>11 DEF SchedulerInv, SchedulerTypes

(* start returns when it has spawned what it read; shutdown when nothing   *)
(* is left of what it took.                                                *)
LEMMA ReturnPreserves ==
    ASSUME SchedulerInv, Schedule!StartReturns \/ Schedule!ShutdownReturns
    PROVE  SchedulerInv'
<1>1. /\ TaskTypes /\ JobTypes /\ CallTypes /\ LifecycleTypes
      /\ cycle.at \in {"spawning", "aborting"} /\ cycle.todo = {}
      /\ cycle'.at = "idle"
      /\ UNCHANGED <<jobs, handles, starter, spawned, client, registrations,
           taken, starts, stops>>
      /\ Schedule!Called' = Schedule!Called
      /\ (OnlyScheduled' <=> OnlyScheduled) /\ (Orderly' <=> Orderly)
  BY CountersKept
     DEF SchedulerInv, SchedulerTypes, Schedule!StartReturns,
         Schedule!ShutdownReturns, Schedule!Idle
<1>2. Spawned' = Spawned
  BY <1>1 DEF Spawned
<1>3. TaskTypes' /\ JobTypes' /\ CallTypes' /\ TimeoutRuns(spawned')
  BY <1>1, <1>2 DEF TaskTypes, JobTypes, CallTypes, SchedulerInv
<1>4. Schedule!Tracked' /\ Awaited'
  <2>1. Schedule!Taken = {} /\ Schedule!Taken' = {}
    BY <1>1 DEF Schedule!Taken
  <2>2. \A t \in DOMAIN spawned :
          ~(Schedule!Alive(t) /\ spawned[t].aborted = "stopped")
    BY <1>1 DEF SchedulerInv, Awaited
  <2> QED BY <1>1, <2>1, <2>2
             DEF SchedulerInv, Schedule!Tracked, Awaited, Schedule!Alive
<1>5. LifecycleTypes'
  BY <1>1, <1>2 DEF LifecycleTypes, Starting, Stopping
<1>6. NoHandles'
  BY <1>1 DEF SchedulerInv, NoHandles
<1>7. JobsSpawned'
  <2>1. \A n \in JobNames : Responsible(n) => Responsible(n)'
    BY <1>1 DEF Responsible
  <2> QED BY <1>1, <2>1 DEF SchedulerInv, JobsSpawned, Runs
<1>8. NumbersKnown' /\ TasksKept'
  BY <1>1 DEF SchedulerInv, NumbersKnown, TasksKept
<1> QED BY <1>3, <1>4, <1>5, <1>6, <1>7, <1>8 DEF SchedulerInv, SchedulerTypes
-----------------------------------------------------------------------------
LEMMA ShutdownBeginsPreserves ==
    ASSUME SchedulerInv, Schedule!ShutdownBegins PROVE SchedulerInv'
<1>1. /\ TaskTypes /\ JobTypes /\ CallTypes /\ LifecycleTypes
      /\ cycle.at = "idle" /\ stops' = stops + 1 /\ starter' = NoValue
      /\ cycle'.at = "stopping"
      /\ UNCHANGED <<jobs, handles, spawned, client, registrations, taken, starts>>
  BY DEF SchedulerInv, SchedulerTypes, Schedule!ShutdownBegins, Schedule!Idle
<1>2. stops' \in Nat /\ stops' > 0 /\ Schedule!Called' = Schedule!Called
  BY <1>1 DEF CallTypes, Schedule!Called
<1>3. ~OnlyScheduled' /\ (Orderly' => Orderly /\ "schedule" \notin Schedule!Called)
  BY <1>2 DEF Orderly, OnlyScheduled
<1>4. Spawned' = Spawned
  BY <1>1 DEF Spawned
<1>5. TaskTypes' /\ JobTypes' /\ CallTypes' /\ TimeoutRuns(spawned')
  BY <1>1, <1>2, <1>4 DEF TaskTypes, JobTypes, CallTypes, SchedulerInv
<1>6. Schedule!Tracked' /\ Awaited'
  <2>1. Schedule!Taken = {} /\ Schedule!Taken' = {}
    BY <1>1 DEF Schedule!Taken
  <2>2. \A t \in DOMAIN spawned :
          ~(Schedule!Alive(t) /\ spawned[t].aborted = "stopped")
    BY <1>1 DEF SchedulerInv, Awaited
  <2> QED BY <1>1, <2>1, <2>2
             DEF SchedulerInv, Schedule!Tracked, Awaited, Schedule!Alive
<1>7. LifecycleTypes'
  BY <1>1, <1>2, <1>4 DEF LifecycleTypes, Starting, Stopping
<1>8. NoHandles' /\ JobsSpawned'
  BY <1>1 DEF NoHandles, JobsSpawned
<1>9. NumbersKnown'
  <2>1. "schedule" \notin Schedule!Called
          => \A c \in Clients : client[c].at \notin Scheduling
    BY <1>1 DEF CallTypes
  <2> QED BY <1>1, <1>3, <2>1 DEF SchedulerInv, NumbersKnown, Scheduling
<1>10. TasksKept'
  BY <1>3 DEF TasksKept
<1> QED BY <1>5, <1>6, <1>7, <1>8, <1>9, <1>10 DEF SchedulerInv, SchedulerTypes

LEMMA TakesHandlesPreserves ==
    ASSUME SchedulerInv, Schedule!ShutdownTakesHandles PROVE SchedulerInv'
<1>1. /\ TaskTypes /\ JobTypes /\ CallTypes /\ LifecycleTypes /\ SchedulerGiven
      /\ cycle.at = "stopping" /\ handles' = [n \in JobNames |-> NoValue]
      /\ cycle'.at = "aborting" /\ cycle'.todo = Schedule!Held(JobNames)
      /\ UNCHANGED <<jobs, starter, spawned, client, registrations, taken,
           starts, stops>>
      /\ Schedule!Called' = Schedule!Called
      /\ (OnlyScheduled' <=> OnlyScheduled) /\ (Orderly' <=> Orderly)
  BY CountersKept
     DEF SchedulerInv, SchedulerTypes, Schedule!ShutdownTakesHandles
<1>2. starter = NoValue /\ stops > 0
  BY <1>1 DEF LifecycleTypes, Stopping
<1>3. Spawned' = Spawned
  BY <1>1 DEF Spawned
<1>4. \A n \in JobNames : handles'[n] = NoValue
  BY <1>1
<1>5. Schedule!Held(JobNames) \subseteq 1..Spawned
  BY <1>1 DEF Schedule!Held, TaskTypes
<1>6. TaskTypes'
  BY <1>1, <1>3, <1>4 DEF TaskTypes
<1>7. JobTypes' /\ CallTypes' /\ TimeoutRuns(spawned')
  BY <1>1 DEF JobTypes, CallTypes, SchedulerInv
<1>8. LifecycleTypes'
  BY <1>1, <1>2, <1>3, <1>5 DEF LifecycleTypes, Starting, Stopping
<1>9. Schedule!Tracked'
  <2>1. Schedule!Taken = {} /\ Schedule!Taken' = Schedule!Held(JobNames)
    BY <1>1 DEF Schedule!Taken
  <2>2. SUFFICES ASSUME NEW t \in DOMAIN spawned, Schedule!Alive(t),
                        spawned[t].aborted = "no"
                 PROVE  t \in Schedule!Held(JobNames)
    BY <1>1, <2>1 DEF Schedule!Tracked, Schedule!Alive
  <2>3. handles[spawned[t].name] = t
    BY <2>1, <2>2 DEF SchedulerInv, Schedule!Tracked
  <2>4. spawned[t].name \in JobNames /\ t # NoValue
    BY <1>1, TaskIs
  <2> QED BY <2>3, <2>4 DEF Schedule!Held
<1>10. Awaited'
  <2>1. \A t \in DOMAIN spawned :
          ~(Schedule!Alive(t) /\ spawned[t].aborted = "stopped")
    BY <1>1 DEF SchedulerInv, Awaited
  <2> QED BY <1>1, <2>1 DEF Awaited, Schedule!Alive
<1>11. NoHandles' /\ JobsSpawned'
  BY <1>1, <1>2, <1>4 DEF NoHandles, JobsSpawned
<1>12. NumbersKnown'
  BY <1>1 DEF SchedulerInv, NumbersKnown
<1>13. TasksKept'
  BY <1>1, <1>2 DEF TasksKept, OnlyScheduled, CallTypes
<1> QED BY <1>6, <1>7, <1>8, <1>9, <1>10, <1>11, <1>12, <1>13
        DEF SchedulerInv, SchedulerTypes

LEMMA AbortsPreserve ==
    ASSUME SchedulerInv, NEW t \in DOMAIN spawned, Schedule!ShutdownAborts(t)
    PROVE  SchedulerInv'
<1>1. /\ TaskTypes /\ JobTypes /\ CallTypes /\ LifecycleTypes /\ SchedulerGiven
      /\ cycle.at = "aborting" /\ t \in cycle.todo
      /\ spawned' = Schedule!Aborted(spawned, {t}, "stopped")
      /\ cycle'.at = "awaiting" /\ cycle'.todo = cycle.todo \ {t}
      /\ cycle'.task = t
      /\ UNCHANGED <<jobs, handles, starter, client, registrations, taken,
           starts, stops>>
      /\ Schedule!Called' = Schedule!Called
      /\ (OnlyScheduled' <=> OnlyScheduled) /\ (Orderly' <=> Orderly)
  BY CountersKept DEF SchedulerInv, SchedulerTypes, Schedule!ShutdownAborts
<1>2. starter = NoValue /\ stops > 0
  BY <1>1 DEF LifecycleTypes, Stopping
<1>3. /\ Spawned' = Spawned /\ DOMAIN spawned' = DOMAIN spawned
      /\ spawned' \in [1..Spawned -> Schedule!Task]
      /\ \A u \in DOMAIN spawned :
            /\ spawned'[u].name = spawned[u].name
            /\ spawned'[u].job = spawned[u].job
            /\ spawned'[u].period = spawned[u].period
            /\ spawned'[u].state = spawned[u].state
            /\ spawned'[u].runs = spawned[u].runs
            /\ u \in {t} => spawned'[u].aborted = "stopped"
            /\ u \notin {t} => spawned'[u] = spawned[u]
  BY <1>1, AbortIs
<1>31. /\ spawned'[t].aborted = "stopped"
       /\ \A u \in DOMAIN spawned : u # t => spawned'[u] = spawned[u]
  BY <1>3
<1>32. \A u \in DOMAIN spawned : spawned'[u].name = spawned[u].name
  BY <1>3
<1>4. TaskTypes'
  <2>1. /\ Spawned \in Nat /\ handles \in [JobNames -> 1..Spawned \cup {NoValue}]
        /\ \A n \in JobNames : handles[n] # NoValue =>
              handles[n] \in DOMAIN spawned /\ spawned[handles[n]].name = n
    BY <1>1, SpawnedIs DEF TaskTypes
  <2>2. \A n \in JobNames : handles'[n] # NoValue => spawned'[handles'[n]].name = n
    BY <1>1, <1>32, <2>1
  <2>3. Spawned' \in Nat /\ spawned' \in [1..Spawned' -> Schedule!Task]
        /\ handles' \in [JobNames -> 1..Spawned' \cup {NoValue}]
    BY <1>1, <1>3, <2>1
  <2> QED BY <2>2, <2>3 DEF TaskTypes
<1>5. JobTypes' /\ CallTypes'
  BY <1>1 DEF JobTypes, CallTypes
<1>6. TimeoutRuns(spawned')
  BY <1>3 DEF SchedulerInv, TimeoutRuns
<1>7. LifecycleTypes'
  BY <1>1, <1>2, <1>3 DEF LifecycleTypes, Starting, Stopping
<1>8. Schedule!Tracked'
  <2>1. Schedule!Taken' = Schedule!Taken \ {t}
    BY <1>1 DEF Schedule!Taken
  <2>2. SUFFICES ASSUME NEW u \in DOMAIN spawned', spawned'[u].state # "ended",
                        spawned'[u].aborted = "no"
                 PROVE  handles'[spawned'[u].name] = u \/ u \in Schedule!Taken'
    BY DEF Schedule!Tracked, Schedule!Alive
  <2>3. u \in DOMAIN spawned /\ u # t /\ spawned'[u] = spawned[u]
    BY <1>3, <1>31, <2>2
  <2>4. handles[spawned[u].name] = u \/ u \in Schedule!Taken
    BY <2>2, <2>3 DEF SchedulerInv, Schedule!Tracked, Schedule!Alive
  <2> QED BY <1>1, <2>1, <2>3, <2>4
<1>9. Awaited'
  <2>1. \A u \in DOMAIN spawned :
          ~(Schedule!Alive(u) /\ spawned[u].aborted = "stopped")
    BY <1>1 DEF SchedulerInv, Awaited
  <2>2. \A u \in DOMAIN spawned' : u # t
          => ~(Schedule!Alive(u)' /\ spawned'[u].aborted = "stopped")
    BY <1>3, <1>31, <2>1 DEF Schedule!Alive
  <2> QED BY <1>1, <2>2 DEF Awaited
<1>10. NoHandles' /\ JobsSpawned'
  BY <1>1, <1>2 DEF SchedulerInv, NoHandles, JobsSpawned
<1>11. NumbersKnown'
  BY <1>1 DEF SchedulerInv, NumbersKnown
<1>12. TasksKept'
  BY <1>1, <1>2 DEF TasksKept, OnlyScheduled, CallTypes
<1> QED BY <1>4, <1>5, <1>6, <1>7, <1>8, <1>9, <1>10, <1>11, <1>12
        DEF SchedulerInv, SchedulerTypes

LEMMA AwaitsPreserve ==
    ASSUME SchedulerInv, Schedule!ShutdownAwaits PROVE SchedulerInv'
<1>1. /\ TaskTypes /\ JobTypes /\ CallTypes /\ LifecycleTypes
      /\ cycle.at = "awaiting" /\ spawned[cycle.task].state = "ended"
      /\ cycle'.at = "aborting" /\ cycle'.todo = cycle.todo
      /\ UNCHANGED <<jobs, handles, starter, spawned, client, registrations,
           taken, starts, stops>>
      /\ Schedule!Called' = Schedule!Called
      /\ (OnlyScheduled' <=> OnlyScheduled) /\ (Orderly' <=> Orderly)
  BY CountersKept DEF SchedulerInv, SchedulerTypes, Schedule!ShutdownAwaits
<1>2. Spawned' = Spawned
  BY <1>1 DEF Spawned
<1>3. TaskTypes' /\ JobTypes' /\ CallTypes' /\ TimeoutRuns(spawned')
  BY <1>1, <1>2 DEF TaskTypes, JobTypes, CallTypes, SchedulerInv
<1>4. LifecycleTypes'
  BY <1>1, <1>2 DEF LifecycleTypes, Starting, Stopping
<1>5. Schedule!Tracked'
  <2>1. Schedule!Taken' = Schedule!Taken
    BY <1>1 DEF Schedule!Taken
  <2> QED BY <1>1, <2>1 DEF SchedulerInv, Schedule!Tracked, Schedule!Alive
<1>6. Awaited'
  <2>1. \A u \in DOMAIN spawned :
          ~(Schedule!Alive(u) /\ spawned[u].aborted = "stopped")
    BY <1>1 DEF SchedulerInv, Awaited, Schedule!Alive
  <2> QED BY <1>1, <2>1 DEF Awaited, Schedule!Alive
<1>7. starter = NoValue
  BY <1>1 DEF LifecycleTypes, Stopping
<1>8. NoHandles' /\ JobsSpawned' /\ NumbersKnown' /\ TasksKept'
  BY <1>1, <1>7
     DEF SchedulerInv, NoHandles, JobsSpawned, NumbersKnown, TasksKept
<1> QED BY <1>3, <1>4, <1>5, <1>6, <1>8 DEF SchedulerInv, SchedulerTypes

-----------------------------------------------------------------------------
LEMMA SchedulerInit == ASSUME SchedulerGiven, Schedule!Init PROVE SchedulerInv
<1>1. PICK number \in [InitialJobs -> 1..Cardinality(InitialJobs)] :
          /\ \A m, n \in InitialJobs : number[m] = number[n] => m = n
          /\ jobs = [n \in JobNames |-> IF n \in InitialJobs THEN number[n]
                     ELSE NoValue]
  BY SchedulerCounts DEF Schedule!Init
<1>2. /\ handles = [n \in JobNames |-> NoValue] /\ starter = NoValue
      /\ spawned = <<>>
      /\ client = [c \in Clients |-> Schedule!Idle] /\ cycle.at = "idle"
      /\ registrations = Cardinality(InitialJobs)
      /\ taken = [op \in Schedule!ClientOps |-> 0] /\ starts = 0 /\ stops = 0
  BY SchedulerCounts DEF Schedule!Init, Schedule!Idle
<1>3. DOMAIN spawned = {} /\ Spawned = 0
  <2>1. DOMAIN spawned = {}
    BY <1>2
  <2> QED BY <2>1, FS_EmptySet DEF Spawned
<1>4. registrations \in Nat /\ NoValue \notin Nat
  BY <1>2, FS_CardinalityType DEF SchedulerGiven
<1>5. TaskTypes
  <2>1. spawned \in [1..Spawned -> Schedule!Task]
    BY <1>2, <1>3
  <2>2. handles \in [JobNames -> 1..Spawned \cup {NoValue}]
          /\ \A n \in JobNames : handles[n] = NoValue
    BY <1>2
  <2> QED BY <1>3, <2>1, <2>2 DEF TaskTypes
<1>6. JobTypes
  <2>1. \A n \in InitialJobs : number[n] \in 1..registrations
          /\ number[n] \in Nat /\ number[n] # NoValue
    BY <1>1, <1>2, <1>4
  <2>2. \A n \in JobNames :
          jobs[n] = (IF n \in InitialJobs THEN number[n] ELSE NoValue)
    BY <1>1
  <2>3. jobs \in [JobNames -> Nat \cup {NoValue}]
    BY <1>1, <2>1
  <2>4. \A n \in JobNames : jobs[n] # NoValue
          => n \in InitialJobs /\ jobs[n] = number[n]
    BY <2>2
  <2>5. \A n \in JobNames : jobs[n] # NoValue => jobs[n] <= registrations
    BY <1>4, <2>1, <2>4
  <2>6. \A m, n \in JobNames : jobs[m] # NoValue /\ jobs[m] = jobs[n] => m = n
    BY <1>1, <2>4
  <2> QED BY <1>4, <2>3, <2>5, <2>6 DEF JobTypes
<1>7. CallTypes
  BY <1>2 DEF CallTypes, Schedule!Idle, Scheduling
<1>8. LifecycleTypes
  BY <1>2 DEF LifecycleTypes, Starting, Stopping
<1>9. TimeoutRuns(spawned) /\ Schedule!Tracked /\ Awaited
  BY <1>3 DEF TimeoutRuns, Schedule!Tracked, Awaited
<1>10. NoHandles /\ JobsSpawned /\ NumbersKnown /\ TasksKept
  BY <1>2, <1>3
     DEF NoHandles, JobsSpawned, NumbersKnown, TasksKept, Schedule!Idle,
         Scheduling
<1> QED BY <1>5, <1>6, <1>7, <1>8, <1>9, <1>10 DEF SchedulerInv, SchedulerTypes

LEMMA SchedulerStep == SchedulerInv /\ [Schedule!Next]_ScheduleVars => SchedulerInv'
<1> SUFFICES ASSUME SchedulerInv, [Schedule!Next]_ScheduleVars PROVE SchedulerInv'
  OBVIOUS
<1>1. CASE UNCHANGED ScheduleVars
  <2>1. /\ UNCHANGED <<jobs, handles, starter, spawned, client, cycle>>
        /\ UNCHANGED Schedule!counters
    BY <1>1 DEF ScheduleVars, Schedule!counters
  <2>2. /\ spawned \in [1..Spawned -> Schedule!Task] /\ TimeoutRuns(spawned')
        /\ \A t \in DOMAIN spawned : Schedule!Alive(t)' => Schedule!Alive(t)
    BY <2>1 DEF SchedulerInv, SchedulerTypes, TaskTypes, Schedule!Alive
  <2> QED BY <2>1, <2>2, TasksRunOn
<1>2. CASE \E c \in Clients : \/ \E n \in JobNames : Schedule!ScheduleInsert(c, n)
                             \/ \E S \in SUBSET JobNames : Schedule!RemoveJobs(c, S)
                             \/ Schedule!ClientStep(c)
  BY <1>2, InsertPreserves, RemoveJobsPreserves, CheckPreserves,
     ScheduleSpawnPreserves, UndoPreserves, RemoveHandlesPreserves
     DEF Schedule!ClientStep
<1>3. CASE Schedule!StartRunning \/ Schedule!StartStep
  BY <1>3, StartRunningPreserves, ReadsJobsPreserves, ReturnPreserves,
     StartSpawnsPreserves DEF Schedule!StartStep
<1>4. CASE Schedule!ShutdownBegins \/ Schedule!ShutdownStep
  BY <1>4, ShutdownBeginsPreserves, TakesHandlesPreserves, AwaitsPreserve,
     ReturnPreserves, AbortsPreserve DEF Schedule!ShutdownStep
<1>5. CASE \E t \in DOMAIN spawned : Schedule!TimerFires(t) \/ Schedule!TaskMoves(t)
  BY <1>5, TasksPreserve
<1> QED BY <1>1, <1>2, <1>3, <1>4, <1>5 DEF Schedule!Next

LEMMA SchedulerAlways ==
    ASSUME SchedulerGiven
    PROVE  PartsSpec => [](part = "scheduler" => SchedulerInv)
<1>1. Schedule!Init => SchedulerInv
  BY SchedulerInit
<1>2. PartsInit => (part = "scheduler" => SchedulerInv)
  BY <1>1, PartsBegin
<1>3. (part = "scheduler" => SchedulerInv) /\ [PartsNext]_parts
        => (part = "scheduler" => SchedulerInv)'
  BY SchedulerStep, PartsStep
<1> QED BY <1>2, <1>3, PTL DEF PartsSpec

(* No task runs on out of reach (schedule.rs, spawn_job, remove, clear and *)
(* shutdown): one that was not aborted is in the map of handles, or shut-  *)
(* down holds it and aborts it next.                                       *)
THEOREM TrackedAlways ==
    ASSUME SchedulerGiven
    PROVE  PartsSpec => [](part = "scheduler" => Schedule!Tracked)
<1>1. (part = "scheduler" => SchedulerInv)
        => (part = "scheduler" => Schedule!Tracked)
  BY DEF SchedulerInv
<1> QED BY <1>1, SchedulerAlways, PTL

(* As long as nothing was removed or shut down, or nothing was scheduled,  *)
(* the jobs registered run when start has returned, a one-shot job runs    *)
(* once for each start, and no task outlives the shutdown that found it    *)
(* (schedule.rs, schedule, start, spawn_job, run_job_loop and shutdown).   *)
THEOREM JobsRunAsAskedAlways ==
    ASSUME SchedulerGiven PROVE PartsSpec => []JobsRunAsAsked
<1>1. ASSUME SchedulerInv PROVE Schedule!AllSpawned
  <2> SUFFICES ASSUME "schedule" \in Schedule!Called
                        => Schedule!Called = {"schedule"} /\ stops = 0,
                      starter # NoValue, cycle = Schedule!Idle,
                      \A c \in Clients : client[c] = Schedule!Idle,
                      NEW n \in JobNames, jobs[n] # NoValue
               PROVE  /\ handles[n] # NoValue
                      /\ spawned[handles[n]].job = jobs[n]
                      /\ spawned[handles[n]].period = starter
                      /\ spawned[handles[n]].aborted = "no"
    BY DEF Schedule!AllSpawned
  <2>1. Orderly
    BY DEF Orderly, OnlyScheduled
  <2>2. Responsible(n) /\ (handles[n] # NoValue => Runs(handles[n], jobs[n]))
    BY <1>1, <2>1 DEF SchedulerInv, JobsSpawned
  <2>3. handles[n] # NoValue
    BY <2>2 DEF Responsible, Schedule!Idle, Scheduling
  <2> QED BY <2>2, <2>3 DEF Runs
<1>2. ASSUME SchedulerInv PROVE Schedule!TimeoutOnce
  <2> SUFFICES ASSUME OnlyScheduled, NEW t \in DOMAIN spawned,
                      NEW u \in DOMAIN spawned,
                      spawned[t].name \in OneShots, spawned[t].runs > 0
               PROVE  /\ spawned[t].runs = 1
                      /\ spawned[u].job = spawned[t].job => u = t
    BY DEF Schedule!TimeoutOnce, OnlyScheduled
  <2>1. TaskTypes /\ SchedulerGiven /\ JobTypes /\ NoValue \notin Nat
    BY <1>2 DEF SchedulerInv, SchedulerTypes, SchedulerGiven
  <2>2. spawned[t].runs \in Nat
    BY <2>1, SpawnedIs DEF TaskTypes, Schedule!Task
  <2>3. spawned[t].runs = 1
    BY <1>2, <2>2 DEF SchedulerInv, TimeoutRuns
  <2>4. \A v \in DOMAIN spawned :
           /\ handles[spawned[v].name] = v /\ jobs[spawned[v].name] = spawned[v].job
           /\ spawned[v].name \in JobNames /\ spawned[v].job # NoValue
    BY <1>2, <2>1, TaskIs DEF SchedulerInv, TasksKept
  <2>5. spawned[u].job = spawned[t].job => spawned[u].name = spawned[t].name
    BY <2>1, <2>4 DEF JobTypes
  <2> QED BY <2>3, <2>4, <2>5
<1>3. ASSUME SchedulerInv PROVE Schedule!StoppedMeansStopped
  <2> SUFFICES ASSUME cycle = Schedule!Idle, starter = NoValue,
                      "schedule" \notin Schedule!Called,
                      NEW t \in DOMAIN spawned, Schedule!Alive(t)
               PROVE  spawned[t].aborted = "removed"
    BY DEF Schedule!StoppedMeansStopped
  <2>1. cycle.at = "idle"
    BY DEF Schedule!Idle
  <2>2. TaskTypes /\ SchedulerGiven
    BY <1>3 DEF SchedulerInv, SchedulerTypes
  <2>3. spawned[t].name \in JobNames /\ t # NoValue
    BY <2>2, TaskIs
  <2>4. spawned[t].aborted \in {"no", "removed", "stopped"}
    BY <2>2, SpawnedIs DEF TaskTypes, Schedule!Task
  <2>5. handles[spawned[t].name] = NoValue
    BY <1>3, <2>1, <2>3 DEF SchedulerInv, NoHandles, Orderly
  <2>6. spawned[t].aborted # "no"
    BY <1>3, <2>1, <2>3, <2>5 DEF SchedulerInv, Schedule!Tracked, Schedule!Taken
  <2>7. spawned[t].aborted # "stopped"
    BY <1>3, <2>1 DEF SchedulerInv, Awaited
  <2> QED BY <2>4, <2>6, <2>7
<1>4. (part = "scheduler" => SchedulerInv) => JobsRunAsAsked
  BY <1>1, <1>2, <1>3 DEF JobsRunAsAsked
<1> QED BY <1>4, SchedulerAlways, PTL

-----------------------------------------------------------------------------
(* The OpenAPI document (OpenApi).  A path names each of its parameters     *)
(* once, and a wildcard has the name of the parameter that it is shown as.  *)

DocumentGiven ==
    /\ \A ns \in SUBSET Properties : ns # NoValue
    /\ \A r \in PathShapes :
          /\ r.path \in Seq(STRING)
          /\ \A k, l \in DOMAIN r.path :
                /\ r.path[k] \in DOMAIN ParamOf /\ r.path[l] \in DOMAIN ParamOf
                /\ ParamOf[r.path[k]] = ParamOf[r.path[l]]
                => k = l
    /\ \A s \in DOMAIN Braced :
          /\ s \in DOMAIN ParamOf /\ Braced[s] \in DOMAIN ParamOf
          /\ ParamOf[Braced[s]] = ParamOf[s]

MetadataFields ==
    {"tags", "id", "parameters", "body", "responses", "extensions",
     "components", "security", "deprecated", "hidden"}

(* Parameters of different identities.                                     *)
Once(ps) ==
    /\ \E S : ps \in Seq(S)
    /\ \A i, j \in DOMAIN ps : ps[i].identity = ps[j].identity => i = j

Known(o) == DOMAIN o = MetadataFields /\ Once(o.parameters)

LEMMA NothingKnown == Known(Document!NoMetadata)
<1>1. DOMAIN Document!NoMetadata = MetadataFields
  BY DEF Document!NoMetadata, MetadataFields
<1>2. Document!NoMetadata.parameters = << >>
  BY DEF Document!NoMetadata
<1>3. << >> \in Seq({}) /\ DOMAIN << >> = {}
  OBVIOUS
<1>4. Once(<< >>)
  BY <1>3 DEF Once
<1> QED BY <1>1, <1>2, <1>4 DEF Known

(* A parameter takes the place of the one of its identity, or the last.    *)
LEMMA UpsertKnown ==
    ASSUME NEW o, Known(o), NEW p
    PROVE  Known(Document!UpsertParameter(o, p))
<1> DEFINE ps == o.parameters
           same == {i \in DOMAIN ps : ps[i].identity = p.identity}
           new == Document!UpsertParameter(o, p)
<1>1. PICK S : ps \in Seq(S)
  BY DEF Known, Once
<1>2. /\ \A i, j \in DOMAIN ps : ps[i].identity = ps[j].identity => i = j
      /\ "parameters" \in DOMAIN o /\ DOMAIN o = MetadataFields
  BY DEF Known, Once, MetadataFields
<1>3. Len(ps) \in Nat /\ DOMAIN ps = 1..Len(ps)
  BY <1>1
<1>4. CASE same = {}
  <2>1. new = [o EXCEPT !.parameters = Append(ps, p)]
    BY <1>4 DEF Document!UpsertParameter
  <2>2. DOMAIN new = MetadataFields /\ new.parameters = Append(ps, p)
    BY <2>1, <1>2
  <2>3. Append(ps, p) \in Seq(S \cup {p})
    BY <1>1
  <2>4. /\ DOMAIN Append(ps, p) = DOMAIN ps \cup {Len(ps) + 1}
        /\ \A i \in DOMAIN ps : Append(ps, p)[i] = ps[i]
        /\ Append(ps, p)[Len(ps) + 1] = p
    <3>1. Len(Append(ps, p)) = Len(ps) + 1 /\ Append(ps, p)[Len(ps) + 1] = p
      BY <1>1
    <3>2. \A i \in 1..Len(ps) : Append(ps, p)[i] = ps[i]
      BY <1>1
    <3>3. DOMAIN Append(ps, p) = 1..(Len(ps) + 1)
      BY <2>3, <3>1
    <3>4. 1..(Len(ps) + 1) = 1..Len(ps) \cup {Len(ps) + 1}
      BY <1>3
    <3> QED BY <1>3, <3>1, <3>2, <3>3, <3>4
  <2>5. \A i \in DOMAIN ps : ps[i].identity # p.identity
    BY <1>4
  <2> HIDE DEF new
  <2>6. Once(Append(ps, p))
    BY <2>3, <2>4, <2>5, <1>2 DEF Once
  <2>7. Known(new)
    BY <2>2, <2>6 DEF Known
  <2> QED BY <2>7 DEF new
<1>5. CASE same # {}
  <2> DEFINE k == CHOOSE i \in same : \A j \in same : i <= j
  <2>1. same \in SUBSET Nat
    BY <1>3
  <2>2. k \in same
    <3>1. \E i \in same : \A j \in same : i <= j
      BY <1>5, <2>1, LeastOf
    <3> QED BY <3>1
  <2>3. new = [o EXCEPT !.parameters = [ps EXCEPT ![k] = p]]
    BY <1>5 DEF Document!UpsertParameter
  <2> DEFINE qs == [ps EXCEPT ![k] = p]
  <2>4. DOMAIN new = MetadataFields /\ new.parameters = qs
    BY <2>3, <1>2
  <2> HIDE DEF k, new
  <2>5. k \in DOMAIN ps /\ ps[k].identity = p.identity
    BY <2>2
  <2>6. /\ qs \in Seq(S \cup {p}) /\ DOMAIN qs = DOMAIN ps
        /\ qs[k] = p /\ \A i \in DOMAIN ps : i # k => qs[i] = ps[i]
    BY <1>1, <2>5
  <2>7. \A i \in DOMAIN qs : qs[i].identity = ps[i].identity
    BY <2>5, <2>6
  <2> HIDE DEF qs
  <2>8. Once(qs)
    BY <1>2, <2>6, <2>7 DEF Once
  <2>9. Known(new)
    BY <2>4, <2>8 DEF Known
  <2> QED BY <2>9 DEF new
<1> QED BY <1>4, <1>5

(* The other methods leave the parameters.                                 *)
Leaving(o, new) == DOMAIN new = DOMAIN o /\ new.parameters = o.parameters

LEMMA LeavingKnown ==
    ASSUME NEW o, Known(o), NEW new, Leaving(o, new) PROVE Known(new)
BY DEF Leaving, Known

LEMMA MethodsLeave ==
    ASSUME NEW o, NEW n, NEW v
    PROVE  /\ Leaving(o, Document!WithTag(o, n))
           /\ Leaving(o, Document!WithExtension(o, n, v))
           /\ Leaving(o, Document!WithExtensionDefault(o, n, v))
           /\ Leaving(o, Document!WithRequestBody(o, v))
           /\ Leaving(o, Document!WithResponse(o, n, v))
           /\ Leaving(o, Document!WithApiSecurity(o, n, v))
<1>1. Leaving(o, Document!WithTag(o, n))
  BY DEF Leaving, Document!WithTag
<1>2. Leaving(o, Document!WithExtension(o, n, v))
  BY DEF Leaving, Document!WithExtension
<1>3. Leaving(o, Document!WithExtensionDefault(o, n, v))
  BY DEF Leaving, Document!WithExtensionDefault
<1>4. Leaving(o, Document!WithRequestBody(o, v))
  BY DEF Leaving, Document!WithRequestBody
<1>5. Leaving(o, Document!WithResponse(o, n, v))
  BY DEF Leaving, Document!WithResponse
<1>6. Leaving(o, Document!WithApiSecurity(o, n, v))
  BY DEF Leaving, Document!WithApiSecurity
<1> QED BY <1>1, <1>2, <1>3, <1>4, <1>5, <1>6

LEMMA ComponentsLeave ==
    ASSUME NEW o, NEW kind, NEW n, NEW v, NEW scopes
    PROVE  /\ Leaving(o, Document!WithComponent(o, kind, n, v))
           /\ Leaving(o, Document!WithAuth(o, n, v, scopes))
           /\ Leaving(o, Document!WithResponseHeader(o, kind, n, v))
<1>1. \A k : Leaving(o, Document!WithComponent(o, k, n, v))
  BY DEF Leaving, Document!WithComponent
<1>2. Leaving(o, Document!WithAuth(o, n, v, scopes))
  <2> DEFINE with == Document!WithComponent(o, "securitySchemes", n, v)
  <2>1. Leaving(with, Document!WithApiSecurity(with, n, scopes))
    BY MethodsLeave
  <2>2. Leaving(o, with)
    BY <1>1
  <2> HIDE DEF with
  <2>3. Document!WithAuth(o, n, v, scopes) = Document!WithApiSecurity(with, n, scopes)
    BY DEF with, Document!WithAuth
  <2> QED BY <2>1, <2>2, <2>3 DEF Leaving
<1>3. Leaving(o, Document!WithResponseHeader(o, kind, n, v))
  <2>1. \A r : Leaving(o, Document!WithResponse(o, kind, r))
    BY MethodsLeave
  <2>2. \E r : Document!WithResponseHeader(o, kind, n, v) = Document!WithResponse(o, kind, r)
    BY DEF Document!WithResponseHeader
  <2> QED BY <2>1, <2>2
<1> QED BY <1>1, <1>2, <1>3

LEMMA DescribedKnown ==
    ASSUME NEW o, Known(o), NEW new \in Document!Described(o)
    PROVE  Known(new)
<1>1. ASSUME NEW n, new \in Document!DescribedAs(o, n) PROVE Known(new)
  <2>1. \/ \E p : new = Document!UpsertParameter(o, p)
        \/ new = Document!WithTag(o, n)
        \/ \E v : new = Document!WithExtension(o, n, v)
        \/ \E v : new = Document!WithExtensionDefault(o, n, v)
        \/ \E v : new = Document!WithApiSecurity(o, n, v)
        \/ \E k, v : new = Document!WithComponent(o, k, n, v)
        \/ \E v, scopes : new = Document!WithAuth(o, n, v, scopes)
    BY <1>1 DEF Document!DescribedAs
  <2> QED BY <2>1, UpsertKnown, MethodsLeave, ComponentsLeave, LeavingKnown
<1>2. ASSUME \/ new = [o EXCEPT !.hidden = TRUE]
             \/ new = [o EXCEPT !.deprecated = TRUE]
             \/ new = [o EXCEPT !.id = "id"]
      PROVE  Known(new)
  <2>1. Leaving(o, [o EXCEPT !.hidden = TRUE])
    BY DEF Leaving
  <2>2. Leaving(o, [o EXCEPT !.deprecated = TRUE])
    BY DEF Leaving
  <2>3. Leaving(o, [o EXCEPT !.id = "id"])
    BY DEF Leaving
  <2> QED BY <1>2, <2>1, <2>2, <2>3, LeavingKnown
<1>3. \/ new = Document!NoMetadata
      \/ new = [o EXCEPT !.hidden = TRUE]
      \/ new = [o EXCEPT !.deprecated = TRUE]
      \/ new = [o EXCEPT !.id = "id"]
      \/ \E v : new = Document!WithRequestBody(o, v)
      \/ \E n, v : new = Document!WithResponse(o, n, v)
      \/ \E k, n, v : new = Document!WithResponseHeader(o, k, n, v)
      \/ \E n : new \in Document!DescribedAs(o, n)
  BY DEF Document!Described
<1> QED BY <1>1, <1>2, <1>3, NothingKnown, MethodsLeave, ComponentsLeave, LeavingKnown

-----------------------------------------------------------------------------
(* Schemas and media types.                                                *)

SchemaFields == {"json", "type", "properties", "required", "fields"}

SchemaOK(s) ==
    /\ DOMAIN s = SchemaFields
    /\ s.properties = NoValue \/ s.properties \subseteq Properties
    /\ s.required = NoValue \/ s.required \subseteq Properties

LEMMA SchemasMade ==
    /\ SchemaOK(Document!Object) /\ SchemaOK(Document!StringSchema)
    /\ SchemaOK(Document!AllOf) /\ SchemaOK(Document!NotAnObject)
    /\ \A f : SchemaOK(Document!Untyped(f))
    /\ \A rs \in SUBSET Properties :
          SchemaOK(Document!WithProperties(Properties, rs))
<1>1. /\ DOMAIN Document!Object = SchemaFields
      /\ Document!Object.properties = NoValue
      /\ Document!Object.required = NoValue
  BY DEF Document!Object, SchemaFields
<1> DEFINE Like(s) == /\ DOMAIN s = SchemaFields
                      /\ s.properties = NoValue /\ s.required = NoValue
<1>2. Like(Document!Object)
  BY <1>1
<1>3. \A f : Like(Document!Untyped(f))
  <2> TAKE f
  <2>1. Document!Untyped(f) = [Document!Object EXCEPT !.type = NoValue, !.fields = f]
    BY DEF Document!Untyped
  <2> QED BY <2>1, <1>1
<1>4. Like(Document!StringSchema)
  <2>1. Document!StringSchema = [Document!Object EXCEPT !.type = "string"]
    BY DEF Document!StringSchema
  <2> QED BY <2>1, <1>1
<1>5. Like(Document!NotAnObject)
  <2> DEFINE u == Document!Untyped({})
  <2>1. Like(u)
    BY <1>3
  <2> HIDE DEF u
  <2>2. Document!NotAnObject = [u EXCEPT !.json = "true"]
    BY DEF Document!NotAnObject, u
  <2> QED BY <2>1, <2>2
<1>6. Like(Document!AllOf)
  BY <1>3 DEF Document!AllOf
<1>7. \A s : Like(s) => SchemaOK(s)
  BY DEF SchemaOK
<1> HIDE DEF Like
<1>8. ASSUME NEW rs \in SUBSET Properties
      PROVE  SchemaOK(Document!WithProperties(Properties, rs))
  <2> DEFINE s == Document!WithProperties(Properties, rs)
  <2>1. s = [Document!Object EXCEPT
               !.properties = Properties,
               !.required = IF rs = {} THEN NoValue ELSE rs]
    BY DEF Document!WithProperties
  <2> HIDE DEF s
  <2>2. /\ DOMAIN s = SchemaFields /\ s.properties = Properties
        /\ s.required = (IF rs = {} THEN NoValue ELSE rs)
    BY <1>1, <2>1 DEF SchemaFields
  <2>3. SchemaOK(s)
    BY <2>2 DEF SchemaOK
  <2> QED BY <2>3 DEF s
<1> QED BY <1>2, <1>3, <1>4, <1>5, <1>6, <1>7, <1>8

LEMMA SchemasKept ==
    ASSUME NEW s, SchemaOK(s), NEW f
    PROVE  /\ SchemaOK(Document!Partial(s))
           /\ SchemaOK(Document!WithField(s, f))
<1>1. ASSUME NEW t, SchemaOK(t) PROVE SchemaOK(Document!Partial(t))
  <2> DEFINE u == Document!Partial(t)
  <2>1. u = [t EXCEPT !.required = NoValue]
    BY DEF Document!Partial
  <2> HIDE DEF u
  <2>2. DOMAIN u = SchemaFields /\ u.properties = t.properties /\ u.required = NoValue
    BY <1>1, <2>1 DEF SchemaOK, SchemaFields
  <2>3. SchemaOK(u)
    BY <1>1, <2>2 DEF SchemaOK
  <2> QED BY <2>3 DEF u
<1>2. SchemaOK(Document!WithField(s, f))
  <2>1. ASSUME NEW t, SchemaOK(t), NEW g PROVE SchemaOK([t EXCEPT !.fields = g])
    <3> DEFINE u == [t EXCEPT !.fields = g]
    <3>1. DOMAIN u = SchemaFields /\ u.properties = t.properties
          /\ u.required = t.required
      BY <2>1 DEF SchemaOK
    <3> HIDE DEF u
    <3>2. SchemaOK(u)
      BY <2>1, <3>1 DEF SchemaOK
    <3> QED BY <3>2 DEF u
  <2>2. \E t, g : SchemaOK(t) /\ Document!WithField(s, f) = [t EXCEPT !.fields = g]
    BY SchemasMade DEF Document!WithField
  <2> QED BY <2>1, <2>2
<1> QED BY <1>1, <1>2

LEMMA SchemasChanged ==
    ASSUME NEW s, SchemaOK(s), NEW n \in Properties
    PROVE  /\ SchemaOK(Document!WithProperty(s, n))
           /\ SchemaOK(Document!WithRequired(s, n))
<1>1. SchemaOK(Document!EnsureObject(s))
  <2> DEFINE u == [s EXCEPT !.type = "object"]
  <2>1. DOMAIN u = SchemaFields /\ u.properties = s.properties
        /\ u.required = s.required
    BY DEF SchemaOK
  <2> HIDE DEF u
  <2>2. SchemaOK(u)
    BY <2>1 DEF SchemaOK
  <2>3. \/ Document!EnsureObject(s) = Document!Object
        \/ Document!EnsureObject(s) = u
        \/ Document!EnsureObject(s) = s
    BY DEF Document!EnsureObject, u
  <2> QED BY <2>2, <2>3, SchemasMade
<1> DEFINE t == Document!EnsureObject(s)
<1> HIDE DEF t
<1>2. SchemaOK(t)
  BY <1>1 DEF t
<1>3. ASSUME NEW ns, ns = NoValue \/ ns \subseteq Properties
      PROVE  Document!WithMember(ns, n) \subseteq Properties
  BY <1>3 DEF Document!WithMember
<1>4. SchemaOK(Document!WithProperty(s, n))
  <2> DEFINE u == Document!WithProperty(s, n)
  <2>1. u = [t EXCEPT !.properties = Document!WithMember(t.properties, n)]
    BY DEF Document!WithProperty, t
  <2> HIDE DEF u
  <2>2. /\ DOMAIN u = SchemaFields /\ u.required = t.required
        /\ u.properties = Document!WithMember(t.properties, n)
    BY <1>2, <2>1 DEF SchemaOK, SchemaFields
  <2>3. Document!WithMember(t.properties, n) \subseteq Properties
    BY <1>2, <1>3 DEF SchemaOK
  <2>4. SchemaOK(u)
    BY <1>2, <2>2, <2>3 DEF SchemaOK
  <2> QED BY <2>4 DEF u
<1>5. SchemaOK(Document!WithRequired(s, n))
  <2> DEFINE u == Document!WithRequired(s, n)
  <2>1. u = [t EXCEPT !.required = Document!WithMember(t.required, n)]
    BY DEF Document!WithRequired, t
  <2> HIDE DEF u
  <2>2. /\ DOMAIN u = SchemaFields /\ u.properties = t.properties
        /\ u.required = Document!WithMember(t.required, n)
    BY <1>2, <2>1 DEF SchemaOK, SchemaFields
  <2>3. Document!WithMember(t.required, n) \subseteq Properties
    BY <1>2, <1>3 DEF SchemaOK
  <2>4. SchemaOK(u)
    BY <1>2, <2>2, <2>3 DEF SchemaOK
  <2> QED BY <2>4 DEF u
<1> QED BY <1>4, <1>5

(* What is retained of a schema: the names that are to stay.               *)
Members(ns) == IF ns = NoValue THEN {} ELSE ns

Stay(staying, names, keep) ==
    /\ staying \in SUBSET Properties
    /\ \A n \in Properties : n \in staying <=> ((n \in names) = keep)

LEMMA RetainIs ==
    ASSUME DocumentGiven, NEW s, SchemaOK(s), s.json = "object", NEW names,
           NEW keep \in BOOLEAN, NEW staying, Stay(staying, names, keep)
    PROVE  LET left == Document!Retain(s, names, keep)
           IN  /\ Members(left.properties) = Members(s.properties) \cap staying
               /\ Members(left.required) = Members(s.required) \cap staying
               /\ SchemaOK(left)
<1> DEFINE left == Document!Retain(s, names, keep)
           among(ns) == {n \in ns : (n \in names) = keep}
           p == IF s.properties = NoValue THEN NoValue ELSE among(s.properties)
           r == IF s.required = NoValue \/ among(s.required) = {} THEN NoValue
                ELSE among(s.required)
<1>1. left = [s EXCEPT !.properties = p, !.required = r]
  BY DEF Document!Retain
<1>2. \A ns \in SUBSET Properties : among(ns) = ns \cap staying
  BY DEF Stay
<1> HIDE DEF among
<1>3. \A ns \in SUBSET Properties : ns # NoValue /\ Members(ns) = ns
  BY DEF DocumentGiven, Members
<1>4. \A ns \in SUBSET Properties : ns \cap staying \in SUBSET Properties
  OBVIOUS
<1>5. Members(NoValue) = {} /\ {} \cap staying = {}
  BY DEF Members
<1>6. /\ s.properties = NoValue \/ s.properties \in SUBSET Properties
      /\ s.required = NoValue \/ s.required \in SUBSET Properties
      /\ DOMAIN s = SchemaFields
  BY DEF SchemaOK
<1>7. /\ Members(p) = Members(s.properties) \cap staying
      /\ p = NoValue \/ p \in SUBSET Properties
  BY <1>2, <1>3, <1>4, <1>5, <1>6
<1>8. /\ Members(r) = Members(s.required) \cap staying
      /\ r = NoValue \/ r \in SUBSET Properties
  BY <1>2, <1>3, <1>4, <1>5, <1>6
<1> HIDE DEF p, r, left
<1>9. DOMAIN left = SchemaFields /\ left.properties = p /\ left.required = r
  BY <1>1, <1>6 DEF SchemaFields
<1>10. SchemaOK(left)
  BY <1>7, <1>8, <1>9 DEF SchemaOK
<1> QED BY <1>7, <1>8, <1>9, <1>10 DEF left

LEMMA RetainOK ==
    ASSUME DocumentGiven, NEW s, SchemaOK(s), NEW names, NEW keep \in BOOLEAN
    PROVE  SchemaOK(Document!Retain(s, names, keep))
<1>1. CASE s.json = "object"
  <2> DEFINE staying == {n \in Properties : (n \in names) = keep}
  <2>1. Stay(staying, names, keep)
    BY DEF Stay
  <2> HIDE DEF staying
  <2> QED BY <1>1, <2>1, RetainIs
<1>2. CASE s.json # "object"
  BY <1>2 DEF Document!Retain
<1> QED BY <1>1, <1>2

(* An example excludes named ones.                                         *)
MediaOK(types) ==
    \A type \in DOMAIN types :
        /\ DOMAIN types[type] = {"schema", "example", "examples"}
        /\ ~(types[type].example /\ types[type].examples # Document!NoEntries)

LEMMA SplitWhole ==
    ASSUME DocumentGiven, SchemaOK(schema), MediaOK(media)
    PROVE  Document!SchemasSplit
<1>1. ASSUME schema.json = "object", NEW names \in SUBSET Properties,
             NEW yes \in BOOLEAN, NEW no \in BOOLEAN, yes, ~no
      PROVE  LET picked == Document!Retain(schema, names, yes)
                 rest == Document!Retain(schema, names, no)
                 split(a, b, whole) ==
                    Members(a) \cup Members(b) = Members(whole)
                    /\ Members(a) \cap Members(b) = {}
             IN  /\ split(picked.properties, rest.properties, schema.properties)
                 /\ split(picked.required, rest.required, schema.required)
                 /\ Members(picked.required) \subseteq names
  <2> DEFINE picked == Document!Retain(schema, names, yes)
             rest == Document!Retain(schema, names, no)
             others == Properties \ names
  <2>0. schema.json = "object"
    BY <1>1
  <2>1. Stay(names, names, yes)
    BY <1>1 DEF Stay
  <2>2. /\ Members(picked.properties) = Members(schema.properties) \cap names
        /\ Members(picked.required) = Members(schema.required) \cap names
    BY <2>0, <2>1, RetainIs
  <2>3. Stay(others, names, no)
    BY <1>1 DEF Stay
  <2> HIDE DEF others
  <2>4. /\ Members(rest.properties) = Members(schema.properties) \cap others
        /\ Members(rest.required) = Members(schema.required) \cap others
    BY <2>0, <2>3, RetainIs
  <2> HIDE DEF picked, rest
  <2>5. /\ Members(schema.properties) \subseteq Properties
        /\ Members(schema.required) \subseteq Properties
    BY DEF SchemaOK, Members
  <2>6. \A ns \in SUBSET Properties :
            (ns \cap names) \cup (ns \cap others) = ns
            /\ (ns \cap names) \cap (ns \cap others) = {}
    BY DEF others
  <2>7. /\ Members(picked.properties) \cup Members(rest.properties)
              = Members(schema.properties)
        /\ Members(picked.properties) \cap Members(rest.properties) = {}
    BY <2>2, <2>4, <2>5, <2>6
  <2>8. /\ Members(picked.required) \cup Members(rest.required)
              = Members(schema.required)
        /\ Members(picked.required) \cap Members(rest.required) = {}
        /\ Members(picked.required) \subseteq names
    BY <2>2, <2>4, <2>5, <2>6
  <2> QED BY <2>7, <2>8 DEF picked, rest
<1>2. \A type \in DOMAIN media :
          ~(media[type].example /\ media[type].examples # Document!NoEntries)
  BY DEF MediaOK
<1>3. TRUE /\ ~FALSE /\ TRUE \in BOOLEAN /\ FALSE \in BOOLEAN
  OBVIOUS
<1>4. ASSUME schema.json = "object", NEW names \in SUBSET Properties
      PROVE  LET picked == Document!Retain(schema, names, TRUE)
                 rest == Document!Retain(schema, names, FALSE)
                 split(a, b, whole) ==
                    Members(a) \cup Members(b) = Members(whole)
                    /\ Members(a) \cap Members(b) = {}
             IN  /\ split(picked.properties, rest.properties, schema.properties)
                 /\ split(picked.required, rest.required, schema.required)
                 /\ Members(picked.required) \subseteq names
  BY <1>1, <1>3, <1>4
<1> QED BY <1>2, <1>4 DEF Document!SchemasSplit, Members

LEMMA ContentsOK ==
    ASSUME MediaOK(media), NEW type, NEW n, NEW e
    PROVE  /\ MediaOK(Document!Content(type, Document!Media(schema)))
           /\ MediaOK(Document!ContentExample(media, type))
           /\ MediaOK(Document!ContentNamedExample(media, type, n, e))
<1> DEFINE OK(m) == /\ DOMAIN m = {"schema", "example", "examples"}
                    /\ ~(m.example /\ m.examples # Document!NoEntries)
<1>1. \A s : OK(Document!Media(s))
  BY DEF Document!Media
<1>2. \A m : DOMAIN m = {"schema", "example", "examples"} =>
          OK(Document!WithExampleValue(m)) /\ OK(Document!WithNamedExample(m, n, e))
  BY DEF Document!WithExampleValue, Document!WithNamedExample
<1>3. \A k \in DOMAIN media : OK(media[k])
  BY DEF MediaOK
<1> DEFINE m == Document!AtContent(media, type)
<1>4. OK(m)
  BY <1>1, <1>3 DEF Document!AtContent
<1>5. MediaOK(Document!Content(type, Document!Media(schema)))
  <2>1. DOMAIN Document!Content(type, Document!Media(schema)) = {type}
        /\ Document!Content(type, Document!Media(schema))[type] = Document!Media(schema)
    BY DEF Document!Content, Document!Entry
  <2> QED BY <1>1, <2>1 DEF MediaOK
<1>6. ASSUME NEW new, OK(new) PROVE MediaOK(Document!Insert(media, type, new))
  <2> DEFINE all == Document!Insert(media, type, new)
  <2>1. /\ DOMAIN all = DOMAIN media \cup {type} /\ all[type] = new
        /\ \A k \in DOMAIN media : k # type => all[k] = media[k]
    BY DEF Document!Insert, Document!Over, Document!Entry
  <2> HIDE DEF all
  <2>2. \A k \in DOMAIN all : OK(all[k])
    BY <1>3, <1>6, <2>1
  <2> QED BY <2>2 DEF MediaOK, all
<1>7. Document!ContentExample(media, type)
          = Document!Insert(media, type, Document!WithExampleValue(m))
  BY DEF Document!ContentExample
<1>8. Document!ContentNamedExample(media, type, n, e)
          = Document!Insert(media, type, Document!WithNamedExample(m, n, e))
  BY DEF Document!ContentNamedExample
<1> HIDE DEF m
<1>9. OK(Document!WithExampleValue(m)) /\ OK(Document!WithNamedExample(m, n, e))
  BY <1>2, <1>4
<1> HIDE DEF OK
<1> QED BY <1>5, <1>6, <1>7, <1>8, <1>9

-----------------------------------------------------------------------------
(* What from_routes makes of the first n routes rs: who describes a path   *)
(* and method, and who a component.                                        *)

Shows(r, p, m) ==
    /\ ~r.openapi.hidden
    /\ Document!OpenApiPath(r.path) = p /\ m \in Document!Methods(r.method)

At(rs, n, p, m) == {i \in 1..n : Shows(rs[i], p, m)}
NamedAt(rs, n, p, m) == {i \in At(rs, n, p, m) : rs[i].method # "ALL"}

Describes(rs, n, p, m, i) ==
    IF NamedAt(rs, n, p, m) # {}
    THEN i \in NamedAt(rs, n, p, m) /\ \A j \in NamedAt(rs, n, p, m) : j <= i
    ELSE i \in At(rs, n, p, m) /\ \A j \in At(rs, n, p, m) : i <= j

HasPath(d, p, m) == p \in DOMAIN d.paths /\ m \in DOMAIN d.paths[p]

PathsUpTo(rs, n, d) ==
    \A p, m :
        /\ At(rs, n, p, m) # {} <=> HasPath(d, p, m)
        /\ HasPath(d, p, m) =>
              \E i : /\ Describes(rs, n, p, m, i)
                     /\ d.paths[p][m] = Document!Operation(rs[i])

Having(rs, n, k, c) ==
    {i \in 1..n : ~rs[i].openapi.hidden /\ c \in DOMAIN rs[i].openapi.components[k]}

ComponentsUpTo(rs, n, d) ==
    \A k \in Document!ComponentKinds : \A c :
        /\ Having(rs, n, k, c) # {} <=> c \in DOMAIN d.components[k]
        /\ Having(rs, n, k, c) # {} =>
              \E i \in Having(rs, n, k, c) :
                 /\ \A j \in Having(rs, n, k, c) : j <= i
                 /\ d.components[k][c] = rs[i].openapi.components[k][c]

(* One more route.                                                         *)
LEMMA PathsAdded ==
    ASSUME NEW d, NEW r, NEW p, NEW m
    PROVE  LET new == Document!Documented(d, r) IN
           /\ ~Shows(r, p, m) =>
                 /\ HasPath(new, p, m) <=> HasPath(d, p, m)
                 /\ HasPath(d, p, m) => new.paths[p][m] = d.paths[p][m]
           /\ Shows(r, p, m) =>
                 /\ HasPath(new, p, m)
                 /\ new.paths[p][m] =
                       IF r.method = "ALL" /\ HasPath(d, p, m) THEN d.paths[p][m]
                       ELSE Document!Operation(r)
<1> DEFINE new == Document!Documented(d, r)
           q == Document!OpenApiPath(r.path)
           old == IF q \in DOMAIN d.paths THEN d.paths[q] ELSE Document!NoEntries
           own == [k \in Document!Methods(r.method) |-> Document!Operation(r)]
           both == Document!AddOperations(old, r)
<1>1. CASE r.openapi.hidden
  <2>1. new = d
    BY <1>1 DEF Document!Documented
  <2> QED BY <1>1, <2>1 DEF Shows
<1>2. CASE ~r.openapi.hidden
  <2>1. new.paths = Document!Insert(d.paths, q, both)
    BY <1>2 DEF Document!Documented
  <2>2. DOMAIN own = Document!Methods(r.method)
        /\ \A k \in DOMAIN own : own[k] = Document!Operation(r)
    OBVIOUS
  <2>3. both = IF r.method = "ALL" THEN Document!Over(old, own) ELSE Document!Over(own, old)
    BY DEF Document!AddOperations
  <2>4. m \in DOMAIN old <=> HasPath(d, q, m)
    BY DEF HasPath, Document!NoEntries
  <2>5. m \in DOMAIN old => old[m] = d.paths[q][m]
    BY DEF Document!NoEntries
  <2> HIDE DEF new, own, old, both, q
  <2>6. /\ DOMAIN both = DOMAIN own \cup DOMAIN old
        /\ \A k \in DOMAIN both :
              both[k] = IF r.method = "ALL"
                        THEN IF k \in DOMAIN old THEN old[k] ELSE own[k]
                        ELSE IF k \in DOMAIN own THEN own[k] ELSE old[k]
    BY <2>3 DEF Document!Over
  <2>7. /\ DOMAIN new.paths = DOMAIN d.paths \cup {q} /\ new.paths[q] = both
        /\ \A k \in DOMAIN d.paths : k # q => new.paths[k] = d.paths[k]
    <3> DEFINE map == d.paths
    <3> HIDE DEF map
    <3>1. LET all == Document!Insert(map, q, both) IN
          /\ DOMAIN all = DOMAIN map \cup {q} /\ all[q] = both
          /\ \A k \in DOMAIN map : k # q => all[k] = map[k]
      BY DEF Document!Insert, Document!Over, Document!Entry
    <3> QED BY <2>1, <3>1 DEF map
  <2>8. Shows(r, p, m) <=> p = q /\ m \in DOMAIN own
    BY <1>2, <2>2 DEF Shows, q
  <2>9. CASE p # q
    <3>1. HasPath(new, p, m) <=> HasPath(d, p, m)
      BY <2>7, <2>9 DEF HasPath
    <3>2. HasPath(d, p, m) => new.paths[p][m] = d.paths[p][m]
      BY <2>7, <2>9 DEF HasPath
    <3> QED BY <2>8, <2>9, <3>1, <3>2 DEF new
  <2>10. CASE p = q
    <3>1. HasPath(new, p, m) <=> m \in DOMAIN own \/ m \in DOMAIN old
      BY <2>6, <2>7, <2>10 DEF HasPath
    <3>2. HasPath(new, p, m) => new.paths[p][m] = both[m] /\ m \in DOMAIN both
      BY <2>6, <2>7, <2>10 DEF HasPath
    <3>3. ASSUME ~Shows(r, p, m)
          PROVE  /\ HasPath(new, p, m) <=> HasPath(d, p, m)
                 /\ HasPath(d, p, m) => new.paths[p][m] = d.paths[p][m]
      BY <2>4, <2>5, <2>6, <2>8, <2>10, <3>1, <3>2, <3>3
    <3>4. ASSUME Shows(r, p, m)
          PROVE  /\ HasPath(new, p, m)
                 /\ new.paths[p][m] =
                       IF r.method = "ALL" /\ HasPath(d, p, m) THEN d.paths[p][m]
                       ELSE Document!Operation(r)
      BY <2>2, <2>4, <2>5, <2>6, <2>8, <2>10, <3>1, <3>2, <3>4
    <3> QED BY <3>3, <3>4 DEF new
  <2> QED BY <2>9, <2>10
<1> QED BY <1>1, <1>2
LEMMA PathsStep ==
    ASSUME NEW rs, NEW n \in Nat, NEW d, PathsUpTo(rs, n, d)
    PROVE  PathsUpTo(rs, n + 1, Document!Documented(d, rs[n + 1]))
<1> DEFINE new == Document!Documented(d, rs[n + 1])
<1> SUFFICES ASSUME NEW p, NEW m
             PROVE  /\ At(rs, n + 1, p, m) # {} <=> HasPath(new, p, m)
                    /\ HasPath(new, p, m) =>
                          \E i : /\ Describes(rs, n + 1, p, m, i)
                                 /\ new.paths[p][m] = Document!Operation(rs[i])
  BY DEF PathsUpTo
<1> DEFINE was == At(rs, n, p, m)
           is == At(rs, n + 1, p, m)
           named == NamedAt(rs, n, p, m)
           nowNamed == NamedAt(rs, n + 1, p, m)
<1>1. /\ was # {} <=> HasPath(d, p, m)
      /\ HasPath(d, p, m) =>
            \E i : /\ Describes(rs, n, p, m, i)
                   /\ d.paths[p][m] = Document!Operation(rs[i])
  BY DEF PathsUpTo
<1>2. /\ was \in SUBSET (1..n) /\ named \in SUBSET was
      /\ is = IF Shows(rs[n + 1], p, m) THEN was \cup {n + 1} ELSE was
  <2>1. 1..(n + 1) = (1..n) \cup {n + 1}
    OBVIOUS
  <2> QED BY <2>1 DEF At, NamedAt
<1>3. nowNamed = IF Shows(rs[n + 1], p, m) /\ rs[n + 1].method # "ALL"
                 THEN named \cup {n + 1} ELSE named
  BY <1>2 DEF NamedAt
<1>4. /\ ~Shows(rs[n + 1], p, m) =>
            /\ HasPath(new, p, m) <=> HasPath(d, p, m)
            /\ HasPath(d, p, m) => new.paths[p][m] = d.paths[p][m]
      /\ Shows(rs[n + 1], p, m) =>
            /\ HasPath(new, p, m)
            /\ new.paths[p][m] =
                  IF rs[n + 1].method = "ALL" /\ HasPath(d, p, m) THEN d.paths[p][m]
                  ELSE Document!Operation(rs[n + 1])
  BY PathsAdded
<1> HIDE DEF new
<1>5. \A i : Describes(rs, n, p, m, i) <=>
            IF named # {} THEN i \in named /\ \A j \in named : j <= i
            ELSE i \in was /\ \A j \in was : i <= j
  BY DEF Describes
<1>6. \A i : Describes(rs, n + 1, p, m, i) <=>
            IF nowNamed # {} THEN i \in nowNamed /\ \A j \in nowNamed : j <= i
            ELSE i \in is /\ \A j \in is : i <= j
  BY DEF Describes
<1> HIDE DEF was, is, named, nowNamed
<1>7. CASE ~Shows(rs[n + 1], p, m)
  <2>1. is = was /\ nowNamed = named
    BY <1>2, <1>3, <1>7
  <2>2. \A i : Describes(rs, n, p, m, i) => Describes(rs, n + 1, p, m, i)
    BY <1>5, <1>6, <2>1
  <2> QED BY <1>1, <1>4, <1>7, <2>1, <2>2 DEF is
<1>8. CASE Shows(rs[n + 1], p, m) /\ rs[n + 1].method # "ALL"
  <2>1. n + 1 \in nowNamed /\ \A j \in nowNamed : j <= n + 1
    BY <1>2, <1>3, <1>8
  <2>2. Describes(rs, n + 1, p, m, n + 1)
    BY <1>6, <2>1
  <2>3. n + 1 \in is
    BY <1>2, <1>8
  <2> QED BY <1>4, <1>8, <2>2, <2>3 DEF is
<1>9. CASE Shows(rs[n + 1], p, m) /\ rs[n + 1].method = "ALL" /\ HasPath(d, p, m)
  <2>1. PICK i : /\ Describes(rs, n, p, m, i)
                 /\ d.paths[p][m] = Document!Operation(rs[i])
    BY <1>1, <1>9
  <2>2. i \in 1..n
    BY <1>2, <1>5, <2>1
  <2>3. Describes(rs, n + 1, p, m, i)
    BY <1>2, <1>3, <1>5, <1>6, <1>9, <2>1, <2>2
  <2>4. n + 1 \in is
    BY <1>2, <1>9
  <2> QED BY <1>4, <1>9, <2>1, <2>3, <2>4 DEF is
<1>10. CASE Shows(rs[n + 1], p, m) /\ rs[n + 1].method = "ALL" /\ ~HasPath(d, p, m)
  <2>1. was = {} /\ named = {}
    BY <1>1, <1>2, <1>10 DEF was
  <2>2. nowNamed = {} /\ is = {n + 1}
    BY <1>2, <1>3, <1>10, <2>1
  <2>3. Describes(rs, n + 1, p, m, n + 1)
    BY <1>6, <2>2
  <2>4. n + 1 \in is
    BY <2>2
  <2> QED BY <1>4, <1>10, <2>3, <2>4 DEF is
<1> QED BY <1>7, <1>8, <1>9, <1>10

(* Components are taken over from every route that is shown.               *)
LEMMA ComponentsStep ==
    ASSUME NEW rs, NEW n \in Nat, NEW d, ComponentsUpTo(rs, n, d)
    PROVE  ComponentsUpTo(rs, n + 1, Document!Documented(d, rs[n + 1]))
<1> DEFINE new == Document!Documented(d, rs[n + 1])
<1> SUFFICES ASSUME NEW k \in Document!ComponentKinds, NEW c
             PROVE  /\ Having(rs, n + 1, k, c) # {} <=> c \in DOMAIN new.components[k]
                    /\ Having(rs, n + 1, k, c) # {} =>
                          \E i \in Having(rs, n + 1, k, c) :
                             /\ \A j \in Having(rs, n + 1, k, c) : j <= i
                             /\ new.components[k][c] = rs[i].openapi.components[k][c]
  BY DEF ComponentsUpTo
<1> DEFINE was == Having(rs, n, k, c)
           is == Having(rs, n + 1, k, c)
           own == rs[n + 1].openapi.components[k]
           added == ~rs[n + 1].openapi.hidden /\ c \in DOMAIN own
<1>1. /\ was # {} <=> c \in DOMAIN d.components[k]
      /\ was # {} => \E i \in was : /\ \A j \in was : j <= i
                                   /\ d.components[k][c] = rs[i].openapi.components[k][c]
  BY DEF ComponentsUpTo
<1>2. /\ was \in SUBSET (1..n)
      /\ is = IF added THEN was \cup {n + 1} ELSE was
  <2>1. 1..(n + 1) = (1..n) \cup {n + 1}
    OBVIOUS
  <2> QED BY <2>1 DEF Having
<1>3. /\ c \in DOMAIN new.components[k] <=> added \/ c \in DOMAIN d.components[k]
      /\ added => new.components[k][c] = own[c]
      /\ ~added /\ c \in DOMAIN d.components[k] =>
            new.components[k][c] = d.components[k][c]
  <2>1. CASE rs[n + 1].openapi.hidden
    <3>1. new = d
      BY <2>1 DEF Document!Documented
    <3> QED BY <2>1, <3>1
  <2>2. CASE ~rs[n + 1].openapi.hidden
    <3>1. new.components = Document!Merge(d.components, rs[n + 1].openapi)
      BY <2>2 DEF Document!Documented
    <3> DEFINE old == d.components[k]
    <3>2. new.components[k] = Document!Over(own, old)
      BY <3>1 DEF Document!Merge
    <3> HIDE DEF own, old
    <3>3. LET all == Document!Over(own, old) IN
          /\ DOMAIN all = DOMAIN own \cup DOMAIN old
          /\ \A x \in DOMAIN all :
                all[x] = IF x \in DOMAIN own THEN own[x] ELSE old[x]
      BY DEF Document!Over
    <3> HIDE DEF new
    <3> QED BY <2>2, <3>2, <3>3 DEF old
  <2> QED BY <2>1, <2>2
<1> HIDE DEF new, was, is
<1>4. CASE added
  <2>1. n + 1 \in is /\ \A j \in is : j <= n + 1
    BY <1>2, <1>4
  <2>2. c \in DOMAIN new.components[k] /\ new.components[k][c] = own[c]
    BY <1>3, <1>4
  <2> QED BY <2>1, <2>2 DEF is, new
<1>5. CASE ~added
  BY <1>1, <1>2, <1>3, <1>5 DEF is, new
<1> QED BY <1>4, <1>5

(* What from_routes makes of a program's routes.                           *)
LEMMA FromRoutesIs ==
    ASSUME Len(documented) \in Nat
    PROVE  LET d == Document!FromRoutes IN
           /\ PathsUpTo(documented, Len(documented), d)
           /\ ComponentsUpTo(documented, Len(documented), d)
<1> DEFINE N == Len(documented)
           Nothing == [tags |-> tags, components |-> Document!NoComponents,
                       paths |-> Document!NoEntries]
           Step(g, n) == IF n = 0 THEN Nothing
                         ELSE Document!Documented(g[n - 1], documented[n])
           Is(g) == g = [n \in 0..N |-> Step(g, n)]
           Upto(g, k) == DOMAIN g = 0..k /\ \A n \in 0..k : g[n] = Step(g, n)
           S == {k \in Nat : \E g : Upto(g, k)}
<1> HIDE DEF Nothing
<1>1. \E g : Is(g)
  <2>1. 0 \in S
    <3> DEFINE g == [n \in 0..0 |-> Nothing]
    <3>1. DOMAIN g = 0..0 /\ \A n \in 0..0 : n = 0 /\ g[n] = Nothing
      OBVIOUS
    <3>2. Upto(g, 0)
      BY <3>1
    <3> QED BY <3>2
  <2>2. \A k \in S : k + 1 \in S
    <3> TAKE k \in S
    <3>1. PICK g : Upto(g, k)
      OBVIOUS
    <3> DEFINE h == [n \in 0..(k + 1) |-> IF n = k + 1 THEN Step(g, k + 1) ELSE g[n]]
    <3>2. \A n \in 0..(k + 1) : n = k + 1 \/ n \in 0..k
      OBVIOUS
    <3>3. \A n \in 0..k : h[n] = g[n]
      OBVIOUS
    <3>4. \A n \in 0..(k + 1) : n # 0 => n - 1 \in 0..k
      OBVIOUS
    <3>5. \A n \in 0..(k + 1) : Step(h, n) = Step(g, n)
      <4> HIDE DEF h
      <4> QED BY <3>3, <3>4
    <3>6. \A n \in 0..(k + 1) : h[n] = Step(g, n)
      <4> TAKE n \in 0..(k + 1)
      <4>1. CASE n = k + 1
        BY <4>1
      <4>2. CASE n # k + 1
        <5>1. n \in 0..k
          BY <3>2, <4>2
        <5> QED BY <3>1, <3>3, <5>1
      <4> QED BY <4>1, <4>2
    <3>7. DOMAIN h = 0..(k + 1)
      OBVIOUS
    <3> HIDE DEF h, Step
    <3>8. Upto(h, k + 1)
      BY <3>5, <3>6, <3>7
    <3> QED BY <3>8
  <2> HIDE DEF S
  <2>3. S \in SUBSET Nat
    BY DEF S
  <2>4. S = Nat
    BY <2>1, <2>2, <2>3, InductionOn
  <2>5. PICK g : Upto(g, N)
    BY <2>4 DEF S
  <2>6. \E h : h = [n \in 0..N |-> Step(g, n)]
    OBVIOUS
  <2> HIDE DEF Step
  <2>7. PICK h : h = [n \in 0..N |-> Step(g, n)]
    BY <2>6
  <2>8. \A n \in 0..N : h[n] = g[n]
    BY <2>5, <2>7
  <2>9. \A n \in 0..N : Step(h, n) = Step(g, n)
    <3>1. \A n \in 0..N : n # 0 => n - 1 \in 0..N
      OBVIOUS
    <3> QED BY <2>8, <3>1 DEF Step
  <2>10. h = [n \in 0..N |-> Step(h, n)]
    BY <2>7, <2>9
  <2> QED BY <2>10
<1> DEFINE upTo == CHOOSE g : Is(g)
<1>2. Is(upTo)
  BY <1>1
<1>3. Document!FromRoutes = upTo[N]
  BY DEF Document!FromRoutes, Nothing
<1> HIDE DEF upTo
<1>4. \A n \in 0..N : upTo[n] = Step(upTo, n)
  <2> HIDE DEF Step
  <2> QED BY <1>2
<1> DEFINE Right(n, d) == PathsUpTo(documented, n, d) /\ ComponentsUpTo(documented, n, d)
           T == {n \in Nat : n \in 0..N => Right(n, upTo[n])}
<1>5. 0 \in T
  <2>1. 0 \in 0..N /\ 1..0 = {}
    OBVIOUS
  <2>2. upTo[0] = Nothing
    BY <1>4, <2>1
  <2>3. PathsUpTo(documented, 0, Nothing)
    <3>1. \A p, m : At(documented, 0, p, m) = {}
      BY <2>1 DEF At
    <3>2. \A p, m : ~HasPath(Nothing, p, m)
      BY DEF HasPath, Nothing, Document!NoEntries
    <3> QED BY <3>1, <3>2 DEF PathsUpTo
  <2>4. ComponentsUpTo(documented, 0, Nothing)
    <3>1. \A k, c : Having(documented, 0, k, c) = {}
      BY <2>1 DEF Having
    <3>2. \A k \in Document!ComponentKinds : \A c : c \notin DOMAIN Nothing.components[k]
      BY DEF Nothing, Document!NoComponents, Document!NoEntries
    <3> QED BY <3>1, <3>2 DEF ComponentsUpTo
  <2> QED BY <2>2, <2>3, <2>4
<1>6. \A n \in T : n + 1 \in T
  <2> TAKE n \in T
  <2> SUFFICES ASSUME n + 1 \in 0..N PROVE Right(n + 1, upTo[n + 1])
    OBVIOUS
  <2>1. n \in Nat /\ n \in 0..N /\ n + 1 # 0 /\ (n + 1) - 1 = n
    OBVIOUS
  <2>2. PathsUpTo(documented, n, upTo[n]) /\ ComponentsUpTo(documented, n, upTo[n])
    BY <2>1
  <2>3. upTo[n + 1] = Document!Documented(upTo[n], documented[n + 1])
    BY <1>4, <2>1
  <2>4. PathsUpTo(documented, n + 1, Document!Documented(upTo[n], documented[n + 1]))
    BY <2>1, <2>2, PathsStep
  <2>5. ComponentsUpTo(documented, n + 1, Document!Documented(upTo[n], documented[n + 1]))
    BY <2>1, <2>2, ComponentsStep
  <2> QED BY <2>3, <2>4, <2>5
<1> HIDE DEF T
<1>7. T \in SUBSET Nat
  BY DEF T
<1>8. T = Nat
  BY <1>5, <1>6, <1>7, InductionOn
<1>9. N \in 0..N /\ N \in T
  BY <1>8
<1> QED BY <1>3, <1>9 DEF T

-----------------------------------------------------------------------------
(* The parameters of an operation: those that are described, in order, and *)
(* then those of the path that are not.                                    *)

RouteOK(r) ==
    /\ DOMAIN r = {"method", "path", "openapi"}
    /\ Known(r.openapi) /\ r.path \in Seq(STRING)
    /\ \A k, l \in DOMAIN r.path :
          /\ r.path[k] \in DOMAIN ParamOf /\ r.path[l] \in DOMAIN ParamOf
          /\ ParamOf[r.path[k]] = ParamOf[r.path[l]]
          => k = l

(* Every position is the one of some rank.                                 *)
LEMMA NthHits ==
    ASSUME NEW m \in Nat, NEW S, S \subseteq 1..m, NEW k \in S
    PROVE  \E r \in 1..Cardinality(S) : Nth(S, r) = k
<1> DEFINE r == Cardinality(UpTo(S, k))
<1>1. k \in Nat /\ k \in UpTo(S, k)
  BY PositionsAre DEF UpTo
<1>2. /\ r \in Nat /\ r <= Cardinality(S) /\ Cardinality(S) \in Nat
      /\ IsFiniteSet(UpTo(S, k))
  BY UpToCounts
<1>3. r # 0
  BY <1>1, <1>2, FS_EmptySet
<1> HIDE DEF r
<1>a. r \in Nat /\ 1 <= r /\ r <= Cardinality(S)
  BY <1>2, <1>3
<1>4. Nth(S, r) \in S /\ Cardinality(UpTo(S, Nth(S, r))) = r
  BY <1>a, NthIs
<1> DEFINE x == Nth(S, r)
<1> HIDE DEF x
<1>5. x \in S /\ x \in Nat /\ Cardinality(UpTo(S, x)) = r /\ IsFiniteSet(UpTo(S, x))
  BY <1>4, PositionsAre, UpToCounts DEF x
<1>6. \A n \in Nat : UpTo(S, n) = {j \in S : j <= n}
  BY DEF UpTo
<1>7. CASE x <= k
  <2>a. \A j \in S : j <= x => j <= k
    BY <1>1, <1>5, <1>7, PositionsAre
  <2>1. UpTo(S, x) \subseteq UpTo(S, k)
    BY <2>a DEF UpTo
  <2>2. UpTo(S, x) = UpTo(S, k)
    BY <1>2, <1>5, <2>1, FS_Subset DEF r
  <2>3. k <= x
    BY <1>1, <1>5, <1>6, <2>2
  <2> QED BY <1>1, <1>2, <1>3, <1>5, <1>7, <2>3 DEF x
<1>8. CASE k <= x
  <2>a. \A j \in S : j <= k => j <= x
    BY <1>1, <1>5, <1>8, PositionsAre
  <2>1. UpTo(S, k) \subseteq UpTo(S, x)
    BY <2>a DEF UpTo
  <2>2. UpTo(S, x) = UpTo(S, k)
    BY <1>2, <1>5, <2>1, FS_Subset DEF r
  <2>3. x <= k
    BY <1>1, <1>5, <1>6, <2>2
  <2> QED BY <1>1, <1>2, <1>3, <1>5, <1>8, <2>3 DEF x
<1> QED BY <1>1, <1>5, <1>7, <1>8

LEMMA ConcatIs ==
    ASSUME NEW X, NEW s \in Seq(X), NEW t \in Seq(X)
    PROVE  LET n == Len(s) + Len(t) IN
           /\ s \o t \in Seq(X) /\ Len(s \o t) = n /\ DOMAIN (s \o t) = 1..n
           /\ \A i \in 1..n : (s \o t)[i] = IF i <= Len(s) THEN s[i] ELSE t[i - Len(s)]
BY ConcatProperties

LEMMA DocumentOnlyIs == \A s, S : Document!Only(s, S) = Only(s, S)
<1>1. \A S : Document!Cardinality(S) = Cardinality(S)
  BY DEF Document!Cardinality, Cardinality
<1>2. \A S, r : Document!Nth(S, r) = Nth(S, r)
  BY <1>1 DEF Document!Nth, Nth
<1> QED BY <1>1, <1>2 DEF Document!Only, Only

LEMMA OperationIs ==
    ASSUME NEW r, RouteOK(r)
    PROVE  LET all == Document!Operation(r).parameters IN
           /\ Once(all)
           /\ \A k \in DOMAIN r.path : r.path[k] \in DOMAIN ParamOf =>
                 \E i \in DOMAIN all : all[i].identity = <<"path", ParamOf[r.path[k]]>>
<1> DEFINE own == r.openapi.parameters
           left == {k \in Document!PathParams(r) :
                       \A i \in DOMAIN own :
                          own[i].identity # <<"path", ParamOf[r.path[k]]>>}
           names == Document!Only(r.path, left)
           made(n) == Document!Parameter("path", n, TRUE,
                                         Document!Media(Document!StringSchema))
           rest == [i \in DOMAIN names |-> made(ParamOf[names[i]])]
           all == Document!Operation(r).parameters
<1>1. all = own \o rest
  BY DEF Document!Operation
<1>2. r.path \in Seq(STRING) /\ Len(r.path) \in Nat /\ DOMAIN r.path = 1..Len(r.path)
  BY DEF RouteOK
<1>3. /\ left \subseteq 1..Len(r.path)
      /\ \A k \in left : r.path[k] \in DOMAIN ParamOf
      /\ \A k \in left : \A i \in DOMAIN own :
            own[i].identity # <<"path", ParamOf[r.path[k]]>>
      /\ \A k \in DOMAIN r.path : r.path[k] \in DOMAIN ParamOf =>
            \/ k \in left
            \/ \E i \in DOMAIN own : own[i].identity = <<"path", ParamOf[r.path[k]]>>
  BY <1>2 DEF Document!PathParams
<1> HIDE DEF left
<1>4. names = Only(r.path, left)
  BY DocumentOnlyIs
<1> HIDE DEF names
<1>a. left \subseteq 1..Len(r.path)
  BY <1>3
<1>5. /\ Cardinality(left) \in Nat /\ DOMAIN names = 1..Cardinality(left)
      /\ \A i \in 1..Cardinality(left) :
            Nth(left, i) \in left /\ names[i] = r.path[Nth(left, i)]
  <2>1. PICK T : r.path \in Seq(T)
    BY <1>2
  <2> DEFINE path == r.path
             count == Cardinality(left)
  <2>2. path \in Seq(T) /\ left \subseteq 1..Len(path) /\ names = Only(path, left)
    BY <1>4, <1>a, <2>1
  <2> HIDE DEF path
  <2>3. /\ DOMAIN Only(path, left) = 1..count /\ count \in Nat
        /\ \A i \in 1..count :
              Nth(left, i) \in left /\ Only(path, left)[i] = path[Nth(left, i)]
    BY <2>2, OnlyIs
  <2> QED BY <2>2, <2>3 DEF path
<1>6. \A i \in 1..Cardinality(left) : \A j \in 1..Cardinality(left) :
          i < j => Nth(left, i) < Nth(left, j)
  <2> SUFFICES ASSUME NEW i \in 1..Cardinality(left), NEW j \in 1..Cardinality(left),
                      i < j
               PROVE  Nth(left, i) < Nth(left, j)
    OBVIOUS
  <2> DEFINE m == Len(r.path)
             count == Cardinality(left)
  <2>1. m \in Nat /\ left \subseteq 1..m
    BY <1>2, <1>a
  <2>2. i \in Nat /\ 1 <= i /\ j \in Nat /\ j <= count
    BY <1>5
  <2> HIDE DEF m
  <2> QED BY <2>1, <2>2, NthGrows
<1>7. \A i \in 1..Cardinality(left) : \A j \in 1..Cardinality(left) :
          Nth(left, i) = Nth(left, j) => i = j
  <2>1. \A i \in 1..Cardinality(left) : Nth(left, i) \in Nat
    <3>1. \A k \in left : k \in Nat
      BY <1>2, <1>a, PositionsAre
    <3> QED BY <1>5, <3>1
  <2> QED BY <1>5, <1>6, <2>1
<1>8. \A n : made(n).identity = <<"path", n>>
  BY DEF Document!Parameter
<1> HIDE DEF made
<1>9. /\ DOMAIN rest = 1..Cardinality(left)
      /\ \A i \in DOMAIN rest :
            rest[i].identity = <<"path", ParamOf[r.path[Nth(left, i)]]>>
  BY <1>5, <1>8
<1>10. \A i \in DOMAIN rest : \A j \in DOMAIN rest :
          rest[i].identity = rest[j].identity => i = j
  <2> SUFFICES ASSUME NEW i \in DOMAIN rest, NEW j \in DOMAIN rest,
                      rest[i].identity = rest[j].identity
               PROVE  i = j
    OBVIOUS
  <2> DEFINE k == Nth(left, i)
             l == Nth(left, j)
  <2> HIDE DEF rest
  <2>1. k \in left /\ l \in left /\ k \in DOMAIN r.path /\ l \in DOMAIN r.path
    BY <1>2, <1>3, <1>5, <1>9
  <2>2. ParamOf[r.path[k]] = ParamOf[r.path[l]]
    BY <1>9
  <2>3. k = l
    BY <1>3, <2>1, <2>2 DEF RouteOK
  <2> QED BY <1>7, <1>9, <2>3
<1>11. PICK S : own \in Seq(S)
  BY DEF RouteOK, Known, Once
<1>12. \A i, j \in DOMAIN own : own[i].identity = own[j].identity => i = j
  BY DEF RouteOK, Known, Once
<1> DEFINE X == S \cup {rest[i] : i \in DOMAIN rest}
<1>13. own \in Seq(X) /\ Len(own) \in Nat /\ DOMAIN own = 1..Len(own)
  BY <1>11
<1>14. rest \in Seq(X) /\ Len(rest) = Cardinality(left)
  <2>1. \A i \in 1..Cardinality(left) : rest[i] \in X
    BY <1>9
  <2>2. rest = [i \in 1..Cardinality(left) |-> rest[i]]
    BY <1>9
  <2> HIDE DEF rest, X
  <2> QED BY <1>5, <1>9, <2>1, <2>2
<1> HIDE DEF all, own, rest, X
<1>15. /\ all \in Seq(X) /\ Len(all) = Len(own) + Len(rest)
       /\ DOMAIN all = 1..(Len(own) + Len(rest))
       /\ \A i \in 1..(Len(own) + Len(rest)) :
             all[i] = IF i <= Len(own) THEN own[i] ELSE rest[i - Len(own)]
  BY <1>1, <1>13, <1>14, ConcatIs
<1>16. \A i \in DOMAIN own : i \in DOMAIN all /\ all[i] = own[i]
  BY <1>13, <1>14, <1>15, <1>5
<1>17. \A i \in DOMAIN rest :
          Len(own) + i \in DOMAIN all /\ all[Len(own) + i] = rest[i]
  BY <1>5, <1>9, <1>13, <1>14, <1>15
<1>18. \A i \in DOMAIN all : i \in DOMAIN own \/ i - Len(own) \in DOMAIN rest
  BY <1>5, <1>9, <1>13, <1>14, <1>15
<1>19. \A i \in DOMAIN own : \A j \in DOMAIN rest :
          own[i].identity # rest[j].identity
  <2> SUFFICES ASSUME NEW i \in DOMAIN own, NEW j \in DOMAIN rest
               PROVE  own[i].identity # rest[j].identity
    OBVIOUS
  <2>1. Nth(left, j) \in left
    BY <1>5, <1>9
  <2>2. own[i].identity # <<"path", ParamOf[r.path[Nth(left, j)]]>>
    BY <1>3, <2>1
  <2> QED BY <1>9, <2>2
<1>20. Once(all)
  <2> SUFFICES ASSUME NEW i \in DOMAIN all, NEW j \in DOMAIN all,
                      all[i].identity = all[j].identity
               PROVE  i = j
    BY <1>15 DEF Once
  <2>0. i \in Nat /\ j \in Nat /\ Len(own) \in Nat
    BY <1>5, <1>13, <1>14, <1>15
  <2>1. CASE i \in DOMAIN own /\ j \in DOMAIN own
    BY <1>12, <1>16, <2>1
  <2>2. CASE i \in DOMAIN own /\ j - Len(own) \in DOMAIN rest
    <3>1. all[Len(own) + (j - Len(own))] = rest[j - Len(own)]
      BY <1>17, <2>2
    <3>2. Len(own) + (j - Len(own)) = j
      BY <2>0
    <3> QED BY <1>16, <1>19, <2>2, <3>1, <3>2
  <2>3. CASE j \in DOMAIN own /\ i - Len(own) \in DOMAIN rest
    <3>1. all[Len(own) + (i - Len(own))] = rest[i - Len(own)]
      BY <1>17, <2>3
    <3>2. Len(own) + (i - Len(own)) = i
      BY <2>0
    <3> QED BY <1>16, <1>19, <2>3, <3>1, <3>2
  <2>4. CASE i - Len(own) \in DOMAIN rest /\ j - Len(own) \in DOMAIN rest
    <3>1. /\ all[Len(own) + (i - Len(own))] = rest[i - Len(own)]
          /\ all[Len(own) + (j - Len(own))] = rest[j - Len(own)]
      BY <1>17, <2>4
    <3>2. Len(own) + (i - Len(own)) = i /\ Len(own) + (j - Len(own)) = j
      BY <2>0
    <3>3. i - Len(own) = j - Len(own)
      BY <1>10, <2>4, <3>1, <3>2
    <3> QED BY <2>0, <3>3
  <2> QED BY <1>18, <2>1, <2>2, <2>3, <2>4
<1>21. ASSUME NEW k \in DOMAIN r.path, r.path[k] \in DOMAIN ParamOf
       PROVE  \E i \in DOMAIN all : all[i].identity = <<"path", ParamOf[r.path[k]]>>
  <2>1. CASE k \in left
    <3>1. PICK j \in 1..Cardinality(left) : Nth(left, j) = k
      BY <1>2, <1>3, <2>1, NthHits
    <3> QED BY <1>9, <1>17, <3>1
  <2>2. CASE \E i \in DOMAIN own : own[i].identity = <<"path", ParamOf[r.path[k]]>>
    BY <1>16, <2>2
  <2> QED BY <1>3, <1>21, <2>1, <2>2
<1> QED BY <1>20, <1>21 DEF all

-----------------------------------------------------------------------------
(* The inductive invariant: what is in hand is as the builders make it, and *)
(* the document, once there, is made of the routes as they are.            *)

RoutesOK(rs) ==
    /\ \E S : rs \in Seq(S)
    /\ \A i \in DOMAIN rs : RouteOK(rs[i])

DescribedBy(rs, d) ==
    PathsUpTo(rs, Len(rs), d) /\ ComponentsUpTo(rs, Len(rs), d)

DocumentInv ==
    /\ SchemaOK(schema) /\ MediaOK(media) /\ RoutesOK(documented)
    /\ document # NoValue => DescribedBy(documented, document)

LEMMA RouteAdded ==
    ASSUME NEW rs, RoutesOK(rs), NEW r, RouteOK(r)
    PROVE  RoutesOK(Append(rs, r))
<1>1. PICK S : rs \in Seq(S)
  BY DEF RoutesOK
<1> DEFINE all == Append(rs, r)
<1>2. /\ rs \in Seq(S \cup {r}) /\ Len(rs) \in Nat /\ DOMAIN rs = 1..Len(rs)
  BY <1>1
<1>3. /\ all \in Seq(S \cup {r}) /\ DOMAIN all = 1..(Len(rs) + 1)
      /\ \A i \in 1..(Len(rs) + 1) : all[i] = IF i = Len(rs) + 1 THEN r ELSE rs[i]
  BY <1>2
<1> HIDE DEF all
<1>4. \A i \in DOMAIN all : i \in DOMAIN rs \/ i = Len(rs) + 1
  BY <1>2, <1>3
<1>5. \A i \in DOMAIN all : RouteOK(all[i])
  <2> TAKE i \in DOMAIN all
  <2>1. all[i] = r \/ (i \in DOMAIN rs /\ all[i] = rs[i])
    BY <1>2, <1>3, <1>4
  <2>2. \A j \in DOMAIN rs : RouteOK(rs[j])
    BY DEF RoutesOK
  <2> QED BY <2>1, <2>2
<1>6. RoutesOK(all)
  BY <1>3, <1>5 DEF RoutesOK
<1> QED BY <1>6 DEF all

LEMMA RouteDescribed ==
    ASSUME NEW rs, RoutesOK(rs), rs # << >>, NEW o, Known(o)
    PROVE  RoutesOK([rs EXCEPT ![Len(rs)].openapi = o])
<1>1. PICK S : rs \in Seq(S)
  BY DEF RoutesOK
<1> DEFINE n == Len(rs)
           r == rs[n]
           new == [r EXCEPT !.openapi = o]
           all == [rs EXCEPT ![n].openapi = o]
<1>2. n \in Nat /\ n \in 1..n /\ DOMAIN rs = 1..n /\ \A i \in 1..n : rs[i] \in S
  BY <1>1
<1>3. RouteOK(r)
  BY <1>2 DEF RoutesOK
<1> HIDE DEF r
<1>4. /\ DOMAIN new = DOMAIN r /\ new.openapi = o /\ new.path = r.path
  BY <1>3 DEF RouteOK
<1> HIDE DEF new
<1>5. RouteOK(new)
  BY <1>3, <1>4 DEF RouteOK
<1>6. all = [rs EXCEPT ![n] = new]
  BY DEF new, r
<1> HIDE DEF n, all
<1>7. DOMAIN all = 1..n /\ \A i \in 1..n : all[i] = IF i = n THEN new ELSE rs[i]
  BY <1>2, <1>6
<1>8. all = [i \in 1..n |-> IF i = n THEN new ELSE rs[i]]
  BY <1>2, <1>6
<1>9. all \in Seq(S \cup {new})
  <2>1. \A i \in 1..n : (IF i = n THEN new ELSE rs[i]) \in S \cup {new}
    BY <1>2
  <2>2. [i \in 1..n |-> IF i = n THEN new ELSE rs[i]] \in Seq(S \cup {new})
    BY <1>2, <2>1
  <2> QED BY <1>8, <2>2
<1>10. \A i \in DOMAIN all : RouteOK(all[i])
  <2> TAKE i \in DOMAIN all
  <2>1. all[i] = new \/ (all[i] = rs[i] /\ i \in DOMAIN rs)
    BY <1>2, <1>7
  <2>2. \A j \in DOMAIN rs : RouteOK(rs[j])
    BY DEF RoutesOK
  <2> QED BY <1>5, <2>1, <2>2
<1>11. RoutesOK(all)
  BY <1>9, <1>10 DEF RoutesOK
<1> QED BY <1>11 DEF all, n

LEMMA DocumentBegins == ASSUME Document!Init PROVE DocumentInv
<1>1. /\ schema = Document!Object /\ media = Document!NoEntries
      /\ documented = << >> /\ document = NoValue
  BY DEF Document!Init
<1>2. SchemaOK(schema)
  BY <1>1, SchemasMade
<1>3. MediaOK(media)
  BY <1>1 DEF MediaOK, Document!NoEntries
<1>4. RoutesOK(documented)
  <2>1. << >> \in Seq({}) /\ DOMAIN << >> = {}
    OBVIOUS
  <2> QED BY <1>1, <2>1 DEF RoutesOK
<1> QED BY <1>1, <1>2, <1>3, <1>4 DEF DocumentInv

LEMMA SchemaSteps ==
    ASSUME DocumentGiven, DocumentInv, Document!DescribeSchema
    PROVE  SchemaOK(schema')
<1>0. SchemaOK(schema)
  BY DEF DocumentInv
<1>1. \/ schema' \in {Document!StringSchema, Document!NotAnObject, Document!AllOf}
      \/ \E rs \in SUBSET Properties :
            schema' = Document!WithProperties(Properties, rs)
      \/ schema' = Document!Partial(schema)
      \/ schema' = Document!WithField(schema, "nullable")
      \/ \E n \in Properties : \/ schema' = Document!WithProperty(schema, n)
                               \/ schema' = Document!WithRequired(schema, n)
      \/ \E n \in Properties : schema' = Document!Retain(schema, {n}, TRUE)
      \/ \E n \in Properties : schema' = Document!Retain(schema, {n}, FALSE)
  BY DEF Document!DescribeSchema
<1>2. CASE schema' \in {Document!StringSchema, Document!NotAnObject, Document!AllOf}
  BY <1>2, SchemasMade
<1>3. CASE \E rs \in SUBSET Properties :
              schema' = Document!WithProperties(Properties, rs)
  BY <1>3, SchemasMade
<1>4. SchemaOK(Document!Partial(schema)) /\ \A f : SchemaOK(Document!WithField(schema, f))
  BY <1>0, SchemasKept
<1>5. CASE \E n \in Properties : \/ schema' = Document!WithProperty(schema, n)
                                \/ schema' = Document!WithRequired(schema, n)
  BY <1>0, <1>5, SchemasChanged
<1>6. \A keep \in BOOLEAN : \A names : SchemaOK(Document!Retain(schema, names, keep))
  <2> TAKE keep \in BOOLEAN
  <2> QED BY <1>0, RetainOK
<1>7. \A names : /\ SchemaOK(Document!Retain(schema, names, TRUE))
                 /\ SchemaOK(Document!Retain(schema, names, FALSE))
  BY <1>6, Zenon
<1> QED BY <1>1, <1>2, <1>3, <1>4, <1>5, <1>7

LEMMA DocumentSteps ==
    ASSUME DocumentGiven, DocumentInv, [Document!Next]_DocumentVars
    PROVE  DocumentInv'
<1>0. SchemaOK(schema) /\ MediaOK(media) /\ RoutesOK(documented)
  BY DEF DocumentInv
<1>1. CASE Document!DescribeSchema
  <2>1. SchemaOK(schema')
    BY <1>1, SchemaSteps
  <2>2. media' = media /\ documented' = documented /\ document' = document
        /\ document = NoValue
    BY <1>1 DEF Document!DescribeSchema, Document!Calls
  <2> QED BY <1>0, <2>1, <2>2 DEF DocumentInv
<1>2. CASE Document!DescribeContent
  <2>1. \E type, n, e :
            \/ media' = Document!Content(type, Document!Media(schema))
            \/ media' = Document!ContentExample(media, type)
            \/ media' = Document!ContentNamedExample(media, type, n, e)
    BY <1>2 DEF Document!DescribeContent
  <2>2. MediaOK(media')
    BY <1>0, <2>1, ContentsOK
  <2>3. schema' = schema /\ documented' = documented /\ document' = document
        /\ document = NoValue
    BY <1>2 DEF Document!DescribeContent, Document!Calls
  <2> QED BY <1>0, <2>2, <2>3 DEF DocumentInv
<1>3. CASE Document!DescribeRoute
  <2>1. PICK o \in Document!Described(Document!Last(documented).openapi) :
            documented' = [documented EXCEPT ![Len(documented)].openapi = o]
    BY <1>3 DEF Document!DescribeRoute
  <2>2. /\ documented # << >> /\ document = NoValue /\ document' = document
        /\ schema' = schema /\ media' = media
    BY <1>3 DEF Document!DescribeRoute, Document!Calls
  <2>3. Len(documented) \in DOMAIN documented
    BY <1>0, <2>2 DEF RoutesOK
  <2>4. Known(Document!Last(documented).openapi)
    BY <1>0, <2>3 DEF RoutesOK, RouteOK, Document!Last
  <2>5. Known(o)
    BY <2>1, <2>4, DescribedKnown
  <2>6. RoutesOK(documented')
    BY <1>0, <2>1, <2>2, <2>5, RouteDescribed
  <2> QED BY <1>0, <2>2, <2>6 DEF DocumentInv
<1>4. CASE Document!Generate
  <2>1. /\ document' = Document!FromRoutes /\ documented' = documented
        /\ schema' = schema /\ media' = media
    BY <1>4 DEF Document!Generate
  <2>2. Len(documented) \in Nat
    BY <1>0 DEF RoutesOK
  <2>3. DescribedBy(documented, Document!FromRoutes)
    BY <2>2, FromRoutesIs DEF DescribedBy
  <2>4. DescribedBy(documented', document')
    BY <2>1, <2>3
  <2> QED BY <1>0, <2>1, <2>4 DEF DocumentInv
<1>5. ASSUME NEW t \in ComponentNames, Document!DescribeTag(t) PROVE DocumentInv'
  <2>1. /\ document = NoValue /\ document' = document
        /\ schema' = schema /\ media' = media /\ documented' = documented
    BY <1>5 DEF Document!DescribeTag, Document!Calls
  <2> QED BY <1>0, <2>1 DEF DocumentInv
<1>6. ASSUME NEW s \in PathShapes, Document!Declare(s) PROVE DocumentInv'
  <2> DEFINE r == [method |-> s.method, path |-> s.path, openapi |-> Document!NoMetadata]
  <2>1. /\ documented' = Append(documented, r)
        /\ document = NoValue /\ document' = document
        /\ schema' = schema /\ media' = media
    BY <1>6 DEF Document!Declare
  <2>2. DOMAIN r = {"method", "path", "openapi"} /\ r.path = s.path
        /\ r.openapi = Document!NoMetadata
    OBVIOUS
  <2> HIDE DEF r
  <2>3. RouteOK(r)
    BY <2>2, NothingKnown DEF RouteOK, DocumentGiven
  <2>4. RoutesOK(documented')
    BY <1>0, <2>1, <2>3, RouteAdded
  <2> QED BY <1>0, <2>1, <2>4 DEF DocumentInv
<1>7. CASE UNCHANGED DocumentVars
  <2>1. /\ document' = document /\ schema' = schema /\ media' = media
        /\ documented' = documented
    BY <1>7 DEF DocumentVars
  <2> QED BY <2>1 DEF DocumentInv
<1> QED BY <1>1, <1>2, <1>3, <1>4, <1>5, <1>6, <1>7 DEF Document!Next

(* The newest and the oldest of some routes are the ones found so.         *)
LEMMA NewestIs ==
    ASSUME NEW S \in SUBSET Nat, NEW i \in S, \A j \in S : j <= i
    PROVE  (CHOOSE k \in S : \A j \in S : k >= j) = i
<1> DEFINE c == CHOOSE k \in S : \A j \in S : k >= j
<1>1. \A j \in S : i >= j
  OBVIOUS
<1>2. c \in S /\ \A j \in S : c >= j
  BY <1>1
<1> HIDE DEF c
<1>3. c = i
  BY <1>1, <1>2
<1> QED BY <1>3 DEF c

LEMMA OldestIs ==
    ASSUME NEW S \in SUBSET Nat, NEW i \in S, \A j \in S : i <= j
    PROVE  (CHOOSE k \in S : \A j \in S : k <= j) = i
<1> DEFINE c == CHOOSE k \in S : \A j \in S : k <= j
<1>1. c \in S /\ \A j \in S : c <= j
  OBVIOUS
<1> HIDE DEF c
<1>2. c = i
  BY <1>1
<1> QED BY <1>2 DEF c

LEMMA DeclaredDescribed ==
    ASSUME DocumentInv PROVE Document!DescribesDeclared
<1> DEFINE N == Len(documented)
           at(p, m) == {i \in Document!Visible :
                          Document!OpenApiPath(documented[i].path) = p
                          /\ m \in Document!Methods(documented[i].method)}
           named(p, m) == {i \in at(p, m) : documented[i].method # "ALL"}
           having(k, c) ==
              {i \in Document!Visible : c \in DOMAIN documented[i].openapi.components[k]}
           newest(s) == CHOOSE i \in s : \A j \in s : i >= j
           oldest(s) == CHOOSE i \in s : \A j \in s : i <= j
<1>0. PICK S : documented \in Seq(S)
  BY DEF DocumentInv, RoutesOK
<1>1. N \in Nat /\ DOMAIN documented = 1..N
  BY <1>0
<1>2. \A i : i \in Document!Visible <=> i \in 1..N /\ ~documented[i].openapi.hidden
  BY <1>1 DEF Document!Visible
<1>3. ASSUME document # NoValue
      PROVE  PathsUpTo(documented, N, document) /\ ComponentsUpTo(documented, N, document)
  BY <1>3 DEF DocumentInv, DescribedBy
<1>4. ASSUME document # NoValue, NEW i0 \in Document!Visible,
             NEW p, p = Document!OpenApiPath(documented[i0].path),
             NEW m \in Document!Methods("ALL")
      PROVE  /\ at(p, m) # {} <=> m \in DOMAIN document.paths[p]
             /\ at(p, m) # {} =>
                   document.paths[p][m] =
                     Document!Operation(
                       documented[IF named(p, m) # {} THEN newest(named(p, m))
                                  ELSE oldest(at(p, m))])
  <2> DEFINE A == at(p, m)
             B == named(p, m)
  <2>1. A = At(documented, N, p, m) /\ B = NamedAt(documented, N, p, m)
    <3>1. A = At(documented, N, p, m)
      BY <1>2 DEF At, Shows
    <3> QED BY <3>1 DEF NamedAt
  <2>2. A \in SUBSET Nat /\ B \in SUBSET Nat
    BY <1>1, <2>1 DEF At, NamedAt
  <2> HIDE DEF A, B
  <2>3. /\ A # {} <=> HasPath(document, p, m)
        /\ A # {} => \E i : /\ Describes(documented, N, p, m, i)
                            /\ document.paths[p][m] = Document!Operation(documented[i])
    BY <1>3, <1>4, <2>1 DEF PathsUpTo
  <2>4. p \in DOMAIN document.paths
    <3>1. \E x : x \in Document!Methods(documented[i0].method)
      BY DEF Document!Methods
    <3>2. PICK x : x \in Document!Methods(documented[i0].method)
      BY <3>1
    <3>3. i0 \in At(documented, N, p, x)
      BY <1>2, <1>4, <3>2 DEF At, Shows
    <3>4. HasPath(document, p, x)
      BY <1>3, <1>4, <3>3 DEF PathsUpTo
    <3> QED BY <3>4 DEF HasPath
  <2>5. A # {} <=> m \in DOMAIN document.paths[p]
    BY <2>3, <2>4 DEF HasPath
  <2>6. ASSUME A # {}
        PROVE  document.paths[p][m] =
                 Document!Operation(documented[IF B # {} THEN newest(B) ELSE oldest(A)])
    <3>1. PICK i : /\ Describes(documented, N, p, m, i)
                   /\ document.paths[p][m] = Document!Operation(documented[i])
      BY <2>3, <2>6
    <3>2. CASE B # {}
      <4>1. i \in B /\ \A j \in B : j <= i
        BY <2>1, <3>1, <3>2 DEF Describes
      <4>2. newest(B) = i
        BY <2>2, <4>1, NewestIs
      <4> HIDE DEF newest
      <4> QED BY <3>1, <3>2, <4>2
    <3>3. CASE B = {}
      <4>1. i \in A /\ \A j \in A : i <= j
        BY <2>1, <3>1, <3>3 DEF Describes
      <4>2. oldest(A) = i
        BY <2>2, <4>1, OldestIs
      <4> HIDE DEF oldest
      <4> QED BY <3>1, <3>3, <4>2
    <3> QED BY <3>2, <3>3
  <2> QED BY <2>5, <2>6 DEF A, B
<1>5. ASSUME document # NoValue, NEW k \in Document!ComponentKinds,
             NEW c \in ComponentNames
      PROVE  /\ having(k, c) # {} <=> c \in DOMAIN document.components[k]
             /\ having(k, c) # {} =>
                   document.components[k][c] =
                     documented[newest(having(k, c))].openapi.components[k][c]
  <2> DEFINE A == having(k, c)
  <2>1. A = Having(documented, N, k, c) /\ A \in SUBSET Nat
    BY <1>1, <1>2 DEF Having
  <2> HIDE DEF A
  <2>2. /\ A # {} <=> c \in DOMAIN document.components[k]
        /\ A # {} => \E i \in A :
              /\ \A j \in A : j <= i
              /\ document.components[k][c] = documented[i].openapi.components[k][c]
    BY <1>3, <1>5, <2>1 DEF ComponentsUpTo
  <2>3. ASSUME A # {}
        PROVE  document.components[k][c] = documented[newest(A)].openapi.components[k][c]
    <3>1. PICK i \in A :
              /\ \A j \in A : j <= i
              /\ document.components[k][c] = documented[i].openapi.components[k][c]
      BY <2>2, <2>3
    <3>2. newest(A) = i
      BY <2>1, <3>1, NewestIs
    <3> HIDE DEF newest
    <3> QED BY <3>1, <3>2
  <2> QED BY <2>2, <2>3 DEF A
<1>6. ASSUME document # NoValue
      PROVE  \A p \in {Document!OpenApiPath(documented[i].path) : i \in Document!Visible} :
                \A m \in Document!Methods("ALL") :
                   /\ at(p, m) # {} <=> m \in DOMAIN document.paths[p]
                   /\ at(p, m) # {} =>
                         document.paths[p][m] =
                           Document!Operation(
                             documented[IF named(p, m) # {} THEN newest(named(p, m))
                                        ELSE oldest(at(p, m))])
  <2> HIDE DEF at, named, newest, oldest
  <2> QED BY <1>4, <1>6
<1>7. ASSUME document # NoValue
      PROVE  \A k \in Document!ComponentKinds, c \in ComponentNames :
                /\ having(k, c) # {} <=> c \in DOMAIN document.components[k]
                /\ having(k, c) # {} =>
                      document.components[k][c] =
                        documented[newest(having(k, c))].openapi.components[k][c]
  <2> HIDE DEF having, newest
  <2> QED BY <1>5, <1>7
<1> QED BY <1>6, <1>7 DEF Document!DescribesDeclared

LEMMA EachParameterOnce ==
    ASSUME DocumentGiven, DocumentInv PROVE Document!ParametersOnce
<1> SUFFICES ASSUME document # NoValue, NEW p \in DOMAIN document.paths,
                    NEW m \in DOMAIN document.paths[p]
             PROVE  LET all == document.paths[p][m].parameters
                    IN  /\ \A i, j \in DOMAIN all :
                              all[i].identity = all[j].identity => i = j
                        /\ \A k \in DOMAIN p : p[k] \in DOMAIN ParamOf =>
                              \E i \in DOMAIN all :
                                  all[i].identity = <<"path", ParamOf[p[k]]>>
  BY DEF Document!ParametersOnce
<1> DEFINE N == Len(documented)
<1>0. PICK S : documented \in Seq(S)
  BY DEF DocumentInv, RoutesOK
<1>1. N \in Nat /\ DOMAIN documented = 1..N
  BY <1>0
<1>2. HasPath(document, p, m)
  BY DEF HasPath
<1>3. PICK n : /\ Describes(documented, N, p, m, n)
               /\ document.paths[p][m] = Document!Operation(documented[n])
  BY <1>2 DEF DocumentInv, DescribedBy, PathsUpTo
<1>4. n \in DOMAIN documented /\ Document!OpenApiPath(documented[n].path) = p
  BY <1>1, <1>3 DEF Describes, NamedAt, At, Shows
<1> DEFINE r == documented[n]
<1>5. RouteOK(r)
  BY <1>4 DEF DocumentInv, RoutesOK
<1> HIDE DEF r
<1> DEFINE all == document.paths[p][m].parameters
<1>6. all = Document!Operation(r).parameters
  BY <1>3 DEF r
<1> HIDE DEF all
<1>7. /\ Once(all)
      /\ \A k \in DOMAIN r.path : r.path[k] \in DOMAIN ParamOf =>
            \E i \in DOMAIN all : all[i].identity = <<"path", ParamOf[r.path[k]]>>
  BY <1>5, <1>6, OperationIs
<1>8. /\ DOMAIN p = DOMAIN r.path
      /\ \A k \in DOMAIN p :
            p[k] = IF r.path[k] \in DOMAIN Braced THEN Braced[r.path[k]] ELSE r.path[k]
  BY <1>4 DEF Document!OpenApiPath, r
<1>9. ASSUME NEW k \in DOMAIN p, p[k] \in DOMAIN ParamOf
      PROVE  r.path[k] \in DOMAIN ParamOf /\ ParamOf[p[k]] = ParamOf[r.path[k]]
  BY <1>8, <1>9 DEF DocumentGiven
<1>10. \A i, j \in DOMAIN all : all[i].identity = all[j].identity => i = j
  BY <1>7 DEF Once
<1> QED BY <1>7, <1>8, <1>9, <1>10 DEF all

(* The document has each route at its path and method, each parameter      *)
(* once, and schemas that are split without loss (openapi.rs, from_routes).*)
THEOREM DocumentAgreesAlways ==
    ASSUME DocumentGiven PROVE PartsSpec => []DocumentAgrees
<1> DEFINE Inv == part = "openapi" => DocumentInv
<1>1. PartsInit => Inv
  BY DocumentBegins, PartsBegin
<1>2. Inv /\ [PartsNext]_parts => Inv'
  BY DocumentSteps, PartsStep
<1>3. Inv => DocumentAgrees
  BY DeclaredDescribed, EachParameterOnce, SplitWhole DEF DocumentAgrees, DocumentInv
<1> HIDE DEF Inv
<1> QED BY <1>1, <1>2, <1>3, PTL DEF PartsSpec

=============================================================================
