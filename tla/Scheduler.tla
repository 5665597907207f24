------------------------------ MODULE Scheduler ------------------------------
(***************************************************************************)
(* InProcessScheduler of src/schedule.rs: a registry of jobs, a map of     *)
(* task handles and the running flag, each under a lock of its own, so     *)
(* that schedule, remove, clear, start and shutdown each take several      *)
(* steps and interleave with one another and with the tasks they spawn.    *)
(* start and shutdown are lifecycle hooks, called one after the other;     *)
(* the rest is called by any number of clients.                            *)
(***************************************************************************)
EXTENDS Naturals, FiniteSets

CONSTANTS
    Names,         \* job names
    Timeouts,      \* the one-shot ones; interval and cron jobs repeat
    Clients,       \* callers of the Scheduler
    Outside,       \* those that call from outside a Tokio runtime
    InitialJobs,   \* names registered on module init
    MaxOps,        \* bound: client calls
    MaxStarts,     \* bound: calls of start
    MaxStops,      \* bound: calls of shutdown
    MaxRuns,       \* bound: runs of a repeated job by one task
    None

VARIABLES
    jobs,          \* Names -> the registered job, a number, or None
    handles,       \* Names -> a task, or None
    running,       \* running_module_ref: the number of the start call, or None
    tasks,         \* the tasks spawned so far
    client,        \* Clients -> where the call under way is
    lifecycle,     \* where start or shutdown is
    made,          \* jobs registered so far
    ops,           \* client calls and undone registrations so far, by kind
    starts, stops  \* calls of start and of shutdown so far

vars == <<jobs, handles, running, tasks, client, lifecycle,
          made, ops, starts, stops>>
counters == <<made, ops, starts, stops>>

-----------------------------------------------------------------------------
ClientOps == {"schedule", "undo", "remove", "clear"}

Called == {op \in ClientOps : ops[op] > 0}

(* A tokio task: polled is the time between its timer and its first await. *)
Task == [name : Names, job : Nat, period : Nat,
         aborted : {"no", "removed", "stopped"},
         state : {"sleeping", "polled", "busy", "ended"}, runs : Nat]

NewTask(n, j, p) ==
    [name |-> n, job |-> j, period |-> p, aborted |-> "no",
     state |-> "sleeping", runs |-> 0]

Idle == [at |-> "idle"]

Init ==
    /\ \E number \in [InitialJobs -> 1..Cardinality(InitialJobs)] :
          /\ \A m, n \in InitialJobs : number[m] = number[n] => m = n
          /\ jobs = [n \in Names |-> IF n \in InitialJobs THEN number[n] ELSE None]
    /\ handles = [n \in Names |-> None]
    /\ running = None
    /\ tasks = <<>>
    /\ client = [c \in Clients |-> Idle]
    /\ lifecycle = Idle
    /\ made = Cardinality(InitialJobs)
    /\ ops = [op \in ClientOps |-> 0] /\ starts = 0 /\ stops = 0

Aborted(T, S, by) ==
    [t \in DOMAIN T |-> IF t \in S THEN [T[t] EXCEPT !.aborted = by] ELSE T[t]]

Held(S) == {handles[n] : n \in {m \in S : handles[m] # None}}

(* spawn_job, under the lock of the handles.                               *)
Spawn(n, j, p) ==
    IF handles[n] # None THEN UNCHANGED <<tasks, handles>>
    ELSE /\ tasks' = [t \in 1..(Cardinality(DOMAIN tasks) + 1) |->
                         IF t \in DOMAIN tasks THEN tasks[t] ELSE NewTask(n, j, p)]
         /\ handles' = [handles EXCEPT ![n] = Cardinality(DOMAIN tasks) + 1]

-----------------------------------------------------------------------------
(* Clients.                                                                *)

Call(c, op) ==
    /\ client[c] = Idle
    /\ ops["schedule"] + ops["remove"] + ops["clear"] < MaxOps
    /\ ops' = [ops EXCEPT ![op] = @ + 1]
    /\ UNCHANGED <<starts, stops>>

(* schedule: register the job ...                                          *)
ScheduleInsert(c, n) ==
    /\ Call(c, "schedule")
    /\ IF jobs[n] # None THEN UNCHANGED <<jobs, client, made>>
       ELSE /\ made' = made + 1
            /\ jobs' = [jobs EXCEPT ![n] = made + 1]
            /\ client' = [client EXCEPT ![c] =
                              [at |-> "inserted", name |-> n, job |-> made + 1]]
    /\ UNCHANGED <<handles, running, tasks, lifecycle>>

(* Variant: a start under way is left to spawn the job.                    *)
ScheduleTrusts(c) ==
    /\ client[c].at = "inserted"
    /\ client' = [client EXCEPT ![c] =
           IF running = None \/ lifecycle # Idle THEN Idle
           ELSE [at |-> "spawning", name |-> @.name, job |-> @.job, period |-> running]]
    /\ UNCHANGED <<jobs, handles, running, tasks, lifecycle, counters>>

(* ... look whether the scheduler runs ...                                 *)
ScheduleCheck(c) ==
    /\ client[c].at = "inserted"
    /\ client' = [client EXCEPT ![c] =
           IF running = None THEN Idle
           ELSE [at |-> IF c \in Outside THEN "failed" ELSE "spawning",
                 name |-> @.name, job |-> @.job, period |-> running]]
    /\ UNCHANGED <<jobs, handles, running, tasks, lifecycle, counters>>

(* ... and spawn it, or take the registration back.                        *)
ScheduleSpawn(c) ==
    /\ client[c].at = "spawning"
    /\ Spawn(client[c].name, client[c].job, client[c].period)
    /\ client' = [client EXCEPT ![c] = Idle]
    /\ UNCHANGED <<jobs, running, lifecycle, counters>>

ScheduleUndo(c) ==
    /\ client[c].at = "failed"
    /\ jobs' = [jobs EXCEPT ![client[c].name] = None]
    /\ client' = [client EXCEPT ![c] = Idle]
    /\ ops' = [ops EXCEPT !["undo"] = @ + 1]
    /\ UNCHANGED <<handles, running, tasks, lifecycle, made, starts, stops>>

(* remove(name), or clear() when S is all names: the registry first, then  *)
(* the handles, which are aborted but not awaited.                         *)
RemoveJobs(c, S) ==
    /\ \/ Call(c, "remove") /\ \E n \in Names : S = {n}
       \/ Call(c, "clear") /\ S = Names
    /\ jobs' = [n \in Names |-> IF n \in S THEN None ELSE jobs[n]]
    /\ client' = [client EXCEPT ![c] = [at |-> "removed", names |-> S]]
    /\ UNCHANGED <<handles, running, tasks, lifecycle, made>>

RemoveHandles(c) ==
    /\ client[c].at = "removed"
    /\ tasks' = Aborted(tasks, Held(client[c].names), "removed")
    /\ handles' = [n \in Names |-> IF n \in client[c].names THEN None ELSE handles[n]]
    /\ client' = [client EXCEPT ![c] = Idle]
    /\ UNCHANGED <<jobs, running, lifecycle, counters>>

-----------------------------------------------------------------------------
(* Lifecycle.                                                              *)

StartRunning ==
    /\ lifecycle = Idle /\ starts < MaxStarts
    /\ starts' = starts + 1
    /\ IF running # None THEN UNCHANGED <<running, lifecycle>>
       ELSE /\ running' = starts + 1
            /\ lifecycle' = [at |-> "starting"]
    /\ UNCHANGED <<jobs, handles, tasks, client, made, ops, stops>>

StartReadsJobs ==
    /\ lifecycle.at = "starting"
    /\ lifecycle' = [at |-> "spawning", period |-> running,
                     todo |-> {[name |-> n, job |-> jobs[n]] :
                                  n \in {m \in Names : jobs[m] # None}}]
    /\ UNCHANGED <<jobs, handles, running, tasks, client, counters>>

StartSpawns(x) ==
    /\ lifecycle.at = "spawning" /\ x \in lifecycle.todo
    /\ Spawn(x.name, x.job, lifecycle.period)
    /\ lifecycle' = [lifecycle EXCEPT !.todo = @ \ {x}]
    /\ UNCHANGED <<jobs, running, client, counters>>

StartReturns ==
    /\ lifecycle.at = "spawning" /\ lifecycle.todo = {}
    /\ lifecycle' = Idle
    /\ UNCHANGED <<jobs, handles, running, tasks, client, counters>>

ShutdownBegins ==
    /\ lifecycle = Idle /\ stops < MaxStops
    /\ stops' = stops + 1
    /\ running' = None
    /\ lifecycle' = [at |-> "stopping"]
    /\ UNCHANGED <<jobs, handles, tasks, client, made, ops, starts>>

ShutdownTakesHandles ==
    /\ lifecycle.at = "stopping"
    /\ handles' = [n \in Names |-> None]
    /\ lifecycle' = [at |-> "aborting", todo |-> Held(Names)]
    /\ UNCHANGED <<jobs, running, tasks, client, counters>>

(* Variant: awaited without an abort.                                      *)
ShutdownWaits(t) ==
    /\ lifecycle.at = "aborting" /\ t \in lifecycle.todo
    /\ lifecycle' = [at |-> "awaiting", todo |-> lifecycle.todo \ {t}, task |-> t]
    /\ UNCHANGED <<jobs, handles, running, tasks, client, counters>>

ShutdownAborts(t) ==
    /\ lifecycle.at = "aborting" /\ t \in lifecycle.todo
    /\ tasks' = Aborted(tasks, {t}, "stopped")
    /\ lifecycle' = [at |-> "awaiting", todo |-> lifecycle.todo \ {t}, task |-> t]
    /\ UNCHANGED <<jobs, handles, running, client, counters>>

ShutdownAwaits ==
    /\ lifecycle.at = "awaiting" /\ tasks[lifecycle.task].state = "ended"
    /\ lifecycle' = [at |-> "aborting", todo |-> lifecycle.todo]
    /\ UNCHANGED <<jobs, handles, running, tasks, client, counters>>

ShutdownReturns ==
    /\ lifecycle.at = "aborting" /\ lifecycle.todo = {}
    /\ lifecycle' = Idle
    /\ UNCHANGED <<jobs, handles, running, tasks, client, counters>>

-----------------------------------------------------------------------------
(* Tasks: run_job_loop.  An abort takes effect when the task next waits.   *)

TaskStep(t, from, to, runs) ==
    /\ tasks[t].state = from
    /\ tasks' = [tasks EXCEPT ![t].state = to, ![t].runs = runs]
    /\ UNCHANGED <<jobs, handles, running, client, lifecycle, counters>>

TimerFires(t) ==
    /\ tasks[t].aborted = "no" /\ tasks[t].runs < MaxRuns
    /\ TaskStep(t, "sleeping", "polled", tasks[t].runs)

RunBegins(t) == TaskStep(t, "polled", "busy", tasks[t].runs + 1)

RunEnds(t) ==
    TaskStep(t, "busy", IF tasks[t].name \in Timeouts THEN "ended" ELSE "sleeping",
             tasks[t].runs)

Cancelled(t) ==
    /\ tasks[t].aborted # "no"
    /\ \/ TaskStep(t, "sleeping", "ended", tasks[t].runs)
       \/ TaskStep(t, "busy", "ended", tasks[t].runs)

-----------------------------------------------------------------------------
ClientStep(c) ==
    \/ ScheduleCheck(c) \/ ScheduleSpawn(c) \/ ScheduleUndo(c) \/ RemoveHandles(c)

StartStep ==
    \/ StartReadsJobs \/ StartReturns
    \/ \E x \in [name : Names, job : Nat \cap 1..made] : StartSpawns(x)

ShutdownStep ==
    \/ ShutdownTakesHandles \/ ShutdownAwaits \/ ShutdownReturns
    \/ \E t \in DOMAIN tasks : ShutdownAborts(t)

TaskMoves(t) == RunBegins(t) \/ RunEnds(t) \/ Cancelled(t)

Next ==
    \/ \E c \in Clients : \/ \E n \in Names : ScheduleInsert(c, n)
                          \/ \E S \in SUBSET Names : RemoveJobs(c, S)
                          \/ ClientStep(c)
    \/ StartRunning \/ StartStep \/ ShutdownBegins \/ ShutdownStep
    \/ \E t \in DOMAIN tasks : TimerFires(t) \/ TaskMoves(t)

Spec == Init /\ [][Next]_vars

(* Calls under way run on; a polled task runs until it waits, and so is    *)
(* cancelled or ends its run at some time.                                 *)
Fairness ==
    /\ WF_vars(StartStep) /\ WF_vars(ShutdownStep)
    /\ \A t \in 1..(MaxOps + MaxStarts * Cardinality(Names)) :
          WF_vars(t \in DOMAIN tasks /\ TaskMoves(t))

LiveSpec == Spec /\ Fairness

-----------------------------------------------------------------------------
(* Types of the state.                                                     *)
TypeOK ==
    /\ jobs \in [Names -> 1..made \cup {None}]
    /\ ops \in [ClientOps -> 0..MaxOps]
    /\ handles \in [Names -> DOMAIN tasks \cup {None}]
    /\ running \in 1..starts \cup {None}
    /\ \A t \in DOMAIN tasks :
          /\ tasks[t] \in Task
          /\ tasks[t].runs <= IF tasks[t].name \in Timeouts THEN 1 ELSE MaxRuns

Alive(t) == tasks[t].state # "ended"

Taken == IF lifecycle.at \in {"aborting", "awaiting"} THEN lifecycle.todo ELSE {}

(* No task runs on out of reach: one that was not aborted is in the map of *)
(* handles, under its own name, or about to be aborted by shutdown.        *)
Tracked ==
    \A t \in DOMAIN tasks : Alive(t) /\ tasks[t].aborted = "no" =>
        handles[tasks[t].name] = t \/ t \in Taken

(* A job registered while start runs is spawned by one of the two: start   *)
(* marks the scheduler as running before it reads the registry, schedule   *)
(* registers before it looks.  Only once jobs were both scheduled and      *)
(* removed (or their registration undone), or scheduled and stopped, may   *)
(* one be missed.                                                          *)
AllSpawned ==
    /\ "schedule" \in Called => Called = {"schedule"} /\ stops = 0
    /\ running # None /\ lifecycle = Idle /\ (\A c \in Clients : client[c] = Idle)
    => \A n \in Names : jobs[n] # None =>
            /\ handles[n] # None
            /\ tasks[handles[n]].job = jobs[n]
            /\ tasks[handles[n]].period = running
            /\ tasks[handles[n]].aborted = "no"

(* A timeout job runs once for each start (schedule_module_runs_timeout_   *)
(* jobs_once), however schedule and start interleave, as long as nothing   *)
(* was removed or shut down.                                               *)
TimeoutOnce == Called \subseteq {"schedule"} /\ stops = 0 =>
    \A t, u \in DOMAIN tasks :
        tasks[t].name \in Timeouts /\ tasks[t].runs > 0 =>
            /\ tasks[t].runs = 1
            /\ tasks[u].job = tasks[t].job /\ tasks[u].period = tasks[t].period => u = t

(* When shutdown returns, the tasks it found are over, not just told so;   *)
(* only what remove or clear aborted may still be on its way to an await.  *)
(* (What a schedule under way spawns meanwhile is StopsDuringShutdown.)    *)
StoppedMeansStopped ==
    lifecycle = Idle /\ running = None /\ "schedule" \notin Called =>
        \A t \in DOMAIN tasks : Alive(t) => tasks[t].aborted = "removed"

(* "The scheduler starts during application bootstrap and stops during     *)
(* shutdown": no task is left to fire after shutdown returned and calls of *)
(* schedule have returned too.                                             *)
StopsDuringShutdown ==
    lifecycle = Idle /\ running = None /\ (\A c \in Clients : client[c] = Idle) =>
        \A t \in DOMAIN tasks : Alive(t) => tasks[t].aborted # "no"

(* Shutdown returns: every handle it awaits was aborted.                   *)
ShutdownEnds == lifecycle.at = "stopping" ~> lifecycle = Idle

=============================================================================
