------------------------------ MODULE LaneQueue ------------------------------
(***************************************************************************)
(* InProcessQueueBackend of src/queue.rs: worker tasks over an a3s-lane    *)
(* job store, which is outside this repository: of it the code relies on   *)
(* what LeasedJobs promises.  start, shutdown, process, enqueue and clear  *)
(* are called by anybody at any time; each lock they take, each call of    *)
(* the store and each wait is a step of its own.                           *)
(*                                                                         *)
(* A worker remembers one claim at most, so it serves as the lock token of *)
(* that claim.  All workers wait for one tokio Notify: notify_one wakes a  *)
(* waiting task or leaves a permit for the next that waits, notify_waiters *)
(* wakes those that wait now.                                              *)
(***************************************************************************)
EXTENDS Naturals, FiniteSets

CONSTANTS
    JobIds,
    Names,         \* processor names
    NameOf,        \* JobIds -> Names
    Workers,       \* worker tasks that may be spawned
    LaneCallers,   \* tasks that call start and shutdown
    WorkerCount,   \* QueueOptions::worker_count
    MaxRequeues,   \* how often the store retries or recovers one job
    MaxStarts,     \* bound: calls of start
    MaxStops,      \* bound: calls of shutdown
    MaxClears,     \* bound: calls of clear
    NoJob          \* a worker has none

VARIABLES
    job,           \* the store
    requeues,      \* JobIds -> its retries and recoveries so far
    running,       \* running_module_ref is Some
    processors,    \* the names registered
    handles,       \* the join handles kept
    permit,        \* the Notify holds a permit
    place,         \* where each worker is
    held,          \* the job each worker works on, or NoJob
    woken,         \* workers in the select loop whose notified() is ready
    hook,          \* LaneCallers -> the call under way
    starts, stops, clears, \* calls so far
    overlapped     \* history: a start found a shutdown under way

LaneVars == <<job, requeues, running, processors, handles, permit, place, held,
              woken, hook, starts, stops, clears, overlapped>>
store == <<job, requeues>>
notify == <<permit, woken>>
task == <<place, held>>
lifecycle == <<running, handles, hook, starts, stops, overlapped>>

L == INSTANCE LeasedJobs WITH Tokens <- Workers

-----------------------------------------------------------------------------
Idle == [at |-> "idle"]

LaneInit ==
    /\ L!Init
    /\ requeues = [i \in JobIds |-> 0]
    /\ running = FALSE
    /\ processors = {}
    /\ handles = {}
    /\ permit = FALSE
    /\ place = [w \in Workers |-> "unborn"]
    /\ held = [w \in Workers |-> NoJob]
    /\ woken = {}
    /\ hook = [c \in LaneCallers |-> Idle]
    /\ starts = 0 /\ stops = 0 /\ clears = 0
    /\ overlapped = FALSE

Live == {w \in Workers : place[w] \notin {"unborn", "ended"}}
InSelect == {w \in Workers : place[w] = "run"}
Listening == (InSelect \ woken) \cup {w \in Workers : place[w] = "wait"}

(* notify_waiters: those outside the select loop poll anyway.              *)
NotifyWaiters == woken' = InSelect

(* The worker starts to wait, at once awake if there is a permit.          *)
Listen(w, at) ==
    /\ place' = [place EXCEPT ![w] = at]
    /\ permit' = FALSE
    /\ woken' = IF permit /\ at = "run" THEN woken \cup {w} ELSE woken \ {w}

(* It stops waiting.                                                       *)
Goto(w, at) ==
    /\ place' = [place EXCEPT ![w] = at]
    /\ woken' = woken \ {w}
    /\ UNCHANGED permit

-----------------------------------------------------------------------------
(* Calls.                                                                  *)

Enqueue(i) ==
    /\ job[i] = L!Absent
    /\ job' = [job EXCEPT ![i] = L!Pending]
    /\ \/ /\ Listening = {}
          /\ permit' = TRUE
          /\ UNCHANGED woken
       \/ /\ \E w \in Listening : woken' = woken \cup ({w} \cap InSelect)
          /\ UNCHANGED permit
    /\ UNCHANGED <<requeues, processors, task, lifecycle, clears>>

Process(n) ==
    /\ n \notin processors
    /\ processors' = processors \cup {n}
    /\ NotifyWaiters
    /\ UNCHANGED <<store, permit, task, lifecycle, clears>>

(* obliterate(force): active jobs go as well.                              *)
Clear ==
    /\ clears < MaxClears
    /\ L!Clear
    /\ requeues' = [i \in JobIds |-> 0]
    /\ NotifyWaiters
    /\ clears' = clears + 1
    /\ UNCHANGED <<processors, permit, task, lifecycle>>

Stopping == \E c \in LaneCallers : hook[c].at \in {"notify", "take", "await"}

(* start: the flag first ...                                               *)
Start(c) ==
    /\ hook[c] = Idle /\ starts < MaxStarts
    /\ starts' = starts + 1
    /\ IF running THEN UNCHANGED <<running, hook, overlapped>>
       ELSE /\ running' = TRUE
            /\ hook' = [hook EXCEPT ![c] = [at |-> "spawn"]]
            /\ overlapped' = (overlapped \/ Stopping)
    /\ UNCHANGED <<store, processors, handles, notify, task, stops, clears>>

(* ... then the workers, under the lock of the handles.                    *)
Spawn(c) ==
    /\ hook[c].at = "spawn"
    /\ \E new \in SUBSET {w \in Workers : place[w] = "unborn"} :
          /\ Cardinality(new) = WorkerCount
          /\ place' = [w \in Workers |-> IF w \in new THEN "top" ELSE place[w]]
          /\ handles' = handles \cup new
    /\ NotifyWaiters
    /\ hook' = [hook EXCEPT ![c] = Idle]
    /\ UNCHANGED <<store, running, processors, permit, held, starts, stops,
                   clears, overlapped>>

Shutdown(c) ==
    /\ hook[c] = Idle /\ stops < MaxStops
    /\ stops' = stops + 1
    /\ running' = FALSE
    /\ hook' = [hook EXCEPT ![c] = [at |-> "notify"]]
    /\ overlapped' = (overlapped \/ \E d \in LaneCallers : hook[d].at = "spawn")
    /\ UNCHANGED <<store, processors, handles, notify, task, starts, clears>>

ShutdownNotifies(c) ==
    /\ hook[c].at = "notify"
    /\ NotifyWaiters
    /\ hook' = [hook EXCEPT ![c] = [at |-> "take"]]
    /\ UNCHANGED <<store, running, processors, handles, permit, task, starts,
                   stops, clears, overlapped>>

ShutdownTakesHandles(c) ==
    /\ hook[c].at = "take"
    /\ handles' = {}
    /\ hook' = [hook EXCEPT ![c] = [at |-> "await", todo |-> handles]]
    /\ UNCHANGED <<store, running, processors, notify, task, starts, stops,
                   clears, overlapped>>

(* Variant: the handles are dropped.                                       *)
ShutdownDetaches(c) ==
    /\ hook[c].at = "await"
    /\ hook' = [hook EXCEPT ![c] = Idle]
    /\ UNCHANGED <<store, running, processors, handles, notify, task, starts,
                   stops, clears, overlapped>>

ShutdownReturns(c) ==
    /\ hook[c].at = "await" /\ hook[c].todo \cap Live = {}
    /\ hook' = [hook EXCEPT ![c] = Idle]
    /\ UNCHANGED <<store, running, processors, handles, notify, task, starts,
                   stops, clears, overlapped>>

-----------------------------------------------------------------------------
(* run_queue_worker and run_queue_worker_once.                             *)

LoopExit(w) ==
    /\ place[w] = "top" /\ ~running
    /\ Goto(w, "ended")
    /\ UNCHANGED <<store, processors, held, lifecycle, clears>>

NoProcessors(w) ==
    /\ place[w] = "top" /\ running /\ processors = {}
    /\ Listen(w, "wait")
    /\ UNCHANGED <<store, processors, held, lifecycle, clears>>

Expired == {i \in JobIds : job[i].is = "active" /\ job[i].lease = "over"}

(* recover_stalled_jobs, promote_due_jobs: expired jobs are pending again  *)
(* or, too often stalled, failed.                                          *)
Recover(w) ==
    /\ place[w] = "top" /\ running /\ processors # {}
    /\ \E again \in SUBSET {i \in Expired : requeues[i] < MaxRequeues} :
          /\ job' = [i \in JobIds |-> IF i \in again THEN L!Pending
                                      ELSE IF i \in Expired THEN [is |-> "failed"]
                                      ELSE job[i]]
          /\ requeues' = [i \in JobIds |-> requeues[i] + IF i \in again THEN 1 ELSE 0]
    /\ Goto(w, "claim")
    /\ UNCHANGED <<processors, held, lifecycle, clears>>

Claim(w) ==
    /\ place[w] = "claim"
    /\ \E i \in JobIds :
          /\ job[i] = L!Pending
          /\ job' = [job EXCEPT ![i] = L!Active(w, "running")]
          /\ held' = [held EXCEPT ![w] = i]
    /\ Goto(w, "seek")
    /\ UNCHANGED <<requeues, processors, lifecycle, clears>>

ClaimNothing(w) ==
    /\ place[w] = "claim"
    /\ \A i \in JobIds : job[i] # L!Pending
    /\ Listen(w, "wait")
    /\ UNCHANGED <<store, processors, held, lifecycle, clears>>

(* A signal or the poll interval ends the wait.                            *)
WaitOver(w) ==
    /\ place[w] = "wait"
    /\ Goto(w, IF held[w] = NoJob THEN "top" ELSE "seek")
    /\ UNCHANGED <<store, processors, held, lifecycle, clears>>

-----------------------------------------------------------------------------
(* wait_for_processor: no heartbeat meanwhile.                             *)

Found(w) ==
    /\ place[w] = "seek" /\ NameOf[held[w]] \in processors
    /\ Listen(w, "run")
    /\ UNCHANGED <<store, processors, held, lifecycle, clears>>

GivesUp(w) ==
    /\ place[w] = "seek" /\ NameOf[held[w]] \notin processors /\ ~running
    /\ Goto(w, "release")
    /\ UNCHANGED <<store, processors, held, lifecycle, clears>>

(* Variant of SeeksOn that does not ask whether the queue still runs.      *)
SeeksOnStopped(w) ==
    /\ place[w] = "seek" /\ NameOf[held[w]] \notin processors
    /\ Listen(w, "wait")
    /\ UNCHANGED <<store, processors, held, lifecycle, clears>>

SeeksOn(w) ==
    /\ place[w] = "seek" /\ NameOf[held[w]] \notin processors /\ running
    /\ Listen(w, "wait")
    /\ UNCHANGED <<store, processors, held, lifecycle, clears>>

-----------------------------------------------------------------------------
(* process_claimed_job: the branches of its select.  Whichever is taken,   *)
(* the notified() of this turn is gone.                                    *)

ProcessorEnds(w) ==
    /\ place[w] = "run"
    /\ \/ Goto(w, "complete")
       \/ Goto(w, "fail")           \* an error, or the timeout
    /\ UNCHANGED <<store, processors, held, lifecycle, clears>>

Heartbeat(w) ==
    /\ place[w] = "run"
    /\ Goto(w, "renew")
    /\ UNCHANGED <<store, processors, held, lifecycle, clears>>

SeesSignal(w) ==
    /\ place[w] = "run" /\ w \in woken
    /\ IF running THEN Listen(w, "run") ELSE Goto(w, "release")
    /\ UNCHANGED <<store, processors, held, lifecycle, clears>>

Owns(w) == L!OwnedBy(job[held[w]], w)

Renew(w) ==
    /\ place[w] = "renew" /\ Owns(w)
    /\ job' = [job EXCEPT ![held[w]] = L!Active(w, "running")]
    /\ Listen(w, "run")
    /\ UNCHANGED <<requeues, processors, held, lifecycle, clears>>

(* The store refuses a token that no longer owns the job: the turn ends    *)
(* with an error, and the processor is dropped.                            *)
Lost(w) ==
    /\ place[w] \in {"renew", "release", "complete", "fail"} /\ ~Owns(w)
    /\ held' = [held EXCEPT ![w] = NoJob]
    /\ Listen(w, "wait")
    /\ UNCHANGED <<store, processors, lifecycle, clears>>

(* release_active_job, complete_job and fail_job.                          *)
Settle(w, at, new) ==
    /\ place[w] = at /\ Owns(w)
    /\ job' = [job EXCEPT ![held[w]] = new]
    /\ held' = [held EXCEPT ![w] = NoJob]
    /\ Goto(w, "top")
    /\ UNCHANGED <<processors, lifecycle, clears>>

Release(w) == Settle(w, "release", L!Pending) /\ UNCHANGED requeues
Complete(w) == Settle(w, "complete", [is |-> "completed"]) /\ UNCHANGED requeues
Fail(w) == Settle(w, "fail", [is |-> "failed"]) /\ UNCHANGED requeues
Retry(w) ==
    /\ Settle(w, "fail", L!Pending)
    /\ requeues[held[w]] < MaxRequeues
    /\ requeues' = [requeues EXCEPT ![held[w]] = @ + 1]

LeaseRunsOut(i) ==
    /\ job[i].is = "active" /\ job[i].lease = "running"
    /\ job' = [job EXCEPT ![i].lease = "over"]
    /\ UNCHANGED <<requeues, processors, notify, task, lifecycle, clears>>

-----------------------------------------------------------------------------
Turn(w) ==
    \/ LoopExit(w) \/ NoProcessors(w) \/ Recover(w) \/ Claim(w)
    \/ ClaimNothing(w) \/ WaitOver(w) \/ Found(w) \/ GivesUp(w) \/ SeeksOn(w)
    \/ SeesSignal(w) \/ Renew(w) \/ Lost(w) \/ Release(w) \/ Complete(w)
    \/ Fail(w) \/ Retry(w)

CallStep(c) ==
    \/ Spawn(c) \/ ShutdownNotifies(c) \/ ShutdownTakesHandles(c)
    \/ ShutdownReturns(c)

LaneNext ==
    \/ \E i \in JobIds : Enqueue(i) \/ LeaseRunsOut(i)
    \/ \E n \in Names : Process(n)
    \/ Clear
    \/ \E c \in LaneCallers : Start(c) \/ Shutdown(c) \/ CallStep(c)
    \/ \E w \in Workers : Turn(w) \/ ProcessorEnds(w) \/ Heartbeat(w)

LaneSpec == LaneInit /\ [][LaneNext]_LaneVars

-----------------------------------------------------------------------------
(* Types of the state; a worker holds a job while it seeks a processor,    *)
(* runs it and settles the job.                                            *)
LaneTypes ==
    /\ job \in [JobIds -> L!States] /\ requeues \in [JobIds -> 0..MaxRequeues]
    /\ running \in BOOLEAN /\ permit \in BOOLEAN /\ overlapped \in BOOLEAN
    /\ processors \subseteq Names
    /\ handles \subseteq Workers /\ woken \subseteq InSelect
    /\ held \in [Workers -> JobIds \cup {NoJob}]
    /\ \A w \in Workers :
          /\ place[w] \in {"unborn", "top", "claim", "ended"} => held[w] = NoJob
          /\ place[w] \in {"seek", "run", "renew", "release", "complete", "fail"}
                   => held[w] # NoJob

(* As many workers as configured, none that runs on unseen, and none that  *)
(* takes a job with it: unless a start and a shutdown overlapped, a start  *)
(* spawns only when the workers of the one before are over, and a stopped  *)
(* queue has none (start and shutdown, the join handles); however they     *)
(* overlapped, a live worker is one whose handle is kept, for the next     *)
(* shutdown, or awaited by one; an active job is the claim of a live       *)
(* worker, so that once all are over every job is ended or pending, to be  *)
(* worked after the next start without waiting for a lease to run out (the *)
(* ways out of process_claimed_job).                                       *)
WorkersBounded ==
    /\ ~overlapped =>
          /\ Cardinality(Live) <= WorkerCount
          /\ ~running /\ (\A c \in LaneCallers : hook[c] = Idle) => Live = {}
    /\ Live \subseteq handles \cup {w \in Workers : \E c \in LaneCallers :
                                       hook[c].at = "await" /\ w \in hook[c].todo}
    /\ \A i \in JobIds : job[i].is = "active" => held[job[i].token] = i

(* Worker tasks and calls run on; a processor returns or times out, though *)
(* heartbeats interrupt the wait for it.                                   *)
Fairness ==
    /\ \A w \in Workers : WF_LaneVars(Turn(w)) /\ SF_LaneVars(ProcessorEnds(w))
    /\ \A c \in LaneCallers : WF_LaneVars(CallStep(c))

(* Once the queue is stopped its workers end, those too that a start went  *)
(* on to spawn, and shutdown returns, unless the queue is started again    *)
(* meanwhile: provided that processors return or time out, and without the *)
(* signal, which a worker that is renewing its lease misses.  And every    *)
(* job ends while the queue runs, once each job's name has a processor;    *)
(* until then a worker may sit on any job it claimed.                      *)
LaneEnds ==
    /\ ~running ~> (running \/ Live = {})
    /\ \A c \in LaneCallers :
          hook[c].at = "await" ~> (hook[c].at # "await" \/ running)
    /\ \A i \in JobIds :
          (job[i] = L!Pending /\ processors = Names) ~>
              \/ job[i].is \in {"absent", "completed", "failed"}
              \/ ~running
=============================================================================
