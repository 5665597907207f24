------------------------------ MODULE MCQueues -------------------------------
(***************************************************************************)
(* What runs in the background and must come to an end, side by side: the  *)
(* workers of PostgresQueue and the jobs of Scheduler.  They share no      *)
(* state: a behaviour is one of either, chosen at the start, and the other *)
(* one stays as it began, where its fairness asks nothing.                 *)
(***************************************************************************)
EXTENDS MCPostgresQueue

CONSTANTS once, tick, Clients, Outside

VARIABLES part, scheduled, handles, running, tasks, client, lifecycle,
          made, ops, starts, stops

SchedulerVars == <<scheduled, handles, running, tasks, client, lifecycle,
                   made, ops, starts, stops>>

Jobs == INSTANCE Scheduler WITH
    Names <- {once, tick}, Timeouts <- {once},
    InitialJobs <- {tick}, MaxOps <- 1, MaxStarts <- 1, MaxStops <- 1,
    MaxRuns <- 2, jobs <- scheduled

QueuesInit == part \in {"queue", "scheduler"} /\ Init /\ Jobs!Init

QueuesNext ==
    /\ UNCHANGED part
    /\ \/ part = "queue" /\ Next /\ UNCHANGED SchedulerVars
       \/ part = "scheduler" /\ Jobs!Next /\ UNCHANGED vars

QueuesSpec ==
    /\ QueuesInit /\ [][QueuesNext]_<<part, vars, SchedulerVars>>
    /\ \A w \in Workers :
          /\ SF_vars(part = "queue" /\ Turn(w)) /\ SF_vars(part = "queue" /\ Claim(w))
          /\ \A i \in JobIds :
                SF_vars(part = "queue" /\ RecoverBegin(w) /\ i \in batch')
    /\ \A i \in JobIds : SF_vars(BecomesDue(i)) /\ SF_vars(LeaseRunsOut(i))
    /\ Jobs!Fairness

(* Shutdown of the scheduler returns (schedule.rs, shutdown).              *)
ShutdownEnds == Jobs!ShutdownEnds
=============================================================================
