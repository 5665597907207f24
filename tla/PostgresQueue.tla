---------------------------- MODULE PostgresQueue ----------------------------
(***************************************************************************)
(* The durable queue of src/queue/postgres: the table boot_queue_jobs, the *)
(* store's transactions over it and the polling workers of every process   *)
(* that shares one queue name.  Each SQL transaction is one step, except   *)
(* the recovery transaction, which handles its batch of expired rows one   *)
(* step at a time on a draft that is committed or thrown away as a whole.  *)
(*                                                                         *)
(* Time.  A stored deadline is only ever compared with the current time,   *)
(* so a row keeps, for each deadline, whether it has passed: due for       *)
(* available_at, lease for lease_expires_at, dedupTtl for the              *)
(* deduplication expiry.  Durations are thereby arbitrary.  created and    *)
(* finished keep their order, as readings of a logical clock.              *)
(*                                                                         *)
(* Data.  A job's name, payload and options JSON are one value x of Work;  *)
(* Opt[x] is what the code decodes from its options.                       *)
(***************************************************************************)
EXTENDS Naturals, FiniteSets

CONSTANTS
    JobIds,        \* job ids, naturals: job_id only breaks ties of order
    Workers,       \* worker tasks, of any number of processes
    Tokens,        \* lock tokens
    Work,          \* what can be enqueued
    Opt,           \* Work -> options
    Names,         \* processor names
    InitialProcessors, \* Workers -> the names registered before start()
    RecoveryBatchSize, \* RECOVERY_BATCH_SIZE
    MaxEnqueues,   \* bound: enqueue calls
    MaxFaults,     \* bound: crashes, failed statements, shutdowns
    None           \* SQL NULL and Rust None

VARIABLES
    jobs,          \* the committed table: JobIds -> row or None
    clock,         \* logical now_nanos(): one reading per timestamped write
    recovering,    \* the worker whose recovery transaction is open, or None
    batch,         \* its expired rows still to handle
    draft,         \* the table as that transaction sees it
    pc,            \* where each worker is in run_postgres_worker
    held,          \* the claimed job in the worker's memory, or None
    stopping,      \* workers whose shutdown channel holds true
    processors,    \* Workers -> the names its process has registered
    enqueues,      \* enqueue calls made
    faults         \* faults injected

table == <<jobs, clock>>
txn == <<recovering, batch, draft>>
worker == <<pc, held>>
env == <<stopping, processors, enqueues, faults>>
vars == <<jobs, clock, recovering, batch, draft, pc, held,
          stopping, processors, enqueues, faults>>

-----------------------------------------------------------------------------
Retention == [aged: BOOLEAN, count: Nat \cup {None}, limit: Nat \cup {None}]

(* The options validate_options lets through.                              *)
Options == [name: Names, jobId: JobIds \cup {None},
            delayed: BOOLEAN, priority: Nat, lifo: BOOLEAN, timeout: BOOLEAN,
            maxRetries: Nat, backoff: BOOLEAN, maxStalled: Nat,
            dedup: STRING \cup {None}, ttl: BOOLEAN, extend: BOOLEAN,
            replace: BOOLEAN, keepLast: BOOLEAN,
            removeOnComplete: BOOLEAN, removeOnFail: BOOLEAN,
            keepCompleted: Retention \cup {None},
            keepFailed: Retention \cup {None}]

ASSUME ConstantsAssumption ==
    /\ JobIds \subseteq Nat
    /\ Opt \in [Work -> Options]
    /\ InitialProcessors \in [Workers -> SUBSET Names]
    /\ RecoveryBatchSize \in Nat \ {0}
    /\ MaxEnqueues \in Nat /\ MaxFaults \in Nat

Live == {"pending", "active"}
Terminal == {"completed", "failed"}

Successor == [id: JobIds, work: Work]

(* A row of boot_queue_jobs.  fails is a history field: the processor      *)
(* failures recorded since the row's present work was stored.              *)
Row == [state: Live \cup Terminal, work: Work, due: BOOLEAN,
        attempts: Nat, stalled: Nat,
        token: Tokens \cup {None}, lease: {"running", "over", None},
        reason: {"error", "stalled", None},
        dedup: STRING \cup {None}, dedupTtl: {"running", "over", None},
        succ: Successor \cup {None},
        created: Nat, finished: Nat \cup {None}, fails: Nat]

Table == [JobIds -> Row \cup {None}]

(* What a worker remembers of the job it claimed.                          *)
Claims == [id: JobIds, token: Tokens, work: Work]

ASSUME NoneAssumption ==
    /\ None \notin JobIds /\ None \notin Workers /\ None \notin Tokens
    /\ None \notin Nat /\ None \notin {"running", "over"}
    /\ None \notin Row /\ None \notin Claims /\ None \notin Successor

EmptyTable == [i \in JobIds |-> None]

Present(tb) == {i \in JobIds : tb[i] # None}
InState(tb, s) == {i \in Present(tb) : tb[i].state = s}

-----------------------------------------------------------------------------
(* insert_job and its ON CONFLICT (queue_name, job_id) DO NOTHING; the     *)
(* unique index over live deduplication ids is not covered by that clause, *)
(* so hitting it is a storage error.                                       *)

NewRow(x, now) ==
    [state |-> "pending", work |-> x, due |-> ~Opt[x].delayed,
     attempts |-> 0, stalled |-> 0, token |-> None, lease |-> None,
     reason |-> None, dedup |-> Opt[x].dedup,
     dedupTtl |-> IF Opt[x].dedup # None /\ Opt[x].ttl THEN "running" ELSE None,
     succ |-> None, created |-> now, finished |-> None, fails |-> 0]

Owners(tb, d) == {i \in Present(tb) : tb[i].state \in Live /\ tb[i].dedup = d}

(* Variant: the index covers pending jobs only.                            *)
PendingClash(tb, x) ==
    Opt[x].dedup # None /\ \E i \in Owners(tb, Opt[x].dedup) : tb[i].state = "pending"

IndexClash(tb, x) == Opt[x].dedup # None /\ Owners(tb, Opt[x].dedup) # {}

(* insert_job followed by ensure_idempotent_job: an id in use is accepted  *)
(* only for the very same work.                                            *)
InsertFails(tb, i, x) ==
    IF tb[i] = None THEN IndexClash(tb, x) ELSE tb[i].work # x

Inserted(tb, i, x, now) ==
    IF tb[i] = None THEN [tb EXCEPT ![i] = NewRow(x, now)] ELSE tb

-----------------------------------------------------------------------------
(* set_terminal and materialize_successor.                                 *)

KeepsNone(retention) == retention # None /\ retention.count = 0

Removes(x, outcome) ==
    IF outcome = "completed"
    THEN Opt[x].removeOnComplete \/ KeepsNone(Opt[x].keepCompleted)
    ELSE Opt[x].removeOnFail \/ KeepsNone(Opt[x].keepFailed)

Ended(tb, i, outcome, reason, now) ==
    [tb EXCEPT ![i] =
        IF Removes(tb[i].work, outcome) THEN None
        ELSE [tb[i] EXCEPT !.state = outcome, !.token = None, !.lease = None,
                           !.reason = reason, !.dedup = None,
                           !.dedupTtl = None, !.succ = None, !.finished = now]]

SuccessorFails(tb, s) == s # None /\ InsertFails(tb, s.id, s.work)

(* Variant: the successor is forgotten.                                    *)
WithoutSuccessor(tb, s, now) == tb

WithSuccessor(tb, s, now) ==
    IF s = None THEN tb ELSE Inserted(tb, s.id, s.work, now)

-----------------------------------------------------------------------------
(* apply_retention: the deletes by age and then by count.  The age cutoff  *)
(* is any reading of the clock; every limit takes rows in the query's      *)
(* order, so a row's rank says whether it is deleted.                      *)

Newer(tb, i, j) ==
    \/ tb[i].finished > tb[j].finished
    \/ tb[i].finished = tb[j].finished /\ i > j

Within(rank, limit) == limit = None \/ rank < limit

AgedOut(tb, s, retention, cutoff) ==
    LET old == {i \in InState(tb, s) : tb[i].finished < cutoff}
    IN  {i \in old : /\ retention.aged
                     /\ Within(Cardinality({j \in old : Newer(tb, i, j)}),
                               retention.limit)}

(* Variant: ORDER BY finished_at ASC.                                      *)
CountedOutAscending(tb, s, retention) ==
    LET rank(i) == Cardinality({j \in InState(tb, s) : Newer(tb, i, j)})
    IN  {i \in InState(tb, s) :
            /\ retention.count # None
            /\ rank(i) >= retention.count
            /\ Within(rank(i) - retention.count, retention.limit)}

CountedOut(tb, s, retention) ==
    LET rank(i) == Cardinality({j \in InState(tb, s) : Newer(tb, j, i)})
    IN  {i \in InState(tb, s) :
            /\ retention.count # None
            /\ rank(i) >= retention.count
            /\ Within(rank(i) - retention.count, retention.limit)}

Without(tb, S) == [i \in JobIds |-> IF i \in S THEN None ELSE tb[i]]

RetentionOf(x, s) ==
    IF s = "completed"
    THEN IF Opt[x].removeOnComplete THEN None ELSE Opt[x].keepCompleted
    ELSE IF Opt[x].removeOnFail THEN None ELSE Opt[x].keepFailed

Retained(tb, x, s, cutoff) ==
    LET retention == RetentionOf(x, s)
        young == Without(tb, AgedOut(tb, s, retention, cutoff))
    IN  IF retention = None THEN tb
        ELSE Without(young, CountedOut(young, s, retention))

(* The end of row i in one transaction: terminal state, successor,         *)
(* retention.  Any error rolls the whole transaction back.                 *)
EndFails(tb, i, outcome, reason, now) ==
    SuccessorFails(Ended(tb, i, outcome, reason, now), tb[i].succ)

End(tb, i, outcome, reason, now, cutoff) ==
    Retained(WithSuccessor(Ended(tb, i, outcome, reason, now), tb[i].succ, now),
             tb[i].work, outcome, cutoff)

-----------------------------------------------------------------------------
(* PostgresQueueStore::enqueue.                                            *)

(* A fresh UUID differs from every id anything still refers to.            *)
FreshId(i) ==
    /\ \A x \in Work : Opt[x].jobId # i
    /\ jobs[i] = None
    /\ \A j \in Present(jobs) : jobs[j].succ # None => jobs[j].succ.id # i
    /\ \A w \in Workers : held[w] # None => held[w].id # i

RequestedId(x) ==
    IF Opt[x].jobId = None THEN {i \in JobIds : FreshId(i)} ELSE {Opt[x].jobId}

ReleaseExpiredDedup(tb, d) ==
    [i \in JobIds |->
        IF i \in Owners(tb, d) /\ tb[i].dedupTtl = "over"
        THEN [tb[i] EXCEPT !.dedup = None, !.dedupTtl = None] ELSE tb[i]]

(* What a request does to the live owner of its deduplication id: extend   *)
(* the expiry, then keep it as the successor of an active owner or         *)
(* replace a delayed one.                                                  *)
JoinOwner(row, i, x) ==
    LET extended == IF Opt[x].extend
                    THEN [row EXCEPT !.dedupTtl = IF Opt[x].ttl THEN "running" ELSE None]
                    ELSE row
    IN  IF row.state = "active" /\ Opt[x].keepLast
        THEN [extended EXCEPT !.succ = [id |-> i, work |-> x]]
        ELSE IF row.state = "pending" /\ ~row.due /\ Opt[x].replace
        THEN [extended EXCEPT !.work = x, !.due = ~Opt[x].delayed, !.fails = 0]
        ELSE extended

Enqueue(x, i) ==
    LET d == Opt[x].dedup
        released == IF d = None THEN jobs ELSE ReleaseExpiredDedup(jobs, d)
        owners == IF d = None THEN {} ELSE Owners(released, d)
    IN  /\ recovering = None
        /\ enqueues < MaxEnqueues
        /\ i \in RequestedId(x)
        /\ enqueues' = enqueues + 1
        /\ \/ /\ owners # {}
              /\ jobs' = [j \in JobIds |-> IF j \in owners
                             THEN JoinOwner(released[j], i, x) ELSE released[j]]
              /\ UNCHANGED clock
           \/ /\ owners = {}
              /\ ~InsertFails(released, i, x)
              /\ jobs' = Inserted(released, i, x, clock)
              /\ clock' = clock + 1
           \/ /\ owners = {}
              /\ InsertFails(released, i, x)
              /\ UNCHANGED table
        /\ UNCHANGED <<txn, worker, stopping, processors, faults>>

(* clear_async: every row of the queue goes, claimed ones included.        *)
Clear ==
    /\ recovering = None
    /\ jobs' = EmptyTable
    /\ UNCHANGED <<clock, txn, worker, env>>

-----------------------------------------------------------------------------
(* recover_expired, the first thing each turn of a worker does.            *)

(* Rows whose lock an enqueue under way may hold: it locks and touches the *)
(* owner of its deduplication id before it commits.                        *)
MaybeLocked ==
    IF enqueues < MaxEnqueues
    THEN {i \in Present(jobs) : jobs[i].dedup # None} ELSE {}

(* Variant: every active row.                                              *)
AllActive == InState(jobs, "active")

Expired == {i \in InState(jobs, "active") : jobs[i].lease = "over"}

(* FOR UPDATE SKIP LOCKED with LIMIT: at most a full batch, and a smaller  *)
(* one only for want of expired rows that nobody has locked.               *)
Batches == {b \in SUBSET Expired :
               /\ Cardinality(b) <= RecoveryBatchSize
               /\ \/ Cardinality(b) = RecoveryBatchSize
                  \/ Expired \ b \subseteq MaybeLocked}

(* Variant: the worker does not look at the shutdown channel.              *)
RecoverBeginRegardless(w) ==
    /\ pc[w] = "top"
    /\ recovering = None
    /\ batch' \in Batches
    /\ recovering' = w
    /\ draft' = jobs
    /\ UNCHANGED <<table, worker, env>>

RecoverBegin(w) ==
    /\ pc[w] = "top" /\ w \notin stopping
    /\ recovering = None
    /\ batch' \in Batches
    /\ recovering' = w
    /\ draft' = jobs
    /\ UNCHANGED <<table, worker, env>>

Stalls(row) == row.stalled >= Opt[row.work].maxStalled

(* Variant: the attempt stays counted.                                     *)
BackToPendingCounted(row) ==
    [row EXCEPT !.state = "pending", !.token = None, !.lease = None]

BackToPending(row) ==
    [row EXCEPT !.state = "pending", !.token = None, !.lease = None,
                !.attempts = IF @ > 0 THEN @ - 1 ELSE 0]

RecoverRow(w) ==
    /\ recovering = w
    /\ \E i \in batch :
          /\ batch' = batch \ {i}
          /\ \/ /\ ~Stalls(draft[i])
                /\ draft' = [draft EXCEPT ![i] =
                                [BackToPending(draft[i]) EXCEPT !.stalled = @ + 1]]
             \/ /\ Stalls(draft[i])
                /\ ~EndFails(draft, i, "failed", "stalled", clock)
                /\ \E cutoff \in 0..clock :
                      draft' = End(draft, i, "failed", "stalled", clock, cutoff)
    /\ UNCHANGED <<table, recovering, worker, env>>

(* A successor that cannot be stored fails the transaction: every row of   *)
(* the batch stays expired and the worker's turn ends before it claims.    *)
RecoverFails(w) ==
    /\ recovering = w
    /\ \E i \in batch : /\ Stalls(draft[i])
                        /\ EndFails(draft, i, "failed", "stalled", clock)
    /\ recovering' = None /\ batch' = {} /\ draft' = EmptyTable
    /\ UNCHANGED <<table, worker, env>>

RecoverCommit(w) ==
    /\ recovering = w
    /\ batch = {}
    /\ jobs' = draft
    /\ clock' = IF draft = jobs THEN clock ELSE clock + 1
    /\ recovering' = None /\ draft' = EmptyTable
    /\ pc' = [pc EXCEPT ![w] = "claim"]
    /\ UNCHANGED <<batch, held, env>>

-----------------------------------------------------------------------------
(* claim: the first due row in the ORDER BY of its query, under a token    *)
(* that nothing else knows.  SKIP LOCKED passes over locked rows.          *)

Due == {i \in InState(jobs, "pending") : jobs[i].due}

ClaimedBefore(i, j) ==
    LET p == Opt[jobs[i].work]
        q == Opt[jobs[j].work]
        ci == jobs[i].created
        cj == jobs[j].created
    IN  \/ p.priority < q.priority
        \/ /\ p.priority = q.priority
           /\ \/ p.lifo /\ ~q.lifo
              \/ /\ p.lifo = q.lifo
                 /\ \/ IF p.lifo THEN ci > cj ELSE ci < cj
                    \/ ci = cj /\ i < j

Claimable ==
    {i \in Due : \A j \in Due \ (MaybeLocked \cup {i}) : ClaimedBefore(i, j)}

TokensKnown ==
    {jobs[i].token : i \in Present(jobs)}
        \cup {held[w].token : w \in {v \in Workers : held[v] # None}}

Claimed(row, k) ==
    [row EXCEPT !.state = "active", !.attempts = @ + 1, !.token = k,
                !.lease = "running"]

(* The worker's next stop depends on whether its process has registered a  *)
(* processor of the job's name.                                            *)
Claim(w) ==
    /\ pc[w] = "claim"
    /\ recovering = None
    /\ \E i \in Claimable, k \in Tokens \ TokensKnown :
          /\ jobs' = [jobs EXCEPT ![i] = Claimed(jobs[i], k)]
          /\ held' = [held EXCEPT ![w] =
                         [id |-> i, token |-> k, work |-> jobs[i].work]]
          /\ pc' = [pc EXCEPT ![w] =
                       IF Opt[jobs[i].work].name \in processors[w]
                       THEN "run" ELSE "release"]
    /\ UNCHANGED <<clock, txn, env>>

ClaimNothing(w) ==
    /\ pc[w] = "claim"
    /\ recovering = None
    /\ Due \subseteq MaybeLocked
    /\ pc' = [pc EXCEPT ![w] = "top"]
    /\ UNCHANGED <<table, txn, held, env>>

(* The update commits and the reply is lost: an active row nobody works.   *)
ClaimReplyLost(w) ==
    /\ pc[w] = "claim"
    /\ recovering = None
    /\ faults < MaxFaults
    /\ \E i \in Claimable, k \in Tokens \ TokensKnown :
          jobs' = [jobs EXCEPT ![i] = Claimed(jobs[i], k)]
    /\ pc' = [pc EXCEPT ![w] = "top"]
    /\ faults' = faults + 1
    /\ UNCHANGED <<clock, txn, held, stopping, processors, enqueues>>

-----------------------------------------------------------------------------
(* process_claimed_job: the select loop and the fenced updates it ends in. *)

(* Variants: an update that forgets lock_token, or its state as well.      *)
FencedByState(w) ==
    jobs[held[w].id] # None /\ jobs[held[w].id].state = "active"

FencedById(w) == jobs[held[w].id] # None

Fenced(w) ==
    LET i == held[w].id
    IN  jobs[i] # None /\ jobs[i].state = "active" /\ jobs[i].token = held[w].token

Drop(w) == /\ pc' = [pc EXCEPT ![w] = "top"]
           /\ held' = [held EXCEPT ![w] = None]

Heartbeat(w) ==
    /\ pc[w] = "run"
    /\ recovering = None
    /\ \/ /\ Fenced(w)
          /\ jobs' = [jobs EXCEPT ![held[w].id].lease = "running"]
          /\ UNCHANGED worker
       \/ /\ ~Fenced(w)
          /\ Drop(w)
          /\ UNCHANGED jobs
    /\ UNCHANGED <<clock, txn, env>>

ProcessorEnds(w) ==
    /\ pc[w] = "run"
    /\ pc' = [pc EXCEPT ![w] = "complete"] \/ pc' = [pc EXCEPT ![w] = "fail"]
    /\ UNCHANGED <<table, txn, held, env>>

ProcessorTimesOut(w) ==
    /\ pc[w] = "run"
    /\ Opt[held[w].work].timeout
    /\ pc' = [pc EXCEPT ![w] = "fail"]
    /\ UNCHANGED <<table, txn, held, env>>

SeesShutdown(w) ==
    /\ pc[w] = "run"
    /\ w \in stopping
    /\ pc' = [pc EXCEPT ![w] = "release"]
    /\ UNCHANGED <<table, txn, held, env>>

Release(w) ==
    /\ pc[w] = "release"
    /\ recovering = None
    /\ IF Fenced(w)
       THEN jobs' = [jobs EXCEPT ![held[w].id] = BackToPending(@)]
       ELSE UNCHANGED jobs
    /\ Drop(w)
    /\ UNCHANGED <<clock, txn, env>>

(* finish(.., None).                                                       *)
Complete(w) ==
    LET i == held[w].id
        ok == Fenced(w) /\ ~EndFails(jobs, i, "completed", None, clock)
    IN  /\ pc[w] = "complete"
        /\ recovering = None
        /\ \/ /\ ok
              /\ \E cutoff \in 0..clock :
                    jobs' = End(jobs, i, "completed", None, clock, cutoff)
              /\ clock' = clock + 1
           \/ ~ok /\ UNCHANGED table
        /\ Drop(w)
        /\ UNCHANGED <<txn, env>>

(* Variant: attempts_made < max_retries.                                   *)
MayRetryBelow(row) ==
    LET max == Opt[row.work].maxRetries
    IN  max > 0 /\ row.attempts < max

MayRetry(row) ==
    LET max == Opt[row.work].maxRetries
    IN  max > 0 /\ row.attempts <= max

(* The failure is recorded: either a delayed retry or the terminal state.  *)
CountFailure(tb, i) == [tb EXCEPT ![i].fails = @ + 1]

(* Variants: the lease stays, and the attempts start afresh.               *)
RetriedLeased(row) ==
    [row EXCEPT !.state = "pending", !.due = ~Opt[row.work].backoff,
                !.token = None, !.reason = "error"]

RetriedAfresh(row) ==
    [row EXCEPT !.state = "pending", !.due = ~Opt[row.work].backoff,
                !.token = None, !.lease = None, !.reason = "error",
                !.attempts = 0, !.fails = 0]

Retried(row) ==
    [row EXCEPT !.state = "pending", !.due = ~Opt[row.work].backoff,
                !.token = None, !.lease = None, !.reason = "error"]

(* finish(.., Some(message)).                                              *)
Fail(w) ==
    LET i == held[w].id
        tb == CountFailure(jobs, i)
        retries == Fenced(w) /\ MayRetry(jobs[i])
        ends == /\ Fenced(w) /\ ~MayRetry(jobs[i])
                /\ ~EndFails(tb, i, "failed", "error", clock)
    IN  /\ pc[w] = "fail"
        /\ recovering = None
        /\ \/ /\ retries
              /\ jobs' = [tb EXCEPT ![i] = Retried(tb[i])]
              /\ UNCHANGED clock
           \/ /\ ends
              /\ \E cutoff \in 0..clock :
                    jobs' = End(tb, i, "failed", "error", clock, cutoff)
              /\ clock' = clock + 1
           \/ ~retries /\ ~ends /\ UNCHANGED table
        /\ Drop(w)
        /\ UNCHANGED <<txn, env>>

-----------------------------------------------------------------------------
(* Lifecycle and faults.  A worker task notices the shutdown at the top of *)
(* its loop or inside the select; a crash loses its memory and its open    *)
(* transaction, a failed statement only its turn.                          *)

Shutdown(w) ==
    /\ w \notin stopping /\ pc[w] \notin {"stopped", "dead"}
    /\ faults < MaxFaults
    /\ stopping' = stopping \cup {w}
    /\ faults' = faults + 1
    /\ UNCHANGED <<table, txn, worker, processors, enqueues>>

Exit(w) ==
    /\ pc[w] = "top" /\ w \in stopping
    /\ recovering # w
    /\ pc' = [pc EXCEPT ![w] = "stopped"]
    /\ UNCHANGED <<table, txn, held, env>>

Start(w) ==
    /\ pc[w] \in {"stopped", "dead"}
    /\ pc' = [pc EXCEPT ![w] = "top"]
    /\ stopping' = stopping \ {w}
    /\ processors' = IF pc[w] = "stopped" THEN processors
                     ELSE [processors EXCEPT ![w] = InitialProcessors[w]]
    /\ UNCHANGED <<table, txn, held, enqueues, faults>>

Rollback(w) ==
    IF recovering = w
    THEN recovering' = None /\ batch' = {} /\ draft' = EmptyTable
    ELSE UNCHANGED txn

Crash(w) ==
    /\ pc[w] \notin {"stopped", "dead"}
    /\ faults < MaxFaults
    /\ pc' = [pc EXCEPT ![w] = "dead"]
    /\ held' = [held EXCEPT ![w] = None]
    /\ Rollback(w)
    /\ faults' = faults + 1
    /\ UNCHANGED <<table, stopping, processors, enqueues>>

StatementFails(w) ==
    /\ pc[w] \in {"claim", "run", "release", "complete", "fail"} \/ recovering = w
    /\ faults < MaxFaults
    /\ Drop(w)
    /\ Rollback(w)
    /\ faults' = faults + 1
    /\ UNCHANGED <<table, stopping, processors, enqueues>>

(* PostgresQueueBackend::process; a name already taken is refused.         *)
Process(w, n) ==
    /\ pc[w] # "dead" /\ n \notin processors[w]
    /\ processors' = [processors EXCEPT ![w] = @ \cup {n}]
    /\ UNCHANGED <<table, txn, worker, stopping, enqueues, faults>>

-----------------------------------------------------------------------------
(* Time passes a stored deadline.                                          *)

BecomesDue(i) ==
    /\ recovering = None
    /\ i \in InState(jobs, "pending") /\ ~jobs[i].due
    /\ jobs' = [jobs EXCEPT ![i].due = TRUE]
    /\ UNCHANGED <<clock, txn, worker, env>>

LeaseRunsOut(i) ==
    /\ recovering = None
    /\ i \in InState(jobs, "active") /\ jobs[i].lease = "running"
    /\ jobs' = [jobs EXCEPT ![i].lease = "over"]
    /\ UNCHANGED <<clock, txn, worker, env>>

DedupRunsOut(i) ==
    /\ recovering = None
    /\ i \in Present(jobs) /\ jobs[i].dedupTtl = "running"
    /\ jobs' = [jobs EXCEPT ![i].dedupTtl = "over"]
    /\ UNCHANGED <<clock, txn, worker, env>>

-----------------------------------------------------------------------------
Init ==
    /\ jobs = EmptyTable
    /\ clock = 0
    /\ recovering = None /\ batch = {} /\ draft = EmptyTable
    /\ pc = [w \in Workers |-> "top"]
    /\ held = [w \in Workers |-> None]
    /\ stopping = {}
    /\ processors = InitialProcessors
    /\ enqueues = 0 /\ faults = 0

(* What the worker's own code does next, whatever the processor is doing.  *)
Turn(w) ==
    \/ RecoverBegin(w) \/ RecoverRow(w) \/ RecoverFails(w) \/ RecoverCommit(w)
    \/ Claim(w) \/ ClaimNothing(w)
    \/ SeesShutdown(w) \/ Release(w) \/ Complete(w) \/ Fail(w)
    \/ Exit(w)

Processor(w) == ProcessorEnds(w) \/ ProcessorTimesOut(w)

Fault(w) == Shutdown(w) \/ Crash(w) \/ StatementFails(w) \/ ClaimReplyLost(w)

Time(i) == BecomesDue(i) \/ LeaseRunsOut(i) \/ DedupRunsOut(i)

Next ==
    \/ \E x \in Work, i \in JobIds : Enqueue(x, i)
    \/ Clear
    \/ \E w \in Workers :
          \/ Turn(w) \/ Processor(w) \/ Heartbeat(w) \/ Fault(w) \/ Start(w)
          \/ \E n \in Names : Process(w, n)
    \/ \E i \in JobIds : Time(i)

Spec == Init /\ [][Next]_vars

(* PostgreSQL grants row locks in turn, so a worker's next statement is    *)
(* executed although other transactions keep getting in between, and a row *)
(* is not locked by an enqueue each time a worker looks for it; time       *)
(* passes every deadline of a row that stays as it is.  Nothing obliges    *)
(* clients, faults or restarts, and a processor may hang for ever.         *)
Fairness ==
    /\ \A w \in Workers :
          /\ SF_vars(Turn(w)) /\ SF_vars(Claim(w))
          /\ \A i \in JobIds : SF_vars(RecoverBegin(w) /\ i \in batch')
    /\ \A i \in JobIds : SF_vars(BecomesDue(i)) /\ SF_vars(LeaseRunsOut(i))

FairSpec == Spec /\ Fairness

(* What job progress also needs: a processor returns or times out, and the *)
(* application starts again what stopped or crashed.                       *)
Operated == \A w \in Workers : WF_vars(Processor(w)) /\ WF_vars(Start(w))

-----------------------------------------------------------------------------
(* Properties.                                                             *)

PCs == {"top", "claim", "run", "release", "complete", "fail", "stopped", "dead"}

(* The CHECK constraints of the migration, which PostgreSQL enforces on    *)
(* every statement, and what only the code guarantees: a terminal row      *)
(* gives up its deduplication id, and a live one owns that of its work.    *)
RowChecks(row) ==
    /\ row.state = "active" <=> row.token # None
    /\ row.state = "active" <=> row.lease # None
    /\ row.state \in Terminal <=> row.finished # None
    /\ row.state \in Terminal => row.dedup = None /\ row.succ = None
    /\ row.dedup \in {None, Opt[row.work].dedup}

TableOK(tb) == tb \in Table /\ \A i \in Present(tb) : RowChecks(tb[i])

(* Types of all variables, with the table's row constraints.               *)
TypeOK ==
    /\ TableOK(jobs) /\ TableOK(draft)
    /\ clock \in Nat
    /\ recovering \in Workers \cup {None}
    /\ batch \subseteq JobIds
    /\ pc \in [Workers -> PCs]
    /\ held \in [Workers -> Claims \cup {None}]
    /\ \A w \in Workers :
          held[w] # None <=> pc[w] \in {"run", "release", "complete", "fail"}
    /\ stopping \in SUBSET Workers
    /\ processors \in [Workers -> SUBSET Names]
    /\ enqueues \in 0..MaxEnqueues /\ faults \in 0..MaxFaults

(* Whoever can still finish a job is alone and works on what is stored:    *)
(* no two workers pass the fence of one row, and a worker that passes it   *)
(* was handed the work the row now holds, although stalled jobs are        *)
(* claimed again, workers outlive their leases and delayed jobs have       *)
(* their work replaced (the lock_token conditions of store.rs and the      *)
(* state condition of replace_delayed_owner).                              *)
SoleOwner ==
    \A w \in Workers : held[w] # None /\ Fenced(w) =>
        /\ held[w].work = jobs[held[w].id].work
        /\ \A v \in Workers \ {w} :
              held[v] # None /\ held[v].id = held[w].id => ~Fenced(v)

(* A lease that still runs is nobody else's to end: the row keeps its      *)
(* token until the worker that holds it releases or finishes the job, or   *)
(* the queue is cleared, although a recovery transaction may be open.      *)
NoStealing ==
    [][\A i \in Present(jobs) : jobs[i].lease = "running" =>
          \/ jobs'[i] # None /\ jobs'[i].token = jobs[i].token
          \/ \E w \in Workers :
                /\ held[w] # None /\ held[w].token = jobs[i].token
                /\ held'[w] = None
          \/ jobs' = EmptyTable]_vars

(* At most one pending or active job owns a deduplication id, through      *)
(* expiry, extension, replacement and the hand-over to a successor in the  *)
(* middle of a recovery batch (the unique index of migrations.rs).         *)
DedupUnique ==
    \A tb \in {jobs, draft} : \A i, j \in Present(tb) :
        /\ i # j
        /\ tb[i].state \in Live /\ tb[j].state \in Live
        /\ tb[i].dedup # None
        => tb[i].dedup # tb[j].dedup

(* The attempts a row records are the failures its processor reported, and *)
(* the attempt under way: releases at shutdown, recoveries of stalled jobs *)
(* and crashes give the attempt they interrupt back (release, recover).    *)
AttemptsAreFailures ==
    \A i \in Present(jobs) :
        /\ jobs[i].state = "pending" => jobs[i].attempts = jobs[i].fails
        /\ jobs[i].state = "active" => jobs[i].attempts = jobs[i].fails + 1

(* Both budgets: work that failed for its processor's errors failed        *)
(* exactly once more than its policy retries it, a job fails as stalled    *)
(* only after max_stalled_count recoveries, and live work is within both   *)
(* (finish, recover_expired).                                              *)
Budgets ==
    \A i \in Present(jobs) :
        LET row == jobs[i]
            retries == Opt[row.work].maxRetries
            stalls == Opt[row.work].maxStalled
        IN  /\ row.state \in Live => row.fails <= retries
            /\ row.stalled <= stalls
            /\ row.state = "failed" =>
                  \/ row.reason = "error" /\ row.fails = retries + 1
                  \/ row.reason = "stalled" /\ row.stalled = stalls

(* The table implements LeasedJobs: a job is claimed under a token nobody  *)
(* else holds, ends only under a claim, never twice, and is worked again   *)
(* only after it was released, retried or recovered, whatever late workers,*)
(* recoveries, replayed requests, retention and clear() do to the row.     *)
JobOf(row) ==
    IF row = None THEN [is |-> "absent"]
    ELSE IF row.state = "active"
    THEN [is |-> "active", token |-> row.token, lease |-> row.lease]
    ELSE [is |-> row.state]

Leased == INSTANCE LeasedJobs WITH job <- [i \in JobIds |-> JobOf(jobs[i])]

ImplementsLeasedJobs == Leased!Spec

(* No accepted work is lost: pending work stays until it is claimed or a   *)
(* request replaces it, only its end removes an active row, and the        *)
(* request an active owner keeps is kept, superseded by a newer one, or    *)
(* stored when the owner ends, unless its id was already in the table.     *)
WorkSurvives ==
    [][jobs' # EmptyTable =>
       \A i \in Present(jobs) :
          LET row == jobs[i]
              requested == enqueues' # enqueues
          IN  /\ row.state = "pending" =>
                    /\ jobs'[i] # None
                    /\ jobs'[i].work = row.work \/ requested
              /\ row.succ # None =>
                    \/ jobs'[i] # None /\ jobs'[i].succ = row.succ
                    \/ jobs'[i] # None /\ jobs'[i].succ # None /\ requested
                    \/ jobs[row.succ.id] # None
                    \/ /\ jobs'[row.succ.id] # None
                       /\ jobs'[row.succ.id].work = row.succ.work]_vars

(* Retention deletes the oldest results first: whatever result it leaves   *)
(* of an outcome is newer than what it deletes (apply_retention where no   *)
(* count has a limit).                                                     *)
RetentionKeepsNewest ==
    [][jobs' # EmptyTable =>
       \A s \in Terminal : \A i, j \in InState(jobs, s) :
          jobs'[i] = None /\ jobs'[j] = jobs[j] => Newer(jobs, j, i)]_vars

(* Every job that no worker lacks a processor for ends, despite crashes,   *)
(* lost replies and failed statements, as long as processors return and    *)
(* workers are restarted.                                                  *)
EveryJobEnds == Operated =>
    \A i \in JobIds :
        (jobs[i] # None /\ jobs[i].state \in Live)
            ~> (jobs[i] = None \/ jobs[i].state \in Terminal)

(* An expired lease is recovered: the job is released to be claimed again, *)
(* renewed by its worker after all, or ended, if processors return.        *)
ExpiredLeaseResolved == Operated =>
    \A i \in JobIds :
        (jobs[i] # None /\ jobs[i].lease = "over")
            ~> (jobs[i] = None \/ jobs[i].lease # "over")

(* shutdown() returns: a worker told to stop ends its task, whatever its   *)
(* processor is doing and whatever happens to its lease.                   *)
ShutdownReturns ==
    \A w \in Workers :
        (w \in stopping) ~> (pc[w] \in {"stopped", "dead"})
=============================================================================
