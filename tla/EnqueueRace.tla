----------------------------- MODULE EnqueueRace -----------------------------
(***************************************************************************)
(* The transactions of src/queue/postgres statement by statement, as a     *)
(* server runs them at READ COMMITTED: enqueues of one deduplication id    *)
(* (store.rs, deduplication.rs), the completion of a claimed job with its  *)
(* successor (lifecycle.rs), and clear().                                  *)
(*                                                                         *)
(* What a transaction has written is visible to itself, locks the row for  *)
(* others and is published by its commit.  A statement finds its rows in   *)
(* what is committed when it starts, waits for the locks of each, and      *)
(* looks again at what the row has become; rows that came meanwhile it     *)
(* does not see.  PostgresQueue has each of these transactions as one      *)
(* step.  Retention, the last statements of finish, is left out.           *)
(***************************************************************************)
EXTENDS Naturals, FiniteSets

CONSTANTS
    JobIds, Work, Opt,
    Requests,       \* enqueues
    NewId,          \* request -> its fresh UUID, if it asks for no id
    First,          \* the job that there is before them
    InitialRows,    \* what it may be
    Delay, Ttl, MaxClock, MaxFaults,
    None

VARIABLES
    rows,       \* what is committed
    clock,
    tx,         \* of each transaction: where it is, its clock, its writes,
                \* the rows it has locked otherwise, those its statement
                \* found, the owner it read, and the job it is about to
                \* insert
    faults

vars == <<rows, clock, tx, faults>>

Parties == Requests \cup {"finish", "clear"}

Live == {"pending", "active"}

Ends == {"committed", "refused", "aborted"}

-----------------------------------------------------------------------------
(* Rows and their locks.                                                   *)

NewRow(job, now) ==
    [state |-> "pending", work |-> job.work,
     available |-> IF Opt[job.work].delayed THEN now + Delay ELSE now,
     dedup |-> Opt[job.work].dedup,
     expires |-> IF Opt[job.work].dedup # None /\ Opt[job.work].ttl
                 THEN now + Ttl ELSE None,
     succ |-> None, token |-> None]

Written(t) == DOMAIN tx[t].writes

Seen(t, i) == IF i \in Written(t) THEN tx[t].writes[i] ELSE rows[i]

Locked(t, i) ==
    \E u \in Parties \ {t} : i \in Written(u) \cup tx[u].locks

(* Has the deduplication id.                                               *)
Has(row, d) == row # None /\ row.state \in Live /\ row.dedup = d /\ d # None

Idle == [at |-> "idle", now |-> 0, writes |-> <<>>, locks |-> {},
         found |-> {}, owner |-> None, job |-> None]

(* The end of a transaction, with the successor that finish has stored.    *)
Over(t, how) == [tx EXCEPT ![t] = [Idle EXCEPT !.at = how,
                    !.job = IF t = "finish" THEN tx[t].job ELSE None]]

Goes(t, at) == tx' = [tx EXCEPT ![t].at = at, ![t].found = {}]

Write(t, i, row, at) ==
    tx' = [tx EXCEPT ![t].at = at, ![t].found = {}, ![t].owner = None,
                     ![t].writes = [k \in Written(t) \cup {i} |->
                                       IF k = i THEN row ELSE tx[t].writes[k]]]

-----------------------------------------------------------------------------
Init ==
    /\ rows \in [JobIds -> {None} \cup InitialRows]
    /\ \A i \in JobIds \ {First} : rows[i] = None
    /\ clock = 0 /\ faults = 0
    /\ tx = [t \in Parties |-> Idle]

(* enqueue: the clock is read, and then the advisory lock taken.           *)
Begin(t) ==
    /\ tx[t].at = "idle"
    /\ \E x \in Work :
          LET id == IF Opt[x].jobId = None THEN NewId[t] ELSE Opt[x].jobId
          IN  tx' = [tx EXCEPT ![t] = [Idle EXCEPT
                        !.at = IF Opt[x].dedup = None THEN "insert" ELSE "lock",
                        !.now = clock, !.job = [id |-> id, work |-> x]]]
    /\ UNCHANGED <<rows, clock, faults>>

(* Variant: nobody waits.                                                  *)
LockNothing(t) ==
    /\ tx[t].at = "lock"
    /\ Goes(t, "release") /\ UNCHANGED <<rows, clock, faults>>

LockDeduplication(t) ==
    /\ tx[t].at = "lock"
    /\ \A u \in Requests \ {t} :
          /\ tx[u].job # None
          /\ Opt[tx[u].job.work].dedup = Opt[tx[t].job.work].dedup
          => tx[u].at \in {"lock"} \cup Ends
    /\ Goes(t, "release") /\ UNCHANGED <<rows, clock, faults>>

(* A statement begins: what it finds, and then waits for.                  *)
Finds(t, match(_), at) ==
    /\ tx' = [tx EXCEPT ![t].at = at,
                        ![t].found = {i \in JobIds : match(Seen(t, i))}]
    /\ UNCHANGED <<rows, clock, faults>>

Expired(t, row) ==
    /\ Has(row, Opt[tx[t].job.work].dedup)
    /\ row.expires # None /\ row.expires <= tx[t].now

Owner(t, row) == Has(row, Opt[tx[t].job.work].dedup)

(* release_expired_deduplication.                                          *)
FindExpired(t) ==
    tx[t].at = "release" /\ Finds(t, LAMBDA row : Expired(t, row), "releases")

ReleaseExpired(t) ==
    /\ tx[t].at = "releases"
    /\ \A i \in tx[t].found : ~Locked(t, i)
    /\ \/ \E i \in tx[t].found :
             /\ Expired(t, Seen(t, i))
             /\ Write(t, i, [Seen(t, i) EXCEPT !.dedup = None, !.expires = None],
                      "find")
       \/ /\ \A i \in tx[t].found : ~Expired(t, Seen(t, i))
          /\ Goes(t, "find")
    /\ UNCHANGED <<rows, clock, faults>>

(* find_deduplication_owner, FOR UPDATE: the owner stays what it is.       *)
FindOwner(t) ==
    tx[t].at = "find" /\ Finds(t, LAMBDA row : Owner(t, row), "locks")

(* Variant: the rows are not locked, nor waited for.                       *)
ReadOwner(t) ==
    /\ tx[t].at = "locks"
    /\ \/ \E i \in tx[t].found :
             /\ Owner(t, Seen(t, i))
             /\ tx' = [tx EXCEPT ![t].at = "join", ![t].found = {i},
                                 ![t].owner = Seen(t, i)]
       \/ /\ \A i \in tx[t].found : ~Owner(t, Seen(t, i))
          /\ Goes(t, "insert")
    /\ UNCHANGED <<rows, clock, faults>>

LockOwner(t) ==
    /\ tx[t].at = "locks"
    /\ \A i \in tx[t].found : ~Locked(t, i)
    /\ \/ \E i \in tx[t].found :
             /\ Owner(t, Seen(t, i))
             /\ tx' = [tx EXCEPT ![t].at = "join", ![t].locks = {i},
                                 ![t].found = {i}, ![t].owner = Seen(t, i)]
       \/ /\ \A i \in tx[t].found : ~Owner(t, Seen(t, i))
          /\ Goes(t, "insert")
    /\ UNCHANGED <<rows, clock, faults>>

(* update_deduplication_expiry, and then store_successor or                *)
(* replace_delayed_owner, as the owner was when it was read.               *)
Extended(t, row) ==
    IF Opt[tx[t].job.work].extend
    THEN [row EXCEPT !.expires =
             IF Opt[tx[t].job.work].ttl THEN tx[t].now + Ttl ELSE None]
    ELSE row

Joined(t, row) ==
    LET x == tx[t].job.work
        owner == tx[t].owner
        extended == Extended(t, row)
    IN  IF row = None THEN None
        ELSE IF owner.state = "active" /\ Opt[x].keepLast
        THEN IF row.state # "active" THEN extended
             ELSE [extended EXCEPT !.succ = tx[t].job]
        ELSE IF /\ owner.state = "pending" /\ owner.available > tx[t].now
                /\ Opt[x].replace /\ row.state = "pending"
        THEN [extended EXCEPT !.work = x,
                 !.available = tx[t].now + IF Opt[x].delayed THEN Delay ELSE 0]
        ELSE extended

Join(t) ==
    /\ tx[t].at = "join"
    /\ \E i \in tx[t].found :
          /\ ~Locked(t, i)
          /\ Write(t, i, Joined(t, Seen(t, i)), "commit")
    /\ UNCHANGED <<rows, clock, faults>>

(* insert_job: both unique indexes wait for whoever is writing a row of    *)
(* the same id or deduplication id; an id in use is left alone, and a      *)
(* deduplication id in use is an error.                                    *)
Waits(t) ==
    LET job == tx[t].job IN
    \E u \in Parties \ {t} : \E i \in Written(u) :
        \/ i = job.id
        \/ /\ Seen(t, job.id) = None
           /\ \/ Has(tx[u].writes[i], Opt[job.work].dedup)
              \/ Has(rows[i], Opt[job.work].dedup)

Insert(t) ==
    LET job == tx[t].job
        clash == \E i \in JobIds : Has(Seen(t, i), Opt[job.work].dedup)
    IN  /\ tx[t].at = "insert" /\ ~Waits(t)
        /\ \/ /\ Seen(t, job.id) # None
              /\ Goes(t, "ensure")
           \/ /\ Seen(t, job.id) = None /\ clash
              /\ tx' = Over(t, "refused")
           \/ /\ Seen(t, job.id) = None /\ ~clash
              /\ Write(t, job.id, NewRow(job, tx[t].now), "commit")
        /\ UNCHANGED <<rows, clock, faults>>

(* ensure_idempotent_job.                                                  *)
Ensure(t) ==
    LET row == Seen(t, tx[t].job.id) IN
    /\ tx[t].at = "ensure"
    /\ IF row # None /\ row.work = tx[t].job.work
       THEN Goes(t, "commit") ELSE tx' = Over(t, "refused")
    /\ UNCHANGED <<rows, clock, faults>>

Published(t) == [i \in JobIds |-> Seen(t, i)]

Commit(t) ==
    /\ tx[t].at = "commit"
    /\ rows' = Published(t) /\ tx' = Over(t, "committed")
    /\ UNCHANGED <<clock, faults>>

(* A connection that is lost, and a deadlock that the server ends.         *)
Abort(t) ==
    /\ tx[t].at \notin {"idle"} \cup Ends
    /\ faults < MaxFaults /\ faults' = faults + 1
    /\ tx' = Over(t, "aborted") /\ UNCHANGED <<rows, clock>>

-----------------------------------------------------------------------------
(* claim is one statement and skips what is locked.                        *)
Claim ==
    /\ \E i \in JobIds :
          /\ rows[i] # None /\ rows[i].state = "pending"
          /\ rows[i].available <= clock /\ ~Locked(None, i)
          /\ \A j \in JobIds : rows[j] # None => rows[j].state # "active"
          /\ rows' = [rows EXCEPT ![i].state = "active", ![i].token = "finish"]
    /\ UNCHANGED <<clock, tx, faults>>

(* finish(.., None): the claimed row FOR UPDATE with its successor,        *)
FinishReads ==
    /\ tx["finish"].at = "idle"
    /\ \E i \in JobIds :
          /\ rows[i] # None /\ rows[i].token = "finish"
          /\ ~Locked("finish", i)
          /\ tx' = [tx EXCEPT !["finish"] =
                [Idle EXCEPT !.at = "end", !.now = clock, !.locks = {i},
                             !.found = {i}, !.job = rows[i].succ]]
    /\ UNCHANGED <<rows, clock, faults>>

(* set_terminal, and then materialize_successor.                           *)
Ended(row) ==
    IF Opt[row.work].removeOnComplete THEN None
    ELSE [row EXCEPT !.state = "completed", !.token = None, !.dedup = None,
                     !.expires = None, !.succ = None]

FinishEnds ==
    /\ tx["finish"].at = "end"
    /\ \E i \in tx["finish"].found :
          /\ ~Locked("finish", i)
          /\ IF rows[i] # None /\ rows[i].token = "finish"
             THEN Write("finish", i, Ended(rows[i]),
                        IF tx["finish"].job = None THEN "commit" ELSE "insert")
             ELSE tx' = Over("finish", "refused")
    /\ UNCHANGED <<rows, clock, faults>>

(* clear: one DELETE that takes the rows it found one by one.              *)
FindAll ==
    tx["clear"].at = "idle" /\ Finds("clear", LAMBDA row : row # None, "deletes")

Delete ==
    /\ tx["clear"].at = "deletes"
    /\ \/ \E i \in tx["clear"].found :
             /\ ~Locked("clear", i)
             /\ tx' = [tx EXCEPT !["clear"].found = @ \ {i},
                          !["clear"].writes =
                              [k \in Written("clear") \cup {i} |-> None]]
       \/ tx["clear"].found = {} /\ Goes("clear", "commit")
    /\ UNCHANGED <<rows, clock, faults>>

Tick ==
    /\ clock < MaxClock /\ clock' = clock + 1
    /\ UNCHANGED <<rows, tx, faults>>

Next ==
    \/ \E t \in Requests :
          \/ Begin(t) \/ LockDeduplication(t) \/ FindExpired(t)
          \/ ReleaseExpired(t) \/ FindOwner(t) \/ LockOwner(t) \/ Join(t)
    \/ \E t \in Requests \cup {"finish"} : Insert(t) \/ Ensure(t)
    \/ \E t \in Parties : Commit(t) \/ Abort(t)
    \/ Claim \/ FinishReads \/ FinishEnds \/ FindAll \/ Delete \/ Tick

Spec == Init /\ [][Next]_vars

-----------------------------------------------------------------------------
(* The same table as PostgresQueue has it, as a transaction reads it whose *)
(* clock shows now.                                                        *)
Read(tb, now) ==
    [i \in JobIds |->
        IF tb[i] = None THEN None
        ELSE [state |-> tb[i].state, work |-> tb[i].work,
              due |-> tb[i].available <= now,
              attempts |-> 0, stalled |-> 0, token |-> None, lease |-> None,
              reason |-> None, dedup |-> tb[i].dedup,
              dedupTtl |-> IF tb[i].expires = None THEN None
                           ELSE IF tb[i].expires <= now THEN "over" ELSE "running",
              succ |-> tb[i].succ, created |-> 0,
              finished |-> IF tb[i].state \in Live THEN None ELSE 0, fails |-> 0]]

Queue == INSTANCE PostgresQueue WITH
    jobs <- Read(rows, clock), recovering <- None, batch <- {}, draft <- <<>>,
    pc <- <<>>, held <- <<>>, stopping <- {}, processors <- <<>>, enqueues <- 0,
    Workers <- {}, Tokens <- {}, Names <- {}, InitialProcessors <- <<>>,
    RecoveryBatchSize <- 1, MaxEnqueues <- 0

(* What PostgresQueue's Enqueue makes of a table, where it does not fail.  *)
Enqueued(tb, t) ==
    LET x == tx[t].job.work
        i == tx[t].job.id
        d == Opt[x].dedup
        released == IF d = None THEN tb ELSE Queue!ReleaseExpiredDedup(tb, d)
        owners == IF d = None THEN {} ELSE Queue!Owners(released, d)
    IN  IF owners = {} THEN Queue!Inserted(released, i, x, 0)
        ELSE [j \in JobIds |-> IF j \in owners
                THEN Queue!JoinOwner(released[j], i, x) ELSE released[j]]

(* And its Complete.                                                       *)
Completed(tb, i) ==
    Queue!WithSuccessor(Queue!Ended(tb, i, "completed", None, 0), tb[i].succ, 0)

Commits(t) == tx[t].at = "commit" /\ tx'[t].at = "committed"

(* An owner that finish stored after the request released what had expired *)
(* is joined, its time being over or not.                                  *)
Stored ==
    IF tx["finish"].at = "committed" /\ tx["finish"].job # None
    THEN {tx["finish"].job.id} ELSE {}

Spared(tb, S) ==
    [i \in JobIds |-> IF i \in S /\ tb[i] # None /\ tb[i].dedupTtl = "over"
                      THEN [tb[i] EXCEPT !.dedupTtl = "running"] ELSE tb[i]]

(* Of a step: what is committed together is what PostgresQueue does in one *)
(* step, to the table as it was just before, whatever others did between   *)
(* the statements.  No owner that was read has become another, and no      *)
(* other transaction's writes are written over (store.rs, enqueue, finish).*)
OneStep ==
    /\ \A t \in Requests : Commits(t) /\ Written(t) # {} =>
          \E S \in SUBSET Stored :
             Spared(Read(rows', tx[t].now), S)
                 = Enqueued(Spared(Read(rows, tx[t].now), S), t)
    /\ Commits("finish") =>
          \E i \in JobIds :
             /\ rows[i] # None /\ rows[i].token = "finish"
             /\ Read(rows', tx["finish"].now)
                    = Completed(Read(rows, tx["finish"].now), i)

(* Requests of one deduplication id never fail for one another: only the   *)
(* successor of a job that ended meanwhile, which takes no advisory lock,  *)
(* makes insert_job meet the unique index (deduplication.rs,               *)
(* lock_deduplication).                                                    *)
NoClash ==
    \A t \in Requests :
        tx[t].at = "insert" /\ tx'[t].at = "refused" =>
            \E i \in Stored : Has(rows[i], Opt[tx[t].job.work].dedup)
=============================================================================
