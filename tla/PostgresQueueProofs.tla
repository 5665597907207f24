------------------------- MODULE PostgresQueueProofs -------------------------
(***************************************************************************)
(* Proofs about PostgresQueue, for any number of workers, tokens and jobs  *)
(* and any options: its typing and the row constraints of the migration,   *)
(* the exclusive ownership of claimed jobs, and that it implements         *)
(* LeasedJobs; then what its rows keep, in the table and in the draft of a *)
(* recovery: the counters of each row, within the budgets they are held    *)
(* against, and one live row for each deduplication id; and what the table *)
(* never loses: pending work, the request an active owner keeps for its    *)
(* successor, and the newest results, through any recovery that is         *)
(* committed, rolled back or lost in between.                              *)
(***************************************************************************)
EXTENDS PostgresQueue, FiniteSetTheorems, TLAPS

USE DEF Live, Terminal

RowOK(row) == row \in Row /\ RowChecks(row)

-----------------------------------------------------------------------------
(* What each helper of the model does to the table.                        *)

(* The fields of a job's options that rows depend on.                      *)
LEMMA OptTypes ==
    ASSUME NEW x \in Work
    PROVE  /\ Opt[x].dedup \in STRING \cup {None}
           /\ Opt[x].delayed \in BOOLEAN /\ Opt[x].backoff \in BOOLEAN
           /\ Opt[x].maxRetries \in Nat /\ Opt[x].maxStalled \in Nat
           /\ Opt[x].jobId \in JobIds \cup {None}
BY ConstantsAssumption DEF Options

(* A table is well formed if each of its rows is.                          *)
LEMMA TableByRows ==
    ASSUME NEW tb
    PROVE  TableOK(tb) <=> /\ tb \in [JobIds -> Row \cup {None}]
                           /\ \A i \in JobIds : tb[i] = None \/ RowOK(tb[i])
BY DEF TableOK, Table, Present, RowOK

(* Writing one well-formed row, or deleting one, keeps the table so.       *)
LEMMA WriteRow ==
    ASSUME NEW tb, TableOK(tb), NEW i \in JobIds, NEW row,
           row = None \/ RowOK(row)
    PROVE  TableOK([tb EXCEPT ![i] = row])
BY TableByRows DEF RowOK

(* insert_job stores a well-formed row.                                    *)
LEMMA NewRowOK ==
    ASSUME NEW x \in Work, NEW now \in Nat
    PROVE  RowOK(NewRow(x, now))
BY OptTypes DEF RowOK, NewRow, Row, RowChecks

(* The row updates of claims, retries, releases and terminal states.       *)
LEMMA ClaimedOK ==
    ASSUME NEW row, RowOK(row), row.state = "pending", NEW k \in Tokens
    PROVE  RowOK(Claimed(row, k))
<1> DEFINE r == Claimed(row, k)
<1>0. row.attempts + 1 \in Nat
  BY DEF RowOK, Row
<1>1. r \in Row
  BY <1>0 DEF RowOK, Claimed, Row
<1>2. RowChecks(r)
  BY NoneAssumption DEF RowOK, Claimed, Row, RowChecks
<1> QED BY <1>1, <1>2 DEF RowOK

(* A release, or a recovery, leaves a well-formed pending row.             *)
LEMMA BackToPendingOK ==
    ASSUME NEW row, RowOK(row), row.state = "active"
    PROVE  RowOK(BackToPending(row))
<1> DEFINE r == BackToPending(row)
<1>0. (IF row.attempts > 0 THEN row.attempts - 1 ELSE 0) \in Nat
  BY DEF RowOK, Row
<1>1. r \in Row
  BY <1>0 DEF RowOK, BackToPending, Row
<1>2. RowChecks(r)
  BY DEF RowOK, BackToPending, Row, RowChecks
<1> QED BY <1>1, <1>2 DEF RowOK

(* So does a retry.                                                        *)
LEMMA RetriedOK ==
    ASSUME NEW row, RowOK(row), row.state = "active"
    PROVE  RowOK(Retried(row))
<1> DEFINE r == Retried(row)
<1>1. Opt[row.work].backoff \in BOOLEAN
  BY OptTypes DEF RowOK, Row
<1>2. r \in Row
  BY <1>1 DEF RowOK, Retried, Row
<1>3. RowChecks(r)
  BY DEF RowOK, Retried, Row, RowChecks
<1> QED BY <1>2, <1>3 DEF RowOK

(* insert_job and ensure_idempotent_job leave the table well formed.       *)
LEMMA InsertedOK ==
    ASSUME NEW tb, TableOK(tb), NEW i \in JobIds, NEW x \in Work, NEW now \in Nat
    PROVE  TableOK(Inserted(tb, i, x, now))
BY NewRowOK, WriteRow DEF Inserted

(* set_terminal: the terminal row holds neither lease nor deduplication.   *)
LEMMA EndedOK ==
    ASSUME NEW tb, TableOK(tb), NEW i \in JobIds, tb[i] # None,
           NEW outcome \in Terminal, NEW reason \in {"error", "stalled", None},
           NEW now \in Nat
    PROVE  TableOK(Ended(tb, i, outcome, reason, now))
<1> DEFINE r == [tb[i] EXCEPT !.state = outcome, !.token = None, !.lease = None,
                              !.reason = reason, !.dedup = None,
                              !.dedupTtl = None, !.succ = None, !.finished = now]
<1>1. RowOK(tb[i])
  BY TableByRows
<1>2. r \in Row
  BY <1>1 DEF RowOK, Row
<1>3. RowChecks(r)
  BY <1>1, NoneAssumption DEF RowOK, Row, RowChecks
<1>4. RowOK(r)
  BY <1>2, <1>3 DEF RowOK
<1> HIDE DEF r
<1>5. CASE Removes(tb[i].work, outcome)
  BY <1>5, WriteRow DEF Ended
<1>6. CASE ~Removes(tb[i].work, outcome)
  <2>1. Ended(tb, i, outcome, reason, now) = [tb EXCEPT ![i] = r]
    BY <1>6, TableByRows DEF Ended, r
  <2>2. TableOK([tb EXCEPT ![i] = r])
    BY <1>4, WriteRow
  <2> QED BY <2>1, <2>2
<1> QED BY <1>5, <1>6

(* apply_retention only deletes rows.                                      *)
LEMMA WithoutOK ==
    ASSUME NEW tb, TableOK(tb), NEW S
    PROVE  TableOK(Without(tb, S))
BY TableByRows DEF Without, RowOK

(* apply_retention only deletes rows.                                      *)
LEMMA RetainedOK ==
    ASSUME NEW tb, TableOK(tb), NEW x, NEW s, NEW cutoff
    PROVE  TableOK(Retained(tb, x, s, cutoff))
BY WithoutOK DEF Retained

(* The end of a job in one transaction.                                    *)
LEMMA EndOK ==
    ASSUME NEW tb, TableOK(tb), NEW i \in JobIds, tb[i] # None,
           NEW outcome \in Terminal, NEW reason \in {"error", "stalled", None},
           NEW now \in Nat, NEW cutoff
    PROVE  TableOK(End(tb, i, outcome, reason, now, cutoff))
<1> DEFINE ended == Ended(tb, i, outcome, reason, now)
           s == tb[i].succ
<1>1. TableOK(ended)
  BY EndedOK
<1>2. s # None => s.id \in JobIds /\ s.work \in Work
  <2>1. tb[i] \in Row
    BY TableByRows DEF RowOK
  <2>2. s \in Successor \cup {None}
    BY <2>1 DEF Row
  <2> QED BY <2>2 DEF Successor
<1> HIDE DEF ended
<1>3. TableOK(WithSuccessor(ended, s, now))
  BY <1>1, <1>2, InsertedOK DEF WithSuccessor
<1> QED BY <1>3, RetainedOK DEF End, ended

(* Retention touches terminal rows only.                                   *)
LEMMA RetainedFrame ==
    ASSUME NEW tb, TableOK(tb), NEW x, NEW s \in Terminal, NEW cutoff,
           NEW j \in JobIds
    PROVE  /\ Retained(tb, x, s, cutoff)[j] \in {None, tb[j]}
           /\ tb[j] # None /\ tb[j].state \notin Terminal
                 => Retained(tb, x, s, cutoff)[j] = tb[j]
<1> DEFINE young == Without(tb, AgedOut(tb, s, RetentionOf(x, s), cutoff))
<1>1. /\ young[j] \in {None, tb[j]}
      /\ tb[j] # None /\ tb[j].state \notin Terminal => young[j] = tb[j]
  BY DEF Without, AgedOut, InState
<1> HIDE DEF young
<1>2. LET old == Without(young, CountedOut(young, s, RetentionOf(x, s)))
      IN  /\ old[j] \in {None, young[j]}
          /\ young[j] # None /\ young[j].state \notin Terminal => old[j] = young[j]
  BY DEF Without, CountedOut, InState
<1> QED BY <1>1, <1>2 DEF Retained, young

(* Ending row i leaves the other active rows alone and no new one behind.  *)
LEMMA EndFrame ==
    ASSUME NEW tb, TableOK(tb), NEW i \in JobIds, tb[i] # None,
           NEW outcome \in Terminal, NEW reason \in {"error", "stalled", None},
           NEW now \in Nat, NEW cutoff, NEW j \in JobIds
    PROVE  LET end == End(tb, i, outcome, reason, now, cutoff)
           IN  /\ end[j] # None /\ end[j].state = "active" => j # i /\ end[j] = tb[j]
               /\ j # i /\ tb[j] # None /\ tb[j].state = "active" => end[j] = tb[j]
<1> DEFINE ended == Ended(tb, i, outcome, reason, now)
           s == tb[i].succ
           handed == WithSuccessor(ended, s, now)
           end == End(tb, i, outcome, reason, now, cutoff)
<1>1. /\ j # i => ended[j] = tb[j]
      /\ ended[i] # None => ended[i].state = outcome
  <2>1. tb[i] \in Row /\ tb \in [JobIds -> Row \cup {None}]
    BY TableByRows DEF RowOK
  <2> QED BY <2>1 DEF Ended, Row
<1>2. TableOK(ended)
  BY EndedOK
<1>3. s # None => s.id \in JobIds /\ s.work \in Work
  <2>1. tb[i] \in Row
    BY TableByRows DEF RowOK
  <2>2. s \in Successor \cup {None}
    BY <2>1 DEF Row
  <2> QED BY <2>2 DEF Successor
<1> HIDE DEF ended, s
<1>4. /\ ended[j] # None => handed[j] = ended[j]
      /\ handed[j] # ended[j] => handed[j].state = "pending"
  BY <1>2, <1>3, TableByRows DEF WithSuccessor, Inserted, NewRow
<1>5. TableOK(handed)
  BY <1>2, <1>3, InsertedOK DEF WithSuccessor
<1> HIDE DEF handed
<1>6. end = Retained(handed, tb[i].work, outcome, cutoff)
  BY DEF End, ended, s, handed
<1>7. /\ end[j] \in {None, handed[j]}
      /\ handed[j] # None /\ handed[j].state \notin Terminal => end[j] = handed[j]
  BY <1>5, <1>6, RetainedFrame
<1> HIDE DEF end
<1>8. end[j] # None /\ end[j].state = "active" => j # i /\ end[j] = tb[j]
  BY <1>1, <1>4, <1>7
<1>9. j # i /\ tb[j] # None /\ tb[j].state = "active" => end[j] = tb[j]
  BY <1>1, <1>4, <1>7
<1> QED BY <1>8, <1>9 DEF end

(* What an enqueue does to the rows of its deduplication id.               *)
LEMMA ReleaseExpiredDedupOK ==
    ASSUME NEW tb, TableOK(tb), NEW d
    PROVE  TableOK(ReleaseExpiredDedup(tb, d))
<1> DEFINE r(i) == [tb[i] EXCEPT !.dedup = None, !.dedupTtl = None]
<1>1. ASSUME NEW i \in JobIds, tb[i] # None
      PROVE  RowOK(r(i))
  <2>1. RowOK(tb[i])
    BY <1>1, TableByRows
  <2>2. r(i) \in Row
    BY <2>1 DEF RowOK, Row
  <2>3. RowChecks(r(i))
    BY <2>1 DEF RowOK, Row, RowChecks
  <2> QED BY <2>2, <2>3 DEF RowOK
<1> HIDE DEF r
<1>2. ReleaseExpiredDedup(tb, d) =
        [i \in JobIds |-> IF i \in Owners(tb, d) /\ tb[i].dedupTtl = "over"
                          THEN r(i) ELSE tb[i]]
  BY DEF ReleaseExpiredDedup, r
<1> QED BY <1>1, <1>2, TableByRows DEF Owners, Present, RowOK

(* A delayed row with other work is a row.                                 *)
LEMMA RowReplaced ==
    ASSUME NEW row \in Row, NEW x \in Work, NEW due \in BOOLEAN
    PROVE  [row EXCEPT !.work = x, !.due = due, !.fails = 0] \in Row
BY DEF Row

(* An owner that was joined is well formed whichever way it was joined.    *)
LEMMA JoinOwnerOK ==
    ASSUME NEW row, RowOK(row), row.state \in Live,
           NEW i \in JobIds, NEW x \in Work, row.dedup = Opt[x].dedup
    PROVE  RowOK(JoinOwner(row, i, x))
<1> DEFINE e == [row EXCEPT !.dedupTtl = IF Opt[x].ttl THEN "running" ELSE None]
           extended == IF Opt[x].extend THEN e ELSE row
           s == [id |-> i, work |-> x]
           kept == [extended EXCEPT !.succ = s]
           replaced == [extended EXCEPT !.work = x, !.due = ~Opt[x].delayed,
                                        !.fails = 0]
<1>1. e \in Row
  BY DEF RowOK, Row
<1>2. RowChecks(e) /\ e.state = row.state /\ e.dedup = row.dedup
  BY DEF RowOK, Row, RowChecks
<1>3. /\ RowOK(extended)
      /\ extended.state = row.state /\ extended.dedup = row.dedup
  BY <1>1, <1>2 DEF RowOK
<1> HIDE DEF e, extended
<1>4. s \in Successor
  BY DEF Successor
<1> HIDE DEF s
<1>5. RowOK(kept)
  <2>1. kept \in Row
    BY <1>3, <1>4 DEF RowOK, Row
  <2>2. RowChecks(kept)
    BY <1>3, <1>4 DEF RowOK, Row, RowChecks
  <2> QED BY <2>1, <2>2 DEF RowOK
<1>6. RowOK(replaced)
  <2> PICK due \in BOOLEAN : due = ~Opt[x].delayed
    OBVIOUS
  <2>0. extended \in Row
    BY <1>3 DEF RowOK
  <2>1. replaced \in Row
    BY <2>0, RowReplaced
  <2>2. RowChecks(replaced)
    BY <1>3 DEF RowOK, Row, RowChecks
  <2> QED BY <2>1, <2>2 DEF RowOK
<1> HIDE DEF kept, replaced
<1>7. JoinOwner(row, i, x) \in {kept, replaced, extended}
  BY DEF JoinOwner, kept, replaced, extended, e, s
<1> QED BY <1>3, <1>5, <1>6, <1>7

-----------------------------------------------------------------------------
(* The inductive invariant.                                                *)

(* While a recovery transaction is open the committed table stands still;  *)
(* its draft has touched only rows whose lease was over, and what it left  *)
(* active it left alone.                                                   *)
DraftAgrees ==
    /\ recovering = None => batch = {}
    /\ recovering # None =>
          /\ pc[recovering] = "top"
          /\ \A i \in batch :
                /\ jobs[i] # None /\ jobs[i].state = "active"
                /\ jobs[i].lease = "over" /\ draft[i] = jobs[i]
          /\ \A i \in JobIds :
                /\ draft[i] # None /\ draft[i].state = "active" => draft[i] = jobs[i]
                /\ jobs[i] # None /\ jobs[i].lease = "running" => draft[i] = jobs[i]

(* A token identifies one claim: no two workers remember the same, and the *)
(* row that carries a remembered token is the row of that claim, with the  *)
(* work it was claimed with.                                               *)
ClaimsMatch ==
    /\ \A v, w \in Workers :
          v # w /\ held[v] # None /\ held[w] # None => held[v].token # held[w].token
    /\ \A w \in Workers, i \in JobIds :
          /\ held[w] # None /\ jobs[i] # None
          /\ jobs[i].token = held[w].token
          => held[w].id = i /\ held[w].work = jobs[i].work

IInv == TypeOK /\ DraftAgrees /\ ClaimsMatch

(* Initially the table is empty and the workers hold nothing.              *)
LEMMA InitIInv == Init => IInv
<1> SUFFICES ASSUME Init PROVE IInv
  OBVIOUS
<1> USE DEF Init
<1>1. TableOK(EmptyTable)
  BY TableByRows DEF EmptyTable
<1>2. TypeOK
  BY <1>1, ConstantsAssumption DEF TypeOK, PCs
<1>3. DraftAgrees
  BY DEF DraftAgrees
<1>4. ClaimsMatch
  BY DEF ClaimsMatch
<1> QED BY <1>2, <1>3, <1>4 DEF IInv

-----------------------------------------------------------------------------
(* Every step keeps the types.                                             *)

(* A claim a worker remembers, and the row it passes the fence of.         *)
LEMMA HeldTypes ==
    ASSUME TypeOK, NEW w \in Workers, held[w] # None
    PROVE  /\ held[w].id \in JobIds /\ held[w].token \in Tokens
           /\ held[w].work \in Work
           /\ Fenced(w) => /\ RowOK(jobs[held[w].id])
                           /\ jobs[held[w].id].state = "active"
<1>1. held[w] \in Claims
  BY DEF TypeOK
<1>2. held[w].id \in JobIds /\ held[w].token \in Tokens /\ held[w].work \in Work
  BY <1>1 DEF Claims
<1>3. Fenced(w) => RowOK(jobs[held[w].id])
  BY <1>2, TableByRows DEF Fenced, TypeOK
<1> QED BY <1>2, <1>3 DEF Fenced

(* An enqueue that finds an owner rewrites that owner's row only.          *)
LEMMA EnqueueOK ==
    ASSUME TypeOK, NEW x \in Work, NEW i \in JobIds, Enqueue(x, i)
    PROVE  TableOK(jobs')
<1> DEFINE d == Opt[x].dedup
           released == IF d = None THEN jobs ELSE ReleaseExpiredDedup(jobs, d)
           owners == IF d = None THEN {} ELSE Owners(released, d)
<1>1. TableOK(released)
  BY ReleaseExpiredDedupOK DEF TypeOK
<1> HIDE DEF released
<1>2. CASE jobs' = [j \in JobIds |-> IF j \in owners
                       THEN JoinOwner(released[j], i, x) ELSE released[j]]
  <2>1. ASSUME NEW j \in owners
        PROVE  j \in JobIds /\ RowOK(JoinOwner(released[j], i, x))
    <3>1. /\ j \in JobIds /\ released[j] # None
          /\ released[j].state \in Live /\ released[j].dedup = d
      BY <2>1 DEF Owners, Present
    <3>2. RowOK(released[j])
      BY <1>1, <3>1, TableByRows
    <3> QED BY <3>1, <3>2, JoinOwnerOK
  <2> HIDE DEF owners
  <2> QED BY <1>1, <1>2, <2>1, TableByRows DEF RowOK
<1>3. CASE jobs' = Inserted(released, i, x, clock)
  BY <1>1, <1>3, InsertedOK DEF TypeOK
<1>4. CASE UNCHANGED table
  BY <1>4 DEF table, TypeOK
<1> QED BY <1>2, <1>3, <1>4 DEF Enqueue, released

(* A recovery step keeps the draft well formed.                            *)
LEMMA RecoverRowOK ==
    ASSUME IInv, NEW w \in Workers, RecoverRow(w)
    PROVE  TableOK(draft')
<1>1. PICK i \in batch :
        \/ /\ ~Stalls(draft[i])
           /\ draft' = [draft EXCEPT ![i] =
                           [BackToPending(draft[i]) EXCEPT !.stalled = @ + 1]]
        \/ \E cutoff \in 0..clock :
              draft' = End(draft, i, "failed", "stalled", clock, cutoff)
  BY DEF RecoverRow
<1>2. /\ i \in JobIds /\ TableOK(draft) /\ clock \in Nat
      /\ draft[i] # None /\ draft[i].state = "active"
  BY DEF IInv, TypeOK, DraftAgrees, RecoverRow
<1>3. RowOK(draft[i])
  BY <1>2, TableByRows
<1>4. CASE \E cutoff \in 0..clock :
             draft' = End(draft, i, "failed", "stalled", clock, cutoff)
  BY <1>2, <1>4, EndOK
<1>5. CASE draft' = [draft EXCEPT ![i] =
                       [BackToPending(draft[i]) EXCEPT !.stalled = @ + 1]]
  <2> DEFINE b == BackToPending(draft[i])
             r == [b EXCEPT !.stalled = @ + 1]
  <2>1. RowOK(b)
    BY <1>2, <1>3, BackToPendingOK
  <2> HIDE DEF b
  <2>2. b.stalled + 1 \in Nat
    BY <2>1 DEF RowOK, Row
  <2>3. r \in Row
    BY <2>1, <2>2 DEF RowOK, Row
  <2>4. RowChecks(r)
    BY <2>1 DEF RowOK, Row, RowChecks
  <2>5. RowOK(r)
    BY <2>3, <2>4 DEF RowOK
  <2> HIDE DEF r
  <2>6. TableOK([draft EXCEPT ![i] = r])
    BY <1>2, <2>5, WriteRow
  <2> QED BY <1>5, <2>6 DEF r, b
<1> QED BY <1>1, <1>4, <1>5

(* The worker's statements on the row it claimed.                          *)
LEMMA ClaimOK ==
    ASSUME TypeOK, NEW i \in Claimable, NEW k \in Tokens
    PROVE  TableOK([jobs EXCEPT ![i] = Claimed(jobs[i], k)])
<1>1. i \in JobIds /\ jobs[i] # None /\ jobs[i].state = "pending"
  BY DEF Claimable, Due, InState, Present
<1>2. TableOK(jobs)
  BY DEF TypeOK
<1>3. RowOK(Claimed(jobs[i], k))
  BY <1>1, <1>2, TableByRows, ClaimedOK
<1> HIDE DEF Claimed
<1> QED BY <1>1, <1>2, <1>3, WriteRow

(* A new lease, or one that ran out, on an active row.                     *)
LEMMA LeaseOK ==
    ASSUME TypeOK, NEW i \in JobIds, jobs[i] # None, jobs[i].state = "active",
           NEW l \in {"running", "over"}
    PROVE  TableOK([jobs EXCEPT ![i].lease = l])
<1> DEFINE r == [jobs[i] EXCEPT !.lease = l]
<1>1. TableOK(jobs) /\ RowOK(jobs[i])
  BY TableByRows DEF TypeOK
<1>2. r \in Row
  BY <1>1 DEF RowOK, Row
<1>3. RowChecks(r)
  BY <1>1, NoneAssumption DEF RowOK, Row, RowChecks
<1>4. RowOK(r)
  BY <1>2, <1>3 DEF RowOK
<1> HIDE DEF r
<1>5. TableOK([jobs EXCEPT ![i] = r])
  BY <1>1, <1>4, WriteRow
<1>6. [jobs EXCEPT ![i].lease = l] = [jobs EXCEPT ![i] = r]
  BY DEF r
<1> QED BY <1>5, <1>6

(* release keeps the table well formed.                                    *)
LEMMA ReleaseOK ==
    ASSUME TypeOK, NEW w \in Workers, held[w] # None, Fenced(w)
    PROVE  TableOK([jobs EXCEPT ![held[w].id] = BackToPending(@)])
<1>1. /\ TableOK(jobs) /\ held[w].id \in JobIds
      /\ RowOK(BackToPending(jobs[held[w].id]))
  BY HeldTypes, BackToPendingOK DEF TypeOK
<1> HIDE DEF BackToPending
<1> QED BY <1>1, WriteRow

(* finish of a job that succeeded keeps it so.                             *)
LEMMA CompleteOK ==
    ASSUME TypeOK, NEW w \in Workers, held[w] # None, Complete(w)
    PROVE  TableOK(jobs')
<1>1. TableOK(jobs) /\ clock \in Nat /\ held[w].id \in JobIds
  BY HeldTypes DEF TypeOK
<1>2. CASE Fenced(w) /\ \E cutoff \in 0..clock :
             jobs' = End(jobs, held[w].id, "completed", None, clock, cutoff)
  BY <1>1, <1>2, EndOK DEF Fenced
<1>3. CASE UNCHANGED table
  BY <1>1, <1>3 DEF table
<1> QED BY <1>2, <1>3 DEF Complete

(* A failure is counted before the row is rescheduled or ended.            *)
LEMMA CountFailureOK ==
    ASSUME TypeOK, NEW w \in Workers, held[w] # None, Fenced(w)
    PROVE  LET i == held[w].id
               tb == CountFailure(jobs, i)
           IN  /\ TableOK(tb) /\ i \in JobIds
               /\ tb[i] # None /\ tb[i] \in Row /\ RowOK(tb[i])
               /\ tb[i].state = "active"
               /\ \A j \in JobIds \ {i} : tb[j] = jobs[j]
<1> DEFINE i == held[w].id
           c == [jobs[i] EXCEPT !.fails = @ + 1]
<1>1. /\ TableOK(jobs) /\ i \in JobIds
      /\ RowOK(jobs[i]) /\ jobs[i].state = "active" /\ jobs[i] # None
  BY HeldTypes DEF Fenced, TypeOK
<1>2. jobs[i].fails + 1 \in Nat
  BY <1>1 DEF RowOK, Row
<1>3. c \in Row
  BY <1>1, <1>2 DEF RowOK, Row
<1>4. RowChecks(c) /\ c.state = "active"
  BY <1>1 DEF RowOK, Row, RowChecks
<1>5. RowOK(c) /\ c # None
  BY <1>3, <1>4, NoneAssumption DEF RowOK
<1>6. CountFailure(jobs, i) = [jobs EXCEPT ![i] = c]
  BY DEF CountFailure
<1> HIDE DEF c
<1>7. TableOK([jobs EXCEPT ![i] = c])
  BY <1>1, <1>5, WriteRow
<1>8. /\ [jobs EXCEPT ![i] = c][i] = c
      /\ \A j \in JobIds \ {i} : [jobs EXCEPT ![i] = c][j] = jobs[j]
  BY <1>1, TableByRows
<1> QED BY <1>1, <1>3, <1>4, <1>5, <1>6, <1>7, <1>8

(* finish of a job that failed keeps it so, whether it retries or ends.    *)
LEMMA FailOK ==
    ASSUME TypeOK, NEW w \in Workers, held[w] # None, Fail(w)
    PROVE  TableOK(jobs')
<1> DEFINE i == held[w].id
           tb == CountFailure(jobs, i)
<1>1. TableOK(jobs) /\ clock \in Nat /\ i \in JobIds
  BY HeldTypes DEF TypeOK
<1>2. CASE Fenced(w)
  <2>1. TableOK(tb) /\ tb[i] # None /\ RowOK(tb[i]) /\ tb[i].state = "active"
    BY <1>2, CountFailureOK
  <2> HIDE DEF tb
  <2>2. CASE jobs' = [tb EXCEPT ![i] = Retried(tb[i])]
    <3>1. RowOK(Retried(tb[i]))
      BY <2>1, RetriedOK
    <3> HIDE DEF Retried
    <3>2. TableOK([tb EXCEPT ![i] = Retried(tb[i])])
      BY <1>1, <2>1, <3>1, WriteRow
    <3> QED BY <2>2, <3>2
  <2>3. CASE \E cutoff \in 0..clock :
               jobs' = End(tb, i, "failed", "error", clock, cutoff)
    BY <1>1, <2>1, <2>3, EndOK
  <2>4. CASE UNCHANGED table
    BY <1>1, <2>4 DEF table
  <2> QED BY <2>2, <2>3, <2>4 DEF Fail, tb
<1>3. CASE ~Fenced(w)
  BY <1>1, <1>3 DEF Fail, table
<1> QED BY <1>2, <1>3

(* Deadlines that pass.                                                    *)
LEMMA TimeOK ==
    ASSUME TypeOK, NEW i \in JobIds, Time(i)
    PROVE  TableOK(jobs')
<1>1. TableOK(jobs)
  BY DEF TypeOK
<1>2. CASE BecomesDue(i)
  <2> DEFINE r == [jobs[i] EXCEPT !.due = TRUE]
  <2>1. RowOK(jobs[i])
    BY <1>1, <1>2, TableByRows DEF BecomesDue, InState, Present
  <2>2. r \in Row
    BY <2>1 DEF RowOK, Row
  <2>3. RowChecks(r)
    BY <2>1 DEF RowOK, Row, RowChecks
  <2>4. RowOK(r)
    BY <2>2, <2>3 DEF RowOK
  <2>5. jobs' = [jobs EXCEPT ![i] = r]
    BY <1>2 DEF BecomesDue
  <2> HIDE DEF r
  <2> QED BY <1>1, <2>4, <2>5, WriteRow
<1>3. CASE LeaseRunsOut(i)
  BY <1>3, LeaseOK DEF LeaseRunsOut, InState, Present
<1>4. CASE DedupRunsOut(i)
  <2> DEFINE r == [jobs[i] EXCEPT !.dedupTtl = "over"]
  <2>1. RowOK(jobs[i])
    BY <1>1, <1>4, TableByRows DEF DedupRunsOut, Present
  <2>2. r \in Row
    BY <2>1 DEF RowOK, Row
  <2>3. RowChecks(r)
    BY <2>1 DEF RowOK, Row, RowChecks
  <2>4. RowOK(r)
    BY <2>2, <2>3 DEF RowOK
  <2>5. jobs' = [jobs EXCEPT ![i] = r]
    BY <1>4 DEF DedupRunsOut
  <2> HIDE DEF r
  <2> QED BY <1>1, <2>4, <2>5, WriteRow
<1> QED BY <1>2, <1>3, <1>4 DEF Time

(* The open transaction ends without a trace when its worker goes away.    *)
LEMMA EmptyOK == TableOK(EmptyTable)
BY TableByRows DEF EmptyTable

(* Every step of the queue keeps TypeOK.                                   *)
LEMMA TypeNext == IInv /\ [Next]_vars => TypeOK'
<1> SUFFICES ASSUME IInv, [Next]_vars PROVE TypeOK'
  OBVIOUS
<1> USE DEF PCs
<1>0. TypeOK
  BY DEF IInv
<1>1. ASSUME NEW x \in Work, NEW i \in JobIds, Enqueue(x, i)
      PROVE  TypeOK'
  <2>1. TableOK(jobs')
    BY <1>0, <1>1, EnqueueOK
  <2>2. clock' \in Nat /\ enqueues' \in 0..MaxEnqueues
    BY <1>0, <1>1, ConstantsAssumption DEF Enqueue, TypeOK, table
  <2> QED BY <1>0, <1>1, <2>1, <2>2 DEF Enqueue, TypeOK, txn, worker
<1>2. CASE Clear
  BY <1>0, <1>2, EmptyOK DEF Clear, TypeOK, txn, worker, env
<1>3. ASSUME NEW w \in Workers, Turn(w)
      PROVE  TypeOK'
  <2>1. CASE RecoverBegin(w)
    BY <1>0, <2>1 DEF RecoverBegin, Batches, Expired, InState, Present,
                      TypeOK, table, worker, env
  <2>2. CASE RecoverRow(w)
    <3>1. TableOK(draft')
      BY <2>2, RecoverRowOK
    <3>2. batch' \subseteq JobIds
      BY <1>0, <2>2 DEF RecoverRow, TypeOK
    <3> QED BY <1>0, <2>2, <3>1, <3>2 DEF RecoverRow, TypeOK, table, worker, env
  <2>3. CASE RecoverFails(w)
    BY <1>0, <2>3, EmptyOK DEF RecoverFails, TypeOK, table, worker, env
  <2>4. CASE RecoverCommit(w)
    <3>1. pc[w] = "top"
      BY <2>4, NoneAssumption DEF RecoverCommit, IInv, DraftAgrees
    <3> QED BY <1>0, <2>4, <3>1, EmptyOK DEF RecoverCommit, TypeOK, env
  <2>5. CASE Claim(w)
    <3>1. PICK i \in Claimable, k \in Tokens \ TokensKnown :
            /\ jobs' = [jobs EXCEPT ![i] = Claimed(jobs[i], k)]
            /\ held' = [held EXCEPT ![w] =
                          [id |-> i, token |-> k, work |-> jobs[i].work]]
            /\ \/ pc' = [pc EXCEPT ![w] = "run"]
               \/ pc' = [pc EXCEPT ![w] = "release"]
      BY <2>5 DEF Claim
    <3>2. TableOK(jobs')
      BY <1>0, <3>1, ClaimOK
    <3>3. i \in JobIds /\ jobs[i].work \in Work
      <4>1. i \in JobIds /\ jobs[i] # None
        BY DEF Claimable, Due, InState, Present
      <4>2. jobs[i] \in Row
        BY <1>0, <4>1, TableByRows DEF TypeOK, RowOK
      <4> QED BY <4>1, <4>2 DEF Row
    <3> DEFINE claim == [id |-> i, token |-> k, work |-> jobs[i].work]
    <3>4. claim \in Claims /\ claim # None
      BY <3>3, NoneAssumption DEF Claims
    <3> HIDE DEF claim
    <3>5. held' = [held EXCEPT ![w] = claim]
      BY <3>1 DEF claim
    <3> QED BY <1>0, <2>5, <3>1, <3>2, <3>4, <3>5 DEF Claim, TypeOK, txn, env
  <2>6. CASE ClaimNothing(w)
    BY <1>0, <2>6 DEF ClaimNothing, TypeOK, table, txn, env
  <2>7. CASE SeesShutdown(w)
    BY <1>0, <2>7 DEF SeesShutdown, TypeOK, table, txn, env
  <2>8. CASE Release(w)
    <3>1. held[w] # None
      BY <1>0, <2>8 DEF Release, TypeOK
    <3>2. TableOK(jobs')
      BY <1>0, <2>8, <3>1, ReleaseOK DEF Release, TypeOK
    <3> QED BY <1>0, <2>8, <3>2 DEF Release, Drop, TypeOK, txn, env
  <2>9. CASE Complete(w)
    <3>1. held[w] # None
      BY <1>0, <2>9 DEF Complete, TypeOK
    <3>2. TableOK(jobs') /\ clock' \in Nat
      BY <1>0, <2>9, <3>1, CompleteOK DEF Complete, TypeOK, table
    <3> QED BY <1>0, <2>9, <3>2 DEF Complete, Drop, TypeOK, txn, env
  <2>10. CASE Fail(w)
    <3>1. held[w] # None
      BY <1>0, <2>10 DEF Fail, TypeOK
    <3>2. TableOK(jobs') /\ clock' \in Nat
      BY <1>0, <2>10, <3>1, FailOK DEF Fail, TypeOK, table
    <3> QED BY <1>0, <2>10, <3>2 DEF Fail, Drop, TypeOK, txn, env
  <2>11. CASE Exit(w)
    BY <1>0, <2>11 DEF Exit, TypeOK, table, txn, env
  <2> QED BY <1>3, <2>1, <2>2, <2>3, <2>4, <2>5, <2>6, <2>7, <2>8, <2>9,
             <2>10, <2>11 DEF Turn
<1>4. ASSUME NEW w \in Workers, Processor(w)
      PROVE  TypeOK'
  BY <1>0, <1>4 DEF Processor, ProcessorEnds, ProcessorTimesOut, TypeOK,
                    table, txn, env
<1>5. ASSUME NEW w \in Workers, Heartbeat(w)
      PROVE  TypeOK'
  <2>1. held[w] # None
    BY <1>0, <1>5 DEF Heartbeat, TypeOK
  <2>2. TableOK(jobs')
    BY <1>0, <1>5, <2>1, HeldTypes, LeaseOK DEF Heartbeat, Fenced, TypeOK
  <2> QED BY <1>0, <1>5, <2>2 DEF Heartbeat, Drop, TypeOK, txn, worker, env
<1>6. ASSUME NEW w \in Workers, Fault(w)
      PROVE  TypeOK'
  <2>0. faults < MaxFaults => faults + 1 \in 0..MaxFaults
    BY <1>0, ConstantsAssumption DEF TypeOK
  <2>1. CASE Shutdown(w)
    BY <1>0, <2>0, <2>1 DEF Shutdown, TypeOK, table, txn, worker
  <2>2. CASE Crash(w)
    BY <1>0, <2>0, <2>2, EmptyOK DEF Crash, Rollback, TypeOK, table, txn
  <2>3. CASE StatementFails(w)
    BY <1>0, <2>0, <2>3, EmptyOK DEF StatementFails, Drop, Rollback, TypeOK,
                                     table, txn
  <2>4. CASE ClaimReplyLost(w)
    <3>1. TableOK(jobs')
      BY <1>0, <2>4, ClaimOK DEF ClaimReplyLost
    <3> QED BY <1>0, <2>0, <2>4, <3>1 DEF ClaimReplyLost, TypeOK, txn
  <2> QED BY <1>6, <2>1, <2>2, <2>3, <2>4 DEF Fault
<1>7. ASSUME NEW w \in Workers, Start(w)
      PROVE  TypeOK'
  BY <1>0, <1>7, ConstantsAssumption DEF Start, TypeOK, table, txn
<1>8. ASSUME NEW w \in Workers, NEW n \in Names, Process(w, n)
      PROVE  TypeOK'
  BY <1>0, <1>8 DEF Process, TypeOK, table, txn, worker
<1>9. ASSUME NEW i \in JobIds, Time(i)
      PROVE  TypeOK'
  <2>1. TableOK(jobs')
    BY <1>0, <1>9, TimeOK
  <2> QED BY <1>0, <1>9, <2>1 DEF Time, BecomesDue, LeaseRunsOut, DedupRunsOut,
                                  TypeOK, txn, worker, env
<1>10. CASE UNCHANGED vars
  BY <1>0, <1>10 DEF vars, TypeOK
<1> QED BY <1>1, <1>2, <1>3, <1>4, <1>5, <1>6, <1>7, <1>8, <1>9, <1>10 DEF Next

-----------------------------------------------------------------------------
(* Every step keeps the draft of the recovery transaction in agreement.    *)

(* A recovered row is not in the batch any more; EndFrame says the rest.   *)
LEMMA DraftRecoverRow ==
    ASSUME IInv, NEW w \in Workers, RecoverRow(w)
    PROVE  DraftAgrees'
<1> DEFINE b(i) == [BackToPending(draft[i]) EXCEPT !.stalled = @ + 1]
<1>0. w # None /\ recovering = w /\ TableOK(draft) /\ clock \in Nat
  BY NoneAssumption DEF RecoverRow, IInv, TypeOK
<1>1. PICK i \in batch :
        /\ batch' = batch \ {i}
        /\ \/ draft' = [draft EXCEPT ![i] = b(i)]
           \/ \E cutoff \in 0..clock :
                 draft' = End(draft, i, "failed", "stalled", clock, cutoff)
  BY DEF RecoverRow
<1>2. /\ i \in JobIds /\ draft[i] # None /\ draft[i] = jobs[i]
      /\ jobs[i].lease = "over" /\ jobs[i].state = "active"
  BY <1>0 DEF IInv, TypeOK, DraftAgrees
<1>3. b(i).state = "pending"
  <2>1. draft[i] \in Row
    BY <1>0, <1>2, TableByRows DEF RowOK
  <2> QED BY <2>1 DEF BackToPending, Row
<1>4. UNCHANGED <<jobs, recovering, pc>>
  BY DEF RecoverRow, table, worker
<1>5. ASSUME NEW j \in JobIds
      PROVE  /\ draft'[j] # None /\ draft'[j].state = "active"
                  => j # i /\ draft'[j] = draft[j]
             /\ j # i /\ draft[j] # None /\ draft[j].state = "active"
                  => draft'[j] = draft[j]
  <2>1. CASE draft' = [draft EXCEPT ![i] = b(i)]
    <3> HIDE DEF b
    <3> QED BY <1>0, <1>2, <1>3, <2>1, TableByRows
  <2>2. CASE \E cutoff \in 0..clock :
               draft' = End(draft, i, "failed", "stalled", clock, cutoff)
    BY <1>0, <1>2, <2>2, EndFrame
  <2> QED BY <1>1, <2>1, <2>2
<1>6. ASSUME NEW j \in JobIds, jobs[j] # None, jobs[j].lease = "running"
      PROVE  draft'[j] = jobs[j]
  <2>1. RowOK(jobs[j])
    BY <1>6, TableByRows DEF IInv, TypeOK
  <2>2. jobs[j].state = "active" /\ j # i
    BY <1>2, <1>6, <2>1, NoneAssumption DEF RowOK, RowChecks
  <2>3. draft[j] = jobs[j]
    BY <1>0, <1>6 DEF IInv, DraftAgrees
  <2> QED BY <1>5, <1>6, <2>2, <2>3
<1>7. ASSUME NEW j \in batch \ {i}
      PROVE  /\ jobs[j] # None /\ jobs[j].state = "active"
             /\ jobs[j].lease = "over" /\ draft'[j] = jobs[j]
  BY <1>0, <1>5 DEF IInv, TypeOK, DraftAgrees
<1>8. ASSUME NEW j \in JobIds, draft'[j] # None, draft'[j].state = "active"
      PROVE  draft'[j] = jobs[j]
  <2>1. draft'[j] = draft[j]
    BY <1>5, <1>8
  <2> QED BY <1>0, <1>8, <2>1 DEF IInv, DraftAgrees
<1> QED BY <1>0, <1>1, <1>4, <1>6, <1>7, <1>8 DEF DraftAgrees, IInv

(* The other steps open or close the transaction, wait for it, or leave    *)
(* the table and the worker that runs it alone.                            *)
LEMMA DraftNext == IInv /\ [Next]_vars => DraftAgrees'
<1> SUFFICES ASSUME IInv, [Next]_vars PROVE DraftAgrees'
  OBVIOUS
<1>0. DraftAgrees /\ pc \in [Workers -> PCs] /\ recovering \in Workers \cup {None}
  BY DEF IInv, TypeOK
<1>1. CASE recovering' = None /\ batch' = {}
  BY <1>1 DEF DraftAgrees
<1>2. CASE UNCHANGED txn /\ UNCHANGED jobs
            /\ (recovering # None => pc'[recovering] = pc[recovering])
  BY <1>0, <1>2 DEF DraftAgrees, txn
<1>3. CASE recovering = None /\ UNCHANGED txn
  BY <1>0, <1>1, <1>3 DEF DraftAgrees, txn
<1>4. ASSUME NEW x \in Work, NEW i \in JobIds, Enqueue(x, i)
      PROVE  DraftAgrees'
  BY <1>3, <1>4 DEF Enqueue
<1>5. CASE Clear
  BY <1>3, <1>5 DEF Clear
<1>6. ASSUME NEW w \in Workers, Turn(w)
      PROVE  DraftAgrees'
  <2>1. CASE RecoverBegin(w)
    <3>1. batch' \subseteq Expired
      BY <2>1 DEF RecoverBegin, Batches
    <3>2. /\ recovering' = w /\ pc' = pc /\ pc[w] = "top"
          /\ jobs' = jobs /\ draft' = jobs
      BY <2>1 DEF RecoverBegin, table, worker
    <3>3. \A i \in batch' : /\ jobs[i] # None /\ jobs[i].state = "active"
                            /\ jobs[i].lease = "over"
      BY <3>1 DEF Expired, InState, Present
    <3>4. recovering' # None
      BY <3>2, NoneAssumption
    <3> QED BY <3>2, <3>3, <3>4 DEF DraftAgrees
  <2>2. CASE RecoverRow(w)
    BY <2>2, DraftRecoverRow
  <2>3. CASE RecoverFails(w)
    BY <1>1, <2>3 DEF RecoverFails
  <2>4. CASE RecoverCommit(w)
    BY <1>1, <2>4 DEF RecoverCommit
  <2>5. CASE Claim(w) \/ ClaimNothing(w) \/ Release(w) \/ Complete(w) \/ Fail(w)
    BY <1>3, <2>5 DEF Claim, ClaimNothing, Release, Complete, Fail
  <2>6. CASE SeesShutdown(w)
    BY <1>0, <1>2, <2>6 DEF SeesShutdown, DraftAgrees, table
  <2>7. CASE Exit(w)
    BY <1>0, <1>2, <2>7 DEF Exit, table
  <2> QED BY <1>6, <2>1, <2>2, <2>3, <2>4, <2>5, <2>6, <2>7 DEF Turn
<1>7. ASSUME NEW w \in Workers, Processor(w)
      PROVE  DraftAgrees'
  BY <1>0, <1>2, <1>7 DEF Processor, ProcessorEnds, ProcessorTimesOut,
                          DraftAgrees, table
<1>8. ASSUME NEW w \in Workers, Heartbeat(w)
      PROVE  DraftAgrees'
  BY <1>3, <1>8 DEF Heartbeat
<1>9. ASSUME NEW w \in Workers, Fault(w)
      PROVE  DraftAgrees'
  <2>1. CASE Shutdown(w)
    BY <1>2, <2>1 DEF Shutdown, table, worker
  <2>2. CASE Crash(w) \/ StatementFails(w)
    <3>1. CASE recovering = w
      BY <1>1, <2>2, <3>1 DEF Crash, StatementFails, Rollback
    <3>2. CASE recovering # w
      BY <1>0, <1>2, <2>2, <3>2 DEF Crash, StatementFails, Drop, Rollback, table
    <3> QED BY <3>1, <3>2
  <2>3. CASE ClaimReplyLost(w)
    BY <1>3, <2>3 DEF ClaimReplyLost
  <2> QED BY <1>9, <2>1, <2>2, <2>3 DEF Fault
<1>10. ASSUME NEW w \in Workers, Start(w)
      PROVE  DraftAgrees'
  BY <1>0, <1>2, <1>10 DEF Start, DraftAgrees, table
<1>11. ASSUME NEW w \in Workers, NEW n \in Names, Process(w, n)
      PROVE  DraftAgrees'
  BY <1>2, <1>11 DEF Process, table, worker
<1>12. ASSUME NEW i \in JobIds, Time(i)
      PROVE  DraftAgrees'
  BY <1>3, <1>12 DEF Time, BecomesDue, LeaseRunsOut, DedupRunsOut
<1>13. CASE UNCHANGED vars
  BY <1>2, <1>13 DEF vars, txn
<1> QED BY <1>4, <1>5, <1>6, <1>7, <1>8, <1>9, <1>10, <1>11, <1>12, <1>13 DEF Next

-----------------------------------------------------------------------------
(* Every step keeps claims and rows matched.                               *)

HeldTokens == {held[w].token : w \in {v \in Workers : held[v] # None}}

(* A row keeps its token and its work, or its token is nobody's claim.     *)
TokenKept(i) ==
    jobs'[i] # None /\ jobs'[i].token \in HeldTokens =>
        /\ jobs[i] # None /\ jobs[i].token = jobs'[i].token
        /\ jobs[i].work = jobs'[i].work

(* Workers only forget claims, and rows keep theirs.                       *)
LEMMA ClaimsKept ==
    ASSUME IInv, \A w \in Workers : held'[w] \in {None, held[w]},
           \A i \in JobIds : TokenKept(i)
    PROVE  ClaimsMatch'
BY DEF IInv, ClaimsMatch, TokenKept, HeldTokens

(* A well-formed table's tokens are on its active rows.                    *)
LEMMA TokenMeansActive ==
    ASSUME IInv, NEW tb, TableOK(tb), NEW i \in JobIds, tb[i] # None,
           tb[i].token \in HeldTokens
    PROVE  tb[i].state = "active"
<1>1. tb[i].token \in Tokens
  BY HeldTypes DEF HeldTokens, IInv
<1>2. RowChecks(tb[i])
  BY TableByRows DEF RowOK
<1> QED BY <1>1, <1>2, NoneAssumption DEF RowChecks

(* Joining an owner changes no active row's work and no row's token.       *)
LEMMA JoinOwnerKeeps ==
    ASSUME NEW row \in Row, NEW i, NEW x
    PROVE  /\ JoinOwner(row, i, x).token = row.token
           /\ row.state = "active" => JoinOwner(row, i, x).work = row.work
BY DEF JoinOwner, Row

(* An enqueue moves no token, and changes the work of pending rows only.   *)
LEMMA EnqueueKeeps ==
    ASSUME IInv, NEW x \in Work, NEW i \in JobIds, Enqueue(x, i), NEW j \in JobIds
    PROVE  TokenKept(j)
<1> DEFINE d == Opt[x].dedup
           released == IF d = None THEN jobs ELSE ReleaseExpiredDedup(jobs, d)
           owners == IF d = None THEN {} ELSE Owners(released, d)
<1>0. TableOK(jobs) /\ jobs \in [JobIds -> Row \cup {None}]
  BY TableByRows DEF IInv, TypeOK
<1>1. TableOK(released)
  BY <1>0, ReleaseExpiredDedupOK
<1>2. released[j] # None =>
        /\ jobs[j] # None /\ released[j].token = jobs[j].token
        /\ released[j].work = jobs[j].work
  BY <1>0 DEF ReleaseExpiredDedup, Owners, Present, Row
<1> HIDE DEF released
<1>3. CASE jobs' = [k \in JobIds |-> IF k \in owners
                       THEN JoinOwner(released[k], i, x) ELSE released[k]]
  <2>1. CASE j \in owners
    <3>1. released[j] # None /\ released[j] \in Row
      BY <1>1, <2>1, TableByRows DEF Owners, Present, RowOK
    <3>2. jobs'[j].token = released[j].token
      BY <1>3, <2>1, <3>1, JoinOwnerKeeps
    <3>3. released[j].token \in HeldTokens => released[j].state = "active"
      BY <1>1, <3>1, TokenMeansActive
    <3>4. released[j].state = "active" => jobs'[j].work = released[j].work
      BY <1>3, <2>1, <3>1, JoinOwnerKeeps
    <3> QED BY <1>2, <3>1, <3>2, <3>3, <3>4 DEF TokenKept
  <2>2. CASE j \notin owners
    BY <1>2, <1>3, <2>2 DEF TokenKept
  <2> QED BY <2>1, <2>2
<1>4. CASE jobs' = Inserted(released, i, x, clock)
  <2>1. NewRow(x, clock).token \notin HeldTokens
    BY HeldTypes, NoneAssumption DEF NewRow, HeldTokens, IInv
  <2> HIDE DEF NewRow
  <2>2. jobs'[j] \in {released[j], NewRow(x, clock)}
    BY <1>1, <1>4, TableByRows DEF Inserted
  <2> QED BY <1>2, <2>1, <2>2 DEF TokenKept
<1>5. CASE UNCHANGED table
  BY <1>5 DEF table, TokenKept
<1> QED BY <1>3, <1>4, <1>5 DEF Enqueue, released

(* Ending a job takes its token off the row and touches no other claim.    *)
LEMMA EndKeeps ==
    ASSUME IInv, TableOK(jobs'), NEW i \in JobIds, NEW tb, TableOK(tb), tb[i] # None,
           \A j \in JobIds \ {i} : tb[j] = jobs[j],
           NEW outcome \in Terminal, NEW reason \in {"error", "stalled", None},
           NEW cutoff, jobs' = End(tb, i, outcome, reason, clock, cutoff),
           NEW j \in JobIds
    PROVE  TokenKept(j)
<1>1. clock \in Nat
  BY DEF IInv, TypeOK
<1>2. jobs'[j] # None /\ jobs'[j].state = "active" => j # i /\ jobs'[j] = tb[j]
  BY <1>1, EndFrame
<1>3. jobs'[j] # None /\ jobs'[j].token \in HeldTokens => jobs'[j].state = "active"
  BY TokenMeansActive
<1> QED BY <1>2, <1>3 DEF TokenKept

(* Every step of the queue keeps ClaimsMatch: claims take fresh tokens,    *)
(* and the other steps of a worker keep or forget its claim.               *)
LEMMA ClaimsNext == IInv /\ [Next]_vars => ClaimsMatch'
<1> SUFFICES ASSUME IInv, [Next]_vars PROVE ClaimsMatch'
  OBVIOUS
<1>0. /\ TypeOK /\ TypeOK' /\ jobs \in [JobIds -> Row \cup {None}]
      /\ held \in [Workers -> Claims \cup {None}]
      /\ TableOK(jobs) /\ TableOK(jobs') /\ TableOK(draft)
  <2>1. TypeOK /\ TypeOK'
    BY TypeNext DEF IInv
  <2> QED BY <2>1, TableByRows DEF TypeOK
<1>1. CASE UNCHANGED jobs /\ \A w \in Workers : held'[w] \in {None, held[w]}
  BY <1>1, ClaimsKept DEF TokenKept
<1>2. ASSUME NEW x \in Work, NEW i \in JobIds, Enqueue(x, i)
      PROVE  ClaimsMatch'
  <2>1. \A j \in JobIds : TokenKept(j)
    BY <1>2, EnqueueKeeps
  <2> QED BY <1>2, <2>1, ClaimsKept DEF Enqueue, worker
<1>3. CASE Clear
  <2>1. \A j \in JobIds : TokenKept(j)
    BY <1>3 DEF Clear, EmptyTable, TokenKept
  <2> QED BY <1>3, <2>1, ClaimsKept DEF Clear, worker
<1>4. ASSUME NEW w \in Workers, Turn(w)
      PROVE  ClaimsMatch'
  <2>1. CASE RecoverBegin(w) \/ RecoverRow(w) \/ RecoverFails(w)
    BY <1>1, <2>1 DEF RecoverBegin, RecoverRow, RecoverFails, table, worker
  <2>2. CASE RecoverCommit(w)
    <3>1. ASSUME NEW j \in JobIds
          PROVE  TokenKept(j)
      <4>1. draft[j] # None /\ draft[j].token \in HeldTokens => draft[j] = jobs[j]
        <5>1. recovering # None
          BY <2>2, NoneAssumption DEF RecoverCommit
        <5>2. draft[j] # None /\ draft[j].token \in HeldTokens
                => draft[j].state = "active"
          BY <1>0, TokenMeansActive
        <5> QED BY <5>1, <5>2 DEF IInv, DraftAgrees
      <4> QED BY <2>2, <4>1 DEF RecoverCommit, TokenKept
    <3> QED BY <2>2, <3>1, ClaimsKept DEF RecoverCommit
  <2>3. CASE Claim(w)
    <3>1. PICK i \in Claimable, k \in Tokens \ TokensKnown :
            /\ jobs' = [jobs EXCEPT ![i] = Claimed(jobs[i], k)]
            /\ held' = [held EXCEPT ![w] =
                          [id |-> i, token |-> k, work |-> jobs[i].work]]
      BY <2>3 DEF Claim
    <3>2. /\ i \in JobIds /\ jobs[i] # None /\ jobs[i] \in Row
      BY <1>0 DEF Claimable, Due, InState, Present
    <3>3. /\ Claimed(jobs[i], k).token = k
          /\ Claimed(jobs[i], k).work = jobs[i].work
      BY <3>2 DEF Claimed, Row
    <3>4. /\ \A v \in Workers : held[v] # None => held[v].token # k
          /\ \A j \in JobIds : jobs[j] # None => jobs[j].token # k
      BY DEF TokensKnown, Present
    <3> HIDE DEF Claimed
    <3>5. /\ held'[w] = [id |-> i, token |-> k, work |-> jobs[i].work]
          /\ \A v \in Workers \ {w} : held'[v] = held[v]
          /\ jobs'[i] = Claimed(jobs[i], k)
          /\ \A j \in JobIds \ {i} : jobs'[j] = jobs[j]
      BY <1>0, <3>1, <3>2
    <3>6. \A u, v \in Workers :
            u # v /\ held'[u] # None /\ held'[v] # None
            => held'[u].token # held'[v].token
      BY <3>4, <3>5 DEF IInv, ClaimsMatch
    <3>7. ASSUME NEW v \in Workers, NEW j \in JobIds, held'[v] # None,
                 jobs'[j] # None, jobs'[j].token = held'[v].token
          PROVE  held'[v].id = j /\ held'[v].work = jobs'[j].work
      <4>1. CASE v = w
        BY <3>3, <3>4, <3>5, <3>7, <4>1
      <4>2. CASE v # w
        BY <3>3, <3>4, <3>5, <3>7, <4>2 DEF IInv, ClaimsMatch
      <4> QED BY <4>1, <4>2
    <3> QED BY <3>6, <3>7 DEF ClaimsMatch
  <2>4. CASE ClaimNothing(w) \/ SeesShutdown(w) \/ Exit(w)
    BY <1>1, <2>4 DEF ClaimNothing, SeesShutdown, Exit, table
  <2>5. CASE Release(w)
    <3>1. held[w] # None
      BY <1>0, <2>5 DEF Release, TypeOK
    <3>2. \A v \in Workers : held'[v] \in {None, held[v]}
      BY <1>0, <2>5 DEF Release, Drop
    <3>3. CASE Fenced(w)
      <4>1. /\ jobs' = [jobs EXCEPT ![held[w].id] = BackToPending(@)]
            /\ held[w].id \in JobIds /\ jobs[held[w].id] \in Row
        BY <1>0, <2>5, <3>1, <3>3, HeldTypes DEF Release, Fenced
      <4>2. BackToPending(jobs[held[w].id]).token = None
        BY <4>1 DEF BackToPending, Row
      <4>3. None \notin HeldTokens
        BY <1>0, HeldTypes, NoneAssumption DEF HeldTokens
      <4> HIDE DEF BackToPending
      <4>4. \A j \in JobIds : TokenKept(j)
        BY <1>0, <4>1, <4>2, <4>3 DEF TokenKept
      <4> QED BY <3>2, <4>4, ClaimsKept
    <3>4. CASE ~Fenced(w)
      BY <1>1, <2>5, <3>2, <3>4 DEF Release
    <3> QED BY <3>3, <3>4
  <2>6. CASE Complete(w)
    <3>1. held[w] # None /\ held[w].id \in JobIds
      BY <1>0, <2>6, HeldTypes DEF Complete, TypeOK
    <3>2. \A v \in Workers : held'[v] \in {None, held[v]}
      BY <1>0, <2>6 DEF Complete, Drop
    <3>3. CASE UNCHANGED table
      BY <1>1, <3>2, <3>3 DEF table
    <3>4. CASE Fenced(w) /\ \E cutoff \in 0..clock :
                 jobs' = End(jobs, held[w].id, "completed", None, clock, cutoff)
      <4>1. \A j \in JobIds : TokenKept(j)
        BY <1>0, <3>1, <3>4, EndKeeps DEF Fenced
      <4> QED BY <3>2, <4>1, ClaimsKept
    <3> QED BY <2>6, <3>3, <3>4 DEF Complete
  <2>7. CASE Fail(w)
    <3> DEFINE i == held[w].id
               tb == CountFailure(jobs, i)
    <3>1. held[w] # None /\ i \in JobIds
      BY <1>0, <2>7, HeldTypes DEF Fail, TypeOK
    <3>2. \A v \in Workers : held'[v] \in {None, held[v]}
      BY <1>0, <2>7 DEF Fail, Drop
    <3>3. CASE UNCHANGED table
      BY <1>1, <3>2, <3>3 DEF table
    <3>4. ASSUME Fenced(w), ~(UNCHANGED table)
          PROVE  ClaimsMatch'
      <4>1. TableOK(tb) /\ tb[i] # None /\ tb[i] \in Row
            /\ \A j \in JobIds \ {i} : tb[j] = jobs[j]
        BY <1>0, <3>1, <3>4, CountFailureOK DEF Fenced
      <4> HIDE DEF tb
      <4>2. CASE jobs' = [tb EXCEPT ![i] = Retried(tb[i])]
        <5>1. Retried(tb[i]).token = None
          BY <4>1 DEF Retried, Row
        <5>2. None \notin HeldTokens
          BY <1>0, HeldTypes, NoneAssumption DEF HeldTokens
        <5>3. tb \in [JobIds -> Row \cup {None}]
          BY <4>1, TableByRows
        <5> HIDE DEF Retried
        <5>4. \A j \in JobIds : TokenKept(j)
          BY <3>1, <4>1, <4>2, <5>1, <5>2, <5>3 DEF TokenKept
        <5> QED BY <3>2, <5>4, ClaimsKept
      <4>3. CASE \E cutoff \in 0..clock :
                   jobs' = End(tb, i, "failed", "error", clock, cutoff)
        <5>1. \A j \in JobIds : TokenKept(j)
          BY <1>0, <3>1, <4>1, <4>3, EndKeeps
        <5> QED BY <3>2, <5>1, ClaimsKept
      <4> QED BY <2>7, <3>4, <4>2, <4>3 DEF Fail, tb
    <3> QED BY <2>7, <3>3, <3>4 DEF Fail
  <2> QED BY <1>4, <2>1, <2>2, <2>3, <2>4, <2>5, <2>6, <2>7 DEF Turn
<1>5. ASSUME NEW w \in Workers, Processor(w)
      PROVE  ClaimsMatch'
  BY <1>1, <1>5 DEF Processor, ProcessorEnds, ProcessorTimesOut, table
<1>6. ASSUME NEW w \in Workers, Heartbeat(w)
      PROVE  ClaimsMatch'
  <2>1. held[w] # None
    BY <1>0, <1>6 DEF Heartbeat, TypeOK
  <2>2. \A v \in Workers : held'[v] \in {None, held[v]}
    BY <1>0, <1>6 DEF Heartbeat, Drop, worker
  <2>3. ASSUME NEW j \in JobIds
        PROVE  TokenKept(j)
    BY <1>0, <1>6 DEF Heartbeat, Fenced, TokenKept, Row
  <2> QED BY <2>2, <2>3, ClaimsKept
<1>7. ASSUME NEW w \in Workers, Fault(w)
      PROVE  ClaimsMatch'
  <2>1. CASE Shutdown(w) \/ Crash(w) \/ StatementFails(w)
    BY <1>0, <1>1, <2>1 DEF Shutdown, Crash, StatementFails, Drop, table, worker
  <2>2. CASE ClaimReplyLost(w)
    <3>1. PICK i \in Claimable, k \in Tokens \ TokensKnown :
            jobs' = [jobs EXCEPT ![i] = Claimed(jobs[i], k)]
      BY <2>2 DEF ClaimReplyLost
    <3>2. /\ i \in JobIds /\ jobs[i] # None /\ jobs[i] \in Row
      BY <1>0 DEF Claimable, Due, InState, Present
    <3>3. Claimed(jobs[i], k).token = k
      BY <3>2 DEF Claimed, Row
    <3>4. k \notin HeldTokens
      BY DEF TokensKnown, HeldTokens
    <3> HIDE DEF Claimed
    <3>5. \A j \in JobIds : TokenKept(j)
      BY <1>0, <3>1, <3>2, <3>3, <3>4 DEF TokenKept
    <3> QED BY <2>2, <3>5, ClaimsKept DEF ClaimReplyLost
  <2> QED BY <1>7, <2>1, <2>2 DEF Fault
<1>8. ASSUME NEW w \in Workers, Start(w)
      PROVE  ClaimsMatch'
  BY <1>1, <1>8 DEF Start, table
<1>9. ASSUME NEW w \in Workers, NEW n \in Names, Process(w, n)
      PROVE  ClaimsMatch'
  BY <1>1, <1>9 DEF Process, table, worker
<1>10. ASSUME NEW i \in JobIds, Time(i)
      PROVE  ClaimsMatch'
  <2>1. UNCHANGED held
    BY <1>10 DEF Time, BecomesDue, LeaseRunsOut, DedupRunsOut, worker
  <2>2. ASSUME NEW j \in JobIds
        PROVE  TokenKept(j)
    BY <1>0, <1>10 DEF Time, BecomesDue, LeaseRunsOut, DedupRunsOut, InState,
                       Present, TokenKept, Row
  <2> QED BY <2>1, <2>2, ClaimsKept
<1>11. CASE UNCHANGED vars
  BY <1>1, <1>11 DEF vars
<1> QED BY <1>2, <1>3, <1>4, <1>5, <1>6, <1>7, <1>8, <1>9, <1>10, <1>11 DEF Next

-----------------------------------------------------------------------------
(* No step takes a running lease away.                                     *)

(* What NoStealing says of row i in one step.                              *)
LeaseRespected(i) ==
    \/ jobs'[i] # None /\ jobs'[i].token = jobs[i].token
    \/ \E w \in Workers :
          /\ held[w] # None /\ held[w].token = jobs[i].token
          /\ held'[w] = None
    \/ jobs' = EmptyTable

(* A worker that writes the row it passes the fence of gives its claim up, *)
(* and leaves the other active rows alone.                                 *)
LEMMA HolderDrops ==
    ASSUME IInv, NEW w \in Workers, held[w] # None, Fenced(w), Drop(w),
           NEW i \in JobIds, jobs[i] # None,
           i # held[w].id => jobs'[i] = jobs[i]
    PROVE  LeaseRespected(i)
<1>1. held'[w] = None
  BY DEF Drop, IInv, TypeOK
<1>2. CASE i = held[w].id
  BY <1>1, <1>2 DEF Fenced, LeaseRespected
<1>3. CASE i # held[w].id
  BY <1>3 DEF LeaseRespected
<1> QED BY <1>2, <1>3

(* The open recovery transaction commits what it left alone; every other   *)
(* step that is not the holder's keeps the token of a running lease.       *)
LEMMA LeaseNext ==
    ASSUME IInv, [Next]_vars, NEW i \in Present(jobs), jobs[i].lease = "running"
    PROVE  LeaseRespected(i)
<1>0. /\ TypeOK /\ TableOK(jobs) /\ jobs \in [JobIds -> Row \cup {None}]
      /\ i \in JobIds /\ jobs[i] # None /\ jobs[i] \in Row
  <2>1. TypeOK /\ TableOK(jobs) /\ i \in JobIds /\ jobs[i] # None
    BY DEF IInv, TypeOK, Present
  <2> QED BY <2>1, TableByRows
<1>1. jobs[i].state = "active"
  <2>1. RowChecks(jobs[i])
    BY <1>0, TableByRows DEF RowOK
  <2> QED BY <2>1, NoneAssumption DEF RowChecks
<1>2. CASE jobs'[i] = jobs[i]
  BY <1>0, <1>2 DEF LeaseRespected
<1>3. ASSUME NEW x \in Work, NEW j \in JobIds, Enqueue(x, j)
      PROVE  LeaseRespected(i)
  <2> DEFINE d == Opt[x].dedup
             released == IF d = None THEN jobs ELSE ReleaseExpiredDedup(jobs, d)
             owners == IF d = None THEN {} ELSE Owners(released, d)
  <2>5. TableOK(released)
    BY <1>0, ReleaseExpiredDedupOK
  <2>1. released[i] # None /\ released[i] \in Row /\ released[i].token = jobs[i].token
    <3>1. released[i].token = jobs[i].token
      BY <1>0 DEF ReleaseExpiredDedup, Row
    <3>2. released[i] # None
      <4> DEFINE r == [jobs[i] EXCEPT !.dedup = None, !.dedupTtl = None]
      <4>1. r \in Row
        BY <1>0 DEF Row
      <4> HIDE DEF r
      <4>2. released[i] \in {jobs[i], r}
        BY <1>0 DEF ReleaseExpiredDedup, r
      <4> QED BY <1>0, <4>1, <4>2, NoneAssumption
    <3> QED BY <1>0, <2>5, <3>1, <3>2, TableByRows
  <2> HIDE DEF released
  <2>2. CASE jobs' = [k \in JobIds |-> IF k \in owners
                         THEN JoinOwner(released[k], j, x) ELSE released[k]]
    <3>1. CASE i \in owners
      <4>1. JoinOwner(released[i], j, x).token = jobs[i].token
        BY <2>1, JoinOwnerKeeps
      <4>2. released[i].state \in Live /\ released[i].dedup = Opt[x].dedup
        BY <3>1 DEF Owners
      <4>3. RowOK(released[i])
        BY <2>1, <2>5, <1>0, TableByRows
      <4>4. RowOK(JoinOwner(released[i], j, x))
        BY <4>2, <4>3, JoinOwnerOK
      <4>5. JoinOwner(released[i], j, x) # None
        BY <4>4, NoneAssumption DEF RowOK
      <4> QED BY <1>0, <2>2, <3>1, <4>1, <4>5 DEF LeaseRespected
    <3>2. CASE i \notin owners
      BY <1>0, <2>1, <2>2, <3>2 DEF LeaseRespected
    <3> QED BY <3>1, <3>2
  <2>3. CASE jobs' = Inserted(released, j, x, clock)
    BY <1>0, <2>1, <2>3 DEF Inserted, LeaseRespected
  <2>4. CASE UNCHANGED table
    BY <1>2, <2>4 DEF table
  <2> QED BY <1>3, <2>2, <2>3, <2>4 DEF Enqueue, released
<1>4. CASE Clear
  BY <1>4 DEF Clear, LeaseRespected
<1>5. ASSUME NEW w \in Workers, Turn(w)
      PROVE  LeaseRespected(i)
  <2>1. CASE \/ RecoverBegin(w) \/ RecoverRow(w) \/ RecoverFails(w)
             \/ ClaimNothing(w) \/ SeesShutdown(w) \/ Exit(w)
    BY <1>2, <2>1 DEF RecoverBegin, RecoverRow, RecoverFails, ClaimNothing,
                      SeesShutdown, Exit, table
  <2>2. CASE RecoverCommit(w)
    <3>1. recovering # None
      BY <2>2, NoneAssumption DEF RecoverCommit
    <3>2. draft[i] = jobs[i]
      BY <1>0, <3>1 DEF IInv, DraftAgrees
    <3> QED BY <1>2, <2>2, <3>2 DEF RecoverCommit
  <2>3. CASE Claim(w)
    <3>1. PICK j \in Claimable, k \in Tokens :
            jobs' = [jobs EXCEPT ![j] = Claimed(jobs[j], k)]
      BY <2>3 DEF Claim
    <3>2. jobs[j].state = "pending"
      BY DEF Claimable, Due, InState
    <3> HIDE DEF Claimed
    <3> QED BY <1>0, <1>1, <1>2, <3>1, <3>2
  <2>4. CASE Release(w)
    <3>1. held[w] # None /\ Drop(w)
      BY <1>0, <2>4 DEF Release, TypeOK
    <3>2. CASE Fenced(w)
      <4>1. i # held[w].id => jobs'[i] = jobs[i]
        BY <1>0, <2>4, <3>2 DEF Release
      <4> QED BY <1>0, <3>1, <3>2, <4>1, HolderDrops
    <3> QED BY <1>2, <2>4, <3>2 DEF Release
  <2>5. CASE Complete(w)
    <3>1. held[w] # None /\ Drop(w)
      BY <1>0, <2>5 DEF Complete, TypeOK
    <3>2. CASE Fenced(w) /\ \E cutoff \in 0..clock :
                 jobs' = End(jobs, held[w].id, "completed", None, clock, cutoff)
      <4>1. held[w].id \in JobIds /\ jobs[held[w].id] # None /\ clock \in Nat
        BY <1>0, <3>1, <3>2, HeldTypes DEF Fenced, TypeOK
      <4>2. i # held[w].id => jobs'[i] = jobs[i]
        BY <1>0, <1>1, <3>2, <4>1, EndFrame
      <4> QED BY <1>0, <3>1, <3>2, <4>2, HolderDrops
    <3>3. CASE UNCHANGED table
      BY <1>2, <3>3 DEF table
    <3> QED BY <2>5, <3>2, <3>3 DEF Complete
  <2>6. CASE Fail(w)
    <3> DEFINE tb == CountFailure(jobs, held[w].id)
    <3>1. held[w] # None /\ Drop(w)
      BY <1>0, <2>6 DEF Fail, TypeOK
    <3>2. ASSUME Fenced(w), ~(UNCHANGED table)
          PROVE  LeaseRespected(i)
      <4>1. /\ held[w].id \in JobIds /\ TableOK(tb) /\ clock \in Nat
            /\ tb[held[w].id] # None
            /\ \A j \in JobIds \ {held[w].id} : tb[j] = jobs[j]
        BY <1>0, <3>1, <3>2, CountFailureOK DEF TypeOK
      <4>2. tb \in [JobIds -> Row \cup {None}]
        BY <4>1, TableByRows
      <4> HIDE DEF tb
      <4>3. \/ jobs' = [tb EXCEPT ![held[w].id] = Retried(tb[held[w].id])]
            \/ \E cutoff \in 0..clock :
                  jobs' = End(tb, held[w].id, "failed", "error", clock, cutoff)
        BY <2>6, <3>2 DEF Fail, tb
      <4>4. ASSUME i # held[w].id
            PROVE  jobs'[i] = jobs[i]
        <5>1. tb[i] = jobs[i]
          BY <1>0, <4>1, <4>4
        <5>2. CASE jobs' = [tb EXCEPT ![held[w].id] = Retried(tb[held[w].id])]
          <6> HIDE DEF Retried
          <6> QED BY <1>0, <4>2, <4>4, <5>1, <5>2
        <5>3. CASE \E cutoff \in 0..clock :
                     jobs' = End(tb, held[w].id, "failed", "error", clock, cutoff)
          BY <1>0, <1>1, <4>1, <4>4, <5>1, <5>3, EndFrame
        <5> QED BY <4>3, <5>2, <5>3
      <4> QED BY <1>0, <3>1, <3>2, <4>4, HolderDrops
    <3>3. CASE UNCHANGED table
      BY <1>2, <3>3 DEF table
    <3> QED BY <2>6, <3>2, <3>3 DEF Fail
  <2> QED BY <1>5, <2>1, <2>2, <2>3, <2>4, <2>5, <2>6 DEF Turn
<1>6. ASSUME NEW w \in Workers, Heartbeat(w)
      PROVE  LeaseRespected(i)
  <2>1. CASE jobs' = [jobs EXCEPT ![held[w].id].lease = "running"]
    <3>1. jobs'[i].token = jobs[i].token
      BY <1>0, <2>1 DEF Row
    <3>2. TableOK([jobs EXCEPT ![i].lease = "running"])
      BY <1>0, <1>1, LeaseOK
    <3>3. [jobs EXCEPT ![i].lease = "running"][i] = [jobs[i] EXCEPT !.lease = "running"]
      BY <1>0
    <3>4. jobs'[i] \in {jobs[i], [jobs[i] EXCEPT !.lease = "running"]}
      BY <1>0, <2>1
    <3>5. [jobs[i] EXCEPT !.lease = "running"] \in Row
      BY <1>0 DEF Row
    <3> QED BY <1>0, <3>1, <3>4, <3>5, NoneAssumption DEF LeaseRespected
  <2> QED BY <1>2, <1>6, <2>1 DEF Heartbeat
<1>7. ASSUME NEW w \in Workers, Fault(w)
      PROVE  LeaseRespected(i)
  <2>1. CASE Shutdown(w) \/ Crash(w) \/ StatementFails(w)
    BY <1>2, <2>1 DEF Shutdown, Crash, StatementFails, table
  <2>2. CASE ClaimReplyLost(w)
    <3>1. PICK j \in Claimable, k \in Tokens :
            jobs' = [jobs EXCEPT ![j] = Claimed(jobs[j], k)]
      BY <2>2 DEF ClaimReplyLost
    <3>2. jobs[j].state = "pending"
      BY DEF Claimable, Due, InState
    <3> HIDE DEF Claimed
    <3> QED BY <1>0, <1>1, <1>2, <3>1, <3>2
  <2> QED BY <1>7, <2>1, <2>2 DEF Fault
<1>8. ASSUME NEW w \in Workers,
             Processor(w) \/ Start(w) \/ \E n \in Names : Process(w, n)
      PROVE  LeaseRespected(i)
  BY <1>2, <1>8 DEF Processor, ProcessorEnds, ProcessorTimesOut, Start, Process, table
<1>9. ASSUME NEW j \in JobIds, Time(j)
      PROVE  LeaseRespected(i)
  <2>1. CASE i # j
    BY <1>0, <1>2, <1>9, <2>1 DEF Time, BecomesDue, LeaseRunsOut, DedupRunsOut
  <2>2. CASE i = j
    <3>1. \/ jobs'[i] = [jobs[i] EXCEPT !.due = TRUE]
          \/ jobs'[i] = [jobs[i] EXCEPT !.lease = "over"]
          \/ jobs'[i] = [jobs[i] EXCEPT !.dedupTtl = "over"]
      BY <1>0, <1>9, <2>2 DEF Time, BecomesDue, LeaseRunsOut, DedupRunsOut
    <3>2. jobs'[i].token = jobs[i].token
      BY <1>0, <3>1 DEF Row
    <3>3. jobs'[i] \in Row
      <4>1. [jobs[i] EXCEPT !.due = TRUE] \in Row
        BY <1>0 DEF Row
      <4>2. [jobs[i] EXCEPT !.lease = "over"] \in Row
        BY <1>0 DEF Row
      <4>3. [jobs[i] EXCEPT !.dedupTtl = "over"] \in Row
        BY <1>0 DEF Row
      <4> QED BY <3>1, <4>1, <4>2, <4>3
    <3> QED BY <3>2, <3>3, NoneAssumption DEF LeaseRespected
  <2> QED BY <2>1, <2>2
<1>10. CASE UNCHANGED vars
  BY <1>2, <1>10 DEF vars
<1> QED BY <1>3, <1>4, <1>5, <1>6, <1>7, <1>8, <1>9, <1>10 DEF Next

-----------------------------------------------------------------------------
(* The inductive invariant holds in every reachable state.                 *)
LEMMA Invariance == Spec => []IInv
<1>1. IInv /\ [Next]_vars => IInv'
  BY TypeNext, DraftNext, ClaimsNext DEF IInv
<1> QED BY <1>1, InitIInv, PTL DEF Spec

(* Every state is well typed, and every row satisfies the constraints of   *)
(* the migration and gives up its deduplication id when it ends.           *)
THEOREM Typing == Spec => []TypeOK
<1>1. IInv => TypeOK
  BY DEF IInv
<1> QED BY <1>1, Invariance, PTL

(* No two workers ever pass the fence of one row, and a worker that passes *)
(* it runs the work the row holds: require_fenced_row and the conditions   *)
(* on lock_token of store.rs suffice, for any number of workers.           *)
THEOREM Ownership == Spec => []SoleOwner
<1>1. IInv => SoleOwner
  <2> SUFFICES ASSUME IInv, NEW w \in Workers, held[w] # None, Fenced(w)
               PROVE  /\ held[w].work = jobs[held[w].id].work
                      /\ \A v \in Workers \ {w} :
                            held[v] # None /\ held[v].id = held[w].id => ~Fenced(v)
    BY DEF SoleOwner
  <2>1. held[w].id \in JobIds
    BY HeldTypes DEF IInv
  <2> QED BY <2>1 DEF IInv, ClaimsMatch, Fenced
<1> QED BY <1>1, Invariance, PTL

(* No step, a recovery commit included, takes a running lease away from    *)
(* the worker that holds it (recover_expired, heartbeat, finish, release). *)
THEOREM Leasing == Spec => NoStealing
<1>1. IInv /\ [Next]_vars
        => [\A i \in Present(jobs) : jobs[i].lease = "running"
                => LeaseRespected(i)]_vars
  BY LeaseNext
<1>2. NoStealing
        <=> [][\A i \in Present(jobs) : jobs[i].lease = "running"
                  => LeaseRespected(i)]_vars
  BY DEF NoStealing, LeaseRespected
<1> QED BY <1>1, <1>2, Invariance, PTL DEF Spec

-----------------------------------------------------------------------------
(* PostgresQueue implements LeasedJobs.  Apart from clear() and claims,    *)
(* which take a fresh token, a step moves each row on its own: quietly, in *)
(* the sense below.  The draft of a recovery does so too, in several steps.*)

StateOf(row) == IF row = None THEN "absent" ELSE row.state

(* What a transaction other than a claim or an extension of leases does to *)
(* a row: store one, delete a result, or end or release a claim.           *)
Settles(old, new) ==
    \/ StateOf(new) = StateOf(old) /\ (StateOf(old) = "active" => new = old)
    \/ StateOf(old) = "absent" /\ StateOf(new) = "pending"
    \/ StateOf(old) \in Terminal /\ StateOf(new) \in {"absent", "pending"}
    \/ StateOf(old) = "active" /\ StateOf(new) # "active"

(* The same, or a change of a row that leaves it its state and token.      *)
Quiet(old, new) ==
    \/ Settles(old, new)
    \/ /\ old # None /\ new # None
       /\ new.state = old.state /\ new.token = old.token

RowsOK(old, new) == (old = None \/ RowOK(old)) /\ (new = None \/ RowOK(new))

-----------------------------------------------------------------------------
(* Each helper settles each row.                                           *)

(* Two steps of a recovery are as good as one.                             *)
LEMMA SettlesTransitive ==
    ASSUME NEW a, NEW b, NEW c, a = None \/ RowOK(a), b = None \/ RowOK(b),
           c = None \/ RowOK(c), Settles(a, b), Settles(b, c)
    PROVE  Settles(a, c)
<1>1. /\ StateOf(a) \in {"absent"} \cup Live \cup Terminal
      /\ StateOf(b) \in {"absent"} \cup Live \cup Terminal
      /\ StateOf(c) \in {"absent"} \cup Live \cup Terminal
  BY DEF StateOf, RowOK, Row
<1> HIDE DEF StateOf
<1> QED BY <1>1 DEF Settles

(* Retention deletes results only (apply_retention).                       *)
LEMMA RetainedSettles ==
    ASSUME NEW tb, TableOK(tb), NEW x, NEW s \in Terminal, NEW cutoff,
           NEW j \in JobIds
    PROVE  Settles(tb[j], Retained(tb, x, s, cutoff)[j])
<1> DEFINE new == Retained(tb, x, s, cutoff)[j]
<1>1. /\ new \in {None, tb[j]}
      /\ tb[j] # None /\ tb[j].state \notin Terminal => new = tb[j]
  BY RetainedFrame
<1> HIDE DEF new
<1>2. Settles(tb[j], new)
  BY <1>1 DEF Settles, StateOf
<1> QED BY <1>2 DEF new

(* The end of a claimed job, its successor and retention, in one           *)
(* transaction (finish, set_terminal, materialize_successor).              *)
LEMMA EndSettles ==
    ASSUME NEW tb, TableOK(tb), NEW i \in JobIds, tb[i] # None,
           tb[i].state = "active",
           NEW outcome \in Terminal, NEW reason \in {"error", "stalled", None},
           NEW now \in Nat, NEW cutoff, NEW j \in JobIds
    PROVE  Settles(tb[j], End(tb, i, outcome, reason, now, cutoff)[j])
<1> DEFINE ended == Ended(tb, i, outcome, reason, now)
           s == tb[i].succ
           handed == WithSuccessor(ended, s, now)
           end == End(tb, i, outcome, reason, now, cutoff)
<1>0. tb[i] \in Row /\ tb \in [JobIds -> Row \cup {None}]
  BY TableByRows DEF RowOK
<1>1. /\ j # i => ended[j] = tb[j]
      /\ ended[i] # None => ended[i].state = outcome
  BY <1>0 DEF Ended, Row
<1>2. TableOK(ended)
  BY EndedOK
<1>3. s # None => s.id \in JobIds /\ s.work \in Work
  <2>1. s \in Successor \cup {None}
    BY <1>0 DEF Row
  <2> QED BY <2>1 DEF Successor
<1> HIDE DEF ended, s
<1>4. Settles(tb[j], ended[j])
  BY <1>1 DEF Settles, StateOf
<1>5. Settles(ended[j], handed[j])
  <2>1. /\ ended[j] # None => handed[j] = ended[j]
        /\ handed[j] # ended[j] => handed[j].state = "pending" /\ ended[j] = None
    BY <1>2, <1>3, TableByRows DEF WithSuccessor, Inserted, NewRow
  <2> HIDE DEF handed
  <2> QED BY <2>1 DEF Settles, StateOf
<1>6. TableOK(handed)
  BY <1>2, <1>3, InsertedOK DEF WithSuccessor
<1> HIDE DEF handed
<1>7. end = Retained(handed, tb[i].work, outcome, cutoff)
  BY DEF End, ended, s, handed
<1>8. Settles(handed[j], end[j]) /\ TableOK(end)
  BY <1>6, <1>7, RetainedSettles, RetainedOK
<1> HIDE DEF end
<1>9. Settles(tb[j], handed[j])
  BY <1>2, <1>4, <1>5, <1>6, SettlesTransitive, TableByRows
<1>10. Settles(tb[j], end[j])
  BY <1>6, <1>8, <1>9, SettlesTransitive, TableByRows
<1> QED BY <1>10 DEF end

-----------------------------------------------------------------------------
(* The draft of the open recovery is what a transaction may make of the    *)
(* table, and no two active rows have one token.                           *)
DraftSettles ==
    recovering # None => \A j \in JobIds : Settles(jobs[j], draft[j])

TokensApart ==
    \A i, j \in JobIds :
        /\ jobs[i] # None /\ jobs[i].state = "active"
        /\ jobs[j] # None /\ jobs[j].state = "active"
        /\ jobs[i].token = jobs[j].token
        => i = j

RInv == IInv /\ DraftSettles /\ TokensApart

(* One row of a recovery, released or ended with its successor.            *)
LEMMA RecoverRowSettles ==
    ASSUME RInv, NEW w \in Workers, RecoverRow(w), NEW j \in JobIds
    PROVE  Settles(jobs[j], draft'[j])
<1> DEFINE b(i) == [BackToPending(draft[i]) EXCEPT !.stalled = @ + 1]
<1>0. /\ w # None /\ recovering = w /\ TableOK(jobs) /\ TableOK(draft)
      /\ clock \in Nat /\ TableOK(draft')
  BY NoneAssumption, RecoverRowOK DEF RecoverRow, RInv, IInv, TypeOK
<1>1. PICK i \in batch :
        \/ draft' = [draft EXCEPT ![i] = b(i)]
        \/ \E cutoff \in 0..clock :
              draft' = End(draft, i, "failed", "stalled", clock, cutoff)
  BY DEF RecoverRow
<1>2. i \in JobIds /\ draft[i] # None /\ draft[i].state = "active"
  BY <1>0 DEF RInv, IInv, TypeOK, DraftAgrees
<1>3. Settles(draft[j], draft'[j])
  <2>1. CASE draft' = [draft EXCEPT ![i] = b(i)]
    <3>1. draft[i] \in Row
      BY <1>0, <1>2, TableByRows DEF RowOK
    <3>2. b(i).state = "pending"
      BY <3>1 DEF BackToPending, Row
    <3> HIDE DEF b
    <3>3. draft'[j] = IF j = i THEN b(i) ELSE draft[j]
      BY <1>0, <1>2, <2>1, TableByRows
    <3> QED BY <1>2, <3>2, <3>3 DEF Settles, StateOf
  <2>2. CASE \E cutoff \in 0..clock :
               draft' = End(draft, i, "failed", "stalled", clock, cutoff)
    BY <1>0, <1>2, <2>2, EndSettles
  <2> QED BY <1>1, <2>1, <2>2
<1>4. Settles(jobs[j], draft[j])
  BY <1>0 DEF RInv, DraftSettles
<1> QED BY <1>0, <1>3, <1>4, SettlesTransitive, TableByRows

(* The draft starts as the table, and the table waits for it.              *)
LEMMA DraftSettlesNext == RInv /\ [Next]_vars => DraftSettles'
<1> SUFFICES ASSUME RInv, [Next]_vars PROVE DraftSettles'
  OBVIOUS
<1>1. CASE recovering' = None
  BY <1>1 DEF DraftSettles
<1>2. CASE UNCHANGED <<recovering, draft, jobs>>
  BY <1>2 DEF DraftSettles, RInv
<1>3. CASE recovering = None /\ UNCHANGED txn
  BY <1>1, <1>3 DEF txn
<1>4. ASSUME NEW x \in Work, NEW i \in JobIds, Enqueue(x, i)
      PROVE  DraftSettles'
  BY <1>3, <1>4 DEF Enqueue
<1>5. CASE Clear
  BY <1>3, <1>5 DEF Clear
<1>6. ASSUME NEW w \in Workers, Turn(w)
      PROVE  DraftSettles'
  <2>1. CASE RecoverBegin(w)
    <3>1. jobs' = jobs /\ draft' = jobs
      BY <2>1 DEF RecoverBegin, table
    <3>2. \A j \in JobIds : Settles(jobs[j], jobs[j])
      BY DEF Settles
    <3> HIDE DEF Settles
    <3> QED BY <3>1, <3>2 DEF DraftSettles, Settles, StateOf
  <2>2. CASE RecoverRow(w)
    <3>1. jobs' = jobs
      BY <2>2 DEF RecoverRow, table
    <3>2. \A j \in JobIds : Settles(jobs[j], draft'[j])
      BY <2>2, RecoverRowSettles
    <3> QED BY <3>1, <3>2 DEF DraftSettles, Settles, StateOf
  <2>3. CASE RecoverFails(w) \/ RecoverCommit(w)
    BY <1>1, <2>3 DEF RecoverFails, RecoverCommit
  <2>4. CASE Claim(w) \/ ClaimNothing(w) \/ Release(w) \/ Complete(w) \/ Fail(w)
    BY <1>3, <2>4 DEF Claim, ClaimNothing, Release, Complete, Fail
  <2>5. CASE SeesShutdown(w) \/ Exit(w)
    BY <1>2, <2>5 DEF SeesShutdown, Exit, table, txn
  <2> QED BY <1>6, <2>1, <2>2, <2>3, <2>4, <2>5 DEF Turn
<1>7. ASSUME NEW w \in Workers, Processor(w)
      PROVE  DraftSettles'
  BY <1>2, <1>7 DEF Processor, ProcessorEnds, ProcessorTimesOut, table, txn
<1>8. ASSUME NEW w \in Workers, Heartbeat(w)
      PROVE  DraftSettles'
  BY <1>3, <1>8 DEF Heartbeat
<1>9. ASSUME NEW w \in Workers, Fault(w)
      PROVE  DraftSettles'
  <2>1. CASE Shutdown(w)
    BY <1>2, <2>1 DEF Shutdown, table, txn
  <2>2. CASE Crash(w) \/ StatementFails(w)
    BY <1>1, <1>2, <2>2 DEF Crash, StatementFails, Rollback, table, txn
  <2>3. CASE ClaimReplyLost(w)
    BY <1>3, <2>3 DEF ClaimReplyLost
  <2> QED BY <1>9, <2>1, <2>2, <2>3 DEF Fault
<1>10. ASSUME NEW w \in Workers,
              Start(w) \/ \E n \in Names : Process(w, n)
       PROVE  DraftSettles'
  BY <1>2, <1>10 DEF Start, Process, table, txn
<1>11. ASSUME NEW i \in JobIds, Time(i)
       PROVE  DraftSettles'
  BY <1>3, <1>11 DEF Time, BecomesDue, LeaseRunsOut, DedupRunsOut
<1>12. CASE UNCHANGED vars
  BY <1>2, <1>12 DEF vars
<1> QED BY <1>4, <1>5, <1>6, <1>7, <1>8, <1>9, <1>10, <1>11, <1>12 DEF Next

-----------------------------------------------------------------------------
(* What a step does to the table.                                          *)

QuietStep == \A j \in JobIds : Quiet(jobs[j], jobs'[j])

(* Row i is claimed under a token that no row carries.                     *)
ClaimStep(i, k) ==
    /\ jobs[i] # None /\ jobs[i].state = "pending"
    /\ jobs'[i] # None /\ jobs'[i].state = "active"
    /\ jobs'[i].token = k /\ jobs'[i].lease = "running"
    /\ \A j \in JobIds : jobs[j] # None => jobs[j].token # k
    /\ \A j \in JobIds \ {i} : jobs'[j] = jobs[j]

StepKinds ==
    \/ QuietStep
    \/ jobs' = EmptyTable
    \/ \E i \in JobIds, k \in Tokens : ClaimStep(i, k)

(* A claim, whether its reply arrives or not.                              *)
LEMMA ClaimIsStep ==
    ASSUME IInv, NEW i \in Claimable, NEW k \in Tokens \ TokensKnown,
           jobs' = [jobs EXCEPT ![i] = Claimed(jobs[i], k)]
    PROVE  \E m \in JobIds, t \in Tokens : ClaimStep(m, t)
<1>0. TableOK(jobs)
  BY DEF IInv, TypeOK
<1>1. i \in JobIds /\ jobs[i] # None /\ jobs[i].state = "pending" /\ jobs[i] \in Row
  BY <1>0, TableByRows DEF Claimable, Due, InState, Present, RowOK
<1>2. RowOK(Claimed(jobs[i], k))
  BY <1>0, <1>1, TableByRows, ClaimedOK
<1>3. /\ Claimed(jobs[i], k).state = "active" /\ Claimed(jobs[i], k).token = k
      /\ Claimed(jobs[i], k).lease = "running" /\ Claimed(jobs[i], k) # None
  BY <1>1, <1>2, NoneAssumption DEF Claimed, Row, RowOK
<1>4. \A j \in JobIds : jobs[j] # None => jobs[j].token # k
  BY DEF TokensKnown, Present
<1> HIDE DEF Claimed
<1>5. jobs'[i] = Claimed(jobs[i], k) /\ \A j \in JobIds \ {i} : jobs'[j] = jobs[j]
  BY <1>0, <1>1, TableByRows
<1>6. ClaimStep(i, k)
  BY <1>1, <1>3, <1>4, <1>5 DEF ClaimStep
<1> QED BY <1>1, <1>6

(* An enqueue inserts a row, or changes what owners of its deduplication   *)
(* id are, but neither their states nor their tokens.                      *)
LEMMA EnqueueQuiet ==
    ASSUME IInv, NEW x \in Work, NEW i \in JobIds, Enqueue(x, i)
    PROVE  QuietStep
<1> DEFINE d == Opt[x].dedup
           released == IF d = None THEN jobs ELSE ReleaseExpiredDedup(jobs, d)
           owners == IF d = None THEN {} ELSE Owners(released, d)
<1> SUFFICES ASSUME NEW j \in JobIds PROVE Quiet(jobs[j], jobs'[j])
  BY DEF QuietStep
<1>0. TableOK(jobs) /\ jobs \in [JobIds -> Row \cup {None}]
  BY TableByRows DEF IInv, TypeOK
<1>1. TableOK(released)
  BY <1>0, ReleaseExpiredDedupOK
<1>2. /\ released[j] = None <=> jobs[j] = None
      /\ jobs[j] # None => /\ released[j].state = jobs[j].state
                           /\ released[j].token = jobs[j].token
  <2> DEFINE r == [jobs[j] EXCEPT !.dedup = None, !.dedupTtl = None]
  <2>1. jobs[j] # None => /\ r # None /\ r.state = jobs[j].state
                          /\ r.token = jobs[j].token
    <3>0. jobs[j] # None => jobs[j] \in Row
      BY <1>0
    <3>1. jobs[j] # None => r \in Row
      BY <3>0 DEF Row
    <3>2. jobs[j] # None => r.state = jobs[j].state /\ r.token = jobs[j].token
      BY <3>0 DEF Row
    <3> QED BY <3>1, <3>2, NoneAssumption
  <2>2. released[j] = jobs[j] \/ (jobs[j] # None /\ released[j] = r)
    BY DEF ReleaseExpiredDedup, Owners, Present
  <2> HIDE DEF r, released
  <2> QED BY <2>1, <2>2
<1> HIDE DEF released
<1>3. CASE jobs' = [k \in JobIds |-> IF k \in owners
                       THEN JoinOwner(released[k], i, x) ELSE released[k]]
  <2>1. CASE j \in owners
    <3>1. /\ released[j] # None /\ RowOK(released[j])
          /\ released[j].state \in Live /\ released[j].dedup = d
      BY <1>1, <2>1, TableByRows DEF Owners, Present
    <3>2. RowOK(JoinOwner(released[j], i, x))
      BY <3>1, JoinOwnerOK
    <3>3. /\ JoinOwner(released[j], i, x).state = released[j].state
          /\ JoinOwner(released[j], i, x).token = released[j].token
      BY <3>1 DEF JoinOwner, Row, RowOK
    <3>4. jobs'[j] = JoinOwner(released[j], i, x)
      BY <1>3, <2>1
    <3> QED BY <1>2, <3>1, <3>2, <3>3, <3>4, NoneAssumption DEF Quiet, RowOK
  <2>2. CASE j \notin owners
    <3>1. jobs'[j] = released[j]
      BY <1>3, <2>2
    <3> QED BY <1>2, <3>1 DEF Quiet, Settles, StateOf
  <2> QED BY <2>1, <2>2
<1>4. CASE jobs' = Inserted(released, i, x, clock)
  <2>1. NewRow(x, clock).state = "pending" /\ NewRow(x, clock) # None
    <3>1. RowOK(NewRow(x, clock))
      BY NewRowOK DEF IInv, TypeOK
    <3> QED BY <3>1, NoneAssumption DEF NewRow, RowOK
  <2> HIDE DEF NewRow
  <2>2. \/ jobs'[j] = released[j]
        \/ released[j] = None /\ jobs'[j] = NewRow(x, clock)
    BY <1>1, <1>4, TableByRows DEF Inserted
  <2> QED BY <1>2, <2>1, <2>2 DEF Quiet, Settles, StateOf
<1>5. CASE UNCHANGED table
  BY <1>5 DEF table, Quiet, Settles
<1> QED BY <1>3, <1>4, <1>5 DEF Enqueue, released

(* A statement of a worker on the row it claimed, or none at all.          *)
LEMMA WorkerQuiet ==
    ASSUME IInv, NEW w \in Workers, Release(w) \/ Complete(w) \/ Fail(w)
    PROVE  QuietStep
<1> DEFINE i == held[w].id
           tb == CountFailure(jobs, i)
<1> SUFFICES ASSUME NEW j \in JobIds PROVE Quiet(jobs[j], jobs'[j])
  BY DEF QuietStep
<1>0. /\ TableOK(jobs) /\ clock \in Nat /\ held[w] # None /\ i \in JobIds
      /\ Fenced(w) => jobs[i] # None /\ jobs[i].state = "active" /\ jobs[i] \in Row
  <2>1. held[w] # None
    BY DEF IInv, TypeOK, Release, Complete, Fail
  <2> QED BY <2>1, HeldTypes DEF IInv, TypeOK, Fenced, RowOK
<1>1. CASE jobs' = jobs
  BY <1>1 DEF Quiet, Settles
<1>2. ASSUME NEW row, row # None, row.state = "pending", Fenced(w),
             jobs' = [jobs EXCEPT ![i] = row]
      PROVE  Quiet(jobs[j], jobs'[j])
  <2>1. Settles(jobs[i], row)
    BY <1>0, <1>2 DEF Settles, StateOf
  <2>2. jobs[i] # None /\ TableOK(jobs) /\ i \in JobIds
    BY <1>0, <1>2
  <2>3. jobs'[j] = IF j = i THEN row ELSE jobs[j]
    BY <1>2, <2>2, TableByRows
  <2> QED BY <2>1, <2>3 DEF Quiet, Settles
<1>3. CASE Release(w)
  <2>1. CASE Fenced(w)
    <3> DEFINE row == BackToPending(jobs[i])
    <3>1. RowOK(row) /\ row.state = "pending"
      <4>1. RowOK(jobs[i])
        BY <1>0, <2>1, TableByRows
      <4>2. RowOK(row)
        BY <1>0, <2>1, <4>1, BackToPendingOK
      <4> QED BY <1>0, <2>1, <4>2 DEF BackToPending, Row
    <3>2. row # None
      BY <3>1, NoneAssumption DEF RowOK
    <3>3. jobs' = [jobs EXCEPT ![i] = row]
      BY <1>3, <2>1 DEF Release
    <3>4. row.state = "pending"
      BY <3>1
    <3> HIDE DEF row
    <3> QED BY <1>2, <2>1, <3>2, <3>3, <3>4
  <2>2. CASE ~Fenced(w)
    BY <1>1, <1>3, <2>2 DEF Release
  <2> QED BY <2>1, <2>2
<1>4. CASE Complete(w)
  <2>1. CASE UNCHANGED table
    BY <1>1, <2>1 DEF table
  <2>2. CASE Fenced(w) /\ \E cutoff \in 0..clock :
               jobs' = End(jobs, i, "completed", None, clock, cutoff)
    BY <1>0, <2>2, EndSettles DEF Quiet
  <2> QED BY <1>4, <2>1, <2>2 DEF Complete
<1>5. CASE Fail(w)
  <2>1. CASE UNCHANGED table
    BY <1>1, <2>1 DEF table
  <2>2. ASSUME Fenced(w), ~(UNCHANGED table)
        PROVE  Quiet(jobs[j], jobs'[j])
    <3>1. /\ TableOK(tb) /\ tb[i] # None /\ RowOK(tb[i]) /\ tb[i].state = "active"
          /\ \A k \in JobIds \ {i} : tb[k] = jobs[k]
      BY <1>0, <2>2, CountFailureOK DEF IInv
    <3> HIDE DEF tb
    <3>2. ASSUME NEW new, Settles(tb[j], new),
                 j = i => new = None \/ new.state # "active"
          PROVE  Quiet(jobs[j], new)
      <4>1. CASE j = i
        BY <1>0, <2>2, <3>2, <4>1 DEF Quiet, Settles, StateOf
      <4>2. CASE j # i
        BY <3>1, <3>2, <4>2 DEF Quiet
      <4> QED BY <4>1, <4>2
    <3>3. CASE jobs' = [tb EXCEPT ![i] = Retried(tb[i])]
      <4>1. RowOK(Retried(tb[i])) /\ Retried(tb[i]).state = "pending"
        <5>1. RowOK(Retried(tb[i]))
          BY <3>1, RetriedOK
        <5> QED BY <3>1, <5>1 DEF Retried, Row, RowOK
      <4> HIDE DEF Retried
      <4>2. jobs'[j] = IF j = i THEN Retried(tb[i]) ELSE tb[j]
        BY <1>0, <3>1, <3>3, TableByRows
      <4>3. Settles(tb[j], jobs'[j])
        BY <3>1, <4>1, <4>2 DEF Settles, StateOf
      <4> QED BY <3>2, <4>1, <4>2, <4>3
    <3>4. CASE \E cutoff \in 0..clock :
                 jobs' = End(tb, i, "failed", "error", clock, cutoff)
      <4>1. Settles(tb[j], jobs'[j])
        BY <1>0, <3>1, <3>4, EndSettles
      <4>2. jobs'[j] # None /\ jobs'[j].state = "active" => j # i
        BY <1>0, <3>1, <3>4, EndFrame
      <4> QED BY <3>2, <4>1, <4>2
    <3> QED BY <1>5, <2>2, <3>3, <3>4 DEF Fail, tb
  <2> QED BY <1>5, <2>1, <2>2 DEF Fail
<1> QED BY <1>3, <1>4, <1>5

(* A renewed lease and a deadline that passes leave state and token.       *)
LEMMA TimeQuiet ==
    ASSUME IInv, \/ \E w \in Workers : Heartbeat(w)
                 \/ \E i \in JobIds : Time(i)
    PROVE  QuietStep
<1> SUFFICES ASSUME NEW j \in JobIds PROVE Quiet(jobs[j], jobs'[j])
  BY DEF QuietStep
<1>0. TableOK(jobs) /\ jobs \in [JobIds -> Row \cup {None}]
  BY TableByRows DEF IInv, TypeOK
<1>1. CASE jobs'[j] = jobs[j]
  BY <1>1 DEF Quiet, Settles
<1>2. ASSUME jobs'[j] # jobs[j]
      PROVE  /\ jobs[j] # None
             /\ \/ jobs'[j] = [jobs[j] EXCEPT !.due = TRUE]
                \/ jobs'[j] = [jobs[j] EXCEPT !.lease = "over"]
                \/ jobs'[j] = [jobs[j] EXCEPT !.lease = "running"]
                \/ jobs'[j] = [jobs[j] EXCEPT !.dedupTtl = "over"]
  <2>1. ASSUME NEW w \in Workers, Heartbeat(w)
        PROVE  j = held[w].id /\ jobs[j] # None
               /\ jobs'[j] = [jobs[j] EXCEPT !.lease = "running"]
    BY <1>0, <1>2, <2>1 DEF Heartbeat, Fenced
  <2>2. ASSUME NEW i \in JobIds, Time(i)
        PROVE  /\ jobs[j] # None
               /\ \/ jobs'[j] = [jobs[j] EXCEPT !.due = TRUE]
                  \/ jobs'[j] = [jobs[j] EXCEPT !.lease = "over"]
                  \/ jobs'[j] = [jobs[j] EXCEPT !.dedupTtl = "over"]
    <3>1. CASE BecomesDue(i)
      BY <1>0, <1>2, <3>1 DEF BecomesDue, InState, Present
    <3>2. CASE LeaseRunsOut(i)
      BY <1>0, <1>2, <3>2 DEF LeaseRunsOut, InState, Present
    <3>3. CASE DedupRunsOut(i)
      BY <1>0, <1>2, <3>3 DEF DedupRunsOut, Present
    <3> QED BY <2>2, <3>1, <3>2, <3>3 DEF Time
  <2> QED BY <2>1, <2>2
<1>3. CASE jobs'[j] # jobs[j]
  <2>1. jobs[j] \in Row
    BY <1>0, <1>2, <1>3
  <2>2. /\ [jobs[j] EXCEPT !.due = TRUE] \in Row
        /\ \A l \in {"over", "running"} : [jobs[j] EXCEPT !.lease = l] \in Row
        /\ [jobs[j] EXCEPT !.dedupTtl = "over"] \in Row
    BY <2>1 DEF Row
  <2>3. jobs'[j] \in Row
    BY <1>2, <1>3, <2>2
  <2>4. jobs'[j].state = jobs[j].state /\ jobs'[j].token = jobs[j].token
    BY <1>2, <1>3, <2>1 DEF Row
  <2> QED BY <1>2, <1>3, <2>3, <2>4, NoneAssumption DEF Quiet
<1> QED BY <1>1, <1>3

(* Every step is one of the three kinds.                                   *)
LEMMA EachStep == RInv /\ [Next]_vars => StepKinds
<1> SUFFICES ASSUME RInv, [Next]_vars PROVE StepKinds
  OBVIOUS
<1>0. IInv
  BY DEF RInv
<1>1. CASE UNCHANGED jobs
  <2>1. \A j \in JobIds : Quiet(jobs[j], jobs[j])
    BY DEF Quiet, Settles
  <2> HIDE DEF Quiet
  <2> QED BY <1>1, <2>1 DEF StepKinds, QuietStep, Quiet, Settles, StateOf
<1>2. ASSUME NEW x \in Work, NEW i \in JobIds, Enqueue(x, i)
      PROVE  StepKinds
  BY <1>0, <1>2, EnqueueQuiet DEF StepKinds
<1>3. CASE Clear
  BY <1>3 DEF Clear, StepKinds
<1>4. ASSUME NEW w \in Workers, Turn(w)
      PROVE  StepKinds
  <2>1. CASE RecoverBegin(w) \/ RecoverRow(w) \/ RecoverFails(w)
    BY <1>1, <2>1 DEF RecoverBegin, RecoverRow, RecoverFails, table
  <2>2. CASE RecoverCommit(w)
    <3>1. recovering # None /\ jobs' = draft
      BY <2>2, NoneAssumption DEF RecoverCommit
    <3>2. \A j \in JobIds : Settles(jobs[j], draft[j])
      BY <3>1 DEF RInv, DraftSettles
    <3> HIDE DEF Settles
    <3> QED BY <3>1, <3>2 DEF StepKinds, QuietStep, Quiet, Settles, StateOf
  <2>3. CASE Claim(w)
    BY <1>0, <2>3, ClaimIsStep DEF Claim, StepKinds
  <2>4. CASE ClaimNothing(w) \/ SeesShutdown(w) \/ Exit(w)
    BY <1>1, <2>4 DEF ClaimNothing, SeesShutdown, Exit, table
  <2>5. CASE Release(w) \/ Complete(w) \/ Fail(w)
    BY <1>0, <2>5, WorkerQuiet DEF StepKinds
  <2> QED BY <1>4, <2>1, <2>2, <2>3, <2>4, <2>5 DEF Turn
<1>5. ASSUME NEW w \in Workers, Processor(w)
      PROVE  StepKinds
  BY <1>1, <1>5 DEF Processor, ProcessorEnds, ProcessorTimesOut, table
<1>6. ASSUME NEW w \in Workers, Heartbeat(w)
      PROVE  StepKinds
  BY <1>0, <1>6, TimeQuiet DEF StepKinds
<1>7. ASSUME NEW w \in Workers, Fault(w)
      PROVE  StepKinds
  <2>1. CASE Shutdown(w) \/ Crash(w) \/ StatementFails(w)
    BY <1>1, <2>1 DEF Shutdown, Crash, StatementFails, table
  <2>2. CASE ClaimReplyLost(w)
    BY <1>0, <2>2, ClaimIsStep DEF ClaimReplyLost, StepKinds
  <2> QED BY <1>7, <2>1, <2>2 DEF Fault
<1>8. ASSUME NEW w \in Workers,
             Start(w) \/ \E n \in Names : Process(w, n)
      PROVE  StepKinds
  BY <1>1, <1>8 DEF Start, Process, table
<1>9. ASSUME NEW i \in JobIds, Time(i)
      PROVE  StepKinds
  BY <1>0, <1>9, TimeQuiet DEF StepKinds
<1>10. CASE UNCHANGED vars
  BY <1>1, <1>10 DEF vars
<1> QED BY <1>2, <1>3, <1>4, <1>5, <1>6, <1>7, <1>8, <1>9, <1>10 DEF Next

-----------------------------------------------------------------------------
(* A token stays where it is, and a claim's is new.                        *)
LEMMA TokensApartNext == RInv /\ [Next]_vars => TokensApart'
<1> SUFFICES ASSUME RInv, [Next]_vars PROVE TokensApart'
  OBVIOUS
<1>1. StepKinds
  BY EachStep
<1>2. CASE QuietStep
  <2>1. ASSUME NEW j \in JobIds, jobs'[j] # None, jobs'[j].state = "active"
        PROVE  /\ jobs[j] # None /\ jobs[j].state = "active"
               /\ jobs[j].token = jobs'[j].token
    BY <1>2, <2>1 DEF QuietStep, Quiet, Settles, StateOf
  <2> QED BY <2>1 DEF TokensApart, RInv
<1>3. CASE jobs' = EmptyTable
  BY <1>3 DEF EmptyTable, TokensApart
<1>4. CASE \E i \in JobIds, k \in Tokens : ClaimStep(i, k)
  BY <1>4 DEF ClaimStep, TokensApart, RInv
<1> QED BY <1>1, <1>2, <1>3, <1>4 DEF StepKinds

(* The strengthened invariant holds in every reachable state.              *)
LEMMA RInvariance == Spec => []RInv
<1>1. Init => RInv
  BY InitIInv DEF Init, EmptyTable, RInv, DraftSettles, TokensApart
<1>2. RInv /\ [Next]_vars => RInv'
  BY TypeNext, DraftNext, ClaimsNext, DraftSettlesNext, TokensApartNext
     DEF RInv, IInv
<1> QED BY <1>1, <1>2, PTL DEF Spec

-----------------------------------------------------------------------------
(* The table as LeasedJobs sees it.                                        *)
Mapped == [i \in JobIds |-> JobOf(jobs[i])]

(* What a well-formed row is to LeasedJobs.                                *)
LEMMA JobOfRow ==
    ASSUME NEW row, RowOK(row)
    PROVE  /\ row # None
           /\ row.state = "pending" => JobOf(row) = Leased!Pending
           /\ row.state = "active" =>
                 /\ JobOf(row) = Leased!Active(row.token, row.lease)
                 /\ row.token \in Tokens /\ row.lease \in {"running", "over"}
           /\ row.state \in Terminal => JobOf(row) \in Leased!Outcomes
           /\ row.state \in {"pending", "active"} \cup Terminal
<1>1. row \in Row /\ row # None
  BY NoneAssumption DEF RowOK
<1>2. row.state = "active" =>
        row.token \in Tokens /\ row.lease \in {"running", "over"}
  BY <1>1 DEF RowOK, RowChecks, Row
<1>3. row.state \in {"pending", "active"} \cup Terminal
  BY <1>1 DEF Row
<1> QED BY <1>1, <1>2, <1>3 DEF JobOf, Leased!Pending, Leased!Active, Leased!Outcomes

(* A row is one of the states of LeasedJobs.                               *)
LEMMA JobOfState ==
    ASSUME NEW row, row = None \/ RowOK(row)
    PROVE  JobOf(row) \in Leased!States
<1>1. CASE row = None
  BY <1>1 DEF JobOf, Leased!States, Leased!Absent
<1>2. CASE RowOK(row)
  <2>1. CASE row.state = "active"
    <3>1. Leased!Active(row.token, row.lease) \in Leased!Actives
      BY <1>2, <2>1, JobOfRow DEF Leased!Active, Leased!Actives
    <3> QED BY <1>2, <2>1, <3>1, JobOfRow DEF Leased!States
  <2>2. CASE row.state # "active"
    BY <1>2, <2>2, JobOfRow DEF Leased!States
  <2> QED BY <2>1, <2>2
<1> QED BY <1>1, <1>2

(* A quiet change of a row is a move of its job.                           *)
LEMMA QuietMoves ==
    ASSUME NEW old, NEW new, RowsOK(old, new), Quiet(old, new)
    PROVE  Leased!Moves(JobOf(old), JobOf(new))
<1>1. CASE JobOf(new) = JobOf(old)
  BY <1>1 DEF Leased!Moves
<1>2. CASE old # None /\ old.state = "active" /\ new # None /\ new.state = "active"
  <2>1. new.token = old.token
    BY <1>2 DEF Quiet, Settles, StateOf
  <2>2. /\ JobOf(old) = Leased!Active(old.token, old.lease)
        /\ JobOf(new) = Leased!Active(new.token, new.lease)
        /\ old.token \in Tokens
        /\ old.lease \in {"running", "over"} /\ new.lease \in {"running", "over"}
    BY <1>2, JobOfRow DEF RowsOK
  <2>3. Leased!Kept(JobOf(old), JobOf(new))
    BY <2>1, <2>2 DEF Leased!Kept, Leased!Active, Leased!Actives
  <2> QED BY <2>3 DEF Leased!Moves
<1>3. CASE old # None /\ old.state = "active" /\ (new = None \/ new.state # "active")
  <2>1. JobOf(old) \in Leased!Actives
    BY <1>3, JobOfRow DEF RowsOK, Leased!Active, Leased!Actives
  <2>2. JobOf(new) \in {Leased!Absent, Leased!Pending} \cup Leased!Outcomes
    BY <1>3, JobOfRow DEF RowsOK, JobOf, Leased!Absent
  <2> QED BY <2>1, <2>2 DEF Leased!Moves, Leased!Returned, Leased!Finished,
                            Leased!Removed
<1>4. CASE old # None /\ old.state \in Terminal /\ JobOf(new) # JobOf(old)
  <2>1. JobOf(old) \in Leased!Outcomes
    BY <1>4, JobOfRow DEF RowsOK
  <2>2. new = None \/ new.state = "pending"
    BY <1>4, JobOfRow DEF RowsOK, Quiet, Settles, StateOf, JobOf
  <2>3. JobOf(new) \in {Leased!Absent, Leased!Pending}
    BY <2>2, JobOfRow DEF RowsOK, JobOf, Leased!Absent
  <2> QED BY <2>1, <2>3 DEF Leased!Moves, Leased!Added, Leased!Removed
<1>5. CASE old = None /\ new # None
  <2>1. new.state = "pending"
    BY <1>5, JobOfRow DEF RowsOK, Quiet, Settles, StateOf
  <2>2. JobOf(old) = Leased!Absent /\ JobOf(new) = Leased!Pending
    BY <1>5, <2>1, JobOfRow DEF RowsOK, JobOf, Leased!Absent
  <2> QED BY <2>2 DEF Leased!Moves, Leased!Added
<1>6. CASE old # None /\ old.state = "pending" /\ JobOf(new) # JobOf(old)
  BY <1>6, JobOfRow DEF RowsOK, Quiet, Settles, StateOf, JobOf
<1> QED BY <1>1, <1>2, <1>3, <1>4, <1>5, <1>6, JobOfRow DEF RowsOK

(* The table starts empty.                                                 *)
LEMMA InitRefines == Init => Leased!Init
BY DEF Init, EmptyTable, JobOf, Leased!Init, Leased!Cleared, Leased!Absent

(* Distinct tokens of rows are distinct owners of jobs.                    *)
LEMMA TokensOneEach ==
    ASSUME NEW tb, TableOK(tb),
           \A i, j \in JobIds :
               /\ tb[i] # None /\ tb[i].state = "active"
               /\ tb[j] # None /\ tb[j].state = "active"
               /\ tb[i].token = tb[j].token
               => i = j
    PROVE  Leased!OneEach([i \in JobIds |-> JobOf(tb[i])])
<1> SUFFICES ASSUME NEW i \in JobIds, NEW k \in JobIds, NEW t \in Tokens,
                    Leased!OwnedBy(JobOf(tb[i]), t),
                    Leased!OwnedBy(JobOf(tb[k]), t)
             PROVE  i = k
  BY DEF Leased!OneEach
<1>1. ASSUME NEW j \in JobIds, Leased!OwnedBy(JobOf(tb[j]), t)
      PROVE  tb[j] # None /\ tb[j].state = "active" /\ tb[j].token = t
  <2>1. tb[j] = None \/ RowOK(tb[j])
    BY TableByRows
  <2>2. JobOf(tb[j]).is = "active" /\ JobOf(tb[j]).token = t
    BY <1>1 DEF Leased!OwnedBy
  <2> QED BY <2>1, <2>2, JobOfRow DEF JobOf
<1> QED BY <1>1

(* Each step of the queue is a step of LeasedJobs, or none.                *)
LEMMA StepRefines ==
    RInv /\ RInv' /\ [Next]_vars => [Leased!Next]_Mapped
<1> SUFFICES ASSUME RInv, RInv', [Next]_vars
             PROVE  [Leased!Next]_Mapped
  OBVIOUS
<1>0. TableOK(jobs) /\ TableOK(jobs')
  BY DEF RInv, IInv, TypeOK
<1>1. \A i \in JobIds : RowsOK(jobs[i], jobs'[i])
  BY <1>0, TableByRows DEF RowsOK
<1>2. Mapped' \in [JobIds -> Leased!States]
  BY <1>0, TableByRows, JobOfState DEF Mapped
<1>3. Leased!OneEach(Mapped')
  BY <1>0, TokensOneEach DEF RInv, TokensApart, Mapped
<1>4. ASSUME \A i \in JobIds : Leased!Moves(JobOf(jobs[i]), JobOf(jobs'[i]))
      PROVE  Leased!Step
  BY <1>2, <1>3, <1>4 DEF Leased!Step, Mapped
<1>5. CASE QuietStep
  BY <1>1, <1>4, <1>5, QuietMoves DEF QuietStep, Leased!Next
<1>6. CASE jobs' = EmptyTable
  BY <1>6 DEF EmptyTable, JobOf, Leased!Next, Leased!Clear, Leased!Cleared,
              Leased!Absent
<1>7. CASE \E i \in JobIds, k \in Tokens : ClaimStep(i, k)
  <2>1. PICK i \in JobIds, k \in Tokens : ClaimStep(i, k)
    BY <1>7
  <2>2. /\ JobOf(jobs[i]) = Leased!Pending
        /\ JobOf(jobs'[i]) = Leased!Active(k, "running")
    BY <1>1, <2>1, JobOfRow DEF ClaimStep, RowsOK
  <2>3. \A j \in JobIds : ~Leased!OwnedBy(JobOf(jobs[j]), k)
    <3> SUFFICES ASSUME NEW j \in JobIds, Leased!OwnedBy(JobOf(jobs[j]), k)
                 PROVE  FALSE
      OBVIOUS
    <3>1. jobs[j] # None => jobs[j].token # k
      BY <2>1 DEF ClaimStep
    <3>2. jobs[j] = None \/ RowOK(jobs[j])
      BY <1>1 DEF RowsOK
    <3>3. JobOf(jobs[j]).is = "active" /\ JobOf(jobs[j]).token = k
      BY DEF Leased!OwnedBy
    <3> QED BY <3>1, <3>2, <3>3, JobOfRow DEF JobOf
  <2>4. Leased!Claimed(JobOf(jobs[i]), JobOf(jobs'[i]))
    BY <2>2, <2>3 DEF Leased!Claimed
  <2>5. ASSUME NEW j \in JobIds
        PROVE  Leased!Moves(JobOf(jobs[j]), JobOf(jobs'[j]))
    BY <2>1, <2>4 DEF ClaimStep, Leased!Moves
  <2> QED BY <1>4, <2>5 DEF Leased!Next
<1> QED BY <1>5, <1>6, <1>7, EachStep DEF StepKinds

(* The table with its workers, whatever crashes, runs late or is lost,     *)
(* keeps what LeasedJobs promises of each job (queue/postgres/store.rs).   *)
THEOREM Refinement == Spec => ImplementsLeasedJobs
<1>1. Init => Leased!Init
  BY InitRefines
<1>2. RInv /\ RInv' /\ [Next]_vars => [Leased!Next]_Mapped
  BY StepRefines
<1>3. Mapped = [i \in JobIds |-> JobOf(jobs[i])]
  BY DEF Mapped
<1> QED BY <1>1, <1>2, RInvariance, PTL
        DEF Spec, ImplementsLeasedJobs, Leased!Spec, Mapped

-----------------------------------------------------------------------------
(* The counters: attempts, failures and stalls.  What is proved of them    *)
(* needs that no request replaces the work of a delayed job:               *)
(* replace_delayed_owner keeps the attempts of the work it throws away.    *)

NothingReplaced == \A x \in Work : ~Opt[x].replace

(* What one row counts.                                                    *)
RowCounts(row) ==
    /\ row.state = "pending" => row.attempts = row.fails
    /\ row.state = "active" => row.attempts = row.fails + 1
    /\ row.state \in Live => row.fails <= Opt[row.work].maxRetries
    /\ row.stalled <= Opt[row.work].maxStalled
    /\ row.state = "failed" =>
          \/ row.reason = "error" /\ row.fails = Opt[row.work].maxRetries + 1
          \/ row.reason = "stalled" /\ row.stalled = Opt[row.work].maxStalled

Counts(tb) == \A i \in JobIds : tb[i] # None => RowCounts(tb[i])

CInv == IInv /\ Counts(jobs) /\ Counts(draft)

-----------------------------------------------------------------------------
(* What each helper makes of a row that counts right.                      *)

(* The types of its counters and of the budgets of its work.               *)
LEMMA Budgeted ==
    ASSUME NEW row, RowOK(row)
    PROVE  /\ row \in Row /\ row # None /\ row.work \in Work
           /\ Opt[row.work].maxRetries \in Nat /\ Opt[row.work].maxStalled \in Nat
           /\ row.fails \in Nat /\ row.attempts \in Nat /\ row.stalled \in Nat
<1>1. row \in Row /\ row # None
  BY NoneAssumption DEF RowOK
<1>2. row.work \in Work
  BY <1>1 DEF Row
<1> QED BY <1>1, <1>2, OptTypes DEF Row

(* A row that insert_job writes has counted nothing yet.                   *)
LEMMA NewRowCounts ==
    ASSUME NEW x \in Work, NEW now \in Nat
    PROVE  RowCounts(NewRow(x, now))
<1>1. Opt[x].maxRetries \in Nat /\ Opt[x].maxStalled \in Nat
  BY OptTypes
<1> QED BY <1>1 DEF RowCounts, NewRow

(* A claim counts the attempt under way.                                   *)
LEMMA ClaimedCounts ==
    ASSUME NEW row, RowOK(row), row.state = "pending", RowCounts(row),
           NEW k \in Tokens
    PROVE  RowCounts(Claimed(row, k))
BY Budgeted DEF RowCounts, Claimed, Row

(* A release takes back the attempt that claim counted.                    *)
LEMMA BackToPendingCounts ==
    ASSUME NEW row, RowOK(row), row.state = "active", RowCounts(row)
    PROVE  RowCounts(BackToPending(row))
<1>1. row.attempts = row.fails + 1 /\ row.attempts > 0
  BY Budgeted DEF RowCounts
<1>2. row.attempts - 1 = row.fails
  BY <1>1, Budgeted
<1> QED BY <1>1, <1>2, Budgeted DEF RowCounts, BackToPending, Row

(* A row that recover_expired returns to pending has its attempt taken     *)
(* back and one more stall, within what its work may have.                 *)
LEMMA StalledCounts ==
    ASSUME NEW row, RowOK(row), row.state = "active", RowCounts(row), ~Stalls(row)
    PROVE  RowCounts([BackToPending(row) EXCEPT !.stalled = @ + 1])
<1> DEFINE b == BackToPending(row)
<1>1. RowCounts(b) /\ RowOK(b)
  BY BackToPendingCounts, BackToPendingOK
<1>2. b.work = row.work /\ b.stalled = row.stalled /\ b.state = "pending"
  BY Budgeted DEF BackToPending, Row
<1>3. b.stalled + 1 <= Opt[b.work].maxStalled
  BY <1>2, Budgeted DEF Stalls
<1> HIDE DEF b
<1>4. RowCounts([b EXCEPT !.stalled = @ + 1])
  BY <1>1, <1>2, <1>3, Budgeted DEF RowCounts, Row
<1> QED BY <1>4 DEF b

(* A failure that finish counts and retries keeps attempts and failures    *)
(* equal.                                                                  *)
LEMMA RetriedCounts ==
    ASSUME NEW row, RowOK(row), row.state = "active", RowCounts(row), MayRetry(row)
    PROVE  RowCounts(Retried([row EXCEPT !.fails = @ + 1]))
<1> DEFINE c == [row EXCEPT !.fails = @ + 1]
<1>1. /\ c \in Row /\ c.work = row.work /\ c.fails = row.fails + 1
      /\ c.attempts = row.attempts /\ c.stalled = row.stalled
  BY Budgeted DEF Row
<1>2. row.attempts = row.fails + 1 /\ row.attempts <= Opt[row.work].maxRetries
  BY DEF RowCounts, MayRetry
<1> HIDE DEF c
<1>3. /\ Retried(c).state = "pending" /\ Retried(c).work = c.work
      /\ Retried(c).fails = c.fails /\ Retried(c).attempts = c.attempts
      /\ Retried(c).stalled = c.stalled
  BY <1>1 DEF Retried, Row
<1> HIDE DEF Retried
<1>4. RowCounts(Retried(c))
  BY <1>1, <1>2, <1>3, Budgeted DEF RowCounts
<1> QED BY <1>4 DEF c

EndedRow(row, outcome, reason, now) ==
    [row EXCEPT !.state = outcome, !.token = None, !.lease = None,
                !.reason = reason, !.dedup = None,
                !.dedupTtl = None, !.succ = None, !.finished = now]

(* What set_terminal leaves of the row.                                    *)
LEMMA EndedRowFields ==
    ASSUME NEW row, RowOK(row), NEW outcome, NEW reason, NEW now
    PROVE  LET new == EndedRow(row, outcome, reason, now)
           IN  /\ new.state = outcome /\ new.reason = reason
               /\ new.work = row.work /\ new.stalled = row.stalled
               /\ new.fails = row.fails
BY Budgeted DEF EndedRow, Row

(* A failure that finish counts and does not retry has used the retries    *)
(* up.                                                                     *)
LEMMA FailedCounts ==
    ASSUME NEW row, RowOK(row), row.state = "active", RowCounts(row),
           ~MayRetry(row), NEW c, c = [row EXCEPT !.fails = @ + 1], RowOK(c),
           NEW now
    PROVE  RowCounts(EndedRow(c, "failed", "error", now))
<1> DEFINE new == EndedRow(c, "failed", "error", now)
<1>1. c.work = row.work /\ c.fails = row.fails + 1 /\ c.stalled = row.stalled
  BY Budgeted DEF Row
<1>2. row.fails + 1 = Opt[row.work].maxRetries + 1
  BY Budgeted DEF RowCounts, MayRetry
<1>3. /\ new.state = "failed" /\ new.reason = "error" /\ new.work = c.work
      /\ new.stalled = c.stalled /\ new.fails = c.fails
  BY Budgeted DEF EndedRow, Row
<1> HIDE DEF new
<1>4. RowCounts(new)
  BY <1>1, <1>2, <1>3 DEF RowCounts
<1> QED BY <1>4 DEF new

(* A job that completes, or stalls once more than it may, ends as it is.   *)
LEMMA EndedCounts ==
    ASSUME NEW row, RowOK(row), row.state = "active", RowCounts(row), NEW now,
           NEW outcome, NEW reason,
           \/ outcome = "completed"
           \/ outcome = "failed" /\ reason = "stalled" /\ Stalls(row)
    PROVE  RowCounts(EndedRow(row, outcome, reason, now))
<1> DEFINE new == EndedRow(row, outcome, reason, now)
<1>1. /\ new.state = outcome /\ new.reason = reason /\ new.work = row.work
      /\ new.stalled = row.stalled /\ new.fails = row.fails
  BY EndedRowFields
<1>2. Stalls(row) => row.stalled = Opt[row.work].maxStalled
  BY Budgeted DEF Stalls, RowCounts
<1> HIDE DEF new
<1>3. RowCounts(new)
  BY <1>1, <1>2 DEF RowCounts
<1> QED BY <1>3 DEF new

(* Without replacement, joining an owner changes no counter.               *)
LEMMA JoinOwnerCounts ==
    ASSUME NothingReplaced, NEW row, RowOK(row), RowCounts(row), NEW i, NEW x \in Work
    PROVE  RowCounts(JoinOwner(row, i, x))
<1> DEFINE new == JoinOwner(row, i, x)
<1>1. ~Opt[x].replace
  BY DEF NothingReplaced
<1>2. /\ new.state = row.state /\ new.work = row.work /\ new.fails = row.fails
      /\ new.attempts = row.attempts /\ new.stalled = row.stalled
      /\ new.reason = row.reason
  BY <1>1, Budgeted DEF JoinOwner, Row
<1> HIDE DEF new
<1>3. RowCounts(new)
  BY <1>2 DEF RowCounts
<1> QED BY <1>3 DEF new

-----------------------------------------------------------------------------
(* What a transaction does to a table that counts right.                   *)

(* Every row after the end of row i: deleted, as it was, ended, or stored  *)
(* anew as the successor.                                                  *)
LEMMA EndRows ==
    ASSUME NEW tb, TableOK(tb), NEW i \in JobIds, tb[i] # None,
           NEW outcome \in Terminal, NEW reason \in {"error", "stalled", None},
           NEW now \in Nat, NEW cutoff, NEW j \in JobIds,
           NEW new, new = End(tb, i, outcome, reason, now, cutoff)[j]
    PROVE  \/ new = None
           \/ j # i /\ new = tb[j]
           \/ j = i /\ new = EndedRow(tb[i], outcome, reason, now)
           \/ \E x \in Work : new = NewRow(x, now)
<1> DEFINE ended == Ended(tb, i, outcome, reason, now)
           s == tb[i].succ
           handed == WithSuccessor(ended, s, now)
<1>0. tb[i] \in Row /\ tb \in [JobIds -> Row \cup {None}]
  BY TableByRows DEF RowOK
<1>1. /\ j # i => ended[j] = tb[j]
      /\ j = i => ended[j] \in {None, EndedRow(tb[i], outcome, reason, now)}
  <2> DEFINE row == EndedRow(tb[i], outcome, reason, now)
  <2>1. ended = [tb EXCEPT ![i] = IF Removes(tb[i].work, outcome) THEN None ELSE row]
    BY <1>0 DEF Ended, EndedRow
  <2> HIDE DEF row, ended
  <2>2. /\ j # i => ended[j] = tb[j]
        /\ j = i => ended[j] \in {None, row}
    BY <1>0, <2>1
  <2> QED BY <2>2 DEF row
<1>2. TableOK(ended)
  BY EndedOK
<1>3. s # None => s.id \in JobIds /\ s.work \in Work
  <2>1. s \in Successor \cup {None}
    BY <1>0 DEF Row
  <2> QED BY <2>1 DEF Successor
<1> HIDE DEF ended, s
<1>4. handed[j] = ended[j] \/ \E x \in Work : handed[j] = NewRow(x, now)
  <2>1. CASE s = None
    BY <2>1 DEF WithSuccessor
  <2>2. CASE s # None
    <3>1. handed \in {ended, [ended EXCEPT ![s.id] = NewRow(s.work, now)]}
      BY <2>2 DEF WithSuccessor, Inserted
    <3> HIDE DEF handed, NewRow
    <3>2. handed[j] \in {ended[j], NewRow(s.work, now)}
      BY <1>2, <1>3, <2>2, <3>1, TableByRows
    <3> QED BY <1>3, <2>2, <3>2
  <2> QED BY <2>1, <2>2
<1>5. TableOK(handed)
  BY <1>2, <1>3, InsertedOK DEF WithSuccessor
<1> HIDE DEF handed
<1>6. new = Retained(handed, tb[i].work, outcome, cutoff)[j]
  BY DEF End, ended, s, handed
<1>7. new \in {None, handed[j]}
  BY <1>5, <1>6, RetainedFrame
<1> QED BY <1>1, <1>4, <1>7

(* So the other rows count on, if the ended one does.                      *)
LEMMA EndCounts ==
    ASSUME NEW tb, TableOK(tb), NEW i \in JobIds, tb[i] # None,
           \A j \in JobIds \ {i} : tb[j] # None => RowCounts(tb[j]),
           NEW outcome \in Terminal, NEW reason \in {"error", "stalled", None},
           NEW now \in Nat, NEW cutoff,
           RowCounts(EndedRow(tb[i], outcome, reason, now))
    PROVE  Counts(End(tb, i, outcome, reason, now, cutoff))
<1> DEFINE end == End(tb, i, outcome, reason, now, cutoff)
<1> SUFFICES ASSUME NEW j \in JobIds, end[j] # None
             PROVE  RowCounts(end[j])
  BY DEF Counts
<1>1. \/ j # i /\ end[j] = tb[j]
      \/ j = i /\ end[j] = EndedRow(tb[i], outcome, reason, now)
      \/ \E x \in Work : end[j] = NewRow(x, now)
  BY EndRows
<1> HIDE DEF end
<1> QED BY <1>1, NewRowCounts

(* Writing one row that counts right.                                      *)
LEMMA WriteCounts ==
    ASSUME NEW tb, TableOK(tb), NEW i \in JobIds, NEW row, RowCounts(row),
           \A j \in JobIds \ {i} : tb[j] # None => RowCounts(tb[j])
    PROVE  Counts([tb EXCEPT ![i] = row])
<1> SUFFICES ASSUME NEW j \in JobIds, [tb EXCEPT ![i] = row][j] # None
             PROVE  RowCounts([tb EXCEPT ![i] = row][j])
  BY DEF Counts
<1>1. [tb EXCEPT ![i] = row][j] = IF j = i THEN row ELSE tb[j]
  BY TableByRows
<1> QED BY <1>1

-----------------------------------------------------------------------------
(* Each step of the queue, under NothingReplaced.                          *)

(* An enqueue inserts a row or joins the owners of its deduplication id.   *)
LEMMA EnqueueCounts ==
    ASSUME NothingReplaced, CInv, NEW x \in Work, NEW i \in JobIds, Enqueue(x, i)
    PROVE  Counts(jobs')
<1> DEFINE d == Opt[x].dedup
           released == IF d = None THEN jobs ELSE ReleaseExpiredDedup(jobs, d)
           owners == IF d = None THEN {} ELSE Owners(released, d)
<1>0. TableOK(jobs) /\ clock \in Nat /\ Counts(jobs)
  BY DEF CInv, IInv, TypeOK
<1>1. TableOK(released)
  BY <1>0, ReleaseExpiredDedupOK
<1>2. ASSUME NEW j \in JobIds, released[j] # None
      PROVE  RowCounts(released[j])
  <2> DEFINE r == [jobs[j] EXCEPT !.dedup = None, !.dedupTtl = None]
  <2>1. jobs[j] # None /\ released[j] \in {jobs[j], r}
    BY <1>2 DEF ReleaseExpiredDedup, Owners, Present
  <2>2. RowOK(jobs[j]) /\ RowCounts(jobs[j])
    BY <1>0, <2>1, TableByRows DEF Counts
  <2>3. /\ r.state = jobs[j].state /\ r.work = jobs[j].work /\ r.fails = jobs[j].fails
        /\ r.attempts = jobs[j].attempts /\ r.stalled = jobs[j].stalled
        /\ r.reason = jobs[j].reason
    BY <2>2, Budgeted DEF Row
  <2> HIDE DEF r, released
  <2>4. RowCounts(r)
    BY <2>2, <2>3 DEF RowCounts
  <2> QED BY <2>1, <2>2, <2>4
<1> HIDE DEF released
<1>3. CASE jobs' = [k \in JobIds |-> IF k \in owners
                       THEN JoinOwner(released[k], i, x) ELSE released[k]]
  <2>1. ASSUME NEW j \in JobIds, j \in owners
        PROVE  RowCounts(JoinOwner(released[j], i, x))
    <3>1. released[j] # None /\ RowOK(released[j])
      BY <1>1, <2>1, TableByRows DEF Owners, Present
    <3> QED BY <1>2, <3>1, JoinOwnerCounts
  <2> HIDE DEF owners
  <2> QED BY <1>2, <1>3, <2>1 DEF Counts
<1>4. CASE jobs' = Inserted(released, i, x, clock)
  <2>1. RowCounts(NewRow(x, clock))
    BY <1>0, NewRowCounts
  <2>2. Counts(released)
    BY <1>2 DEF Counts
  <2>3. Counts([released EXCEPT ![i] = NewRow(x, clock)])
    BY <1>1, <1>2, <2>1, WriteCounts
  <2> QED BY <1>4, <2>2, <2>3 DEF Inserted
<1>5. CASE UNCHANGED table
  BY <1>0, <1>5 DEF table
<1> QED BY <1>3, <1>4, <1>5 DEF Enqueue, released

(* A row of a recovery is released and stalled once more, or ended.        *)
LEMMA RecoverRowCounts ==
    ASSUME CInv, NEW w \in Workers, RecoverRow(w)
    PROVE  Counts(draft')
<1>0. /\ recovering # None /\ TableOK(draft) /\ clock \in Nat /\ Counts(draft)
  BY NoneAssumption DEF RecoverRow, CInv, IInv, TypeOK
<1>1. PICK i \in batch :
        \/ /\ ~Stalls(draft[i])
           /\ draft' = [draft EXCEPT ![i] =
                           [BackToPending(draft[i]) EXCEPT !.stalled = @ + 1]]
        \/ /\ Stalls(draft[i])
           /\ \E cutoff \in 0..clock :
                 draft' = End(draft, i, "failed", "stalled", clock, cutoff)
  BY DEF RecoverRow
<1>2. i \in JobIds /\ draft[i] # None /\ draft[i].state = "active"
  BY <1>0 DEF CInv, IInv, TypeOK, DraftAgrees
<1>3. RowOK(draft[i]) /\ RowCounts(draft[i])
  BY <1>0, <1>2, TableByRows DEF Counts
<1>4. CASE ~Stalls(draft[i]) /\
           draft' = [draft EXCEPT ![i] =
                       [BackToPending(draft[i]) EXCEPT !.stalled = @ + 1]]
  <2> DEFINE row == [BackToPending(draft[i]) EXCEPT !.stalled = @ + 1]
  <2>1. RowCounts(row)
    BY <1>2, <1>3, <1>4, StalledCounts
  <2> HIDE DEF row
  <2>2. Counts([draft EXCEPT ![i] = row])
    BY <1>0, <1>2, <2>1, WriteCounts DEF Counts
  <2> QED BY <1>4, <2>2 DEF row
<1>5. CASE Stalls(draft[i]) /\ \E cutoff \in 0..clock :
             draft' = End(draft, i, "failed", "stalled", clock, cutoff)
  <2>1. RowCounts(EndedRow(draft[i], "failed", "stalled", clock))
    BY <1>2, <1>3, <1>5, EndedCounts
  <2> QED BY <1>0, <1>2, <1>5, <2>1, EndCounts DEF Counts
<1> QED BY <1>1, <1>4, <1>5

(* A worker's statement on the row it claimed.                             *)
LEMMA WorkerCounts ==
    ASSUME CInv, NEW w \in Workers, Release(w) \/ Complete(w) \/ Fail(w)
    PROVE  Counts(jobs')
<1> DEFINE i == held[w].id
           tb == CountFailure(jobs, i)
<1>0. /\ TypeOK /\ TableOK(jobs) /\ clock \in Nat /\ Counts(jobs)
      /\ held[w] # None /\ i \in JobIds
  <2>1. held[w] # None
    BY DEF CInv, IInv, TypeOK, Release, Complete, Fail
  <2> QED BY <2>1, HeldTypes DEF CInv, IInv, TypeOK
<1>1. CASE jobs' = jobs
  BY <1>0, <1>1
<1>2. CASE ~Fenced(w)
  BY <1>1, <1>2 DEF Release, Complete, Fail, table
<1>3. ASSUME Fenced(w)
      PROVE  /\ RowOK(jobs[i]) /\ RowCounts(jobs[i])
             /\ jobs[i] # None /\ jobs[i].state = "active"
  BY <1>0, <1>3, TableByRows DEF Fenced, Counts
<1>4. CASE Fenced(w) /\ Release(w)
  <2>1. RowCounts(BackToPending(jobs[i]))
    BY <1>3, <1>4, BackToPendingCounts
  <2> HIDE DEF BackToPending
  <2>2. Counts([jobs EXCEPT ![i] = BackToPending(jobs[i])])
    BY <1>0, <2>1, WriteCounts DEF Counts
  <2>3. jobs' = [jobs EXCEPT ![i] = BackToPending(jobs[i])]
    BY <1>4 DEF Release
  <2> QED BY <2>2, <2>3
<1>5. CASE Fenced(w) /\ Complete(w)
  <2>1. CASE UNCHANGED table
    BY <1>1, <2>1 DEF table
  <2>2. CASE \E cutoff \in 0..clock :
               jobs' = End(jobs, i, "completed", None, clock, cutoff)
    <3>1. RowCounts(EndedRow(jobs[i], "completed", None, clock))
      BY <1>3, <1>5, EndedCounts
    <3> QED BY <1>0, <1>3, <1>5, <2>2, <3>1, EndCounts DEF Counts
  <2> QED BY <1>5, <2>1, <2>2 DEF Complete
<1>6. CASE Fenced(w) /\ Fail(w)
  <2> DEFINE c == [jobs[i] EXCEPT !.fails = @ + 1]
  <2>1. /\ TableOK(tb) /\ tb[i] # None /\ RowOK(tb[i])
        /\ \A j \in JobIds \ {i} : tb[j] = jobs[j]
    BY <1>0, <1>6, CountFailureOK
  <2>2. tb[i] = c
    BY <1>0, TableByRows DEF CountFailure
  <2>3. \A j \in JobIds \ {i} : tb[j] # None => RowCounts(tb[j])
    BY <1>0, <2>1 DEF Counts
  <2> HIDE DEF tb
  <2>4. CASE UNCHANGED table
    BY <1>1, <2>4 DEF table
  <2>5. CASE MayRetry(jobs[i]) /\ jobs' = [tb EXCEPT ![i] = Retried(tb[i])]
    <3>1. RowCounts(Retried(c))
      BY <1>3, <1>6, <2>5, RetriedCounts
    <3> HIDE DEF Retried, c
    <3> QED BY <1>0, <2>1, <2>2, <2>3, <2>5, <3>1, WriteCounts
  <2>6. CASE ~MayRetry(jobs[i]) /\ \E cutoff \in 0..clock :
               jobs' = End(tb, i, "failed", "error", clock, cutoff)
    <3>1. RowCounts(EndedRow(tb[i], "failed", "error", clock))
      BY <1>3, <1>6, <2>1, <2>2, <2>6, FailedCounts
    <3> QED BY <1>0, <2>1, <2>3, <2>6, <3>1, EndCounts
  <2> QED BY <1>6, <2>4, <2>5, <2>6 DEF Fail, tb
<1> QED BY <1>2, <1>4, <1>5, <1>6

(* A lease that is renewed and a deadline that passes count nothing.       *)
LEMMA TimeCounts ==
    ASSUME CInv, \/ \E w \in Workers : Heartbeat(w)
                 \/ \E i \in JobIds : Time(i)
    PROVE  Counts(jobs')
<1> SUFFICES ASSUME NEW j \in JobIds, jobs'[j] # None PROVE RowCounts(jobs'[j])
  BY DEF Counts
<1>0. TableOK(jobs) /\ jobs \in [JobIds -> Row \cup {None}] /\ Counts(jobs)
  BY TableByRows DEF CInv, IInv, TypeOK
<1>1. CASE jobs'[j] = jobs[j]
  BY <1>0, <1>1 DEF Counts
<1>2. ASSUME jobs'[j] # jobs[j]
      PROVE  /\ jobs[j] # None
             /\ \/ jobs'[j] = [jobs[j] EXCEPT !.due = TRUE]
                \/ jobs'[j] = [jobs[j] EXCEPT !.lease = "over"]
                \/ jobs'[j] = [jobs[j] EXCEPT !.lease = "running"]
                \/ jobs'[j] = [jobs[j] EXCEPT !.dedupTtl = "over"]
  <2>1. ASSUME NEW w \in Workers, Heartbeat(w)
        PROVE  jobs[j] # None /\ jobs'[j] = [jobs[j] EXCEPT !.lease = "running"]
    BY <1>0, <1>2, <2>1 DEF Heartbeat, Fenced
  <2>2. ASSUME NEW i \in JobIds, Time(i)
        PROVE  /\ jobs[j] # None
               /\ \/ jobs'[j] = [jobs[j] EXCEPT !.due = TRUE]
                  \/ jobs'[j] = [jobs[j] EXCEPT !.lease = "over"]
                  \/ jobs'[j] = [jobs[j] EXCEPT !.dedupTtl = "over"]
    <3>1. CASE BecomesDue(i)
      BY <1>0, <1>2, <3>1 DEF BecomesDue, InState, Present
    <3>2. CASE LeaseRunsOut(i)
      BY <1>0, <1>2, <3>2 DEF LeaseRunsOut, InState, Present
    <3>3. CASE DedupRunsOut(i)
      BY <1>0, <1>2, <3>3 DEF DedupRunsOut, Present
    <3> QED BY <2>2, <3>1, <3>2, <3>3 DEF Time
  <2> QED BY <2>1, <2>2
<1>3. CASE jobs'[j] # jobs[j]
  <2>1. jobs[j] \in Row /\ RowCounts(jobs[j])
    BY <1>0, <1>2, <1>3 DEF Counts
  <2>2. /\ jobs'[j].state = jobs[j].state /\ jobs'[j].work = jobs[j].work
        /\ jobs'[j].fails = jobs[j].fails /\ jobs'[j].attempts = jobs[j].attempts
        /\ jobs'[j].stalled = jobs[j].stalled /\ jobs'[j].reason = jobs[j].reason
    BY <1>2, <1>3, <2>1 DEF Row
  <2> QED BY <2>1, <2>2 DEF RowCounts
<1> QED BY <1>1, <1>3

(* A claim counts an attempt, whether its reply arrives or not.            *)
LEMMA ClaimCounts ==
    ASSUME CInv, NEW i \in Claimable, NEW k \in Tokens,
           jobs' = [jobs EXCEPT ![i] = Claimed(jobs[i], k)]
    PROVE  Counts(jobs')
<1>0. TableOK(jobs) /\ Counts(jobs)
  BY DEF CInv, IInv, TypeOK
<1>1. i \in JobIds /\ jobs[i] # None /\ jobs[i].state = "pending"
  BY DEF Claimable, Due, InState, Present
<1>2. RowCounts(Claimed(jobs[i], k))
  BY <1>0, <1>1, TableByRows, ClaimedCounts DEF Counts
<1> HIDE DEF Claimed
<1> QED BY <1>0, <1>1, <1>2, WriteCounts DEF Counts

(* Every step keeps the counts of the table.                               *)
LEMMA JobsNext ==
    ASSUME NothingReplaced, CInv, [Next]_vars
    PROVE  Counts(jobs')
<1>0. TypeOK /\ Counts(jobs)
  BY DEF CInv, IInv
<1>1. CASE UNCHANGED jobs
  BY <1>0, <1>1
<1>2. ASSUME NEW x \in Work, NEW i \in JobIds, Enqueue(x, i)
      PROVE  Counts(jobs')
  BY <1>2, EnqueueCounts
<1>3. CASE Clear
  BY <1>3 DEF Clear, EmptyTable, Counts
<1>4. ASSUME NEW w \in Workers, Turn(w)
      PROVE  Counts(jobs')
  <2>1. CASE RecoverBegin(w) \/ RecoverRow(w) \/ RecoverFails(w)
    BY <1>1, <2>1 DEF RecoverBegin, RecoverRow, RecoverFails, table
  <2>2. CASE RecoverCommit(w)
    BY <2>2 DEF RecoverCommit, CInv
  <2>3. CASE Claim(w)
    BY <2>3, ClaimCounts DEF Claim
  <2>4. CASE ClaimNothing(w) \/ SeesShutdown(w) \/ Exit(w)
    BY <1>1, <2>4 DEF ClaimNothing, SeesShutdown, Exit, table
  <2>5. CASE Release(w) \/ Complete(w) \/ Fail(w)
    BY <2>5, WorkerCounts
  <2> QED BY <1>4, <2>1, <2>2, <2>3, <2>4, <2>5 DEF Turn
<1>5. ASSUME NEW w \in Workers, Processor(w)
      PROVE  Counts(jobs')
  BY <1>1, <1>5 DEF Processor, ProcessorEnds, ProcessorTimesOut, table
<1>6. ASSUME NEW w \in Workers, Heartbeat(w)
      PROVE  Counts(jobs')
  BY <1>6, TimeCounts
<1>7. ASSUME NEW w \in Workers, Fault(w)
      PROVE  Counts(jobs')
  <2>1. CASE Shutdown(w) \/ Crash(w) \/ StatementFails(w)
    BY <1>1, <2>1 DEF Shutdown, Crash, StatementFails, table
  <2>2. CASE ClaimReplyLost(w)
    BY <2>2, ClaimCounts DEF ClaimReplyLost
  <2> QED BY <1>7, <2>1, <2>2 DEF Fault
<1>8. ASSUME NEW w \in Workers,
             Start(w) \/ \E n \in Names : Process(w, n)
      PROVE  Counts(jobs')
  BY <1>1, <1>8 DEF Start, Process, table
<1>9. ASSUME NEW i \in JobIds, Time(i)
      PROVE  Counts(jobs')
  BY <1>9, TimeCounts
<1>10. CASE UNCHANGED vars
  BY <1>1, <1>10 DEF vars
<1> QED BY <1>2, <1>3, <1>4, <1>5, <1>6, <1>7, <1>8, <1>9, <1>10 DEF Next

(* And those of the draft, which begins as the table and ends empty.       *)
LEMMA DraftCountsNext ==
    ASSUME CInv, [Next]_vars
    PROVE  Counts(draft')
<1>1. CASE draft' \in {draft, jobs, EmptyTable}
  BY <1>1 DEF CInv, Counts, EmptyTable
<1>2. ASSUME NEW w \in Workers, Turn(w)
      PROVE  Counts(draft')
  <2>1. CASE RecoverRow(w)
    BY <2>1, RecoverRowCounts
  <2>2. CASE RecoverBegin(w) \/ RecoverFails(w) \/ RecoverCommit(w)
    BY <1>1, <2>2 DEF RecoverBegin, RecoverFails, RecoverCommit
  <2>3. CASE Claim(w) \/ ClaimNothing(w) \/ Release(w) \/ Complete(w) \/ Fail(w)
             \/ SeesShutdown(w) \/ Exit(w)
    BY <1>1, <2>3 DEF Claim, ClaimNothing, Release, Complete, Fail,
                      SeesShutdown, Exit, txn
  <2> QED BY <1>2, <2>1, <2>2, <2>3 DEF Turn
<1>3. ASSUME NEW w \in Workers, Fault(w)
      PROVE  Counts(draft')
  BY <1>1, <1>3 DEF Fault, Shutdown, Crash, StatementFails, ClaimReplyLost,
                    Rollback, txn
<1>4. ASSUME NEW w \in Workers,
             \/ Processor(w) \/ Heartbeat(w) \/ Start(w)
             \/ \E n \in Names : Process(w, n)
      PROVE  Counts(draft')
  BY <1>1, <1>4 DEF Processor, ProcessorEnds, ProcessorTimesOut, Heartbeat,
                    Start, Process, txn
<1>5. CASE Clear \/ (\E x \in Work, i \in JobIds : Enqueue(x, i))
           \/ (\E i \in JobIds : Time(i))
  BY <1>1, <1>5 DEF Clear, Enqueue, Time, BecomesDue, LeaseRunsOut, DedupRunsOut, txn
<1>6. CASE UNCHANGED vars
  BY <1>1, <1>6 DEF vars
<1> QED BY <1>2, <1>3, <1>4, <1>5, <1>6 DEF Next

(* The rows count right in every reachable state.                          *)
LEMMA CInvariance == ASSUME NothingReplaced PROVE Spec => []CInv
<1>1. Init => CInv
  BY InitIInv DEF Init, EmptyTable, CInv, Counts
<1>2. CInv /\ [Next]_vars => CInv'
  BY TypeNext, DraftNext, ClaimsNext, JobsNext, DraftCountsNext DEF CInv, IInv
<1> QED BY <1>1, <1>2, PTL DEF Spec

(* A row's attempts are the failures that its processor reported and the   *)
(* attempt under way, whatever was released, recovered or lost in between  *)
(* (claim, release, recover_expired, finish of store.rs).                  *)
THEOREM Attempts == ASSUME NothingReplaced PROVE Spec => []AttemptsAreFailures
<1>1. CInv => AttemptsAreFailures
  BY DEF CInv, Counts, RowCounts, AttemptsAreFailures, Present
<1> QED BY <1>1, CInvariance, PTL

(* Work is retried as often as its policy says and recovered as often as   *)
(* max_stalled_count says, and fails for one of the two (store.rs, finish, *)
(* recover_expired).                                                       *)
THEOREM WithinBudgets == ASSUME NothingReplaced PROVE Spec => []Budgets
<1>1. CInv => Budgets
  BY DEF CInv, Counts, RowCounts, Budgets, Present
<1> QED BY <1>1, CInvariance, PTL

-----------------------------------------------------------------------------
(* One live row for each deduplication id.  A row that is written keeps    *)
(* its id or gives it up; only insert_job takes one, and the unique index  *)
(* lets it.                                                                *)

(* The deduplication id that a row occupies in the unique index.           *)
Id(row) == IF row # None /\ row.state \in Live THEN row.dedup ELSE None

OneOwner(tb) ==
    \A i, j \in JobIds : i # j /\ Id(tb[i]) # None => Id(tb[i]) # Id(tb[j])

(* Rows may give their ids up.                                             *)
Sheds(old, new) == \A j \in JobIds : Id(new[j]) \in {Id(old[j]), None}

DInv == IInv /\ OneOwner(jobs) /\ OneOwner(draft)

-----------------------------------------------------------------------------
(* Two tables of which the second has no more ids.                         *)
LEMMA ShedsOwners ==
    ASSUME NEW old, NEW new, OneOwner(old), Sheds(old, new)
    PROVE  OneOwner(new)
<1> SUFFICES ASSUME NEW i \in JobIds, NEW j \in JobIds, i # j, Id(new[i]) # None
             PROVE  Id(new[i]) # Id(new[j])
  BY DEF OneOwner
<1> HIDE DEF Id
<1>1. Id(new[i]) = Id(old[i]) /\ Id(new[j]) \in {Id(old[j]), None}
  BY DEF Sheds
<1>2. Id(old[i]) # Id(old[j])
  BY <1>1 DEF OneOwner
<1> QED BY <1>1, <1>2

(* Writing one row that has the id of the old one, or none.                *)
LEMMA WriteSheds ==
    ASSUME NEW tb, TableOK(tb), NEW i \in JobIds, NEW row,
           Id(row) \in {Id(tb[i]), None}
    PROVE  Sheds(tb, [tb EXCEPT ![i] = row])
<1> SUFFICES ASSUME NEW j \in JobIds
             PROVE  Id([tb EXCEPT ![i] = row][j]) \in {Id(tb[j]), None}
  BY DEF Sheds
<1>1. [tb EXCEPT ![i] = row][j] = IF j = i THEN row ELSE tb[j]
  BY TableByRows
<1> HIDE DEF Id
<1> QED BY <1>1

(* Well-formed rows that agree on being live and on their id.              *)
LEMMA SameId ==
    ASSUME NEW old, NEW new, RowOK(old), RowOK(new), new.dedup = old.dedup,
           new.state \in Live <=> old.state \in Live
    PROVE  Id(new) = Id(old)
BY NoneAssumption DEF Id, RowOK

(* A claim leaves a row its id.                                            *)
LEMMA ClaimedId ==
    ASSUME NEW row, RowOK(row), row.state = "pending", NEW k \in Tokens
    PROVE  Id(Claimed(row, k)) = Id(row)
<1>1. RowOK(Claimed(row, k))
  BY ClaimedOK
<1>2. Claimed(row, k).dedup = row.dedup /\ Claimed(row, k).state = "active"
  BY DEF Claimed, RowOK, Row
<1> QED BY <1>1, <1>2, SameId

(* A release does, with or without a stall.                                *)
LEMMA BackToPendingId ==
    ASSUME NEW row, RowOK(row), row.state = "active"
    PROVE  /\ Id(BackToPending(row)) = Id(row)
           /\ Id([BackToPending(row) EXCEPT !.stalled = @ + 1]) = Id(row)
<1> DEFINE b == BackToPending(row)
           c == [b EXCEPT !.stalled = @ + 1]
<1>1. RowOK(b)
  BY BackToPendingOK
<1>2. b.dedup = row.dedup /\ b.state = "pending"
  BY DEF BackToPending, RowOK, Row
<1> HIDE DEF b
<1>3. c \in Row /\ c.dedup = b.dedup /\ c.state = b.state
  BY <1>1 DEF RowOK, Row
<1>4. RowChecks(c)
  BY <1>1 DEF RowOK, Row, RowChecks
<1> QED BY <1>1, <1>2, <1>3, <1>4, SameId DEF b, RowOK

(* A failure that is counted, and a retry, leave a row its id.             *)
LEMMA RetriedId ==
    ASSUME NEW row, RowOK(row), row.state = "active"
    PROVE  Id(Retried(row)) = Id(row)
<1>1. RowOK(Retried(row))
  BY RetriedOK
<1>2. Retried(row).dedup = row.dedup /\ Retried(row).state = "pending"
  BY DEF Retried, RowOK, Row
<1> QED BY <1>1, <1>2, SameId

(* Joining an owner leaves it its id.                                      *)
LEMMA JoinOwnerId ==
    ASSUME NEW row, RowOK(row), row.state \in Live,
           NEW i \in JobIds, NEW x \in Work, row.dedup = Opt[x].dedup
    PROVE  Id(JoinOwner(row, i, x)) = Id(row)
<1>1. RowOK(JoinOwner(row, i, x))
  BY JoinOwnerOK
<1>2. JoinOwner(row, i, x).dedup = row.dedup /\ JoinOwner(row, i, x).state = row.state
  BY DEF JoinOwner, RowOK, Row
<1> QED BY <1>1, <1>2, SameId

-----------------------------------------------------------------------------
(* What a transaction does to the ids of a table.                          *)

(* insert_job takes an id where the unique index has none.                 *)
LEMMA InsertOwners ==
    ASSUME NEW tb, TableOK(tb), OneOwner(tb), NEW i \in JobIds, NEW x \in Work,
           ~InsertFails(tb, i, x), NEW now \in Nat
    PROVE  OneOwner(Inserted(tb, i, x, now))
<1>1. CASE tb[i] # None
  BY <1>1 DEF Inserted
<1>2. CASE tb[i] = None
  <2> DEFINE row == NewRow(x, now)
             new == [tb EXCEPT ![i] = row]
  <2>1. RowOK(row) /\ row.state = "pending" /\ row.dedup = Opt[x].dedup
    BY NewRowOK DEF NewRow
  <2>2. Id(row) = Opt[x].dedup
    BY <2>1, NoneAssumption DEF Id, RowOK
  <2>3. ASSUME NEW j \in JobIds, Id(row) # None
        PROVE  Id(tb[j]) # Id(row)
    <3>1. Owners(tb, Opt[x].dedup) = {}
      BY <1>2, <2>2, <2>3 DEF InsertFails, IndexClash
    <3> QED BY <2>2, <2>3, <3>1 DEF Owners, Present, Id
  <2> HIDE DEF row
  <2>4. \A j \in JobIds : new[j] = IF j = i THEN row ELSE tb[j]
    BY TableByRows
  <2> HIDE DEF new
  <2>5. OneOwner(new)
    <3> SUFFICES ASSUME NEW j \in JobIds, NEW k \in JobIds, j # k, Id(new[j]) # None
                 PROVE  Id(new[j]) # Id(new[k])
      BY DEF OneOwner
    <3> HIDE DEF Id
    <3>1. CASE j = i
      BY <2>3, <2>4, <3>1
    <3>2. CASE k = i
      BY <2>3, <2>4, <3>2
    <3>3. CASE j # i /\ k # i
      BY <2>4, <3>3 DEF OneOwner
    <3> QED BY <3>1, <3>2, <3>3
  <2> QED BY <1>2, <2>5 DEF Inserted, new, row
<1> QED BY <1>1, <1>2

(* The end of a job gives its id up before its successor takes it.         *)
LEMMA EndOwners ==
    ASSUME NEW tb, TableOK(tb), OneOwner(tb), NEW i \in JobIds, tb[i] # None,
           NEW outcome \in Terminal, NEW reason \in {"error", "stalled", None},
           NEW now \in Nat, NEW cutoff, ~EndFails(tb, i, outcome, reason, now)
    PROVE  OneOwner(End(tb, i, outcome, reason, now, cutoff))
<1> DEFINE row == [tb[i] EXCEPT !.state = outcome, !.token = None, !.lease = None,
                                !.reason = reason, !.dedup = None,
                                !.dedupTtl = None, !.succ = None, !.finished = now]
           ended == Ended(tb, i, outcome, reason, now)
           s == tb[i].succ
           handed == WithSuccessor(ended, s, now)
           end == End(tb, i, outcome, reason, now, cutoff)
<1>0. tb[i] \in Row
  BY TableByRows DEF RowOK
<1>1. Id(row) = None /\ Id(None) = None
  BY <1>0 DEF Id, Row
<1>2. ended = [tb EXCEPT ![i] = IF Removes(tb[i].work, outcome) THEN None ELSE row]
  BY DEF Ended
<1> HIDE DEF row, ended
<1>3. Sheds(tb, ended)
  <2>1. \A new \in {None, row} : Sheds(tb, [tb EXCEPT ![i] = new])
    <3> HIDE DEF Id
    <3> QED BY <1>1, WriteSheds
  <2> QED BY <1>2, <2>1
<1>4. TableOK(ended) /\ OneOwner(ended)
  BY <1>3, EndedOK, ShedsOwners DEF ended
<1>5. s # None => s.id \in JobIds /\ s.work \in Work
  <2>1. s \in Successor \cup {None}
    BY <1>0 DEF Row
  <2> QED BY <2>1 DEF Successor
<1>6. s # None => ~InsertFails(ended, s.id, s.work)
  BY DEF EndFails, SuccessorFails, ended
<1> HIDE DEF s
<1>7. OneOwner(handed)
  BY <1>4, <1>5, <1>6, InsertOwners DEF WithSuccessor
<1>8. TableOK(handed)
  BY <1>4, <1>5, InsertedOK DEF WithSuccessor
<1> HIDE DEF handed
<1>9. end = Retained(handed, tb[i].work, outcome, cutoff)
  BY DEF End, ended, s, handed
<1> HIDE DEF end
<1>10. \A j \in JobIds : end[j] \in {None, handed[j]}
  BY <1>8, <1>9, RetainedFrame
<1>11. Sheds(handed, end)
  BY <1>1, <1>10 DEF Sheds
<1>12. OneOwner(end)
  BY <1>7, <1>11, ShedsOwners
<1> QED BY <1>12 DEF end

-----------------------------------------------------------------------------
(* Each step of the queue.                                                 *)

(* An enqueue frees ids that expired, and then inserts or joins.           *)
LEMMA EnqueueOwners ==
    ASSUME DInv, NEW x \in Work, NEW i \in JobIds, Enqueue(x, i)
    PROVE  OneOwner(jobs')
<1> DEFINE d == Opt[x].dedup
           released == IF d = None THEN jobs ELSE ReleaseExpiredDedup(jobs, d)
           owners == IF d = None THEN {} ELSE Owners(released, d)
           joined == [k \in JobIds |-> IF k \in owners
                         THEN JoinOwner(released[k], i, x) ELSE released[k]]
<1>0. TableOK(jobs) /\ clock \in Nat /\ OneOwner(jobs)
  BY DEF DInv, IInv, TypeOK
<1>1. TableOK(released)
  BY <1>0, ReleaseExpiredDedupOK
<1>2. OneOwner(released)
  <2>1. CASE d = None
    BY <1>0, <2>1
  <2>2. CASE d # None
    <3>1. ASSUME NEW j \in JobIds
          PROVE  Id(released[j]) \in {Id(jobs[j]), None}
      <4> DEFINE r == [jobs[j] EXCEPT !.dedup = None, !.dedupTtl = None]
      <4>1. \/ released[j] = jobs[j]
            \/ jobs[j] # None /\ released[j] = r
        BY <2>2 DEF ReleaseExpiredDedup, Owners, Present
      <4>2. jobs[j] # None => r.dedup = None
        BY <1>0, TableByRows DEF RowOK, Row
      <4> HIDE DEF r, released
      <4> QED BY <4>1, <4>2 DEF Id
    <3>2. Sheds(jobs, released)
      BY <3>1 DEF Sheds
    <3> QED BY <1>0, <3>2, ShedsOwners
  <2> QED BY <2>1, <2>2
<1> HIDE DEF released
<1>3. CASE jobs' = joined
  <2>1. ASSUME NEW j \in owners
        PROVE  Id(JoinOwner(released[j], i, x)) = Id(released[j])
    <3>1. /\ j \in JobIds /\ released[j] # None /\ released[j].state \in Live
          /\ released[j].dedup = Opt[x].dedup
      BY DEF Owners, Present
    <3>2. RowOK(released[j])
      BY <1>1, <3>1, TableByRows
    <3> QED BY <3>1, <3>2, JoinOwnerId
  <2>2. Sheds(released, joined)
    <3> HIDE DEF owners, Id
    <3> QED BY <2>1 DEF Sheds
  <2> QED BY <1>2, <1>3, <2>2, ShedsOwners
<1>4. CASE ~InsertFails(released, i, x) /\ jobs' = Inserted(released, i, x, clock)
  BY <1>0, <1>1, <1>2, <1>4, InsertOwners
<1>5. CASE UNCHANGED table
  BY <1>0, <1>5 DEF table
<1> QED BY <1>3, <1>4, <1>5 DEF Enqueue, released

(* A row of a recovery keeps its id, or hands it to its successor.         *)
LEMMA RecoverRowOwners ==
    ASSUME DInv, NEW w \in Workers, RecoverRow(w)
    PROVE  OneOwner(draft')
<1>0. /\ recovering # None /\ TableOK(draft) /\ clock \in Nat /\ OneOwner(draft)
  BY NoneAssumption DEF RecoverRow, DInv, IInv, TypeOK
<1>1. PICK i \in batch :
        \/ draft' = [draft EXCEPT ![i] =
                        [BackToPending(draft[i]) EXCEPT !.stalled = @ + 1]]
        \/ /\ ~EndFails(draft, i, "failed", "stalled", clock)
           /\ \E cutoff \in 0..clock :
                 draft' = End(draft, i, "failed", "stalled", clock, cutoff)
  BY DEF RecoverRow
<1>2. i \in JobIds /\ draft[i] # None /\ draft[i].state = "active"
  BY <1>0 DEF DInv, IInv, TypeOK, DraftAgrees
<1>3. RowOK(draft[i])
  BY <1>0, <1>2, TableByRows
<1>4. CASE draft' = [draft EXCEPT ![i] =
                       [BackToPending(draft[i]) EXCEPT !.stalled = @ + 1]]
  <2> DEFINE row == [BackToPending(draft[i]) EXCEPT !.stalled = @ + 1]
  <2>1. Id(row) = Id(draft[i])
    BY <1>2, <1>3, BackToPendingId
  <2> HIDE DEF row
  <2>2. Sheds(draft, [draft EXCEPT ![i] = row])
    BY <1>0, <1>2, <2>1, WriteSheds
  <2> QED BY <1>0, <1>4, <2>2, ShedsOwners DEF row
<1>5. CASE /\ ~EndFails(draft, i, "failed", "stalled", clock)
           /\ \E cutoff \in 0..clock :
                 draft' = End(draft, i, "failed", "stalled", clock, cutoff)
  BY <1>0, <1>2, <1>5, EndOwners
<1> QED BY <1>1, <1>4, <1>5

(* A statement of a worker on the row it claimed does the same.            *)
LEMMA WorkerOwners ==
    ASSUME DInv, NEW w \in Workers, Release(w) \/ Complete(w) \/ Fail(w)
    PROVE  OneOwner(jobs')
<1> DEFINE i == held[w].id
           tb == CountFailure(jobs, i)
<1>0. /\ TypeOK /\ TableOK(jobs) /\ clock \in Nat /\ OneOwner(jobs)
      /\ held[w] # None /\ i \in JobIds
  <2>1. held[w] # None
    BY DEF DInv, IInv, TypeOK, Release, Complete, Fail
  <2> QED BY <2>1, HeldTypes DEF DInv, IInv, TypeOK
<1>1. CASE jobs' = jobs
  BY <1>0, <1>1
<1>2. CASE ~Fenced(w)
  BY <1>1, <1>2 DEF Release, Complete, Fail, table
<1>3. ASSUME Fenced(w)
      PROVE  RowOK(jobs[i]) /\ jobs[i] # None /\ jobs[i].state = "active"
  BY <1>0, <1>3, TableByRows DEF Fenced
<1>4. CASE Fenced(w) /\ Release(w)
  <2>1. Id(BackToPending(jobs[i])) = Id(jobs[i])
    BY <1>3, <1>4, BackToPendingId
  <2> HIDE DEF BackToPending, Id
  <2>2. Sheds(jobs, [jobs EXCEPT ![i] = BackToPending(jobs[i])])
    BY <1>0, <2>1, WriteSheds
  <2>3. jobs' = [jobs EXCEPT ![i] = BackToPending(jobs[i])]
    BY <1>4 DEF Release
  <2> QED BY <1>0, <2>2, <2>3, ShedsOwners
<1>5. CASE Fenced(w) /\ Complete(w)
  <2>1. CASE UNCHANGED table
    BY <1>1, <2>1 DEF table
  <2>2. CASE /\ ~EndFails(jobs, i, "completed", None, clock)
             /\ \E cutoff \in 0..clock :
                   jobs' = End(jobs, i, "completed", None, clock, cutoff)
    BY <1>0, <1>3, <1>5, <2>2, EndOwners
  <2> QED BY <1>5, <2>1, <2>2 DEF Complete
<1>6. CASE Fenced(w) /\ Fail(w)
  <2>1. TableOK(tb) /\ tb[i] # None /\ RowOK(tb[i]) /\ tb[i].state = "active"
    BY <1>0, <1>6, CountFailureOK
  <2>2. OneOwner(tb)
    <3> DEFINE c == [jobs[i] EXCEPT !.fails = @ + 1]
    <3>1. tb[i] = c /\ tb = [jobs EXCEPT ![i] = c]
      BY <1>0, TableByRows DEF CountFailure
    <3>2. c.dedup = jobs[i].dedup /\ c.state = jobs[i].state
      BY <1>3, <1>6 DEF RowOK, Row
    <3> HIDE DEF c, tb
    <3>3. Id(c) = Id(jobs[i])
      BY <1>3, <1>6, <2>1, <3>1, <3>2 DEF Id
    <3>4. Sheds(jobs, [jobs EXCEPT ![i] = c])
      BY <1>0, <3>3, WriteSheds
    <3> QED BY <1>0, <3>1, <3>4, ShedsOwners
  <2> HIDE DEF tb
  <2>3. CASE UNCHANGED table
    BY <1>1, <2>3 DEF table
  <2>4. CASE jobs' = [tb EXCEPT ![i] = Retried(tb[i])]
    <3>1. Id(Retried(tb[i])) = Id(tb[i])
      BY <2>1, RetriedId
    <3> HIDE DEF Retried, Id
    <3>2. Sheds(tb, [tb EXCEPT ![i] = Retried(tb[i])])
      BY <1>0, <2>1, <3>1, WriteSheds
    <3> QED BY <2>2, <2>4, <3>2, ShedsOwners
  <2>5. CASE /\ ~EndFails(tb, i, "failed", "error", clock)
             /\ \E cutoff \in 0..clock :
                   jobs' = End(tb, i, "failed", "error", clock, cutoff)
    BY <1>0, <2>1, <2>2, <2>5, EndOwners
  <2> QED BY <1>6, <2>3, <2>4, <2>5 DEF Fail, tb
<1> QED BY <1>2, <1>4, <1>5, <1>6

(* A lease that is renewed and a deadline that passes free no id.          *)
LEMMA TimeOwners ==
    ASSUME DInv, \/ \E w \in Workers : Heartbeat(w)
                 \/ \E i \in JobIds : Time(i)
    PROVE  OneOwner(jobs')
<1>0. TableOK(jobs) /\ jobs \in [JobIds -> Row \cup {None}] /\ OneOwner(jobs)
  BY TableByRows DEF DInv, IInv, TypeOK
<1>1. ASSUME NEW j \in JobIds
      PROVE  Id(jobs'[j]) \in {Id(jobs[j]), None}
  <2>1. CASE jobs'[j] = jobs[j]
    BY <2>1
  <2>2. ASSUME jobs'[j] # jobs[j]
        PROVE  /\ jobs[j] # None
               /\ \/ jobs'[j] = [jobs[j] EXCEPT !.due = TRUE]
                  \/ jobs'[j] = [jobs[j] EXCEPT !.lease = "over"]
                  \/ jobs'[j] = [jobs[j] EXCEPT !.lease = "running"]
                  \/ jobs'[j] = [jobs[j] EXCEPT !.dedupTtl = "over"]
    BY <1>0, <2>2 DEF Heartbeat, Fenced, Time, BecomesDue, LeaseRunsOut,
                      DedupRunsOut, InState, Present
  <2>3. CASE jobs'[j] # jobs[j]
    <3>1. jobs[j] \in Row
      BY <1>0, <2>2, <2>3
    <3>2. jobs'[j].state = jobs[j].state /\ jobs'[j].dedup = jobs[j].dedup
      BY <2>2, <2>3, <3>1 DEF Row
    <3> QED BY <2>2, <2>3, <3>2 DEF Id
  <2> QED BY <2>1, <2>3
<1>2. Sheds(jobs, jobs')
  BY <1>1 DEF Sheds
<1> QED BY <1>0, <1>2, ShedsOwners

(* A claim leaves every row its id, whether its reply arrives or not.      *)
LEMMA ClaimOwners ==
    ASSUME DInv, NEW i \in Claimable, NEW k \in Tokens
    PROVE  OneOwner([jobs EXCEPT ![i] = Claimed(jobs[i], k)])
<1> DEFINE row == Claimed(jobs[i], k)
<1>0. TableOK(jobs) /\ OneOwner(jobs)
  BY DEF DInv, IInv, TypeOK
<1>1. i \in JobIds /\ jobs[i] # None /\ jobs[i].state = "pending"
  BY DEF Claimable, Due, InState, Present
<1>2. Id(row) = Id(jobs[i])
  BY <1>0, <1>1, TableByRows, ClaimedId
<1> HIDE DEF row
<1>3. Sheds(jobs, [jobs EXCEPT ![i] = row])
  BY <1>0, <1>1, <1>2, WriteSheds
<1>4. OneOwner([jobs EXCEPT ![i] = row])
  BY <1>0, <1>3, ShedsOwners
<1> QED BY <1>4 DEF row

(* Every step leaves each id of the table one owner.                       *)
LEMMA JobsOwners ==
    ASSUME DInv, [Next]_vars
    PROVE  OneOwner(jobs')
<1>0. OneOwner(jobs)
  BY DEF DInv
<1>1. CASE UNCHANGED jobs
  BY <1>0, <1>1
<1>2. ASSUME NEW x \in Work, NEW i \in JobIds, Enqueue(x, i)
      PROVE  OneOwner(jobs')
  BY <1>2, EnqueueOwners
<1>3. CASE Clear
  BY <1>3 DEF Clear, EmptyTable, OneOwner, Id
<1>4. ASSUME NEW w \in Workers, Turn(w)
      PROVE  OneOwner(jobs')
  <2>1. CASE RecoverBegin(w) \/ RecoverRow(w) \/ RecoverFails(w)
    BY <1>1, <2>1 DEF RecoverBegin, RecoverRow, RecoverFails, table
  <2>2. CASE RecoverCommit(w)
    BY <2>2 DEF RecoverCommit, DInv
  <2>3. CASE Claim(w)
    <3>1. PICK i \in Claimable, k \in Tokens \ TokensKnown :
             jobs' = [jobs EXCEPT ![i] = Claimed(jobs[i], k)]
      BY <2>3 DEF Claim
    <3>2. OneOwner([jobs EXCEPT ![i] = Claimed(jobs[i], k)])
      BY ClaimOwners
    <3> QED BY <3>1, <3>2
  <2>4. CASE ClaimNothing(w) \/ SeesShutdown(w) \/ Exit(w)
    BY <1>1, <2>4 DEF ClaimNothing, SeesShutdown, Exit, table
  <2>5. CASE Release(w) \/ Complete(w) \/ Fail(w)
    BY <2>5, WorkerOwners
  <2> QED BY <1>4, <2>1, <2>2, <2>3, <2>4, <2>5 DEF Turn
<1>5. ASSUME NEW w \in Workers, Processor(w)
      PROVE  OneOwner(jobs')
  BY <1>1, <1>5 DEF Processor, ProcessorEnds, ProcessorTimesOut, table
<1>6. ASSUME NEW w \in Workers, Heartbeat(w)
      PROVE  OneOwner(jobs')
  BY <1>6, TimeOwners
<1>7. ASSUME NEW w \in Workers, Fault(w)
      PROVE  OneOwner(jobs')
  <2>1. CASE Shutdown(w) \/ Crash(w) \/ StatementFails(w)
    BY <1>1, <2>1 DEF Shutdown, Crash, StatementFails, table
  <2>2. CASE ClaimReplyLost(w)
    <3>1. PICK i \in Claimable, k \in Tokens \ TokensKnown :
             jobs' = [jobs EXCEPT ![i] = Claimed(jobs[i], k)]
      BY <2>2 DEF ClaimReplyLost
    <3>2. OneOwner([jobs EXCEPT ![i] = Claimed(jobs[i], k)])
      BY ClaimOwners
    <3> QED BY <3>1, <3>2
  <2> QED BY <1>7, <2>1, <2>2 DEF Fault
<1>8. ASSUME NEW w \in Workers,
             Start(w) \/ \E n \in Names : Process(w, n)
      PROVE  OneOwner(jobs')
  BY <1>1, <1>8 DEF Start, Process, table
<1>9. ASSUME NEW i \in JobIds, Time(i)
      PROVE  OneOwner(jobs')
  BY <1>9, TimeOwners
<1>10. CASE UNCHANGED vars
  BY <1>1, <1>10 DEF vars
<1> QED BY <1>2, <1>3, <1>4, <1>5, <1>6, <1>7, <1>8, <1>9, <1>10 DEF Next

(* And of the draft, which begins as the table and ends empty.             *)
LEMMA DraftOwners ==
    ASSUME DInv, [Next]_vars
    PROVE  OneOwner(draft')
<1>1. CASE draft' \in {draft, jobs, EmptyTable}
  BY <1>1 DEF DInv, OneOwner, Id, EmptyTable
<1>2. ASSUME NEW w \in Workers, Turn(w)
      PROVE  OneOwner(draft')
  <2>1. CASE RecoverRow(w)
    BY <2>1, RecoverRowOwners
  <2>2. CASE RecoverBegin(w) \/ RecoverFails(w) \/ RecoverCommit(w)
    BY <1>1, <2>2 DEF RecoverBegin, RecoverFails, RecoverCommit
  <2>3. CASE Claim(w) \/ ClaimNothing(w) \/ Release(w) \/ Complete(w) \/ Fail(w)
             \/ SeesShutdown(w) \/ Exit(w)
    BY <1>1, <2>3 DEF Claim, ClaimNothing, Release, Complete, Fail,
                      SeesShutdown, Exit, txn
  <2> QED BY <1>2, <2>1, <2>2, <2>3 DEF Turn
<1>3. ASSUME NEW w \in Workers, Fault(w)
      PROVE  OneOwner(draft')
  BY <1>1, <1>3 DEF Fault, Shutdown, Crash, StatementFails, ClaimReplyLost,
                    Rollback, txn
<1>4. ASSUME NEW w \in Workers,
             \/ Processor(w) \/ Heartbeat(w) \/ Start(w)
             \/ \E n \in Names : Process(w, n)
      PROVE  OneOwner(draft')
  BY <1>1, <1>4 DEF Processor, ProcessorEnds, ProcessorTimesOut, Heartbeat,
                    Start, Process, txn
<1>5. CASE Clear \/ (\E x \in Work, i \in JobIds : Enqueue(x, i))
           \/ (\E i \in JobIds : Time(i))
  BY <1>1, <1>5 DEF Clear, Enqueue, Time, BecomesDue, LeaseRunsOut, DedupRunsOut, txn
<1>6. CASE UNCHANGED vars
  BY <1>1, <1>6 DEF vars
<1> QED BY <1>2, <1>3, <1>4, <1>5, <1>6 DEF Next

(* At most one live job has a deduplication id, whatever expires, is       *)
(* extended, replaced or handed to a successor in the middle of a recovery *)
(* (store.rs, deduplication.rs, lifecycle.rs).                             *)
THEOREM OneLiveOwner == Spec => []DedupUnique
<1>1. Init => DInv
  BY InitIInv DEF Init, EmptyTable, DInv, OneOwner, Id
<1>2. DInv /\ [Next]_vars => DInv'
  BY TypeNext, DraftNext, ClaimsNext, JobsOwners, DraftOwners DEF DInv, IInv
<1>3. DInv => DedupUnique
  BY DEF DInv, OneOwner, Id, DedupUnique, Present
<1> QED BY <1>1, <1>2, <1>3, PTL DEF Spec

-----------------------------------------------------------------------------
(* Pending work and kept requests.                                         *)

(* A kept request is stored in the new table, unless its id was in the old *)
(* one.                                                                    *)
Stored(old, new, s) ==
    old[s.id] # None \/ (new[s.id] # None /\ new[s.id].work = s.work)

(* What an open recovery transaction has done to row i of the table.       *)
Carried(old, new, i) ==
    /\ old[i] # None /\ old[i].state = "pending" => new[i] = old[i]
    /\ old[i] = None /\ new[i] # None => new[i].state = "pending"
    /\ old[i] # None /\ old[i].succ # None =>
          \/ new[i] # None /\ new[i].succ = old[i].succ
          \/ Stored(old, new, old[i].succ)

DraftCarries ==
    recovering # None => \A i \in JobIds : Carried(jobs, draft, i)

SInv == IInv /\ DraftCarries

(* The types of a row and of its successor.                                *)
LEMMA SuccessorTypes ==
    ASSUME NEW row, RowOK(row), row.succ # None
    PROVE  /\ row.succ.id \in JobIds /\ row.succ.work \in Work
           /\ row.state \in Live
<1>1. row.succ \in Successor /\ row.state \in Live \cup Terminal
  BY DEF RowOK, Row
<1>2. row.state \notin Terminal
  BY DEF RowOK, RowChecks
<1> QED BY <1>1, <1>2 DEF Successor

(* The end of active row i leaves pending rows as they are.                *)
LEMMA EndPending ==
    ASSUME NEW tb, TableOK(tb), NEW i \in JobIds, tb[i] # None,
           tb[i].state = "active",
           NEW outcome \in Terminal, NEW reason \in {"error", "stalled", None},
           NEW now \in Nat, NEW cutoff, NEW j \in JobIds,
           tb[j] # None, tb[j].state = "pending"
    PROVE  End(tb, i, outcome, reason, now, cutoff)[j] = tb[j]
<1> DEFINE ended == Ended(tb, i, outcome, reason, now)
           s == tb[i].succ
           handed == WithSuccessor(ended, s, now)
<1>0. j # i /\ RowOK(tb[i])
  BY TableByRows
<1>1. ended[j] = tb[j]
  BY <1>0, TableByRows DEF Ended
<1>2. TableOK(ended)
  BY EndedOK
<1>3. s # None => s.id \in JobIds /\ s.work \in Work
  BY <1>0, SuccessorTypes
<1> HIDE DEF ended, s
<1>4. handed[j] = tb[j]
  BY <1>1, <1>2, <1>3, TableByRows DEF WithSuccessor, Inserted
<1>5. TableOK(handed)
  BY <1>2, <1>3, InsertedOK DEF WithSuccessor
<1> HIDE DEF handed
<1>6. Retained(handed, tb[i].work, outcome, cutoff)[j] = tb[j]
  BY <1>4, <1>5, RetainedFrame
<1> QED BY <1>6 DEF End, ended, s, handed

(* And stores the request it kept, unless that id is in use for a result.  *)
LEMMA EndHands ==
    ASSUME NEW tb, TableOK(tb), NEW i \in JobIds, tb[i] # None,
           tb[i].state = "active",
           NEW outcome \in Terminal, NEW reason \in {"error", "stalled", None},
           NEW now \in Nat, NEW cutoff,
           ~EndFails(tb, i, outcome, reason, now),
           NEW s, s = tb[i].succ, s # None,
           tb[s.id] = None \/ tb[s.id].state = "pending",
           NEW end, end = End(tb, i, outcome, reason, now, cutoff)
    PROVE  end[s.id] # None /\ end[s.id].work = s.work
<1> DEFINE ended == Ended(tb, i, outcome, reason, now)
           handed == WithSuccessor(ended, s, now)
<1>0. RowOK(tb[i]) /\ s.id \in JobIds /\ s.work \in Work /\ s.id # i
  BY TableByRows, SuccessorTypes
<1>1. ended[s.id] = tb[s.id]
  BY <1>0, TableByRows DEF Ended
<1>2. TableOK(ended)
  BY EndedOK
<1>3. ~InsertFails(ended, s.id, s.work)
  BY DEF EndFails, SuccessorFails
<1> HIDE DEF ended
<1>4. CASE tb[s.id] = None
  <2> DEFINE row == NewRow(s.work, now)
  <2>1. RowOK(row) /\ row.state = "pending" /\ row.work = s.work
    <3>1. RowOK(row)
      BY <1>0, NewRowOK
    <3> QED BY <3>1 DEF NewRow
  <2> HIDE DEF row
  <2>2. handed = [ended EXCEPT ![s.id] = row]
    BY <1>1, <1>4 DEF WithSuccessor, Inserted, row
  <2>3. handed[s.id] = row
    BY <1>0, <1>2, <2>2, TableByRows
  <2>4. TableOK(handed)
    BY <1>0, <1>2, InsertedOK DEF WithSuccessor
  <2>5. row # None
    BY <2>1, NoneAssumption DEF RowOK
  <2> HIDE DEF handed
  <2>6. Retained(handed, tb[i].work, outcome, cutoff)[s.id] = row
    BY <1>0, <2>1, <2>3, <2>4, <2>5, RetainedFrame
  <2>7. end[s.id] = row
    BY <2>6 DEF End, ended, handed
  <2> QED BY <2>1, <2>5, <2>7
<1>5. CASE tb[s.id] # None
  <2>1. tb[s.id].work = s.work
    BY <1>1, <1>3, <1>5 DEF InsertFails
  <2>2. end[s.id] = tb[s.id]
    BY <1>0, <1>5, EndPending
  <2> QED BY <1>5, <2>1, <2>2
<1> QED BY <1>4, <1>5

(* A row of the draft that is ended, or only written, carries the table on.*)
LEMMA EndCarries ==
    ASSUME NEW old, TableOK(old), NEW tb, TableOK(tb),
           \A j \in JobIds : Carried(old, tb, j),
           NEW i \in JobIds, tb[i] # None, tb[i].state = "active", tb[i] = old[i],
           NEW outcome \in Terminal, NEW reason \in {"error", "stalled", None},
           NEW now \in Nat, NEW cutoff,
           ~EndFails(tb, i, outcome, reason, now),
           NEW end, end = End(tb, i, outcome, reason, now, cutoff),
           NEW j \in JobIds
    PROVE  Carried(old, end, j)
<1>1. ASSUME NEW k \in JobIds, tb[k] # None, tb[k].state = "pending"
      PROVE  end[k] = tb[k]
  BY <1>1, EndPending
<1>2. ASSUME old[j] # None, old[j].state = "pending"
      PROVE  end[j] = old[j]
  BY <1>1, <1>2 DEF Carried
<1>3. ASSUME old[j] = None, end[j] # None
      PROVE  end[j].state = "pending"
  <2>1. end[j] = tb[j] \/ \E x \in Work : end[j] = NewRow(x, now)
    BY <1>3, EndRows
  <2>2. CASE end[j] = tb[j]
    BY <1>3, <2>2 DEF Carried
  <2>3. CASE \E x \in Work : end[j] = NewRow(x, now)
    BY <2>3 DEF NewRow
  <2> QED BY <2>1, <2>2, <2>3
<1>4. ASSUME old[j] # None, old[j].succ # None
      PROVE  \/ end[j] # None /\ end[j].succ = old[j].succ
             \/ Stored(old, end, old[j].succ)
  <2> DEFINE s == old[j].succ
  <2>1. s.id \in JobIds /\ s.work \in Work
    BY <1>4, TableByRows, SuccessorTypes
  <2>2. CASE old[s.id] # None
    BY <2>2 DEF Stored
  <2>3. CASE old[s.id] = None
    <3>1. tb[s.id] = None \/ tb[s.id].state = "pending"
      BY <2>1, <2>3 DEF Carried
    <3>2. CASE tb[j] # None /\ tb[j].succ = s /\ j = i
      <4>1. end[s.id] # None /\ end[s.id].work = s.work
        BY <1>4, <3>1, <3>2, EndHands
      <4> QED BY <4>1 DEF Stored
    <3>3. CASE tb[j] # None /\ tb[j].succ = s /\ j # i
      <4>1. tb[j].state \in Live
        BY <1>4, <3>3, TableByRows, SuccessorTypes
      <4>2. tb[j].state = "active" => end[j] = tb[j]
        BY <3>3, EndFrame
      <4>3. end[j] = tb[j]
        BY <1>1, <3>3, <4>1, <4>2
      <4> QED BY <3>3, <4>3
    <3>4. CASE Stored(old, tb, s)
      <4>1. tb[s.id] # None /\ tb[s.id].work = s.work
        BY <2>3, <3>4 DEF Stored
      <4>2. end[s.id] = tb[s.id]
        BY <1>1, <2>1, <3>1, <4>1
      <4> QED BY <4>1, <4>2 DEF Stored
    <3> QED BY <1>4, <3>2, <3>3, <3>4 DEF Carried
  <2> QED BY <2>2, <2>3
<1> QED BY <1>2, <1>3, <1>4 DEF Carried

(* A recovery step carries the table on.                                   *)
LEMMA RecoverRowCarries ==
    ASSUME SInv, NEW w \in Workers, RecoverRow(w), NEW j \in JobIds
    PROVE  Carried(jobs, draft', j)
<1>0. /\ recovering # None /\ TableOK(jobs) /\ TableOK(draft) /\ clock \in Nat
      /\ \A k \in JobIds : Carried(jobs, draft, k)
  BY NoneAssumption DEF RecoverRow, SInv, IInv, TypeOK, DraftCarries
<1>1. PICK i \in batch :
        \/ draft' = [draft EXCEPT ![i] =
                        [BackToPending(draft[i]) EXCEPT !.stalled = @ + 1]]
        \/ /\ ~EndFails(draft, i, "failed", "stalled", clock)
           /\ \E cutoff \in 0..clock :
                 draft' = End(draft, i, "failed", "stalled", clock, cutoff)
  BY DEF RecoverRow
<1>2. /\ i \in JobIds /\ draft[i] # None /\ draft[i].state = "active"
      /\ draft[i] = jobs[i]
  BY <1>0 DEF SInv, IInv, TypeOK, DraftAgrees
<1>3. CASE draft' = [draft EXCEPT ![i] =
                       [BackToPending(draft[i]) EXCEPT !.stalled = @ + 1]]
  <2> DEFINE b == BackToPending(draft[i])
             row == [b EXCEPT !.stalled = @ + 1]
  <2>1. RowOK(draft[i])
    BY <1>0, <1>2, TableByRows
  <2>2. RowOK(b)
    BY <1>2, <2>1, BackToPendingOK
  <2>3. b.succ = draft[i].succ
    BY <2>1 DEF BackToPending, RowOK, Row
  <2> HIDE DEF b
  <2>4. row \in Row /\ row.succ = b.succ
    BY <2>2 DEF RowOK, Row
  <2>5. row # None
    BY <2>4, NoneAssumption
  <2> HIDE DEF row
  <2>6. draft'[i] = row /\ \A k \in JobIds \ {i} : draft'[k] = draft[k]
    BY <1>0, <1>2, <1>3, TableByRows DEF row, b
  <2>7. CASE j = i
    BY <1>2, <2>3, <2>4, <2>5, <2>6, <2>7 DEF Carried
  <2>8. CASE j # i
    <3>1. draft'[j] = draft[j]
      BY <2>6, <2>8
    <3>2. ASSUME jobs[j] # None, jobs[j].succ # None,
                 Stored(jobs, draft, jobs[j].succ)
          PROVE  Stored(jobs, draft', jobs[j].succ)
      <4>1. jobs[j].succ.id \in JobIds
        BY <1>0, <3>2, TableByRows, SuccessorTypes
      <4> QED BY <1>2, <2>6, <3>2, <4>1 DEF Stored
    <3> QED BY <1>0, <3>1, <3>2 DEF Carried
  <2> QED BY <2>7, <2>8
<1>4. CASE /\ ~EndFails(draft, i, "failed", "stalled", clock)
           /\ \E cutoff \in 0..clock :
                 draft' = End(draft, i, "failed", "stalled", clock, cutoff)
  <2>1. PICK cutoff \in 0..clock :
          draft' = End(draft, i, "failed", "stalled", clock, cutoff)
    BY <1>4
  <2> QED BY <1>0, <1>2, <1>4, <2>1, EndCarries
<1> QED BY <1>1, <1>3, <1>4

(* The transaction begins with the table, and the table waits for it.      *)
LEMMA DraftCarriesNext == SInv /\ [Next]_vars => DraftCarries'
<1> SUFFICES ASSUME SInv, [Next]_vars PROVE DraftCarries'
  OBVIOUS
<1>1. CASE recovering' = None
  BY <1>1 DEF DraftCarries
<1>2. CASE UNCHANGED <<recovering, draft, jobs>>
  BY <1>2 DEF DraftCarries, SInv, Carried, Stored
<1>3. CASE recovering = None /\ UNCHANGED txn
  BY <1>1, <1>3 DEF txn
<1>4. CASE Clear \/ (\E x \in Work, i \in JobIds : Enqueue(x, i))
           \/ (\E i \in JobIds : Time(i))
  BY <1>3, <1>4 DEF Clear, Enqueue, Time, BecomesDue, LeaseRunsOut, DedupRunsOut
<1>5. ASSUME NEW w \in Workers, Turn(w)
      PROVE  DraftCarries'
  <2>1. CASE RecoverBegin(w)
    <3>1. jobs' = jobs /\ draft' = jobs
      BY <2>1 DEF RecoverBegin, table
    <3> QED BY <3>1 DEF DraftCarries, Carried, Stored
  <2>2. CASE RecoverRow(w)
    <3>1. jobs' = jobs
      BY <2>2 DEF RecoverRow, table
    <3>2. \A j \in JobIds : Carried(jobs, draft', j)
      BY <2>2, RecoverRowCarries
    <3> QED BY <3>1, <3>2 DEF DraftCarries, Carried, Stored
  <2>3. CASE RecoverFails(w) \/ RecoverCommit(w)
    BY <1>1, <2>3 DEF RecoverFails, RecoverCommit
  <2>4. CASE Claim(w) \/ ClaimNothing(w) \/ Release(w) \/ Complete(w) \/ Fail(w)
    BY <1>3, <2>4 DEF Claim, ClaimNothing, Release, Complete, Fail
  <2>5. CASE SeesShutdown(w) \/ Exit(w)
    BY <1>2, <2>5 DEF SeesShutdown, Exit, table, txn
  <2> QED BY <1>5, <2>1, <2>2, <2>3, <2>4, <2>5 DEF Turn
<1>6. ASSUME NEW w \in Workers,
             Processor(w) \/ Start(w) \/ \E n \in Names : Process(w, n)
      PROVE  DraftCarries'
  BY <1>2, <1>6 DEF Processor, ProcessorEnds, ProcessorTimesOut, Start, Process,
                    table, txn
<1>7. ASSUME NEW w \in Workers, Heartbeat(w)
      PROVE  DraftCarries'
  BY <1>3, <1>7 DEF Heartbeat
<1>8. ASSUME NEW w \in Workers, Fault(w)
      PROVE  DraftCarries'
  <2>1. CASE Shutdown(w)
    BY <1>2, <2>1 DEF Shutdown, table, txn
  <2>2. CASE Crash(w) \/ StatementFails(w)
    BY <1>1, <1>2, <2>2 DEF Crash, StatementFails, Rollback, table, txn
  <2>3. CASE ClaimReplyLost(w)
    BY <1>3, <2>3 DEF ClaimReplyLost
  <2> QED BY <1>8, <2>1, <2>2, <2>3 DEF Fault
<1>9. CASE UNCHANGED vars
  BY <1>2, <1>9 DEF vars
<1> QED BY <1>4, <1>5, <1>6, <1>7, <1>8, <1>9 DEF Next

-----------------------------------------------------------------------------
(* What one step does to one row of the table.                             *)

Requested == enqueues' # enqueues

(* What WorkSurvives says of row i.                                        *)
RowSurvives(i) ==
    /\ jobs[i].state = "pending" =>
          /\ jobs'[i] # None
          /\ jobs'[i].work = jobs[i].work \/ Requested
    /\ jobs[i].succ # None =>
          \/ jobs'[i] # None /\ jobs'[i].succ = jobs[i].succ
          \/ jobs'[i] # None /\ jobs'[i].succ # None /\ Requested
          \/ jobs[jobs[i].succ.id] # None
          \/ /\ jobs'[jobs[i].succ.id] # None
             /\ jobs'[jobs[i].succ.id].work = jobs[i].succ.work

TableSurvives == \A i \in Present(jobs) : RowSurvives(i)

NothingDeleted == \A i \in Present(jobs) : jobs'[i] # None

(* A table that carries the old one on loses nothing.                      *)
LEMMA CarriedSurvives ==
    ASSUME NEW i \in JobIds, jobs[i] # None, Carried(jobs, jobs', i)
    PROVE  RowSurvives(i)
BY DEF Carried, Stored, RowSurvives

(* Nor does one that keeps the row's work and successor.                   *)
LEMMA SameSurvives ==
    ASSUME NEW i \in JobIds, jobs[i] # None, jobs'[i] # None,
           jobs'[i].work = jobs[i].work, jobs'[i].succ = jobs[i].succ
    PROVE  RowSurvives(i)
BY DEF RowSurvives

(* Writing one row that keeps its work and successor.                      *)
LEMMA WriteSurvives ==
    ASSUME TableOK(jobs), NEW i \in JobIds, NEW row, row # None,
           row.work = jobs[i].work, row.succ = jobs[i].succ,
           jobs' = [jobs EXCEPT ![i] = row]
    PROVE  TableSurvives /\ NothingDeleted
<1> SUFFICES ASSUME NEW j \in JobIds, jobs[j] # None PROVE RowSurvives(j) /\ jobs'[j] # None
  BY DEF TableSurvives, NothingDeleted, Present
<1>1. jobs'[j] = IF j = i THEN row ELSE jobs[j]
  BY TableByRows
<1> QED BY <1>1, SameSurvives

(* An enqueue keeps the work of every row, or replaces that of an owner;   *)
(* a kept request it keeps, or supersedes.                                 *)
LEMMA EnqueueSurvives ==
    ASSUME IInv, NEW x \in Work, NEW i \in JobIds, Enqueue(x, i)
    PROVE  TableSurvives /\ NothingDeleted
<1> DEFINE d == Opt[x].dedup
           released == IF d = None THEN jobs ELSE ReleaseExpiredDedup(jobs, d)
           owners == IF d = None THEN {} ELSE Owners(released, d)
<1> SUFFICES ASSUME NEW j \in JobIds, jobs[j] # None PROVE RowSurvives(j) /\ jobs'[j] # None
  BY DEF TableSurvives, NothingDeleted, Present
<1>0. /\ TableOK(jobs) /\ jobs \in [JobIds -> Row \cup {None}] /\ clock \in Nat
      /\ Requested
  BY TableByRows DEF IInv, TypeOK, Enqueue, Requested
<1>1. TableOK(released)
  BY <1>0, ReleaseExpiredDedupOK
<1>2. released[j] # None /\ released[j].succ = jobs[j].succ
  <2> DEFINE r == [jobs[j] EXCEPT !.dedup = None, !.dedupTtl = None]
  <2>0. jobs[j] \in Row
    BY <1>0
  <2>1. r \in Row /\ r.succ = jobs[j].succ
    BY <2>0 DEF Row
  <2>2. released[j] \in {jobs[j], r}
    BY DEF ReleaseExpiredDedup
  <2> HIDE DEF r, released
  <2> QED BY <2>1, <2>2, NoneAssumption
<1> HIDE DEF released
<1>3. CASE jobs' = [k \in JobIds |-> IF k \in owners
                       THEN JoinOwner(released[k], i, x) ELSE released[k]]
  <2>1. CASE j \in owners
    <3> DEFINE new == JoinOwner(released[j], i, x)
    <3>1. /\ RowOK(released[j])
          /\ released[j].state \in Live /\ released[j].dedup = d
      BY <1>1, <1>2, <2>1, TableByRows DEF Owners, Present
    <3>2. RowOK(new)
      BY <3>1, JoinOwnerOK
    <3>3. new.succ \in {released[j].succ, [id |-> i, work |-> x]}
      BY <3>1 DEF JoinOwner, Row, RowOK
    <3>4. [id |-> i, work |-> x] # None
      BY NoneAssumption DEF Successor
    <3>5. jobs'[j] = new
      BY <1>3, <2>1
    <3> HIDE DEF new
    <3>6. jobs'[j] # None
      BY <3>2, <3>5, NoneAssumption DEF RowOK
    <3> QED BY <1>0, <1>2, <3>3, <3>4, <3>5, <3>6 DEF RowSurvives
  <2>2. CASE j \notin owners
    <3>1. jobs'[j] = released[j]
      BY <1>3, <2>2
    <3> QED BY <1>0, <1>2, <3>1 DEF RowSurvives
  <2> QED BY <2>1, <2>2
<1>4. CASE jobs' = Inserted(released, i, x, clock)
  <2>1. jobs'[j] = released[j]
    BY <1>1, <1>2, <1>4, TableByRows DEF Inserted
  <2> QED BY <1>0, <1>2, <2>1 DEF RowSurvives
<1>5. CASE UNCHANGED table
  BY <1>5, SameSurvives DEF table
<1> QED BY <1>3, <1>4, <1>5 DEF Enqueue, released

(* The end of a job hands its request on and loses no other.               *)
LEMMA EndSurvives ==
    ASSUME TableOK(jobs), NEW tb, TableOK(tb), NEW i \in JobIds,
           jobs[i] # None, tb[i] # None, jobs[i].state = "active",
           tb[i].state = "active", tb[i].succ = jobs[i].succ,
           \A j \in JobIds \ {i} : tb[j] = jobs[j],
           NEW outcome \in Terminal, NEW reason \in {"error", "stalled", None},
           NEW now \in Nat, NEW cutoff,
           ~EndFails(tb, i, outcome, reason, now),
           jobs' = End(tb, i, outcome, reason, now, cutoff)
    PROVE  TableSurvives
<1> SUFFICES ASSUME NEW j \in JobIds, jobs[j] # None PROVE RowSurvives(j)
  BY DEF TableSurvives, Present
<1>1. CASE j = i
  <2> DEFINE s == tb[i].succ
  <2>1. ASSUME s # None, jobs[s.id] = None
        PROVE  jobs'[s.id] # None /\ jobs'[s.id].work = s.work
    <3>1. s.id \in JobIds /\ s.id # i
      BY <2>1, TableByRows, SuccessorTypes
    <3>2. tb[s.id] = None
      BY <2>1, <3>1
    <3> QED BY <2>1, <3>2, EndHands
  <2> QED BY <1>1, <2>1 DEF RowSurvives
<1>2. CASE j # i
  <2>1. tb[j] = jobs[j]
    BY <1>2
  <2>2. tb[j].state = "pending" => jobs'[j] = tb[j]
    BY <2>1, EndPending
  <2>3. tb[j].state = "active" => jobs'[j] = tb[j]
    BY <1>2, <2>1, EndFrame
  <2>4. tb[j].succ # None => tb[j].state \in Live
    BY <2>1, TableByRows, SuccessorTypes
  <2> QED BY <2>1, <2>2, <2>3, <2>4 DEF RowSurvives
<1> QED BY <1>1, <1>2

(* A statement of a worker on the row it claimed, or none at all.          *)
LEMMA WorkerSurvives ==
    ASSUME IInv, NEW w \in Workers, Release(w) \/ Complete(w) \/ Fail(w)
    PROVE  TableSurvives
<1> DEFINE i == held[w].id
           tb == CountFailure(jobs, i)
<1>0. /\ TypeOK /\ TableOK(jobs) /\ clock \in Nat
      /\ held[w] # None /\ i \in JobIds
  <2>1. held[w] # None
    BY DEF IInv, TypeOK, Release, Complete, Fail
  <2> QED BY <2>1, HeldTypes DEF IInv, TypeOK
<1>1. CASE jobs' = jobs
  BY <1>1, SameSurvives DEF TableSurvives, Present
<1>2. CASE ~Fenced(w)
  BY <1>1, <1>2 DEF Release, Complete, Fail, table
<1>3. ASSUME Fenced(w)
      PROVE  RowOK(jobs[i]) /\ jobs[i] # None /\ jobs[i].state = "active"
  BY <1>0, <1>3, TableByRows DEF Fenced
<1>4. CASE Fenced(w) /\ Release(w)
  <2> DEFINE row == BackToPending(jobs[i])
  <2>1. RowOK(row) /\ row # None
    BY <1>3, <1>4, BackToPendingOK, NoneAssumption DEF RowOK
  <2>2. row.work = jobs[i].work /\ row.succ = jobs[i].succ
    BY <1>3, <1>4 DEF BackToPending, RowOK, Row
  <2>3. jobs' = [jobs EXCEPT ![i] = row]
    BY <1>4 DEF Release
  <2> HIDE DEF row
  <2> QED BY <1>0, <2>1, <2>2, <2>3, WriteSurvives
<1>5. CASE Fenced(w) /\ Complete(w)
  <2>1. CASE UNCHANGED table
    BY <1>1, <2>1 DEF table
  <2>2. CASE /\ ~EndFails(jobs, i, "completed", None, clock)
             /\ \E cutoff \in 0..clock :
                   jobs' = End(jobs, i, "completed", None, clock, cutoff)
    <3>1. PICK cutoff \in 0..clock :
            jobs' = End(jobs, i, "completed", None, clock, cutoff)
      BY <2>2
    <3> QED BY <1>0, <1>3, <1>5, <2>2, <3>1, EndSurvives
  <2> QED BY <1>5, <2>1, <2>2 DEF Complete
<1>6. CASE Fenced(w) /\ Fail(w)
  <2> DEFINE c == [jobs[i] EXCEPT !.fails = @ + 1]
  <2>1. /\ TableOK(tb) /\ tb[i] # None /\ RowOK(tb[i]) /\ tb[i].state = "active"
        /\ \A j \in JobIds \ {i} : tb[j] = jobs[j]
    BY <1>0, <1>6, CountFailureOK
  <2>2. tb[i] = c
    BY <1>0, TableByRows DEF CountFailure
  <2>3. c.work = jobs[i].work /\ c.succ = jobs[i].succ
    BY <1>3, <1>6 DEF RowOK, Row
  <2> HIDE DEF c
  <2>4. CASE UNCHANGED table
    BY <1>1, <2>4 DEF table
  <2>5. CASE jobs' = [tb EXCEPT ![i] = Retried(tb[i])]
    <3> DEFINE row == Retried(tb[i])
    <3>1. RowOK(row) /\ row # None
      BY <2>1, RetriedOK, NoneAssumption DEF RowOK
    <3>2. row.work = tb[i].work /\ row.succ = tb[i].succ
      BY <2>1 DEF Retried, RowOK, Row
    <3>3. jobs' = [tb EXCEPT ![i] = row]
      BY <2>5
    <3> HIDE DEF row
    <3>4. jobs' = [jobs EXCEPT ![i] = row]
      BY <3>3 DEF CountFailure
    <3> HIDE DEF tb
    <3> QED BY <1>0, <2>2, <2>3, <3>1, <3>2, <3>4, WriteSurvives
  <2>6. CASE /\ ~EndFails(tb, i, "failed", "error", clock)
             /\ \E cutoff \in 0..clock :
                   jobs' = End(tb, i, "failed", "error", clock, cutoff)
    <3> HIDE DEF tb
    <3>1. tb[i].succ = jobs[i].succ
      BY <2>2, <2>3
    <3>2. PICK cutoff \in 0..clock :
            jobs' = End(tb, i, "failed", "error", clock, cutoff)
      BY <2>6
    <3> QED BY <1>0, <1>3, <1>6, <2>1, <2>6, <3>1, <3>2, EndSurvives
  <2> QED BY <1>6, <2>4, <2>5, <2>6 DEF Fail, tb
<1> QED BY <1>2, <1>4, <1>5, <1>6

(* A renewed lease and a deadline that passes keep work and successor.     *)
LEMMA TimeSurvives ==
    ASSUME IInv, \/ \E w \in Workers : Heartbeat(w)
                 \/ \E i \in JobIds : Time(i)
    PROVE  TableSurvives /\ NothingDeleted
<1> SUFFICES ASSUME NEW j \in JobIds, jobs[j] # None PROVE RowSurvives(j) /\ jobs'[j] # None
  BY DEF TableSurvives, NothingDeleted, Present
<1>0. TableOK(jobs) /\ jobs \in [JobIds -> Row \cup {None}] /\ jobs[j] \in Row
  BY TableByRows DEF IInv, TypeOK
<1>1. CASE jobs'[j] = jobs[j]
  BY <1>1, SameSurvives
<1>2. ASSUME jobs'[j] # jobs[j]
      PROVE  \/ jobs'[j] = [jobs[j] EXCEPT !.due = TRUE]
             \/ jobs'[j] = [jobs[j] EXCEPT !.lease = "over"]
             \/ jobs'[j] = [jobs[j] EXCEPT !.lease = "running"]
             \/ jobs'[j] = [jobs[j] EXCEPT !.dedupTtl = "over"]
  BY <1>0, <1>2 DEF Heartbeat, Time, BecomesDue, LeaseRunsOut, DedupRunsOut
<1>3. CASE jobs'[j] # jobs[j]
  <2>1. /\ [jobs[j] EXCEPT !.due = TRUE] \in Row
        /\ \A l \in {"over", "running"} : [jobs[j] EXCEPT !.lease = l] \in Row
        /\ [jobs[j] EXCEPT !.dedupTtl = "over"] \in Row
    BY <1>0 DEF Row
  <2>2. jobs'[j] \in Row
    BY <1>2, <1>3, <2>1
  <2>3. jobs'[j].work = jobs[j].work /\ jobs'[j].succ = jobs[j].succ
    BY <1>0, <1>2, <1>3 DEF Row
  <2> QED BY <2>2, <2>3, NoneAssumption, SameSurvives
<1> QED BY <1>1, <1>3

(* A claim keeps the work it hands out, whether its reply arrives or not.  *)
LEMMA ClaimSurvives ==
    ASSUME IInv, NEW i \in Claimable, NEW k \in Tokens,
           jobs' = [jobs EXCEPT ![i] = Claimed(jobs[i], k)]
    PROVE  TableSurvives /\ NothingDeleted
<1> DEFINE row == Claimed(jobs[i], k)
<1>0. TableOK(jobs)
  BY DEF IInv, TypeOK
<1>1. i \in JobIds /\ jobs[i] # None /\ jobs[i].state = "pending" /\ RowOK(jobs[i])
  BY <1>0, TableByRows DEF Claimable, Due, InState, Present
<1>2. RowOK(row)
  BY <1>1, ClaimedOK
<1>3. row.work = jobs[i].work /\ row.succ = jobs[i].succ
  BY <1>1 DEF Claimed, RowOK, Row
<1>4. row # None
  BY <1>2, NoneAssumption DEF RowOK
<1> HIDE DEF row
<1>5. jobs' = [jobs EXCEPT ![i] = row]
  BY DEF row
<1> QED BY <1>0, <1>1, <1>3, <1>4, <1>5, WriteSurvives

(* Only clear loses work.                                                  *)
LEMMA EachSurvives ==
    ASSUME SInv, [Next]_vars, jobs' # EmptyTable
    PROVE  TableSurvives
<1>0. IInv
  BY DEF SInv
<1>1. CASE UNCHANGED jobs
  BY <1>1, SameSurvives DEF TableSurvives, Present
<1>2. ASSUME NEW x \in Work, NEW i \in JobIds, Enqueue(x, i)
      PROVE  TableSurvives
  BY <1>0, <1>2, EnqueueSurvives
<1>3. CASE Clear
  BY <1>3 DEF Clear
<1>4. ASSUME NEW w \in Workers, Turn(w)
      PROVE  TableSurvives
  <2>1. CASE RecoverBegin(w) \/ RecoverRow(w) \/ RecoverFails(w)
    BY <1>1, <2>1 DEF RecoverBegin, RecoverRow, RecoverFails, table
  <2>2. CASE RecoverCommit(w)
    <3>1. recovering # None /\ jobs' = draft
      BY <2>2, NoneAssumption DEF RecoverCommit
    <3>2. \A j \in JobIds : Carried(jobs, jobs', j)
      BY <3>1 DEF SInv, DraftCarries
    <3> QED BY <3>2, CarriedSurvives DEF TableSurvives, Present
  <2>3. CASE Claim(w)
    BY <1>0, <2>3, ClaimSurvives DEF Claim
  <2>4. CASE ClaimNothing(w) \/ SeesShutdown(w) \/ Exit(w)
    BY <1>1, <2>4 DEF ClaimNothing, SeesShutdown, Exit, table
  <2>5. CASE Release(w) \/ Complete(w) \/ Fail(w)
    BY <1>0, <2>5, WorkerSurvives
  <2> QED BY <1>4, <2>1, <2>2, <2>3, <2>4, <2>5 DEF Turn
<1>5. ASSUME NEW w \in Workers,
             Processor(w) \/ Start(w) \/ \E n \in Names : Process(w, n)
      PROVE  TableSurvives
  BY <1>1, <1>5 DEF Processor, ProcessorEnds, ProcessorTimesOut, Start, Process, table
<1>6. ASSUME NEW w \in Workers, Heartbeat(w)
      PROVE  TableSurvives
  BY <1>0, <1>6, TimeSurvives
<1>7. ASSUME NEW w \in Workers, Fault(w)
      PROVE  TableSurvives
  <2>1. CASE Shutdown(w) \/ Crash(w) \/ StatementFails(w)
    BY <1>1, <2>1 DEF Shutdown, Crash, StatementFails, table
  <2>2. CASE ClaimReplyLost(w)
    BY <1>0, <2>2, ClaimSurvives DEF ClaimReplyLost
  <2> QED BY <1>7, <2>1, <2>2 DEF Fault
<1>8. ASSUME NEW i \in JobIds, Time(i)
      PROVE  TableSurvives
  BY <1>0, <1>8, TimeSurvives
<1>9. CASE UNCHANGED vars
  BY <1>1, <1>9 DEF vars
<1> QED BY <1>2, <1>3, <1>4, <1>5, <1>6, <1>7, <1>8, <1>9 DEF Next

(* The draft carries the table on in every reachable state.                *)
LEMMA SInvariance == Spec => []SInv
<1>1. Init => SInv
  BY InitIInv DEF Init, SInv, DraftCarries
<1>2. SInv /\ [Next]_vars => SInv'
  BY TypeNext, DraftNext, ClaimsNext, DraftCarriesNext DEF SInv, IInv
<1> QED BY <1>1, <1>2, PTL DEF Spec

(* No accepted work is lost but by clear: pending work stays in the table, *)
(* and the request that an active owner keeps is stored when the owner     *)
(* ends, in a recovery's batch as in a worker's statement (store.rs,       *)
(* materialize_successor, recover_expired).                                *)
THEOREM NothingLost == Spec => WorkSurvives
<1>1. SInv /\ [Next]_vars => [jobs' # EmptyTable => TableSurvives]_vars
  BY EachSurvives
<1>2. WorkSurvives <=> [][jobs' # EmptyTable => TableSurvives]_vars
  BY DEF WorkSurvives, TableSurvives, RowSurvives, Requested
<1> QED BY <1>1, <1>2, SInvariance, PTL DEF Spec
-----------------------------------------------------------------------------
(* Results.                                                                *)

(* No policy that keeps a number of results limits how many a transaction  *)
(* deletes: with a limit the newest of those in excess go first.           *)
CountsUnlimited ==
    \A x \in Work :
        \A policy \in {Opt[x].keepCompleted, Opt[x].keepFailed} :
            policy # None /\ policy.count # None => policy.limit = None

(* The results of one outcome are ordered.                                 *)
LEMMA NewerOrder ==
    ASSUME NEW tb, TableOK(tb), NEW s \in Terminal, NEW i \in InState(tb, s),
           NEW j \in InState(tb, s), i # j
    PROVE  /\ i \in JobIds /\ j \in JobIds /\ i \in Nat /\ j \in Nat
           /\ tb[i].finished \in Nat /\ tb[j].finished \in Nat
           /\ Newer(tb, i, j) \/ Newer(tb, j, i)
<1>1. /\ i \in JobIds /\ j \in JobIds /\ RowOK(tb[i]) /\ RowOK(tb[j])
      /\ tb[i].state = s /\ tb[j].state = s
  BY TableByRows DEF InState, Present
<1>2. i \in Nat /\ j \in Nat
  BY <1>1, ConstantsAssumption
<1>3. tb[i].finished \in Nat /\ tb[j].finished \in Nat
  BY <1>1 DEF RowOK, Row, RowChecks
<1> QED BY <1>1, <1>2, <1>3 DEF Newer

(* Their finite number, for the ranks that the limits count.               *)
LEMMA Ranks ==
    ASSUME IsFiniteSet(JobIds), NEW S \in SUBSET JobIds, NEW T \in SUBSET S
    PROVE  /\ Cardinality(S) \in Nat /\ Cardinality(T) \in Nat
           /\ Cardinality(T) <= Cardinality(S)
<1>1. IsFiniteSet(S)
  BY FS_Subset
<1>2. IsFiniteSet(T) /\ Cardinality(T) <= Cardinality(S)
  BY <1>1, FS_Subset
<1> QED BY <1>1, <1>2, FS_CardinalityType

(* A result that is older than one aged out is aged out.                   *)
LEMMA AgedOutOldest ==
    ASSUME IsFiniteSet(JobIds), NEW tb, TableOK(tb), NEW s \in Terminal,
           NEW policy \in Retention, NEW cutoff \in Nat,
           NEW i \in InState(tb, s), NEW j \in InState(tb, s),
           Newer(tb, i, j), i # j, i \in AgedOut(tb, s, policy, cutoff)
    PROVE  j \in AgedOut(tb, s, policy, cutoff)
<1> DEFINE old == {k \in InState(tb, s) : tb[k].finished < cutoff}
           A == {k \in old : Newer(tb, i, k)}
           B == {k \in old : Newer(tb, j, k)}
<1>1. j \in old /\ i \in old
  BY NewerOrder DEF AgedOut, Newer
<1>2. B \subseteq A
  <2> SUFFICES ASSUME NEW k \in old, Newer(tb, j, k) PROVE Newer(tb, i, k)
    OBVIOUS
  <2>1. /\ i \in Nat /\ j \in Nat /\ k \in Nat
        /\ tb[i].finished \in Nat /\ tb[j].finished \in Nat
        /\ tb[k].finished \in Nat
    BY NewerOrder
  <2> QED BY <2>1 DEF Newer
<1>3. A \subseteq JobIds
  BY DEF InState, Present
<1> HIDE DEF A, B
<1>4. Cardinality(B) \in Nat /\ Cardinality(A) \in Nat
      /\ Cardinality(B) <= Cardinality(A)
  BY <1>2, <1>3, Ranks
<1>5. policy.aged /\ Within(Cardinality(A), policy.limit)
  BY DEF AgedOut, A
<1>6. policy.limit \in Nat \cup {None}
  BY DEF Retention
<1>7. Within(Cardinality(B), policy.limit)
  BY <1>4, <1>5, <1>6 DEF Within
<1> QED BY <1>1, <1>5, <1>7 DEF AgedOut, B

(* So is one that is older than one counted out.                           *)
LEMMA CountedOutOldest ==
    ASSUME IsFiniteSet(JobIds), NEW tb, TableOK(tb), NEW s \in Terminal,
           NEW policy \in Retention, policy.count # None => policy.limit = None,
           NEW i \in InState(tb, s), NEW j \in InState(tb, s),
           Newer(tb, i, j), i # j, i \in CountedOut(tb, s, policy)
    PROVE  j \in CountedOut(tb, s, policy)
<1> DEFINE A == {k \in InState(tb, s) : Newer(tb, k, i)}
           B == {k \in InState(tb, s) : Newer(tb, k, j)}
<1>2. A \subseteq B
  <2> SUFFICES ASSUME NEW k \in InState(tb, s), Newer(tb, k, i)
               PROVE  Newer(tb, k, j)
    OBVIOUS
  <2>1. /\ i \in Nat /\ j \in Nat /\ tb[i].finished \in Nat
        /\ tb[j].finished \in Nat
    BY NewerOrder
  <2>2. k # i => k \in Nat /\ tb[k].finished \in Nat
    BY NewerOrder
  <2> QED BY <2>1, <2>2 DEF Newer
<1>3. B \subseteq JobIds
  BY DEF InState, Present
<1> HIDE DEF A, B
<1>4. Cardinality(B) \in Nat /\ Cardinality(A) \in Nat
      /\ Cardinality(A) <= Cardinality(B)
  BY <1>2, <1>3, Ranks
<1>5. policy.count # None /\ Cardinality(A) >= policy.count
  BY DEF CountedOut, A
<1>6. policy.count \in Nat
  BY <1>5 DEF Retention
<1>7. Cardinality(B) >= policy.count /\ Within(Cardinality(B) - policy.count, policy.limit)
  BY <1>4, <1>5, <1>6 DEF Within
<1> QED BY <1>5, <1>7 DEF CountedOut, B

(* apply_retention: what it leaves of an outcome is newer than what it     *)
(* deletes.                                                                *)
LEMMA RetainedNewest ==
    ASSUME IsFiniteSet(JobIds), CountsUnlimited, NEW tb, TableOK(tb),
           NEW x \in Work, NEW outcome \in Terminal, NEW cutoff \in Nat,
           NEW s \in Terminal, NEW i \in InState(tb, s), NEW j \in InState(tb, s),
           NEW new, new = Retained(tb, x, outcome, cutoff),
           new[i] = None, new[j] # None
    PROVE  Newer(tb, j, i)
<1> DEFINE policy == RetentionOf(x, outcome)
           aged == AgedOut(tb, outcome, policy, cutoff)
           young == Without(tb, aged)
           excess == CountedOut(young, outcome, policy)
<1>0. i \in JobIds /\ j \in JobIds /\ tb[i] # None /\ tb[j] # None
  BY DEF InState, Present
<1>1. policy # None /\ new = Without(young, excess)
  BY <1>0 DEF Retained
<1>2. policy \in Retention /\ (policy.count # None => policy.limit = None)
  <2>1. Opt[x] \in Options
    BY ConstantsAssumption
  <2>2. /\ Opt[x].keepCompleted \in Retention \cup {None}
        /\ Opt[x].keepFailed \in Retention \cup {None}
    BY <2>1 DEF Options
  <2> QED BY <1>1, <2>2 DEF RetentionOf, CountsUnlimited
<1>3. i # j /\ j \notin aged /\ j \notin excess
  BY <1>0, <1>1 DEF Without
<1>4. i \in aged \/ i \in excess
  BY <1>0, <1>1 DEF Without
<1>5. s = outcome
  <2>1. \A k \in aged : tb[k].state = outcome
    BY DEF AgedOut, InState
  <2>2. \A k \in excess : young[k] # None /\ young[k].state = outcome
    BY DEF CountedOut, InState, Present
  <2>3. young[i] \in {None, tb[i]}
    BY <1>0 DEF Without
  <2>4. tb[i].state = s
    BY DEF InState
  <2> HIDE DEF aged, excess, young
  <2> QED BY <1>4, <2>1, <2>2, <2>3, <2>4
<1> HIDE DEF policy
<1> SUFFICES ASSUME Newer(tb, i, j) PROVE FALSE
  BY <1>3, NewerOrder
<1>6. i \notin aged
  BY <1>2, <1>3, <1>5, AgedOutOldest
<1>7. TableOK(young)
  BY WithoutOK
<1>8. young[i] = tb[i] /\ young[j] = tb[j]
  BY <1>0, <1>3, <1>6 DEF Without
<1>9. i \in InState(young, s) /\ j \in InState(young, s)
  BY <1>0, <1>8 DEF InState, Present
<1>10. Newer(young, i, j)
  BY <1>8 DEF Newer
<1> HIDE DEF young, aged
<1> QED BY <1>2, <1>3, <1>4, <1>5, <1>6, <1>7, <1>9, <1>10, CountedOutOldest

(* The end of job k in one transaction deletes the oldest results first.   *)
LEMMA EndNewest ==
    ASSUME IsFiniteSet(JobIds), CountsUnlimited, NEW tb, TableOK(tb),
           NEW k \in JobIds, tb[k] # None, tb[k].state = "active",
           NEW outcome \in Terminal, NEW reason \in {"error", "stalled", None},
           NEW now \in Nat, NEW cutoff \in Nat,
           NEW s \in Terminal, NEW i \in InState(tb, s), NEW j \in InState(tb, s),
           NEW end, end = End(tb, k, outcome, reason, now, cutoff),
           end[i] # tb[i], end[j] = tb[j]
    PROVE  Newer(tb, j, i)
<1> DEFINE ended == Ended(tb, k, outcome, reason, now)
           succ == tb[k].succ
           handed == WithSuccessor(ended, succ, now)
<1>0. /\ i \in JobIds /\ j \in JobIds /\ tb[i] # None /\ tb[j] # None
      /\ i # k /\ j # k /\ RowOK(tb[k]) /\ tb[i].state = s /\ tb[j].state = s
  BY TableByRows DEF InState, Present
<1>1. ended[i] = tb[i] /\ ended[j] = tb[j]
  BY <1>0, TableByRows DEF Ended
<1>2. TableOK(ended)
  BY EndedOK
<1>3. succ # None => succ.id \in JobIds /\ succ.work \in Work
  BY <1>0, SuccessorTypes
<1> HIDE DEF ended, succ
<1>4. handed[i] = tb[i] /\ handed[j] = tb[j]
  BY <1>0, <1>1, <1>2, <1>3, TableByRows DEF WithSuccessor, Inserted
<1>5. TableOK(handed)
  BY <1>2, <1>3, InsertedOK DEF WithSuccessor
<1> HIDE DEF handed
<1>6. end = Retained(handed, tb[k].work, outcome, cutoff)
  BY DEF End, ended, succ, handed
<1>7. end[i] = None /\ end[j] # None
  BY <1>0, <1>4, <1>5, <1>6, RetainedFrame
<1>8. i \in InState(handed, s) /\ j \in InState(handed, s)
  BY <1>0, <1>4 DEF InState, Present
<1>9. tb[k].work \in Work
  BY <1>0 DEF RowOK, Row
<1>10. Newer(handed, j, i)
  BY <1>5, <1>6, <1>7, <1>8, <1>9, RetainedNewest
<1> QED BY <1>4, <1>10 DEF Newer

(* Of the results of the old table, the new one keeps the newest.          *)
Newest(old, new) ==
    \A s \in Terminal : \A i, j \in InState(old, s) :
        new[i] # old[i] /\ new[j] = old[j] => Newer(old, j, i)

DraftNewest == recovering # None => Newest(jobs, draft)

NInv == IInv /\ DraftNewest

(* A recovery step keeps the newest of the table's results.                *)
LEMMA RecoverRowNewest ==
    ASSUME IsFiniteSet(JobIds), CountsUnlimited, NInv, NEW w \in Workers,
           RecoverRow(w)
    PROVE  Newest(jobs, draft')
<1> SUFFICES ASSUME NEW s \in Terminal, NEW i \in InState(jobs, s),
                    NEW j \in InState(jobs, s),
                    draft'[i] # jobs[i], draft'[j] = jobs[j]
             PROVE  Newer(jobs, j, i)
  BY DEF Newest
<1>0. /\ recovering # None /\ TableOK(jobs) /\ TableOK(draft) /\ clock \in Nat
      /\ Newest(jobs, draft)
  BY NoneAssumption DEF RecoverRow, NInv, IInv, TypeOK, DraftNewest
<1>1. PICK k \in batch :
        \/ draft' = [draft EXCEPT ![k] =
                        [BackToPending(draft[k]) EXCEPT !.stalled = @ + 1]]
        \/ \E cutoff \in 0..clock :
              draft' = End(draft, k, "failed", "stalled", clock, cutoff)
  BY DEF RecoverRow
<1>2. /\ k \in JobIds /\ draft[k] # None /\ draft[k].state = "active"
      /\ draft[k] = jobs[k]
  BY <1>0 DEF NInv, IInv, TypeOK, DraftAgrees
<1>3. /\ i \in JobIds /\ j \in JobIds /\ jobs[i] # None /\ jobs[j] # None
      /\ jobs[i].state = s /\ jobs[j].state = s /\ i # k /\ j # k
  BY <1>2 DEF InState, Present
<1>4. ASSUME draft[i] # jobs[i], draft[j] = jobs[j]
      PROVE  Newer(jobs, j, i)
  BY <1>0, <1>4 DEF Newest
<1>5. CASE draft' = [draft EXCEPT ![k] =
                       [BackToPending(draft[k]) EXCEPT !.stalled = @ + 1]]
  <2>1. draft'[i] = draft[i] /\ draft'[j] = draft[j]
    BY <1>0, <1>2, <1>3, <1>5, TableByRows
  <2> QED BY <1>4, <2>1
<1>6. CASE \E cutoff \in 0..clock :
             draft' = End(draft, k, "failed", "stalled", clock, cutoff)
  <2>1. PICK cutoff \in 0..clock :
          draft' = End(draft, k, "failed", "stalled", clock, cutoff)
    BY <1>6
  <2>2. cutoff \in Nat
    BY <1>0
  <2>3. draft'[j] = draft[j] \/ \E x \in Work : draft'[j] = NewRow(x, clock)
    <3> DEFINE new == draft'[j]
    <3>1. new = End(draft, k, "failed", "stalled", clock, cutoff)[j]
      BY <2>1
    <3>2. new # None
      BY <1>3
    <3> HIDE DEF new
    <3>3. new = draft[j] \/ \E x \in Work : new = NewRow(x, clock)
      BY <1>0, <1>2, <1>3, <3>1, <3>2, EndRows
    <3> QED BY <3>3 DEF new
  <2>4. draft[j] = jobs[j]
    <3>1. \A x \in Work : NewRow(x, clock).state = "pending"
      BY DEF NewRow
    <3> HIDE DEF NewRow
    <3>2. draft'[j].state = s
      BY <1>3
    <3> QED BY <2>3, <3>1, <3>2
  <2>5. CASE draft[i] = jobs[i]
    <3>1. i \in InState(draft, s) /\ j \in InState(draft, s)
      BY <1>3, <2>4, <2>5 DEF InState, Present
    <3>2. Newer(draft, j, i)
      BY <1>0, <1>2, <2>1, <2>2, <2>4, <2>5, <3>1, EndNewest
    <3> QED BY <2>4, <2>5, <3>2 DEF Newer
  <2> QED BY <1>4, <2>4, <2>5
<1> QED BY <1>1, <1>5, <1>6

(* The transaction begins with the table, and the table waits for it.      *)
LEMMA DraftNewestNext ==
    ASSUME IsFiniteSet(JobIds), CountsUnlimited, NInv, [Next]_vars
    PROVE  DraftNewest'
<1>1. CASE recovering' = None
  BY <1>1 DEF DraftNewest
<1>2. CASE UNCHANGED <<recovering, draft, jobs>>
  BY <1>2 DEF DraftNewest, NInv, Newest, Newer, InState, Present
<1>3. CASE recovering = None /\ UNCHANGED txn
  BY <1>1, <1>3 DEF txn
<1>4. CASE Clear \/ (\E x \in Work, i \in JobIds : Enqueue(x, i))
           \/ (\E i \in JobIds : Time(i))
  BY <1>3, <1>4 DEF Clear, Enqueue, Time, BecomesDue, LeaseRunsOut, DedupRunsOut
<1>5. ASSUME NEW w \in Workers, Turn(w)
      PROVE  DraftNewest'
  <2>1. CASE RecoverBegin(w)
    <3>1. jobs' = jobs /\ draft' = jobs
      BY <2>1 DEF RecoverBegin, table
    <3> QED BY <3>1 DEF DraftNewest, Newest
  <2>2. CASE RecoverRow(w)
    <3>1. jobs' = jobs
      BY <2>2 DEF RecoverRow, table
    <3>2. Newest(jobs, draft')
      BY <2>2, RecoverRowNewest
    <3> QED BY <3>1, <3>2 DEF DraftNewest, Newest, Newer, InState, Present
  <2>3. CASE RecoverFails(w) \/ RecoverCommit(w)
    BY <1>1, <2>3 DEF RecoverFails, RecoverCommit
  <2>4. CASE Claim(w) \/ ClaimNothing(w) \/ Release(w) \/ Complete(w) \/ Fail(w)
    BY <1>3, <2>4 DEF Claim, ClaimNothing, Release, Complete, Fail
  <2>5. CASE SeesShutdown(w) \/ Exit(w)
    BY <1>2, <2>5 DEF SeesShutdown, Exit, table, txn
  <2> QED BY <1>5, <2>1, <2>2, <2>3, <2>4, <2>5 DEF Turn
<1>6. ASSUME NEW w \in Workers,
             Processor(w) \/ Start(w) \/ \E n \in Names : Process(w, n)
      PROVE  DraftNewest'
  BY <1>2, <1>6 DEF Processor, ProcessorEnds, ProcessorTimesOut, Start, Process,
                    table, txn
<1>7. ASSUME NEW w \in Workers, Heartbeat(w)
      PROVE  DraftNewest'
  BY <1>3, <1>7 DEF Heartbeat
<1>8. ASSUME NEW w \in Workers, Fault(w)
      PROVE  DraftNewest'
  <2>1. CASE Shutdown(w)
    BY <1>2, <2>1 DEF Shutdown, table, txn
  <2>2. CASE Crash(w) \/ StatementFails(w)
    BY <1>1, <1>2, <2>2 DEF Crash, StatementFails, Rollback, table, txn
  <2>3. CASE ClaimReplyLost(w)
    BY <1>3, <2>3 DEF ClaimReplyLost
  <2> QED BY <1>8, <2>1, <2>2, <2>3 DEF Fault
<1>9. CASE UNCHANGED vars
  BY <1>2, <1>9 DEF vars
<1> QED BY <1>4, <1>5, <1>6, <1>7, <1>8, <1>9 DEF Next

(* A worker's statement that ends its job keeps the newest results.        *)
LEMMA WorkerNewest ==
    ASSUME IsFiniteSet(JobIds), CountsUnlimited, IInv, NEW w \in Workers,
           Complete(w) \/ Fail(w),
           NEW s \in Terminal, NEW i \in InState(jobs, s), NEW j \in InState(jobs, s),
           jobs'[i] = None, jobs'[j] = jobs[j]
    PROVE  Newer(jobs, j, i)
<1> DEFINE k == held[w].id
           tb == CountFailure(jobs, k)
<1>0. /\ TypeOK /\ TableOK(jobs) /\ clock \in Nat /\ held[w] # None
      /\ k \in JobIds /\ i \in JobIds /\ j \in JobIds
      /\ jobs[i] # None /\ jobs[j] # None
      /\ jobs[i].state = s /\ jobs[j].state = s
  <2>1. held[w] # None
    BY DEF IInv, TypeOK, Complete, Fail
  <2> QED BY <2>1, HeldTypes DEF IInv, TypeOK, InState, Present
<1>1. ~(UNCHANGED table)
  BY <1>0 DEF table
<1>2. /\ Fenced(w) /\ jobs[k] # None /\ jobs[k].state = "active"
      /\ i # k /\ j # k
  BY <1>0, <1>1 DEF Fenced, Complete, Fail
<1>3. CASE Complete(w)
  <2>1. PICK cutoff \in 0..clock :
          jobs' = End(jobs, k, "completed", None, clock, cutoff)
    BY <1>1, <1>3 DEF Complete
  <2>2. cutoff \in Nat
    BY <1>0
  <2> QED BY <1>0, <1>2, <2>1, <2>2, EndNewest
<1>4. CASE Fail(w)
  <2>1. /\ TableOK(tb) /\ tb[k] # None /\ tb[k].state = "active"
        /\ \A n \in JobIds \ {k} : tb[n] = jobs[n]
    BY <1>0, <1>2, CountFailureOK
  <2>2. tb[i] = jobs[i] /\ tb[j] = jobs[j]
    BY <1>0, <1>2, <2>1
  <2> HIDE DEF tb
  <2>3. CASE jobs' = [tb EXCEPT ![k] = Retried(tb[k])]
    <3>1. tb \in [JobIds -> Row \cup {None}]
      BY <2>1, TableByRows
    <3>2. jobs'[i] = tb[i]
      BY <1>0, <1>2, <2>3, <3>1
    <3> QED BY <1>0, <2>2, <3>2
  <2>4. CASE \E cutoff \in 0..clock :
               jobs' = End(tb, k, "failed", "error", clock, cutoff)
    <3>1. PICK cutoff \in 0..clock :
            jobs' = End(tb, k, "failed", "error", clock, cutoff)
      BY <2>4
    <3>2. cutoff \in Nat
      BY <1>0
    <3>3. i \in InState(tb, s) /\ j \in InState(tb, s)
      BY <1>0, <2>2 DEF InState, Present
    <3>4. jobs'[i] # tb[i] /\ jobs'[j] = tb[j]
      BY <1>0, <2>2
    <3>5. Newer(tb, j, i)
      BY <1>0, <2>1, <3>1, <3>2, <3>3, <3>4, EndNewest
    <3> QED BY <2>2, <3>5 DEF Newer
  <2> QED BY <1>1, <1>4, <2>3, <2>4 DEF Fail, tb
<1> QED BY <1>3, <1>4

(* No other step deletes results, but for clear.                           *)
LEMMA EachNewest ==
    ASSUME IsFiniteSet(JobIds), CountsUnlimited, NInv, [Next]_vars,
           jobs' # EmptyTable,
           NEW s \in Terminal, NEW i \in InState(jobs, s), NEW j \in InState(jobs, s),
           jobs'[i] = None, jobs'[j] = jobs[j]
    PROVE  Newer(jobs, j, i)
<1>0. /\ IInv /\ TypeOK /\ TableOK(jobs) /\ jobs \in [JobIds -> Row \cup {None}]
      /\ i \in JobIds /\ jobs[i] # None /\ jobs[i].state = s
  BY TableByRows DEF NInv, IInv, TypeOK, InState, Present
<1>1. CASE jobs'[i] # None
  BY <1>1
<1>2. CASE UNCHANGED jobs
  BY <1>0, <1>2
<1>3. ASSUME NEW x \in Work, NEW m \in JobIds, Enqueue(x, m)
      PROVE  Newer(jobs, j, i)
  BY <1>0, <1>1, <1>3, EnqueueSurvives DEF NothingDeleted, Present
<1>4. CASE Clear
  BY <1>4 DEF Clear
<1>5. ASSUME NEW w \in Workers, Turn(w)
      PROVE  Newer(jobs, j, i)
  <2>1. CASE RecoverBegin(w) \/ RecoverRow(w) \/ RecoverFails(w)
    BY <1>2, <2>1 DEF RecoverBegin, RecoverRow, RecoverFails, table
  <2>2. CASE RecoverCommit(w)
    <3>1. recovering # None /\ jobs' = draft
      BY <2>2, NoneAssumption DEF RecoverCommit
    <3>2. draft[i] # jobs[i] /\ draft[j] = jobs[j]
      BY <1>0, <3>1
    <3> QED BY <3>1, <3>2 DEF NInv, DraftNewest, Newest
  <2>3. CASE Claim(w)
    BY <1>0, <1>1, <2>3, ClaimSurvives DEF Claim, NothingDeleted, Present
  <2>4. CASE ClaimNothing(w) \/ SeesShutdown(w) \/ Exit(w)
    BY <1>2, <2>4 DEF ClaimNothing, SeesShutdown, Exit, table
  <2>5. CASE Release(w)
    <3>1. CASE Fenced(w)
      <4>1. held[w].id # i /\ held[w].id \in JobIds
        <5>1. held[w] # None
          BY <1>0, <2>5 DEF Release, TypeOK
        <5> QED BY <1>0, <3>1, <5>1, HeldTypes DEF Fenced
      <4>2. jobs'[i] = jobs[i]
        BY <1>0, <2>5, <3>1, <4>1 DEF Release
      <4> QED BY <1>0, <4>2
    <3>2. CASE ~Fenced(w)
      BY <1>2, <2>5, <3>2 DEF Release
    <3> QED BY <3>1, <3>2
  <2>6. CASE Complete(w) \/ Fail(w)
    BY <1>0, <2>6, WorkerNewest
  <2> QED BY <1>5, <2>1, <2>2, <2>3, <2>4, <2>5, <2>6 DEF Turn
<1>6. ASSUME NEW w \in Workers,
             Processor(w) \/ Start(w) \/ \E n \in Names : Process(w, n)
      PROVE  Newer(jobs, j, i)
  BY <1>2, <1>6 DEF Processor, ProcessorEnds, ProcessorTimesOut, Start, Process, table
<1>7. ASSUME NEW w \in Workers, Heartbeat(w)
      PROVE  Newer(jobs, j, i)
  BY <1>0, <1>1, <1>7, TimeSurvives DEF NothingDeleted, Present
<1>8. ASSUME NEW w \in Workers, Fault(w)
      PROVE  Newer(jobs, j, i)
  <2>1. CASE Shutdown(w) \/ Crash(w) \/ StatementFails(w)
    BY <1>2, <2>1 DEF Shutdown, Crash, StatementFails, table
  <2>2. CASE ClaimReplyLost(w)
    BY <1>0, <1>1, <2>2, ClaimSurvives DEF ClaimReplyLost, NothingDeleted, Present
  <2> QED BY <1>8, <2>1, <2>2 DEF Fault
<1>9. ASSUME NEW m \in JobIds, Time(m)
      PROVE  Newer(jobs, j, i)
  BY <1>0, <1>1, <1>9, TimeSurvives DEF NothingDeleted, Present
<1>10. CASE UNCHANGED vars
  BY <1>2, <1>10 DEF vars
<1> QED BY <1>3, <1>4, <1>5, <1>6, <1>7, <1>8, <1>9, <1>10 DEF Next

(* The draft keeps the newest results in every reachable state.            *)
LEMMA NInvariance ==
    ASSUME IsFiniteSet(JobIds), CountsUnlimited PROVE Spec => []NInv
<1>1. Init => NInv
  BY InitIInv DEF Init, NInv, DraftNewest
<1>2. NInv /\ [Next]_vars => NInv'
  BY TypeNext, DraftNext, ClaimsNext, DraftNewestNext DEF NInv, IInv
<1> QED BY <1>1, <1>2, PTL DEF Spec

(* What one step keeps of the results, as RetentionKeepsNewest says it.    *)
KeepsNewest ==
    jobs' # EmptyTable =>
        \A s \in Terminal : \A i, j \in InState(jobs, s) :
            jobs'[i] = None /\ jobs'[j] = jobs[j] => Newer(jobs, j, i)

(* A transaction that ends jobs deletes the oldest results of an outcome,  *)
(* by age, by count and by both, and although a recovery ends a batch of   *)
(* jobs of different policies; where no policy limits a count              *)
(* (store.rs, apply_retention).                                            *)
THEOREM NewestKept ==
    ASSUME IsFiniteSet(JobIds), CountsUnlimited
    PROVE  Spec => RetentionKeepsNewest
<1>1. NInv /\ [Next]_vars => [KeepsNewest]_vars
  BY EachNewest DEF KeepsNewest
<1>2. RetentionKeepsNewest <=> [][KeepsNewest]_vars
  BY DEF RetentionKeepsNewest, KeepsNewest
<1> QED BY <1>1, <1>2, NInvariance, PTL DEF Spec
=============================================================================
