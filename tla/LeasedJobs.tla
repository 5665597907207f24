----------------------------- MODULE LeasedJobs ------------------------------
(***************************************************************************)
(* What every queue of src/queue promises of one job at a time, whatever   *)
(* it is stored in: work is done under a lease, a lease has an owner named *)
(* by a token that nobody else holds, only the owner ends the job or the   *)
(* lease is over, and what has ended is not worked again.  PostgresQueue   *)
(* is shown to implement it, LaneQueue uses it as the backend it relies on.*)
(***************************************************************************)
EXTENDS Naturals

CONSTANTS
    JobIds,
    Tokens         \* lock tokens

VARIABLE job       \* JobIds -> what is stored of the job

-----------------------------------------------------------------------------
Absent == [is |-> "absent"]
Pending == [is |-> "pending"]
Active(t, l) == [is |-> "active", token |-> t, lease |-> l]
Outcomes == {[is |-> "completed"], [is |-> "failed"]}

Actives == [is : {"active"}, token : Tokens, lease : {"running", "over"}]
States == {Absent, Pending} \cup Actives \cup Outcomes

(* Under any lease, over or not.                                           *)
OwnedBy(j, t) == j.is = "active" /\ j.token = t

-----------------------------------------------------------------------------
(* What one step may do to one job.                                        *)

Added(old, new) == old \in {Absent} \cup Outcomes /\ new = Pending

Claimed(old, new) ==
    /\ old = Pending
    /\ \E t \in Tokens : /\ new = Active(t, "running")
                         /\ \A i \in JobIds : ~OwnedBy(job[i], t)

(* The lease is renewed or runs out.                                       *)
Kept(old, new) == old \in Actives /\ new \in Actives /\ old.token = new.token

(* Released, recovered, or to be retried.                                  *)
Returned(old, new) == old \in Actives /\ new = Pending

Finished(old, new) == old \in Actives /\ new \in Outcomes

(* Removed at its end, or by retention later.                              *)
Removed(old, new) == old \in Actives \cup Outcomes /\ new = Absent

Moves(old, new) ==
    \/ new = old
    \/ Added(old, new) \/ Claimed(old, new) \/ Kept(old, new)
    \/ Returned(old, new) \/ Finished(old, new) \/ Removed(old, new)

(* No two jobs under one token.                                            *)
OneEach(js) ==
    \A i, k \in JobIds : \A t \in Tokens : OwnedBy(js[i], t) /\ OwnedBy(js[k], t) => i = k

Cleared == [i \in JobIds |-> Absent]

Init == job = Cleared

Step ==
    /\ job' \in [JobIds -> States]
    /\ OneEach(job')
    /\ \A i \in JobIds : Moves(job[i], job'[i])

Clear == job' = Cleared

Next == Step \/ Clear

Spec == Init /\ [][Next]_job
=============================================================================
