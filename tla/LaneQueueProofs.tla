--------------------------- MODULE LaneQueueProofs ---------------------------
(***************************************************************************)
(* LaneQueue for any number of workers, callers and jobs: its types, how   *)
(* many workers there are and who awaits them, that an active job is the   *)
(* claim of the worker that holds it, and that the store moves jobs as     *)
(* LeasedJobs says.                                                        *)
(***************************************************************************)
EXTENDS LaneQueue, FiniteSetTheorems, TLAPS

(* A process spawns finitely many tasks; counters are natural numbers.     *)
Bounds ==
    /\ IsFiniteSet(Workers) /\ WorkerCount \in Nat /\ MaxRequeues \in Nat
    /\ NoJob \notin JobIds

-----------------------------------------------------------------------------
(* Types and claims.                                                       *)

PCs == {"unborn", "top", "claim", "wait", "seek", "run", "renew", "release",
        "complete", "fail", "ended"}

CallStates ==
    {Idle, [at |-> "spawn"], [at |-> "notify"], [at |-> "take"]}
    \cup [at : {"await"}, todo : SUBSET Workers]

Shape == place \in [Workers -> PCs] /\ hook \in [LaneCallers -> CallStates]

(* An active job is held by the worker whose claim it is.                  *)
ClaimsHeld == \A i \in JobIds : job[i].is = "active" => held[job[i].token] = i

Sound == Bounds /\ LaneTypes /\ Shape /\ ClaimsHeld

(* The forms of a stored job.                                              *)
LEMMA JobForms ==
    /\ L!Absent \in L!States /\ L!Pending \in L!States
    /\ [is |-> "completed"] \in L!States /\ [is |-> "failed"] \in L!States
    /\ [is |-> "completed"].is # "active" /\ [is |-> "failed"].is # "active"
    /\ L!Absent.is # "active" /\ L!Pending.is # "active" /\ L!Pending # L!Absent
    /\ \A w \in Workers, l \in {"running", "over"} :
          /\ L!Active(w, l) \in L!States /\ L!Active(w, l) \in L!Actives
          /\ L!Active(w, l).is = "active" /\ L!Active(w, l).token = w
    /\ \A j \in L!States : j.is = "active" => j \in L!Actives /\ j.token \in Workers
    /\ \A j \in L!Actives : j.is = "active" /\ [j EXCEPT !.lease = "over"] \in L!Actives
                            /\ [j EXCEPT !.lease = "over"].token = j.token
    /\ L!Actives \subseteq L!States /\ L!Outcomes \subseteq L!States
    /\ L!Outcomes = {[is |-> "completed"], [is |-> "failed"]}
BY DEF L!Absent, L!Pending, L!States, L!Active, L!Actives, L!Outcomes

(* Where a worker may go with what it holds.                               *)
HoldsAt(at, h) ==
    /\ at \in {"unborn", "top", "claim", "ended"} => h = NoJob
    /\ at \in {"seek", "run", "renew", "release", "complete", "fail"} => h # NoJob

(* A step of worker w: where it goes and what it then holds.               *)
MovesTo(w, at, h) ==
    /\ at \in PCs \ {"unborn"} /\ h \in JobIds \cup {NoJob} /\ HoldsAt(at, h)
    /\ place[w] \notin {"unborn", "ended"}
    /\ Goto(w, at) \/ (at \in {"wait", "run"} /\ Listen(w, at))
    /\ held' = [held EXCEPT ![w] = h]
    /\ UNCHANGED <<processors, lifecycle>>

(* What a step leaves of the store.                                        *)
StoreOK ==
    /\ job' \in [JobIds -> L!States] /\ requeues' \in [JobIds -> 0..MaxRequeues]
    /\ ClaimsHeld'

LEMMA MovesSound ==
    ASSUME Sound, NEW w \in Workers, NEW at, NEW h, MovesTo(w, at, h), StoreOK
    PROVE  Sound'
<1> USE DEF Sound
<1>1. /\ place' = [place EXCEPT ![w] = at] /\ at \in PCs
      /\ permit' \in BOOLEAN
      /\ woken' \subseteq woken \cup {w} /\ (w \in woken' => at = "run")
  BY DEF MovesTo, Goto, Listen, LaneTypes
<1>2. Shape'
  BY <1>1 DEF MovesTo, Shape, lifecycle
<1>3. woken' \subseteq InSelect'
  BY <1>1 DEF LaneTypes, InSelect, Shape
<1>4. held' \in [Workers -> JobIds \cup {NoJob}]
  BY DEF MovesTo, LaneTypes
<1>5. ASSUME NEW u \in Workers
      PROVE  HoldsAt(place'[u], held'[u])
  BY <1>1 DEF MovesTo, LaneTypes, Shape, HoldsAt
<1>6. LaneTypes'
  BY <1>1, <1>3, <1>4, <1>5 DEF MovesTo, StoreOK, LaneTypes, HoldsAt, lifecycle
<1> QED BY <1>2, <1>6 DEF StoreOK, Bounds

(* The same with the same job in hand and an untouched store.              *)
LEMMA GoesOn ==
    ASSUME Sound, NEW w \in Workers, NEW at, HoldsAt(at, held[w]),
           at \in PCs \ {"unborn"}, place[w] \notin {"unborn", "ended"},
           Goto(w, at) \/ (at \in {"wait", "run"} /\ Listen(w, at)),
           UNCHANGED <<store, processors, held, lifecycle>>
    PROVE  MovesTo(w, at, held[w]) /\ StoreOK /\ job' = job
BY DEF MovesTo, StoreOK, Sound, LaneTypes, ClaimsHeld, store

(* Claims move with their worker: nothing else is claimed.                 *)
LEMMA OwnClaim ==
    ASSUME Sound, NEW w \in Workers, NEW i \in JobIds, job[i].is = "active", job[i].token = w
    PROVE  held[w] = i /\ Owns(w)
BY DEF Sound, ClaimsHeld, Owns, L!OwnedBy

-----------------------------------------------------------------------------
(* Steps of a worker.                                                      *)

WorkerStep(w) ==
    /\ \E at, h : MovesTo(w, at, h)
    /\ StoreOK
    /\ \A i \in JobIds : L!Moves(job[i], job'[i])

LEMMA Stays ==
    ASSUME NEW w, NEW at, NEW h, MovesTo(w, at, h), StoreOK, job' = job
    PROVE  WorkerStep(w)
BY DEF WorkerStep, L!Moves

LEMMA Settling ==
    ASSUME Sound, NEW w \in Workers, NEW at, NEW new, new \in {L!Pending} \cup L!Outcomes,
           at \in {"release", "complete", "fail"}, Settle(w, at, new),
           requeues' \in [JobIds -> 0..MaxRequeues]
    PROVE  WorkerStep(w)
<1> DEFINE i == held[w]
<1>1. /\ place[w] = at /\ Owns(w) /\ job' = [job EXCEPT ![i] = new]
      /\ held' = [held EXCEPT ![w] = NoJob] /\ Goto(w, "top")
      /\ UNCHANGED <<processors, lifecycle>>
  BY DEF Settle
<1>2. i \in JobIds /\ job \in [JobIds -> L!States] /\ new \in L!States /\ new.is # "active"
  BY <1>1, JobForms DEF Sound, LaneTypes
<1>3. job[i] \in L!Actives /\ job[i].token = w
  BY <1>1, <1>2, JobForms DEF Owns, L!OwnedBy
<1>4. MovesTo(w, "top", NoJob)
  BY <1>1 DEF MovesTo, HoldsAt, PCs
<1> HIDE DEF i
<1>5. ASSUME NEW k \in JobIds, job'[k].is = "active" PROVE held'[job'[k].token] = k
  <2>1. k # i /\ job'[k] = job[k]
    BY <1>1, <1>2, <1>5
  <2>2. held[job[k].token] = k /\ job[k].token \in Workers
    BY <1>2, <1>5, <2>1, JobForms DEF Sound, ClaimsHeld
  <2>3. job[k].token # w
    BY <2>1, <2>2 DEF i
  <2> QED BY <1>1, <2>1, <2>2, <2>3 DEF Sound, LaneTypes
<1>6. StoreOK
  BY <1>1, <1>2, <1>5 DEF StoreOK, ClaimsHeld
<1>7. L!Moves(job[i], new)
  BY <1>3 DEF L!Moves, L!Returned, L!Finished
<1>8. \A k \in JobIds : L!Moves(job[k], job'[k])
  BY <1>1, <1>2, <1>7 DEF L!Moves
<1> QED BY <1>4, <1>6, <1>8 DEF WorkerStep

LEMMA Claiming ==
    ASSUME Sound, NEW w \in Workers, Claim(w) PROVE WorkerStep(w)
<1>1. PICK i \in JobIds :
            /\ job[i] = L!Pending /\ job' = [job EXCEPT ![i] = L!Active(w, "running")]
            /\ held' = [held EXCEPT ![w] = i]
  BY DEF Claim
<1>2. /\ place[w] = "claim" /\ Goto(w, "seek") /\ UNCHANGED <<processors, lifecycle, requeues>>
      /\ held[w] = NoJob /\ i # NoJob /\ job \in [JobIds -> L!States]
  BY DEF Claim, Sound, LaneTypes, Bounds
<1>3. MovesTo(w, "seek", i)
  BY <1>1, <1>2 DEF MovesTo, HoldsAt, PCs
<1>4. ASSUME NEW k \in JobIds, job[k].is = "active"
      PROVE  held[job[k].token] = k /\ job[k].token \in Workers /\ job[k].token # w
  BY <1>2, <1>4, JobForms DEF Sound, ClaimsHeld, Bounds
<1>5. ASSUME NEW k \in JobIds, job'[k].is = "active" PROVE held'[job'[k].token] = k
  <2>1. CASE k = i
    BY <1>1, <1>2, <2>1, JobForms DEF Sound, LaneTypes
  <2>2. CASE k # i
    <3>1. job'[k] = job[k] /\ held[job[k].token] = k /\ job[k].token \in Workers
          /\ job[k].token # w
      BY <1>1, <1>2, <1>4, <1>5, <2>2
    <3> QED BY <1>1, <3>1 DEF Sound, LaneTypes
  <2> QED BY <2>1, <2>2
<1>6. StoreOK
  <2>1. job' \in [JobIds -> L!States]
    BY <1>1, <1>2, JobForms
  <2> QED BY <1>2, <1>5, <2>1 DEF StoreOK, ClaimsHeld, Sound, LaneTypes
<1>7. L!Moves(job[i], L!Active(w, "running"))
  BY <1>1, <1>4 DEF L!Moves, L!Claimed, L!OwnedBy
<1>8. \A k \in JobIds : L!Moves(job[k], job'[k])
  BY <1>1, <1>2, <1>7 DEF L!Moves
<1> QED BY <1>3, <1>6, <1>8 DEF WorkerStep

LEMMA Recovering ==
    ASSUME Sound, NEW w \in Workers, Recover(w) PROVE WorkerStep(w)
<1>1. PICK again \in SUBSET {i \in Expired : requeues[i] < MaxRequeues} :
            /\ job' = [i \in JobIds |-> IF i \in again THEN L!Pending
                                        ELSE IF i \in Expired THEN [is |-> "failed"]
                                        ELSE job[i]]
            /\ requeues' = [i \in JobIds |-> requeues[i] + IF i \in again THEN 1 ELSE 0]
  BY DEF Recover
<1>2. /\ place[w] = "top" /\ Goto(w, "claim") /\ UNCHANGED <<processors, held, lifecycle>>
      /\ held[w] = NoJob /\ job \in [JobIds -> L!States]
      /\ requeues \in [JobIds -> 0..MaxRequeues] /\ MaxRequeues \in Nat
      /\ held \in [Workers -> JobIds \cup {NoJob}]
  BY DEF Recover, Sound, LaneTypes, Bounds
<1>3. MovesTo(w, "claim", NoJob)
  <2>1. held' = [held EXCEPT ![w] = NoJob]
    BY <1>2
  <2> QED BY <1>2, <2>1 DEF MovesTo, HoldsAt, PCs
<1>4. ASSUME NEW i \in JobIds
      PROVE  /\ job'[i] \in L!States /\ requeues'[i] \in 0..MaxRequeues
             /\ job'[i].is = "active" => job'[i] = job[i]
             /\ L!Moves(job[i], job'[i])
  <2>1. CASE i \in again
    <3>1. job[i].is = "active" /\ requeues[i] < MaxRequeues /\ job'[i] = L!Pending
          /\ requeues'[i] = requeues[i] + 1
      BY <1>1, <2>1 DEF Expired
    <3>2. job[i] \in L!Actives
      BY <1>2, <3>1, JobForms
    <3> QED BY <1>2, <3>1, <3>2, JobForms DEF L!Moves, L!Returned
  <2>2. CASE i \in Expired \ again
    <3>1. job[i].is = "active" /\ job'[i] = [is |-> "failed"] /\ requeues'[i] = requeues[i]
      BY <1>1, <1>2, <2>2 DEF Expired
    <3>2. job[i] \in L!Actives
      BY <1>2, <3>1, JobForms
    <3> QED BY <1>2, <3>1, <3>2, JobForms DEF L!Moves, L!Finished
  <2>3. CASE i \notin Expired
    <3>1. job'[i] = job[i] /\ requeues'[i] = requeues[i]
      BY <1>1, <1>2, <2>3
    <3> QED BY <1>2, <3>1 DEF L!Moves
  <2> QED BY <2>1, <2>2, <2>3
<1>5. StoreOK
  <2>1. job' \in [JobIds -> L!States] /\ requeues' \in [JobIds -> 0..MaxRequeues]
    BY <1>1, <1>4
  <2>2. ClaimsHeld'
    BY <1>2, <1>4 DEF Sound, ClaimsHeld
  <2> QED BY <2>1, <2>2 DEF StoreOK
<1> QED BY <1>3, <1>4, <1>5 DEF WorkerStep

LEMMA Renewing ==
    ASSUME Sound, NEW w \in Workers, Renew(w) PROVE WorkerStep(w)
<1> DEFINE i == held[w]
<1>1. /\ place[w] = "renew" /\ Owns(w) /\ job' = [job EXCEPT ![i] = L!Active(w, "running")]
      /\ Listen(w, "run") /\ UNCHANGED <<requeues, processors, held, lifecycle>>
  BY DEF Renew
<1>2. /\ i \in JobIds /\ i # NoJob /\ job \in [JobIds -> L!States]
      /\ held \in [Workers -> JobIds \cup {NoJob}]
  BY <1>1 DEF Sound, LaneTypes, Bounds
<1>3. job[i] \in L!Actives /\ job[i].token = w
  BY <1>1, <1>2, JobForms DEF Owns, L!OwnedBy
<1>4. MovesTo(w, "run", i)
  <2>1. held' = [held EXCEPT ![w] = i]
    BY <1>1, <1>2
  <2> QED BY <1>1, <1>2, <2>1 DEF MovesTo, HoldsAt, PCs
<1>5. job' \in [JobIds -> L!States]
  BY <1>1, <1>2, JobForms
<1>6. ASSUME NEW k \in JobIds, job'[k].is = "active" PROVE held'[job'[k].token] = k
  <2>1. CASE k = i
    BY <1>1, <1>2, <2>1, JobForms
  <2>2. CASE k # i
    BY <1>1, <1>2, <1>6, <2>2 DEF Sound, ClaimsHeld
  <2> QED BY <2>1, <2>2
<1>7. StoreOK
  BY <1>1, <1>5, <1>6 DEF StoreOK, ClaimsHeld, Sound, LaneTypes
<1>8. L!Moves(job[i], L!Active(w, "running"))
  BY <1>3, JobForms DEF L!Moves, L!Kept
<1>9. \A k \in JobIds : L!Moves(job[k], job'[k])
  BY <1>1, <1>2, <1>8 DEF L!Moves
<1> QED BY <1>4, <1>7, <1>9 DEF WorkerStep

(* A refused token is of no active job, so the worker lets go of none.     *)
LEMMA Refusing ==
    ASSUME Sound, NEW w \in Workers, Lost(w) PROVE WorkerStep(w)
<1>1. /\ place[w] \in {"renew", "release", "complete", "fail"} /\ ~Owns(w)
      /\ held' = [held EXCEPT ![w] = NoJob] /\ Listen(w, "wait")
      /\ job' = job /\ requeues' = requeues /\ UNCHANGED <<processors, lifecycle>>
  BY DEF Lost, store
<1>2. MovesTo(w, "wait", NoJob)
  BY <1>1 DEF MovesTo, HoldsAt, PCs
<1>3. ASSUME NEW k \in JobIds, job[k].is = "active" PROVE held'[job[k].token] = k
  <2>1. job[k].token \in Workers /\ held[job[k].token] = k
    BY <1>3, JobForms DEF Sound, LaneTypes, ClaimsHeld
  <2>2. job[k].token # w
    BY <1>1, <1>3, OwnClaim
  <2> QED BY <1>1, <2>1, <2>2 DEF Sound, LaneTypes
<1>4. StoreOK
  BY <1>1, <1>3 DEF StoreOK, ClaimsHeld, Sound, LaneTypes
<1> QED BY <1>1, <1>2, <1>4, Stays

LEMMA WorkersMove ==
    ASSUME Sound, NEW w \in Workers, Turn(w) \/ ProcessorEnds(w) \/ Heartbeat(w)
    PROVE  WorkerStep(w)
<1>0. /\ HoldsAt(place[w], held[w]) /\ place[w] \in PCs
      /\ requeues \in [JobIds -> 0..MaxRequeues] /\ MaxRequeues \in Nat
  BY DEF Sound, LaneTypes, Shape, HoldsAt, Bounds
<1>1. ASSUME NEW at, HoldsAt(at, held[w]), at \in PCs \ {"unborn"},
             place[w] \notin {"unborn", "ended"},
             Goto(w, at) \/ (at \in {"wait", "run"} /\ Listen(w, at)),
             UNCHANGED <<store, processors, held, lifecycle>>
      PROVE  WorkerStep(w)
  BY <1>1, GoesOn, Stays
<1>2. CASE LoopExit(w)
  BY <1>0, <1>1, <1>2 DEF LoopExit, HoldsAt, PCs
<1>3. CASE NoProcessors(w)
  BY <1>0, <1>1, <1>3 DEF NoProcessors, HoldsAt, PCs
<1>4. CASE ClaimNothing(w)
  BY <1>0, <1>1, <1>4 DEF ClaimNothing, HoldsAt, PCs
<1>5. CASE WaitOver(w)
  <2>1. CASE held[w] = NoJob
    BY <1>0, <1>1, <1>5, <2>1 DEF WaitOver, HoldsAt, PCs
  <2>2. CASE held[w] # NoJob
    BY <1>0, <1>1, <1>5, <2>2 DEF WaitOver, HoldsAt, PCs
  <2> QED BY <2>1, <2>2
<1>6. CASE Found(w)
  BY <1>0, <1>1, <1>6 DEF Found, HoldsAt, PCs
<1>7. CASE GivesUp(w)
  BY <1>0, <1>1, <1>7 DEF GivesUp, HoldsAt, PCs
<1>8. CASE SeeksOn(w)
  BY <1>0, <1>1, <1>8 DEF SeeksOn, HoldsAt, PCs
<1>9. CASE SeesSignal(w)
  BY <1>0, <1>1, <1>9 DEF SeesSignal, HoldsAt, PCs
<1>10. CASE ProcessorEnds(w)
  BY <1>0, <1>1, <1>10 DEF ProcessorEnds, HoldsAt, PCs
<1>11. CASE Heartbeat(w)
  BY <1>0, <1>1, <1>11 DEF Heartbeat, HoldsAt, PCs
<1>12. CASE Release(w)
  BY <1>0, <1>12, Settling DEF Release
<1>13. CASE Complete(w)
  BY <1>0, <1>13, Settling, JobForms DEF Complete
<1>14. CASE Fail(w)
  BY <1>0, <1>14, Settling, JobForms DEF Fail
<1>15. CASE Retry(w)
  <2>1. Settle(w, "fail", L!Pending) /\ requeues[held[w]] < MaxRequeues
        /\ requeues' = [requeues EXCEPT ![held[w]] = @ + 1]
    BY <1>15 DEF Retry
  <2>2. held[w] \in JobIds
    BY <2>1 DEF Settle, Sound, LaneTypes
  <2>3. requeues[held[w]] + 1 \in 0..MaxRequeues
    BY <1>0, <2>1, <2>2
  <2>4. requeues' \in [JobIds -> 0..MaxRequeues]
    BY <1>0, <2>1, <2>2, <2>3
  <2> QED BY <2>1, <2>4, Settling
<1> QED
  BY <1>2, <1>3, <1>4, <1>5, <1>6, <1>7, <1>8, <1>9, <1>10, <1>11, <1>12, <1>13,
     <1>14, <1>15, Claiming, Recovering, Renewing, Refusing DEF Turn
-----------------------------------------------------------------------------
(* Calls, and leases that run out.                                         *)

(* What a step that moves no worker's claim leaves.                        *)
Apart ==
    /\ held' = held /\ requeues' \in [JobIds -> 0..MaxRequeues]
    /\ \A i \in JobIds : job'[i].is = "active" =>
          job[i].is = "active" /\ job'[i].token = job[i].token
    /\ job' \in [JobIds -> L!States]
    /\ L!Clear \/ \A i \in JobIds : L!Moves(job[i], job'[i])

LEMMA ApartClaims ==
    ASSUME Sound, Apart PROVE ClaimsHeld'
BY DEF Sound, Apart, ClaimsHeld

LEMMA ApartSame ==
    ASSUME Sound, UNCHANGED store, held' = held PROVE Apart
BY DEF Sound, Apart, LaneTypes, store, L!Moves

LEMMA ApartSound ==
    ASSUME Sound, Apart, place' = place, running' \in BOOLEAN, permit' \in BOOLEAN,
           overlapped' \in BOOLEAN, processors' \subseteq Names,
           handles' \subseteq Workers, woken' \subseteq InSelect,
           hook' \in [LaneCallers -> CallStates]
    PROVE  Sound'
<1>1. InSelect' = InSelect
  BY DEF InSelect
<1>2. LaneTypes'
  BY <1>1 DEF Sound, LaneTypes, Apart
<1>3. Shape'
  BY DEF Sound, Shape
<1> QED BY <1>2, <1>3, ApartClaims DEF Sound, Bounds

LEMMA EnqueuedSound ==
    ASSUME Sound, NEW i \in JobIds, Enqueue(i) PROVE Sound' /\ Apart
<1>1. /\ job[i] = L!Absent /\ job' = [job EXCEPT ![i] = L!Pending]
      /\ requeues' = requeues /\ processors' = processors /\ place' = place /\ held' = held
      /\ UNCHANGED lifecycle
  BY DEF Enqueue, task
<1>2. permit' \in BOOLEAN /\ woken' \subseteq InSelect
  BY DEF Enqueue, Sound, LaneTypes
<1>3. job \in [JobIds -> L!States] /\ requeues \in [JobIds -> 0..MaxRequeues]
  BY DEF Sound, LaneTypes
<1>4. L!Moves(job[i], L!Pending)
  BY <1>1 DEF L!Moves, L!Added
<1>5. Apart
  <2>1. job' \in [JobIds -> L!States]
    BY <1>1, <1>3, JobForms
  <2>2. ASSUME NEW k \in JobIds PROVE L!Moves(job[k], job'[k])
    <3>1. CASE k = i
      BY <1>1, <1>3, <1>4, <3>1
    <3>2. CASE k # i
      BY <1>1, <1>3, <3>2 DEF L!Moves
    <3> QED BY <3>1, <3>2
  <2>3. ASSUME NEW k \in JobIds, job'[k].is = "active" PROVE k # i
    BY <1>1, <1>3, <2>3, JobForms
  <2>4. \A k \in JobIds : k # i => job'[k] = job[k]
    BY <1>1, <1>3
  <2> QED BY <1>1, <1>3, <2>1, <2>2, <2>3, <2>4 DEF Apart
<1> QED BY <1>1, <1>2, <1>5, ApartSound DEF Sound, LaneTypes, Shape, lifecycle

LEMMA LapsedSound ==
    ASSUME Sound, NEW i \in JobIds, LeaseRunsOut(i) PROVE Sound' /\ Apart
<1>1. /\ job[i].is = "active" /\ job' = [job EXCEPT ![i].lease = "over"]
      /\ UNCHANGED <<requeues, processors, notify, task, lifecycle>>
  BY DEF LeaseRunsOut
<1>2. job \in [JobIds -> L!States] /\ requeues \in [JobIds -> 0..MaxRequeues]
  BY DEF Sound, LaneTypes
<1> DEFINE over == [job[i] EXCEPT !.lease = "over"]
<1>3. job[i] \in L!Actives /\ job[i] \in L!States
  BY <1>1, <1>2, JobForms
<1>4. over \in L!Actives /\ over.token = job[i].token /\ over \in L!States
  BY <1>3, JobForms
<1>5. job' = [job EXCEPT ![i] = over]
  BY <1>1
<1> HIDE DEF over
<1>6. L!Moves(job[i], over)
  BY <1>3, <1>4 DEF L!Moves, L!Kept
<1>7. Apart
  <2>1. job' \in [JobIds -> L!States]
    BY <1>2, <1>4, <1>5
  <2>2. ASSUME NEW k \in JobIds
        PROVE  /\ L!Moves(job[k], job'[k])
               /\ job'[k].is = "active" =>
                     job[k].is = "active" /\ job'[k].token = job[k].token
    <3>1. CASE k = i
      BY <1>1, <1>2, <1>4, <1>5, <1>6, <3>1
    <3>2. CASE k # i
      BY <1>2, <1>5, <3>2 DEF L!Moves
    <3> QED BY <3>1, <3>2
  <2> QED BY <1>1, <1>2, <2>1, <2>2 DEF Apart, task
<1> QED
  BY <1>1, <1>7, ApartSound DEF Sound, LaneTypes, Shape, lifecycle, notify, task

LEMMA ProcessSound ==
    ASSUME Sound, NEW n \in Names, Process(n) PROVE Sound' /\ Apart
<1>1. Apart
  BY ApartSame DEF Process, task
<1> QED
  BY <1>1, ApartSound
     DEF Process, NotifyWaiters, Sound, LaneTypes, Shape, lifecycle, task

LEMMA ClearSound ==
    ASSUME Sound, Clear PROVE Sound' /\ Apart
<1>1. Apart
  <2>1. job' = L!Cleared /\ requeues' = [i \in JobIds |-> 0] /\ held' = held
    BY DEF Clear, L!Clear, task
  <2>2. \A i \in JobIds : job'[i] = L!Absent
    BY <2>1 DEF L!Cleared
  <2>3. job' \in [JobIds -> L!States]
    BY <2>1, JobForms DEF L!Cleared
  <2>4. requeues' \in [JobIds -> 0..MaxRequeues]
    BY <2>1 DEF Sound, Bounds
  <2> QED BY <2>1, <2>2, <2>3, <2>4, JobForms DEF Apart, L!Clear
<1> QED
  BY <1>1, ApartSound
     DEF Clear, NotifyWaiters, Sound, LaneTypes, Shape, lifecycle, task

(* Where a call goes: nothing else of its caller's state changes.          *)
LEMMA CallMoves ==
    ASSUME Sound, NEW c \in LaneCallers, NEW to \in CallStates,
           hook' = [hook EXCEPT ![c] = to]
    PROVE  hook' \in [LaneCallers -> CallStates]
BY DEF Sound, Shape

LEMMA CallForms ==
    /\ Idle \in CallStates /\ [at |-> "spawn"] \in CallStates
    /\ [at |-> "notify"] \in CallStates /\ [at |-> "take"] \in CallStates
    /\ \A ws \in SUBSET Workers : [at |-> "await", todo |-> ws] \in CallStates
BY DEF CallStates

LEMMA CallsSound ==
    ASSUME Sound, NEW c \in LaneCallers, Start(c) \/ Shutdown(c) \/ CallStep(c), ~Spawn(c)
    PROVE  Sound' /\ Apart /\ place' = place
<1>1. UNCHANGED store /\ held' = held /\ place' = place /\ permit' = permit
      /\ processors' = processors
  BY DEF Start, Shutdown, CallStep, ShutdownNotifies, ShutdownTakesHandles,
         ShutdownReturns, task, notify
<1>2. woken' \subseteq InSelect /\ handles' \subseteq Workers
  BY DEF Start, Shutdown, CallStep, ShutdownNotifies, ShutdownTakesHandles,
         ShutdownReturns, notify, NotifyWaiters, Sound, LaneTypes
<1>3. running' \in BOOLEAN /\ overlapped' \in BOOLEAN
  BY DEF Start, Shutdown, CallStep, ShutdownNotifies, ShutdownTakesHandles,
         ShutdownReturns, Sound, LaneTypes, Stopping
<1>4. hook' \in [LaneCallers -> CallStates]
  <2>0. handles \in SUBSET Workers /\ hook \in [LaneCallers -> CallStates]
    BY DEF Sound, LaneTypes, Shape
  <2>1. CASE Start(c)
    BY <2>0, <2>1, CallMoves, CallForms DEF Start
  <2>2. CASE Shutdown(c)
    BY <2>2, CallMoves, CallForms DEF Shutdown
  <2>3. CASE ShutdownNotifies(c)
    BY <2>3, CallMoves, CallForms DEF ShutdownNotifies
  <2>4. CASE ShutdownTakesHandles(c)
    BY <2>0, <2>4, CallMoves, CallForms DEF ShutdownTakesHandles
  <2>5. CASE ShutdownReturns(c)
    BY <2>5, CallMoves, CallForms DEF ShutdownReturns
  <2> QED BY <2>1, <2>2, <2>3, <2>4, <2>5 DEF CallStep
<1>5. Apart
  BY <1>1, ApartSame
<1> QED BY <1>1, <1>2, <1>3, <1>4, <1>5, ApartSound DEF Sound, LaneTypes

(* New workers hold nothing.                                               *)
LEMMA SpawnSound ==
    ASSUME Sound, NEW c \in LaneCallers, Spawn(c) PROVE Sound' /\ Apart
<1>1. PICK new \in SUBSET {w \in Workers : place[w] = "unborn"} :
            /\ place' = [w \in Workers |-> IF w \in new THEN "top" ELSE place[w]]
            /\ handles' = handles \cup new
  BY DEF Spawn
<1>2. /\ UNCHANGED <<store, running, processors, permit, held, overlapped>>
      /\ woken' = InSelect /\ hook' = [hook EXCEPT ![c] = Idle]
  BY DEF Spawn, NotifyWaiters
<1>3. Apart
  BY <1>2, ApartSame
<1>4. InSelect' = InSelect
  BY <1>1 DEF InSelect
<1>5. Shape'
  <2>1. place' \in [Workers -> PCs]
    BY <1>1 DEF Sound, Shape, PCs
  <2> QED BY <1>2, <2>1, CallMoves, CallForms DEF Shape
<1>6. ASSUME NEW w \in Workers
      PROVE  HoldsAt(place'[w], held'[w])
  BY <1>1, <1>2 DEF Sound, LaneTypes, HoldsAt
<1>7. LaneTypes'
  BY <1>1, <1>2, <1>3, <1>4, <1>6 DEF Sound, LaneTypes, Apart, HoldsAt
<1> QED BY <1>3, <1>5, <1>7, ApartClaims DEF Sound, Bounds

-----------------------------------------------------------------------------
(* Every step.                                                             *)

LEMMA SoundInit == ASSUME Bounds, LaneInit PROVE Sound
<1>1. \A i \in JobIds : job[i] = L!Absent
  BY DEF LaneInit, L!Init, L!Cleared
<1>2. job \in [JobIds -> L!States]
  BY JobForms DEF LaneInit, L!Init, L!Cleared
<1>3. ClaimsHeld
  BY <1>1, JobForms DEF ClaimsHeld
<1>4. Shape
  BY DEF LaneInit, Shape, PCs, CallStates
<1>5. LaneTypes
  <2>1. requeues \in [JobIds -> 0..MaxRequeues]
    BY DEF LaneInit, Bounds
  <2>2. /\ running \in BOOLEAN /\ permit \in BOOLEAN /\ overlapped \in BOOLEAN
        /\ processors \subseteq Names /\ handles \subseteq Workers
        /\ woken \subseteq InSelect
    BY DEF LaneInit
  <2>3. held \in [Workers -> JobIds \cup {NoJob}]
        /\ \A w \in Workers : place[w] = "unborn" /\ held[w] = NoJob
    BY DEF LaneInit
  <2> QED BY <1>2, <2>1, <2>2, <2>3 DEF LaneTypes
<1> QED BY <1>3, <1>4, <1>5 DEF Sound

(* A worker, or a step that moves no claim.                                *)
Steps ==
    \/ \E w \in Workers : WorkerStep(w)
    \/ Apart

LEMMA SoundNext == ASSUME Sound, [LaneNext]_LaneVars PROVE Sound' /\ Steps
<1>1. ASSUME NEW w \in Workers, Turn(w) \/ ProcessorEnds(w) \/ Heartbeat(w)
      PROVE  Sound' /\ Steps
  <2>1. WorkerStep(w)
    BY <1>1, WorkersMove
  <2> QED BY <2>1, MovesSound DEF WorkerStep, Steps
<1>2. ASSUME NEW c \in LaneCallers, Start(c) \/ Shutdown(c) \/ CallStep(c)
      PROVE  Sound' /\ Steps
  BY <1>2, CallsSound, SpawnSound DEF Steps
<1>3. CASE UNCHANGED LaneVars
  <2>1. Apart
    BY <1>3, ApartSame DEF LaneVars, store
  <2> QED BY <1>3, <2>1, ApartSound DEF LaneVars, Sound, LaneTypes, Shape, Steps
<1>4. CASE \E i \in JobIds : Enqueue(i) \/ LeaseRunsOut(i)
  BY <1>4, EnqueuedSound, LapsedSound DEF Steps
<1>5. CASE (\E n \in Names : Process(n)) \/ Clear
  BY <1>5, ProcessSound, ClearSound DEF Steps
<1> QED BY <1>1, <1>2, <1>3, <1>4, <1>5 DEF LaneNext

LEMMA SoundAlways == ASSUME Bounds PROVE LaneSpec => []Sound
<1>1. LaneInit => Sound
  BY SoundInit
<1>2. Sound /\ [LaneNext]_LaneVars => Sound'
  BY SoundNext
<1> QED BY <1>1, <1>2, PTL DEF LaneSpec

(* Types of the state; a worker holds a job from its claim until it has    *)
(* settled it (run_queue_worker_once).                                     *)
THEOREM Typing == ASSUME Bounds PROVE LaneSpec => []LaneTypes
<1>1. Sound => LaneTypes
  BY DEF Sound
<1> QED BY <1>1, SoundAlways, PTL

(* The store moves every job as LeasedJobs says: no two workers own jobs   *)
(* under one claim, only the owner settles a job or its lease is over, and *)
(* what has ended is not worked again (claim_job, renew_job_lock,          *)
(* complete_job, fail_job, release_active_job, recover_stalled_jobs).      *)
THEOREM Implements == ASSUME Bounds PROVE LaneSpec => L!Spec
<1>1. LaneInit => L!Init
  BY DEF LaneInit
<1>2. ASSUME Sound, [LaneNext]_LaneVars PROVE [L!Next]_job
  <2>1. Sound' /\ Steps
    BY <1>2, SoundNext
  <2>2. L!OneEach(job')
    <3>1. ASSUME NEW i \in JobIds, NEW k \in JobIds, NEW t \in Workers,
                 L!OwnedBy(job'[i], t), L!OwnedBy(job'[k], t)
          PROVE  i = k
      BY <2>1, <3>1 DEF Sound, ClaimsHeld, L!OwnedBy
    <3> QED BY <3>1 DEF L!OneEach
  <2>3. job' \in [JobIds -> L!States]
    BY <2>1 DEF Sound, LaneTypes
  <2> QED BY <2>1, <2>2, <2>3 DEF Steps, WorkerStep, Apart, L!Next, L!Step
<1> QED BY <1>1, <1>2, SoundAlways, PTL DEF LaneSpec, L!Spec

-----------------------------------------------------------------------------
(* How many workers there are, and who waits for them.                     *)

(* As long as no start and no shutdown overlapped: one start at a time is  *)
(* between its flag and its workers, and before it spawns them none is     *)
(* left; a stopped queue without a shutdown under way has none.  And, even *)
(* if they overlapped: each live worker is one whose handle is kept or     *)
(* that a shutdown waits for.                                              *)
OneSpawns ==
    \A c \in LaneCallers : hook[c].at = "spawn" =>
        /\ running /\ Live = {}
        /\ \A d \in LaneCallers : hook[d].at = "spawn" => c = d
StopsFirst == (Stopping => ~running) /\ (~running /\ ~Stopping => Live = {})
Awaited ==
    \A w \in Live : w \in handles \/ \E c \in LaneCallers :
        hook[c].at = "await" /\ w \in hook[c].todo
HandlesTaken == \A c \in LaneCallers : hook[c].at = "await" => handles = {}
Few == Cardinality(Live) <= WorkerCount

Orderly == OneSpawns /\ StopsFirst /\ Awaited /\ HandlesTaken /\ Few

LEMMA LiveFinite ==
    ASSUME Bounds, NEW S \in SUBSET Workers, NEW T \in SUBSET S
    PROVE  /\ IsFiniteSet(S) /\ Cardinality(S) \in Nat
           /\ Cardinality(T) \in Nat /\ Cardinality(T) <= Cardinality(S)
BY FS_Subset, FS_CardinalityType DEF Bounds

(* Fewer workers, and the calls as they were.                              *)
LEMMA FewerOrderly ==
    ASSUME Bounds, Orderly, Live' \subseteq Live,
           UNCHANGED <<running, handles, hook>>
    PROVE  Orderly'
<1>1. OneSpawns' /\ StopsFirst' /\ Awaited' /\ HandlesTaken'
  BY DEF Orderly, OneSpawns, StopsFirst, Awaited, HandlesTaken, Stopping
<1>2. Few'
  <2> DEFINE S == Live
             T == Live'
  <2>1. S \in SUBSET Workers /\ T \in SUBSET S
    BY DEF Live
  <2>2. Cardinality(S) <= WorkerCount
    BY DEF Orderly, Few
  <2> HIDE DEF S, T
  <2>3. Cardinality(T) <= WorkerCount
    BY <2>1, <2>2, LiveFinite DEF Bounds
  <2> QED BY <2>3 DEF Few, T
<1> QED BY <1>1, <1>2 DEF Orderly

LEMMA WorkersLeave ==
    ASSUME Sound, NEW w \in Workers, WorkerStep(w)
    PROVE  Live' \subseteq Live /\ UNCHANGED lifecycle
BY DEF WorkerStep, MovesTo, Goto, Listen, Live, Sound, Shape

LEMMA StartOrderly ==
    ASSUME Sound, Orderly, NEW c \in LaneCallers, Start(c), ~overlapped' PROVE Orderly'
<1>1. /\ UNCHANGED <<handles, place>> /\ hook[c] = Idle
      /\ \/ UNCHANGED <<running, hook>>
         \/ /\ ~running /\ ~Stopping /\ running'
            /\ hook' = [hook EXCEPT ![c] = [at |-> "spawn"]]
  BY DEF Start, task, Sound, LaneTypes
<1>2. Live' = Live
  BY <1>1 DEF Live
<1>3. CASE UNCHANGED <<running, hook>>
  BY <1>1, <1>2, <1>3, FewerOrderly DEF Sound
<1>4. CASE /\ ~running /\ ~Stopping /\ running'
           /\ hook' = [hook EXCEPT ![c] = [at |-> "spawn"]]
  <2>1. /\ \A d \in LaneCallers : hook[d].at # "spawn"
        /\ \A d \in LaneCallers : hook[d].at \notin {"notify", "take", "await"}
        /\ Live = {}
    BY <1>4 DEF Orderly, OneSpawns, StopsFirst, Stopping
  <2>2. \A d \in LaneCallers : (hook'[d].at = "spawn" <=> d = c)
                               /\ hook'[d].at \notin {"notify", "take", "await"}
    BY <1>4, <2>1 DEF Sound, Shape
  <2>3. OneSpawns' /\ StopsFirst' /\ Awaited' /\ HandlesTaken'
    BY <1>2, <1>4, <2>1, <2>2
       DEF OneSpawns, StopsFirst, Awaited, HandlesTaken, Stopping
  <2>4. Few'
    BY <1>2 DEF Orderly, Few
  <2> QED BY <2>3, <2>4 DEF Orderly
<1> QED BY <1>1, <1>3, <1>4

LEMMA SpawnOrderly ==
    ASSUME Sound, Orderly, NEW c \in LaneCallers, Spawn(c) PROVE Orderly'
<1>1. PICK new \in SUBSET {w \in Workers : place[w] = "unborn"} :
            /\ Cardinality(new) = WorkerCount
            /\ place' = [w \in Workers |-> IF w \in new THEN "top" ELSE place[w]]
            /\ handles' = handles \cup new
  BY DEF Spawn
<1>2. /\ running' = running /\ hook' = [hook EXCEPT ![c] = Idle]
      /\ hook[c].at = "spawn"
  BY DEF Spawn
<1>3. /\ running /\ Live = {} /\ ~Stopping
      /\ \A d \in LaneCallers : hook[d].at = "spawn" => d = c
  BY <1>2 DEF Orderly, OneSpawns, StopsFirst
<1>4. Live' = new
  BY <1>1, <1>3 DEF Live, Sound, Shape
<1>5. \A d \in LaneCallers : hook'[d].at \notin {"spawn", "notify", "take", "await"}
  BY <1>2, <1>3 DEF Sound, Shape, Stopping, Idle
<1>6. OneSpawns' /\ StopsFirst' /\ Awaited' /\ HandlesTaken'
  BY <1>1, <1>2, <1>3, <1>4, <1>5
     DEF OneSpawns, StopsFirst, Awaited, HandlesTaken, Stopping
<1>7. Few'
  BY <1>1, <1>4 DEF Few, Sound, Bounds
<1> QED BY <1>6, <1>7 DEF Orderly

LEMMA ShutdownOrderly ==
    ASSUME Sound, Orderly, NEW c \in LaneCallers, Shutdown(c), ~overlapped' PROVE Orderly'
<1>1. /\ UNCHANGED <<handles, place>> /\ hook[c] = Idle /\ ~running'
      /\ hook' = [hook EXCEPT ![c] = [at |-> "notify"]]
      /\ \A d \in LaneCallers : hook[d].at # "spawn"
  BY DEF Shutdown, task
<1>2. Live' = Live
  BY <1>1 DEF Live
<1>3. /\ hook'[c].at = "notify"
      /\ \A d \in LaneCallers : d # c => hook'[d] = hook[d]
      /\ hook[c].at = "idle"
  BY <1>1 DEF Sound, Shape, Idle
<1>4. OneSpawns' /\ StopsFirst'
  BY <1>1, <1>3 DEF OneSpawns, StopsFirst, Stopping
<1>5. Awaited' /\ HandlesTaken'
  BY <1>1, <1>2, <1>3 DEF Orderly, Awaited, HandlesTaken
<1>6. Few'
  BY <1>2 DEF Orderly, Few
<1> QED BY <1>4, <1>5, <1>6 DEF Orderly

LEMMA ShutdownGoesOn ==
    ASSUME Sound, Orderly, NEW c \in LaneCallers,
           ShutdownNotifies(c) \/ ShutdownTakesHandles(c)
    PROVE  Orderly'
<1>1. /\ UNCHANGED <<running, place>> /\ hook[c].at \in {"notify", "take"}
      /\ \/ /\ handles' = handles
            /\ hook' = [hook EXCEPT ![c] = [at |-> "take"]]
         \/ /\ handles' = {}
            /\ hook' = [hook EXCEPT ![c] = [at |-> "await", todo |-> handles]]
  BY DEF ShutdownNotifies, ShutdownTakesHandles, task
<1>2. Live' = Live
  BY <1>1 DEF Live
<1>3. \A d \in LaneCallers : d # c => hook'[d] = hook[d]
  BY <1>1 DEF Sound, Shape
<1>4. \/ handles' = handles /\ hook'[c] = [at |-> "take"]
      \/ handles' = {} /\ hook'[c] = [at |-> "await", todo |-> handles]
  BY <1>1 DEF Sound, Shape
<1>5. Stopping /\ Stopping' /\ hook'[c].at # "spawn"
  BY <1>1, <1>4 DEF Stopping
<1>6. OneSpawns' /\ StopsFirst'
  BY <1>1, <1>2, <1>3, <1>5 DEF Orderly, OneSpawns, StopsFirst
<1>7. Awaited' /\ HandlesTaken'
  <2>1. CASE handles' = handles /\ hook'[c] = [at |-> "take"]
    BY <1>1, <1>2, <1>3, <2>1 DEF Orderly, Awaited, HandlesTaken
  <2>2. CASE handles' = {} /\ hook'[c] = [at |-> "await", todo |-> handles]
    BY <1>1, <1>2, <1>3, <2>2 DEF Orderly, Awaited, HandlesTaken
  <2> QED BY <1>4, <2>1, <2>2
<1>8. Few'
  BY <1>2 DEF Orderly, Few
<1> QED BY <1>6, <1>7, <1>8 DEF Orderly

(* The shutdown that returns last leaves no worker.                        *)
LEMMA ReturnsOrderly ==
    ASSUME Sound, Orderly, NEW c \in LaneCallers, ShutdownReturns(c) PROVE Orderly'
<1>1. /\ UNCHANGED <<running, place, handles>> /\ hook[c].at = "await"
      /\ hook[c].todo \cap Live = {} /\ hook' = [hook EXCEPT ![c] = Idle]
  BY DEF ShutdownReturns, task
<1>2. Live' = Live /\ handles = {} /\ ~running
  BY <1>1 DEF Live, Orderly, HandlesTaken, StopsFirst, Stopping
<1>3. /\ \A d \in LaneCallers : d # c => hook'[d] = hook[d]
      /\ hook'[c].at = "idle"
  BY <1>1 DEF Sound, Shape, Idle
<1>4. ASSUME NEW w \in Live
      PROVE  \E d \in LaneCallers : d # c /\ hook[d].at = "await" /\ w \in hook[d].todo
  BY <1>1, <1>2 DEF Orderly, Awaited
<1>5. Awaited' /\ HandlesTaken'
  BY <1>1, <1>2, <1>3, <1>4 DEF Awaited, HandlesTaken
<1>6. OneSpawns'
  BY <1>1, <1>2, <1>3 DEF Orderly, OneSpawns
<1>7. StopsFirst'
  BY <1>1, <1>2, <1>3, <1>4 DEF StopsFirst, Stopping
<1>8. Few'
  BY <1>2 DEF Orderly, Few
<1> QED BY <1>5, <1>6, <1>7, <1>8 DEF Orderly

LEMMA OrderlyNext ==
    ASSUME Sound, [LaneNext]_LaneVars, ~overlapped => Orderly PROVE ~overlapped' => Orderly'
<1> SUFFICES ASSUME ~overlapped' PROVE Orderly'
  OBVIOUS
<1>1. ASSUME NEW w \in Workers, Turn(w) \/ ProcessorEnds(w) \/ Heartbeat(w)
      PROVE  Orderly'
  <2>1. Live' \subseteq Live /\ UNCHANGED lifecycle
    BY <1>1, WorkersMove, WorkersLeave
  <2> QED BY <2>1, FewerOrderly DEF Sound, lifecycle
<1>2. ASSUME NEW c \in LaneCallers, Start(c) \/ Shutdown(c) \/ CallStep(c)
      PROVE  Orderly'
  <2>1. ~overlapped
    BY <1>2 DEF Start, Shutdown, CallStep, Spawn, ShutdownNotifies,
               ShutdownTakesHandles, ShutdownReturns
  <2> QED
    BY <1>2, <2>1, StartOrderly, SpawnOrderly, ShutdownOrderly, ShutdownGoesOn,
       ReturnsOrderly DEF CallStep
<1>3. ASSUME UNCHANGED <<place, lifecycle>> PROVE Orderly'
  <2>1. Live' \subseteq Live
    BY <1>3 DEF Live
  <2> QED BY <1>3, <2>1, FewerOrderly DEF Sound, lifecycle
<1>4. CASE UNCHANGED LaneVars
  BY <1>3, <1>4 DEF LaneVars, lifecycle
<1>5. CASE \E i \in JobIds : Enqueue(i) \/ LeaseRunsOut(i)
  BY <1>3, <1>5 DEF Enqueue, LeaseRunsOut, task
<1>6. CASE (\E n \in Names : Process(n)) \/ Clear
  BY <1>3, <1>6 DEF Process, Clear, task
<1> QED BY <1>1, <1>2, <1>4, <1>5, <1>6 DEF LaneNext

LEMMA OrderlyInit == ASSUME Bounds, LaneInit PROVE Orderly
<1>1. Live = {} /\ \A c \in LaneCallers : hook[c].at = "idle"
  BY DEF LaneInit, Live, Idle
<1>2. Few
  BY <1>1, FS_EmptySet DEF Few, Bounds
<1> QED
  BY <1>1, <1>2
     DEF LaneInit, Orderly, OneSpawns, StopsFirst, Stopping, Awaited, HandlesTaken

(* Whatever overlaps: no live worker is forgotten.                         *)
LEMMA AwaitedNext ==
    ASSUME Sound, Awaited, [LaneNext]_LaneVars PROVE Awaited'
<1>1. ASSUME Live' \subseteq Live, UNCHANGED <<handles, hook>> PROVE Awaited'
  BY <1>1 DEF Awaited
<1>2. ASSUME NEW w \in Workers, Turn(w) \/ ProcessorEnds(w) \/ Heartbeat(w)
      PROVE  Awaited'
  <2>1. Live' \subseteq Live /\ UNCHANGED lifecycle
    BY <1>2, WorkersMove, WorkersLeave
  <2> QED BY <1>1, <2>1 DEF lifecycle
<1>3. ASSUME NEW c \in LaneCallers,
             Start(c) \/ Shutdown(c) \/ ShutdownNotifies(c)
      PROVE  Awaited'
  <2>1. /\ UNCHANGED <<place, handles>> /\ hook[c].at # "await"
        /\ hook' = hook \/ \E call : hook' = [hook EXCEPT ![c] = call]
    BY <1>3 DEF Start, Shutdown, ShutdownNotifies, task, Idle
  <2>2. \A d \in LaneCallers : d # c => hook'[d] = hook[d]
    BY <2>1 DEF Sound, Shape
  <2> QED BY <2>1, <2>2 DEF Awaited, Live
<1>4. ASSUME NEW c \in LaneCallers, Spawn(c) PROVE Awaited'
  <2>1. PICK new \in SUBSET {w \in Workers : place[w] = "unborn"} :
           /\ place' = [w \in Workers |-> IF w \in new THEN "top" ELSE place[w]]
           /\ handles' = handles \cup new
    BY <1>4 DEF Spawn
  <2>2. /\ hook' = [hook EXCEPT ![c] = Idle] /\ hook[c].at # "await"
        /\ \A d \in LaneCallers : d # c => hook'[d] = hook[d]
    BY <1>4 DEF Spawn, Sound, Shape
  <2>3. Live' \subseteq Live \cup new
    BY <2>1 DEF Live
  <2> QED BY <2>1, <2>2, <2>3 DEF Awaited
<1>5. ASSUME NEW c \in LaneCallers,
             ShutdownTakesHandles(c) \/ ShutdownReturns(c)
      PROVE  Awaited'
  <2>1. /\ UNCHANGED place
        /\ \A d \in LaneCallers : d # c => hook'[d] = hook[d]
        /\ \/ hook[c].at = "take" /\ hook'[c] = [at |-> "await", todo |-> handles]
           \/ /\ hook[c].at = "await" /\ hook[c].todo \cap Live = {}
              /\ handles' = handles
    BY <1>5 DEF ShutdownTakesHandles, ShutdownReturns, task, Sound, Shape
  <2>2. Live' = Live
    BY <2>1 DEF Live
  <2> QED BY <2>1, <2>2 DEF Awaited
<1>6. ASSUME UNCHANGED <<place, lifecycle>> PROVE Awaited'
  <2>1. Live' \subseteq Live
    BY <1>6 DEF Live
  <2> QED BY <1>1, <1>6, <2>1 DEF lifecycle
<1>7. CASE UNCHANGED LaneVars
  BY <1>6, <1>7 DEF LaneVars, lifecycle
<1>8. CASE \E i \in JobIds : Enqueue(i) \/ LeaseRunsOut(i)
  BY <1>6, <1>8 DEF Enqueue, LeaseRunsOut, task
<1>9. CASE (\E n \in Names : Process(n)) \/ Clear
  BY <1>6, <1>9 DEF Process, Clear, task
<1> QED BY <1>2, <1>3, <1>4, <1>5, <1>7, <1>8, <1>9 DEF LaneNext, CallStep

(* As many workers as configured, none that runs on unseen and none that   *)
(* takes a job with it (start, shutdown, process_claimed_job).             *)
THEOREM Bounded == ASSUME Bounds PROVE LaneSpec => []WorkersBounded
<1> DEFINE Inv == Sound /\ Awaited /\ (~overlapped => Orderly)
<1>1. LaneInit => Inv
  BY SoundInit, OrderlyInit DEF Orderly, LaneInit
<1>2. Inv /\ [LaneNext]_LaneVars => Inv'
  BY SoundNext, AwaitedNext, OrderlyNext
<1>3. Inv => WorkersBounded
  <2> SUFFICES ASSUME Inv PROVE WorkersBounded
    OBVIOUS
  <2>1. (\A c \in LaneCallers : hook[c] = Idle) => ~Stopping
    BY DEF Stopping, Idle
  <2>2. Live \subseteq handles \cup {w \in Workers : \E c \in LaneCallers :
                                       hook[c].at = "await" /\ w \in hook[c].todo}
    BY DEF Awaited, Live
  <2> QED
    BY <2>1, <2>2
       DEF WorkersBounded, Orderly, StopsFirst, Few, Sound, ClaimsHeld
<1> QED BY <1>1, <1>2, <1>3, PTL DEF LaneSpec
=============================================================================
