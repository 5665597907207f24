--------------------------- MODULE MCPostgresQueue ---------------------------
(* Workloads and symmetry for model checking PostgresQueue.                *)
EXTENDS PostgresQueue, TLC

CONSTANTS w1, w2, t1, t2, t3, t4

Symmetry == Permutations({w1, w2}) \cup Permutations({t1, t2, t3, t4})

(* QueueJobOptions::default() for the processor "mail".                    *)
Plain ==
    [name |-> "mail", jobId |-> None, delayed |-> FALSE, priority |-> 0,
     lifo |-> FALSE, timeout |-> FALSE, maxRetries |-> 0, backoff |-> FALSE,
     maxStalled |-> 1, dedup |-> None, ttl |-> FALSE, extend |-> FALSE,
     replace |-> FALSE, keepLast |-> FALSE, removeOnComplete |-> FALSE,
     removeOnFail |-> FALSE, keepCompleted |-> None, keepFailed |-> None]

MailEverywhere == [w \in Workers |-> {"mail"}]
Nowhere == [w \in Workers |-> {}]

(* Jobs with fixed ids, one that is retried once and one with a timeout.   *)
FencingOpt ==
    [retried |-> [Plain EXCEPT !.jobId = 1, !.maxRetries = 1, !.backoff = TRUE,
                               !.removeOnComplete = TRUE],
     timed   |-> [Plain EXCEPT !.jobId = 2, !.timeout = TRUE, !.delayed = TRUE]]

(* Requests for one deduplication id: "last" expires and is kept while the *)
(* owner is active, "swap" replaces a delayed owner under an id of its     *)
(* own and only the newest result of it is kept, "more" extends the        *)
(* owner's expiry and leaves no trace.                                     *)
Last == [Plain EXCEPT !.dedup = "d", !.ttl = TRUE, !.keepLast = TRUE]

DedupOpt ==
    [last |-> [Last EXCEPT !.keepCompleted =
                    [aged |-> FALSE, count |-> 1, limit |-> None]],
     swap |-> [Plain EXCEPT !.dedup = "d", !.jobId = 1, !.replace = TRUE,
                            !.delayed = TRUE, !.maxStalled = 0],
     more |-> [Plain EXCEPT !.dedup = "d", !.jobId = 2, !.ttl = TRUE,
                            !.extend = TRUE, !.maxStalled = 0,
                            !.keepFailed =
                                [aged |-> TRUE, count |-> None, limit |-> 1]]]

(* Work that needs everything liveness depends on: a retry after a delay,  *)
(* recoveries, and a successor.                                            *)
LivenessOpt ==
    [retried |-> [Plain EXCEPT !.maxRetries = 1, !.backoff = TRUE,
                               !.dedup = "d", !.keepLast = TRUE]]

(* Keep-last requests whose deduplication id expires.                      *)
ExpiringOpt == [last |-> Last]
=============================================================================
