------------------------------- MODULE MCLeases ------------------------------
(***************************************************************************)
(* Two workloads of PostgresQueue with bounds of their own over the same   *)
(* variables, chosen at the start: one about leases and retries, one about *)
(* deduplication, successors and retention.  The constants of this module  *)
(* cover both.                                                             *)
(***************************************************************************)
EXTENDS MCPostgresQueue

VARIABLE workload

LeasesOpt == FencingOpt @@ DedupOpt

Fencing == INSTANCE PostgresQueue WITH
    Work <- {"retried", "timed"}, InitialProcessors <- Nowhere,
    MaxEnqueues <- 2, MaxFaults <- 1, RecoveryBatchSize <- 2

Dedup == INSTANCE PostgresQueue WITH
    Work <- {"last", "swap", "more"}, InitialProcessors <- MailEverywhere,
    MaxEnqueues <- 3, MaxFaults <- 0, RecoveryBatchSize <- 1

LeasesInit ==
    \/ workload = "fencing" /\ Fencing!Init
    \/ workload = "dedup" /\ Dedup!Init

LeasesNext ==
    /\ UNCHANGED workload
    /\ \/ workload = "fencing" /\ Fencing!Next
       \/ workload = "dedup" /\ Dedup!Next

LeasesSpec == LeasesInit /\ [][LeasesNext]_<<vars, workload>>
=============================================================================
