SPECIFICATION QueuesSpec
CONSTANTS
    None = None
    w1 = w1
    w2 = w2
    t1 = t1
    t2 = t2
    t3 = t3
    t4 = t4
    Workers = {w1}
    Tokens = {t1, t2, t3}
    JobIds = {1, 2}
    Work = {"retried"}
    Opt <- LivenessOpt
    Names = {"mail"}
    InitialProcessors <- MailEverywhere
    RecoveryBatchSize = 2
    MaxEnqueues = 2
    MaxFaults = 2
    once = once
    tick = tick
    Clients = {c1, c2}
    Outside = {c2}
PROPERTIES EveryJobEnds ShutdownReturns ShutdownEnds
CHECK_DEADLOCK FALSE
