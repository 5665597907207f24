SPECIFICATION FairSpec
CONSTANTS
    None = None
    w1 = w1
    w2 = w2
    t1 = t1
    t2 = t2
    t3 = t3
    t4 = t4
    Workers = {w1}
    Tokens = {t1, t2}
    JobIds = {1, 2, 3}
    Work = {"last"}
    Opt <- ExpiringOpt
    Names = {"mail"}
    InitialProcessors <- MailEverywhere
    RecoveryBatchSize = 1
    MaxEnqueues = 3
    MaxFaults = 0
PROPERTIES ExpiredLeaseResolved
