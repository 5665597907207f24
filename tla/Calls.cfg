SPECIFICATION CallsSpec
CONSTANTS
    None = None
    c1 = c1
    Callers = {c1, c2, c3}
    failure_threshold = 2
    success_threshold = 2
    max_concurrent = 2
    max_retries = 1
    mail = mail
    Sends = {"m"}
    Servers = {"s1", "s2"}
    Protocols = {"tcp"}
    MaxServes = 2
    MaxLosses = 1
    JobIds = {mail}
    Names = {"mail", "other"}
    NameOf <- AllMail
    Workers = {w1, w2}
    LaneCallers = {s1, s2}
    WorkerCount = 1
    MaxRequeues = 1
    MaxStarts = 2
    MaxStops = 1
    MaxClears = 1
    NoJob = NoJob
INVARIANTS BulkheadBound ProbeReports WorkersBounded
PROPERTIES CallsEnd Heals LaneEnds
CHECK_DEADLOCK FALSE
