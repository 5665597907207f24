SPECIFICATION Spec
CONSTANTS
    None = None
    Names = {once, tick}
    Timeouts = {once}
    Clients = {c1}
    Outside = {}
    InitialJobs = {once}
    MaxOps = 1
    MaxStarts = 1
    MaxStops = 1
    MaxRuns = 1
INVARIANT StopsDuringShutdown
CHECK_DEADLOCK FALSE
