SPECIFICATION Spec
CONSTANTS
    None = None
    Ids = {i1}
    Values = {"up", "down"}
    Healthy = {"up"}
    Loops = {l1, l2}
    MaxChanges = 1
    MaxCalls = 3
    MaxFaults = 1
INVARIANT BootstrapWatches
CHECK_DEADLOCK FALSE
