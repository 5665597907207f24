SPECIFICATION FairSpec
CONSTANTS
    None = None
    ma = ma
    mb = mb
    mc = mc
    Modules = {ma, mb, mc}
    Graphs <- Alone
    Entries <- OnlyA
    Microservices = 2
    MaxCalls = 2
    MaxFaults = 1
PROPERTIES HybridServes
CHECK_DEADLOCK FALSE
