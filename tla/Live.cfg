SPECIFICATION ShapesSpec
CONSTANTS
    None = None
    t1 = t1
    t2 = t2
    t3 = t3
    a = a
    b = b
    c = c
    d = d
    e = e
    s = s
    Threads = {t1, t2, t3}
    Keys = {a, b, c, d, e, s}
    Injected <- Injects
    Referenced <- Refers
    AsyncKeys = {s}
    Seeder = t1
    MaxCalls = 3
    MaxFaults = 1
CHECK_DEADLOCK FALSE
INVARIANTS NoWaitCycle AsleepOnLiveBuild BuiltOnce
PROPERTIES EveryResolutionEnds
