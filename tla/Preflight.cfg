SPECIFICATION RoutesSpec
CONSTANTS
    None = None
    ma = ma
    mb = mb
    mc = mc
    md = md
    Modules = {ma, mb, mc, md}
    Loaders = {l1}
    Imports <- SomeImports
    Forward <- SomeForward
    EagerSets <- SomeEager
INVARIANT PreflightAnswered
CHECK_DEADLOCK FALSE
