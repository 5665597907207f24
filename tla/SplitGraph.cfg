SPECIFICATION LoaderSpec
CONSTANTS
    None = None
    ma = ma
    mb = mb
    mc = mc
    md = md
    Modules = {ma, mb, mc, md}
    Loaders = {l1, l2}
    Imports <- SomeImports
    Forward <- SomeForward
    EagerSets <- SomeEager
INVARIANT ImportsAreCached
CHECK_DEADLOCK FALSE
