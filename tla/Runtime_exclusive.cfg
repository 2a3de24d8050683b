SPECIFICATION Spec
CONSTANTS
    shared = shared
    NoPath = NoPath
    Daemons = {d1, d2}
    Paths = {shared}
    Flag <- NoFlag
    Env = NoPath
    DerivedPath <- SamePath
    DefaultPath = shared
    MaxCrashes = 0
INVARIANTS
    OneNodePerPath
