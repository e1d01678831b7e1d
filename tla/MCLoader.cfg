SPECIFICATION Spec
CONSTANTS
    o = o
    s = s
    d = d
    NoFile = NoFile
    Ids = {o, s, d}
    Scripts = {s}
    Deployments = {d}
    Names = {1, 2}
    MaxDirs = 3
    Scenarios <- MCScenarios
INVARIANT TypeOK
INVARIANT RefsAreUndefined
INVARIANT UndefinedReported
INVARIANT LaterLocationWins
PROPERTY NeverForgets
PROPERTY LayersImplemented
CHECK_DEADLOCK FALSE
