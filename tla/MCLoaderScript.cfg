SPECIFICATION Spec
CONSTANTS
    o = o
    s = s
    d = d
    NoFile = NoFile
    Ids = {o, s, d}
    Scripts = {s}
    Deployments = {d}
    Names = {1, 2}
    MaxDirs = 3
    Scenarios <- ScriptScenarios
INVARIANT ListedScriptsAlive
CHECK_DEADLOCK FALSE
