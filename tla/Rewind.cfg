SPECIFICATION FairSpec
CONSTANTS
    Procs = {p1, p2}
    Last = 4
    Initial = 3
    Irreversible = {1, 3, 4}
    Compensable = {2}
    SpawnEntry = 1
    MaxRewinds = 2
    Settings <- MCSettings
INVARIANTS Consistent
PROPERTIES Fenced Resolved

CHECK_DEADLOCK FALSE
