SPECIFICATION Spec
CONSTANTS
    p1 = p1
    p2 = p2
    None = None
    Procs = {p1, p2}
    LastTick = 5
    Lease = 2
    Settings <- MCSettings
INVARIANTS NoOverlap SettledIdle BufferedKept
CHECK_DEADLOCK FALSE
