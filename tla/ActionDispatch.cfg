SPECIFICATION Spec
CONSTANTS
    p1 = p1
    p2 = p2
    p3 = p3
    f1 = f1
    f2 = f2
    f3 = f3
    None = None
    Procs = {p1, p2, p3}
    Fibers = {f1, f2, f3}
    MaxAttempts = 2
    Settings <- MCSettings
INVARIANTS OneOutcome OneBody SuccessRecorded CleanStart
CHECK_DEADLOCK FALSE
