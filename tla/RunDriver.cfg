SPECIFICATION Spec
CONSTANTS
    p1 = p1
    p2 = p2
    Procs = {p1, p2}
    None = None
    Settings <- MCSettings
INVARIANTS OneFlow
PROPERTIES SettledForGood DeferredResumes CancelDelivered
CHECK_DEADLOCK FALSE
