SPECIFICATION Spec
CONSTANTS
    p1 = p1
    p2 = p2
    r1 = r1
    s1 = s1
    Procs = {p1, p2}
    Readers = {r1}
    Sources = {s1}
    Home <- MCHome
    Ceiling = 4
    MaxEmits = 2
    MaxLosses = 1
    MaxStops = 1
    Settings <- MCSettings
INVARIANTS DurableAscends IndexTruthful FlushVouches DurableDelivered FoldKept
PROPERTIES FenceHeld FlushEnds
CHECK_DEADLOCK FALSE
