SPECIFICATION GcSpec
CONSTANTS
    None = None
    Digests = {d1, d2}
    NumWriters = 2
    NumKeys = 1
    Local = {1, 2}
    Grace = 3
    Attempt = 1
    Mark = 1
    MaxTime = 5
    MaxGcFaults = 2
INVARIANTS PutHolds NoDangling
SYMMETRY MCSymmetry
CHECK_DEADLOCK FALSE
