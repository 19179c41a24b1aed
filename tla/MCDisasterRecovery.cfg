SPECIFICATION DRSpec
CONSTANTS
    o1 = o1
    o2 = o2
    h1 = h1
    Owners = {o1, o2}
    Hosts = {h1}
    HostOf <- MCHostOf
    None = None
    NoBackup = NoBackup
    Restored = Restored
    Times <- MCTimes
    StaleAfter = 0
    Runs = {r1}
INVARIANTS NoResurrection RestoredConsistent
SYMMETRY Symmetric
CHECK_DEADLOCK FALSE
