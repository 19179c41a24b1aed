SPECIFICATION Spec
CONSTANTS
    o1 = o1
    o2 = o2
    o3 = o3
    h1 = h1
    h2 = h2
    Owners = {o1, o2, o3}
    Hosts = {h1, h2}
    HostOf <- MCHostOf
    None = None
    Times <- MCTimes
    StaleAfter = 0
    Runs = {r1}
INVARIANTS OwnerMirrored FoldRebuildsRow
PROPERTIES DisplacedOnlyWhenStale TerminalForever ImplementsOwnership
SYMMETRY Symmetric
CHECK_DEADLOCK FALSE
