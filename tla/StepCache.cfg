SPECIFICATION Spec
CONSTANTS
    m1 = m1
    m2 = m2
    NoEntry = NoEntry
    NoResult = NoResult
    Runs = {1, 2, 3}
    Machines = {m1, m2}
    On <- MCOn
    Outs = {1, 2}
    MaxEdits = 1
    MaxFaults = 2
    Settings <- MCSettings
INVARIANTS CacheSound RemoteServable
PROPERTIES FreshSurvives
CHECK_DEADLOCK FALSE
