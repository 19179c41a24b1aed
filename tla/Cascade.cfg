SPECIFICATION Spec
CONSTANTS
    r1 = r1
    r2 = r2
    r3 = r3
    r4 = r4
    None = None
    Runs = {r1, r2, r3, r4}
    NextRound <- MCNextRound
    Bodies <- MCBodies
SYMMETRY MCSymmetry
INVARIANTS CascadeComplete EdgesAcyclic NoMutualWait
CHECK_DEADLOCK FALSE
