SPECIFICATION Spec
CONSTANTS
    r1 = r1
    r2 = r2
    r3 = r3
    p1 = p1
    p2 = p2
    Runs = {r1, r2, r3}
    Releases = {v1, v2}
    Projects = {p1, p2}
    ProjectOf <- TwoProjects
    Nil = Nil
    Empty = Empty
    Torn = Torn
SYMMETRY Symmetry
CHECK_DEADLOCK FALSE
INVARIANT FilesTellTheTruth
INVARIANT SwapWhileStopped
INVARIANT NobodyInterferes
PROPERTY WriteAhead
PROPERTY RecoveryIsAcknowledged
PROPERTY ImplementsInstall
