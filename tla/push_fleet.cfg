SPECIFICATION Spec
CONSTANTS
    Deployments = {d1}
    Bindings = {b1, b2}
    Versions = {v1}
    Artifacts = {a1, a2}
    Settings = {s1, s2}
    Entries = {e1}
    Keys = {}
    Absent = Absent
    HandEdits = FALSE
    Faulty = {d1}
SYMMETRY Symmetry
INVARIANT TypeOK
INVARIANT AppliedIsFrozen
INVARIANT UntouchedTargets
INVARIANT FailStop
INVARIANT VerdictAgrees
