SPECIFICATION Spec
CONSTANTS
    Deployments = {d1, d2}
    Bindings = {b1}
    Versions = {v1}
    Artifacts = {a1}
    Settings = {s1}
    Entries = {e1}
    Keys = {k1}
    Absent = Absent
    HandEdits = TRUE
    Faulty = {}
SYMMETRY Symmetry
INVARIANT OneRunAtATime
PROPERTY OutcomesAreFinal
PROPERTY ImplementsLedger
