SPECIFICATION FairSpec
CONSTANTS
    Deployments = {d1, d2}
    Bindings = {b1}
    Versions = {v1}
    Artifacts = {a1}
    Settings = {s1}
    Entries = {e1}
    Keys = {}
    Absent = Absent
    HandEdits = FALSE
    Faulty = {}
PROPERTY EventuallyClosed
