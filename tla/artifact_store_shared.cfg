SPECIFICATION Spec
CONSTANTS
    Versions = {v1, v2}
    Paths = {p1}
    Contents = {a, b}
    Clients = {k1, k2}
    Empty = Empty
    None = None
    Retentions = {0, 1}
    MaxRef = 3
    Exclusive = FALSE
SYMMETRY Symmetry
PROPERTY PublishedIsUntouched
