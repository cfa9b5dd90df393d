SPECIFICATION FairSpec
CONSTANTS
    Versions = {v1, v2}
    None = None
    MaxGeneration = 2
    MaxLate = 1
    MaxFaults = 1
INVARIANT StateFileIsHonest
PROPERTY GenerationsGrow
PROPERTY ConvergesIfSaved
