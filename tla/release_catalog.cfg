SPECIFICATION FairSpec
CONSTANTS
    Hosts = {1, 2}
    Tasks = {1, 2}
    Deployments = {1, 2}
    Bindings = {1, 2}
    Places <- MCPlaces
    Selectors <- MCSelectors
    DefaultTag = "test"
    Keys = {k}
    Runners = {r1, r2}
    Retention = 1
    MaxRequests = 7
    None = None
INVARIANT TablesAgree
PROPERTY KeyCreatesOnce
PROPERTY EverythingIsPruned
