SPECIFICATION FairSpec
CONSTANTS
    Hooks = {h1}
    None = None
    MaxTriggers = 2
    MaxFaults = 2
INVARIANT EventsAreHonest
INVARIANT CancelledIsNotDeployed
PROPERTY NewestLast
PROPERTY EveryTriggerSettles
