SPECIFICATION FairSpec
CONSTANTS
    Hosts = {1, 2}
    Intervals = {2, 3}
    DefaultInterval = 2
    Callers = {c1}
    Monitor = monitor
    Batch = 1
    MaxChanges = 1
    None = None
INVARIANT ScheduleIsSound
PROPERTY FullInterval
PROPERTY DeletedStaysDeleted
PROPERTY DueIsChecked
