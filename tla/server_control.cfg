SPECIFICATION FairSpec
CONSTANTS
    Procs = {1, 2, 3}
    Cmds = {1, 2}
    Addrs = {a1, a2}
    DefaultAddr = a1
    Foreign = {a2}
    Kinds = {"start", "stop", "restart", "setport", "update", "enable", "disable", "reload"}
    MaxCommands = 2
    MaxCrashes = 1
    None = None
CHECK_DEADLOCK FALSE
INVARIANT OneCurrentController
PROPERTY RecoveryIsExclusive
PROPERTY OnlyStopUnpublishes
PROPERTY ShutdownIsAddressed
PROPERTY CrashComesBack
