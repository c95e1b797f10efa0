\* Liveness: one scene key, releases that may fail, a camera that may be taken.
CONSTANTS
    Keys = {k1}
    NoKey = NoKey
    Hold = 1
    UnlockWait = 1
    Watchdog = 1
    DebugAttempts = 1
    HasTDM = TRUE
    DebugModes = {TRUE, FALSE}
    CanBeTaken = TRUE
    Environments <- MCReleaseFault
SPECIFICATION FairSpec
PROPERTIES RestoreEnds MovementFreesCamera UnlockEnds WatchdogEnds
