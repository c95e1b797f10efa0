\* Safety: any answer of one API per step, resets and losses at any moment.
CONSTANTS
    Keys = {k1, k2}
    NoKey = NoKey
    Hold = 2
    UnlockWait = 1
    Watchdog = 3
    DebugAttempts = 2
    HasTDM = TRUE
    DebugModes = {TRUE, FALSE}
    CanBeTaken = TRUE
    Environments <- MCOneFault
SYMMETRY MCKeySymmetry
SPECIFICATION Spec
INVARIANTS TypeOK RestoreIsOwed IdleIsClean GrantsAreRecorded DebugHoldsNothing
PROPERTIES AcquiresForScene ResetIsNeverDropped IsALease
