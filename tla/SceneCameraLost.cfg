\* Another mod takes the camera: the next scene may be held for ever.
CONSTANTS
    Keys = {k1, k2}
    NoKey = NoKey
    Hold = 2
    UnlockWait = 1
    Watchdog = 2
    DebugAttempts = 2
    HasTDM = TRUE
    DebugModes = {FALSE}
    CanBeTaken = TRUE
    Environments <- MCNoFault
SYMMETRY MCKeySymmetry
SPECIFICATION Spec
PROPERTY HoldIsCut
