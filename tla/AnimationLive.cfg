\* Three scenes for two receipts, one notifier, a VM that never succeeds.
CONSTANTS
    Keys = {1, 2, 3}
    NoKey = 0
    PlayerKeys = {1}
    Notifiers = {n1}
    Animations = {}
    Hold = 1
    Capacity = 2
    MaxSerial = 3
    MaxEdits = 0
SPECIFICATION FairSpec
INVARIANT ReceiptsAreKept
PROPERTIES IsAHold HoldEnds
