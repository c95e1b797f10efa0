\* One scene of the player, two notifiers whose notices may cross.
CONSTANTS
    Keys = {1}
    NoKey = 0
    PlayerKeys = {1}
    Notifiers = {n1, n2}
    Animations = {a1, a2}
    Hold = 1
    Capacity = 2
    MaxSerial = 3
    MaxEdits = 1
SPECIFICATION Spec
INVARIANTS TypeOK MetadataIsWhole
PROPERTIES SelectionIsCurrent SettledIsFinal
SYMMETRY MCSymmetry
