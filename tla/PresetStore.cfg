\* Two presets of two values; two writes by others, two failures, one crash.
CONSTANTS
    IDs = {i1, i2}
    Values = {v1, v2}
    NoPreset = NoPreset
    Unreadable = {broken}
    Missing = Missing
    MaxOutside = 2
    MaxFailures = 2
    MaxCrashes = 1
SPECIFICATION Spec
SYMMETRY MCSymmetry
INVARIANTS TypeOK MemoryFollowsFile
PROPERTY NoPresetIsLost
