\* Three presets, one of them for an animation; two requests of the editor.
CONSTANTS
    IDs = {"p", "q", "r"}
    Filters <- MCFilters
    Animations = {"a1"}
    EditedIDs = {"q"}
    Stored <- MCStored
    Views <- MCViews
    MaxRequests = 2
    MaxPresses = 1
    MaxUpsets = 1
SPECIFICATION Spec
INVARIANTS TypeOK StepsGoRound
PROPERTIES SelectionIsSteady StepsFollowTheRating
