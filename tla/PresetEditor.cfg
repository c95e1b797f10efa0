CONSTANTS
    Keys = {"F8", "K", "Esc"}
    DefaultKey = "F8"
    Escape = "Esc"
    NoKey = "none"
    IDs = {1, 2}
    Reloads <- MCReloads
    Scopes <- MCScopes
SPECIFICATION Spec
INVARIANTS TypeOK AssignmentLasts
PROPERTIES UnsavedIsAsked SavedWasSeen AssignmentIsWanted
