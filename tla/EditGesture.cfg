CONSTANTS
    Keys = {"F8", "K", "Esc"}
    DefaultKey = "F8"
    Escape = "Esc"
    NoKey = "none"
    IDs = {1, 2}
    Reloads <- MCReloads
    Scopes <- HoldingScope
SPECIFICATION Spec
INVARIANT GestureIsWhole
