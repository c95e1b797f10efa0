SPECIFICATION Spec
CONSTANTS
    v1 = v1
    v2 = v2
    m1 = m1
    m2 = m2
    Vtables = {v1, v2}
    NoTable = NoTable
    Mods = {m1, m2}
    Threads = {"main", "other"}
    MaxNested = 2
    MaxFaults = 2
SYMMETRY Symmetric
INVARIANTS
    TypeOK
    ChainIsWhole
    EngineIsReached
    OneUpdatePerFrame
