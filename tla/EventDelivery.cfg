\* Loads on either thread, one camera-state change, one failure.
CONSTANTS
    Keys = {k1}
    NoKey = NoKey
    Notifiers = {n1, n2}
    EventTypes = {"Starting", "Start", "End"}
    LoadThreads = {"main", "other"}
    Failures = {"reset", "tick", "notice", "camera", "thread"}
    MaxNotices = 2
    MaxLoads = 1
    MaxChanges = 1
    MaxFailures = 1
SYMMETRY MCSymmetry
SPECIFICATION Spec
INVARIANTS TypeOK NoStaleSceneOnMain RestoreIsOwed NoticesAreKept
PROPERTY LateWorkStartsNothing
