SPECIFICATION Spec
CONSTANTS
    Ids = {a1, a2}
    Gated = {a2}
    None = None
    DiskMayFail = TRUE
    Restarts = TRUE
    MaxCrashes = 1
SYMMETRY Symmetry
INVARIANT DiskIsPast
INVARIANT DecisionIsDurable
INVARIANT RunsOnlyApproved
INVARIANT RunsOncePerLife
