SPECIFICATION Spec
CONSTANTS
    Tasks = {t1, t2}
    People = {dev}
    Closers = {c1}
    NoOne = NoOne
    MaxEvents = 6
    MaxEdits = 1
INVARIANTS TrailDerivesRow SerialUnlessForced ClosedWasReviewed ReportBeforeMove
SYMMETRY TaskSymmetry
CHECK_DEADLOCK FALSE
