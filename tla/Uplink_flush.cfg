SPECIFICATION Spec
CONSTANTS
    MaxVersion = 2
    MaxPushes = 2
    MaxFailures = 1
    MaxSessions = 2
    MaxFlips = 1
INVARIANTS NewestKept AckedStays
PROPERTY StatusArrives
CHECK_DEADLOCK FALSE
