SPECIFICATION Spec
CONSTANTS
    Msgs = {m1}
    Notices = {n1}
    QueueSize = 1
    EventCap = 1
    MaxTransientRetries = 0
    MaxHeartbeat = 0
    Faults = {}
    PushMayFail = FALSE
    BackgroundTasks = TRUE
    MaxSleeps = 1
    MaxApprovals = 1
    MaxInterrupts = 0
    MaxResets = 0
    MaxFlips = 2
SYMMETRY Symmetry
INVARIANT NoLostWakeup
INVARIANT ApprovalHasWake
CHECK_DEADLOCK FALSE
