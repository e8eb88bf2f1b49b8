SPECIFICATION Spec
CONSTANTS
    Msgs = {m1}
    Notices = {}
    QueueSize = 1
    EventCap = 2
    MaxTransientRetries = 1
    MaxHeartbeat = 0
    Faults = {"error", "maxrounds", "exhaust"}
    PushMayFail = FALSE
    BackgroundTasks = FALSE
    MaxSleeps = 2
    MaxApprovals = 0
    MaxInterrupts = 1
    MaxResets = 1
    MaxFlips = 0
INVARIANT MarkSettles
INVARIANT FuseBurns
INVARIANT ResetHasWake
CHECK_DEADLOCK FALSE
