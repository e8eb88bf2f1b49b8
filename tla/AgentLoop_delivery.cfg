SPECIFICATION FairSpec
CONSTANTS
    Msgs = {m1}
    Notices = {}
    QueueSize = 1
    EventCap = 1
    MaxTransientRetries = 1
    MaxHeartbeat = 1
    Faults = {}
    PushMayFail = TRUE
    BackgroundTasks = FALSE
    MaxSleeps = 1
    MaxApprovals = 0
    MaxInterrupts = 0
    MaxResets = 0
    MaxFlips = 2
PROPERTY EventuallyDelivered
CHECK_DEADLOCK FALSE
