SPECIFICATION FairSpec
CONSTANTS
    None = None
    Ids = {s1, s2}
    Stuck = {s2}
    Period = 2
    MaxTime = 4
    MaxFaults = 1
    MaxPatches = 1
INVARIANTS OneTimerFiresOnce PostedPerTrigger
PROPERTY OwedIsPosted
CHECK_DEADLOCK FALSE
