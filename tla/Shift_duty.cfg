SPECIFICATION FairSpec
CONSTANTS
    None = None
    Specs <- MCSpecs
    Warns <- MCWarns
    HourLen = 2
    DayLen = 4
    CycleDays = 2
    ScanDays = 3
    Horizon = 4
    MaxTime = 6
    MaxPuts = 2
    MaxFaults = 1
INVARIANTS TypeOK EvalIsExact DutyFollowsWindow HeldIsOffDuty
PROPERTY CatchesUp
CHECK_DEADLOCK FALSE
