SPECIFICATION ShellSpec
CONSTANTS
    Procs = {p1, p2}
    Carves = {c1}
    NoOne = NoOne
INVARIANTS TallyExact NoStaleTask
PROPERTIES OverlapEnds TaskSettles
CHECK_DEADLOCK FALSE
