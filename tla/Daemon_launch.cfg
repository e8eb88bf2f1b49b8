SPECIFICATION Spec
CONSTANTS
    Slugs = {own, out}
    Foreign = {out}
    Pids = {p1, p2}
    Requests = {r1, r2}
    None = None
    Stranger = Stranger
    MaxTimes = 3
    MaxServed = 4
    Coded = {own}
INVARIANTS OneTagmaIfCalm StopHitsOwn StoppableIfCalm
SYMMETRY DaemonSymmetry
CHECK_DEADLOCK FALSE
