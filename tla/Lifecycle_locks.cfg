SPECIFICATION Spec
CONSTANTS
    top = top  ann = ann  bob = bob  W = W  S = S  T = T  Nobody = Nobody
    d1 = d1  d2 = d2  d3 = d3  dev = dev  ops = ops
    Agents = {top, ann, bob}
    Root = top
    Dirs = {W, S, T}
    RootDir = W
    Beneath <- MCBeneath
    Kinds <- MCKinds
    Roles = {dev, ops}
    Deliveries = {d1}
    MaxSubagents = 2
    MaxAgents = 3
    MaxDepth = 2
    SetMayVanish = FALSE
    DiskMayFail = TRUE
    MaxFaults = 2
INVARIANTS TypeOK LocksTrackTasksIfCarved ChainUnbroken NoOrphanDir
PROPERTY ImplementsDelegation
SYMMETRY Symmetry
CHECK_DEADLOCK FALSE
