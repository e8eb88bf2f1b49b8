SPECIFICATION Spec
CONSTANTS
    top = top  ann = ann  bob = bob  W = W  S = S  T = T  Nobody = Nobody
    d1 = d1  d2 = d2  d3 = d3  dev = dev  ops = ops
    Agents = {top, ann}
    Root = top
    Dirs = {W, S, T}
    RootDir = W
    Beneath <- MCBeneath
    Kinds <- MCKinds
    Roles = {dev}
    Deliveries = {d1, d2, d3}
    MaxSubagents = 2
    MaxAgents = 3
    MaxDepth = 2
    SetMayVanish = TRUE
    DiskMayFail = TRUE
    MaxFaults = 3
INVARIANTS OneIncarnation NoZombieTask WorkspaceHeldIfCarved
SYMMETRY DeliverySymmetry
CHECK_DEADLOCK FALSE
