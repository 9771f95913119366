SPECIFICATION Spec
CONSTANTS
    alice = alice
    bob = bob
    nouser = nouser
    inst = inst
    fip = fip
    Users <- MCUsers
    NoUser <- nouser
    Resources <- MCResources
    PerProject <- MCPerProject
    SyncWith <- MCSyncWith
    MaxDelta = 1
    MaxActual = 3
    ProjectQuota <- TwoEach
    UserQuota <- TwoEach
    UntilRefresh = 0
    MaxAge = FALSE
    Ops = {o1, o2}
    Deltas <- BootDeltas
    InitialActual <- NoRecords
    ExpireIsolated = FALSE
    AdminOps <- NoAdmin
CHECK_DEADLOCK FALSE
INVARIANT
    ReservedIsOutstanding
