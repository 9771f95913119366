SPECIFICATION FairSpec
CONSTANTS
    alice = alice
    bob = bob
    nouser = nouser
    inst = inst
    fip = fip
    Users <- MCUsers
    NoUser <- nouser
    Resources <- MCResources
    PerProject <- MCPerProject
    SyncWith <- MCSyncWith
    MaxDelta = 1
    MaxActual = 3
    ProjectQuota <- TwoEach
    UserQuota <- OneEach
    UntilRefresh = 2
    MaxAge = TRUE
    Ops = {o1, o2}
    Deltas <- BootDeltas
    InitialActual <- NoRecords
    ExpireIsolated = FALSE
    AdminOps <- AllAdmin
CHECK_DEADLOCK FALSE
INVARIANT
    LiveHasRow
PROPERTY
    EveryReservationEnds
