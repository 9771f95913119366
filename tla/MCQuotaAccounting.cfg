SPECIFICATION Spec
CONSTANTS
    alice = alice
    bob = bob
    nouser = nouser
    inst = inst
    fip = fip
    Users <- MCUsers
    NoUser <- nouser
    Resources <- MCResources
    PerProject <- MCPerProject
    SyncWith <- MCSyncWith
    MaxDelta = 1
    MaxActual = 5
    ProjectQuota <- Limits
    UserQuota <- Limits
    UntilRefresh = 0
    MaxAge = TRUE
    Ops = {o1, o2, o3}
    Deltas <- MCDeltas
    InitialActual <- SomeRecords
    ExpireIsolated = TRUE
    AdminOps <- NoAdmin
SYMMETRY Symmetry
CHECK_DEADLOCK FALSE
INVARIANTS
    TypeOK
    ReservedIsOutstanding
    InUseCountsCommitted
PROPERTY
    AdmittedWithinQuota
