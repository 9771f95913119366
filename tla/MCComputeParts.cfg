SPECIFICATION PartsSpec
CONSTANTS
    Source = a
    Dest = b
    EvacMishaps = 2
    i1 = i1
    i2 = i2
    i3 = i3
    GroupHosts = {a, b}
    Boots <- TwoBoots
    Policy = "anti-affinity"
    MaxAttempts = 2
    NoHost = NoHost
    GroupMishaps = 1
    Plugs = {p1, p2}
    Vifs = {v1, v2}
    Fatal = TRUE
    Nobody = Nobody
    Guests = {i1, i2}
    MaxChanges = 2
    Addresses = {x}
    Owners = {i1, i2}
    NoOwner = NoOwner
    NoAddress = NoAddress
    FixedIpMishaps = 1
    MaxLeases = 1
INVARIANTS
    PartsTypeOK
    EvacuatedRuns AntiAffine NoLostAnswer SentOnce CachedIsReported HolderHasRow
PROPERTIES
    BegunEnds RowsFollowGuests
CHECK_DEADLOCK FALSE
