SPECIFICATION HostSpec
CONSTANTS
    a = a
    b = b
    wide = wide
    split = split
    shared = shared
    NumaHosts = {a, b}
    NoNumaHost = NoNumaHost
    NumaGuests = {wide, split, shared}
    Dedicated = {wide, split}
    HostCells <- TwoHosts
    Asked <- ThreeGuests
    Ratio = 1
    NumaMishaps = 1
    single = single
    pair = pair
    PciDevs = {d1, d2, d3}
    PciGuests = {single, pair}
    NoGuest = NoGuest
    Wants <- PciWants
    Spare = {d3}
    PciMishaps = 2
    Servers = {i, j}
    Vols = {v}
    NoServer = NoServer
    VolRequests = {r1, r2, r3}
    VolMishaps = 2
    ShelveHosts = {h1, h2}
    NoHost = NoHost
    NoImage = NoImage
    ShelveUsers = {q1, q2, q3}
    Poll = Poll
    OffloadTime = "later"
    ShelveMishaps = 1
INVARIANTS
    PinnedApart DeviceOwned OneAttachment DataKept
PROPERTIES
    VolumesSettle 
CHECK_DEADLOCK FALSE
