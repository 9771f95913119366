SPECIFICATION VolumesSpec
CONSTANTS
    Servers = {i}
    Vols = {v}
    NoServer = NoServer
    VolRequests = {r1, r2}
    VolMishaps = 0
INVARIANTS DeletedLetsGo
CHECK_DEADLOCK FALSE
