SPECIFICATION NodesSpec
CONSTANTS
    n1 = n1
    n2 = n2
    a = a
    b = b
    c = c
    Nodes = {n1, n2}
    Instances = {i1}
    NoNode = NoNode
    MaxFlavor = 2
    Limit <- UnevenLimit
    Retries = FALSE
    MaxMoves = 2
    OneAnswer = TRUE
    Hosts = {a, b, c}
    NumMoves = 2
    Concurrent = 2
    MaxMishaps = 2
INVARIANTS
    MovesTypeOK
    OneGuest
    MoveClaimHeld
    DiskFollows
PROPERTIES
    UsageSettlesAfterMoves
    Placed
    MoveEnds
    NothingLeftAtHome
CHECK_DEADLOCK FALSE
