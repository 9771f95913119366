SPECIFICATION BuildsSpec
CONSTANTS
    n1 = n1
    n2 = n2
    i1 = i1
    Nodes = {n1, n2}
    Instances = {i1, i2}
    NoNode = NoNode
    MaxFlavor = 2
    Limit <- TwoNodesLimit
    Retries = FALSE
INVARIANTS
    TypeOK
    UsedIsTracked
    ClaimsCovered
    WithinLimit
PROPERTIES
    UsageSettles
