SPECIFICATION MovesFairSpec
CONSTANTS
    n1 = n1
    n2 = n2
    Nodes = {n1, n2}
    Instances = {i1}
    NoNode = NoNode
    MaxFlavor = 2
    Limit <- UnevenLimit
    Retries = FALSE
    MaxMoves = 1
    OneAnswer = FALSE
INVARIANTS
    RevertHasDisk
