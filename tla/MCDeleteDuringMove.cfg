SPECIFICATION LiveSpec
CONSTANTS
    a = a
    b = b
    Hosts = {a, b}
    NumMoves = 1
    Concurrent = 1
    MaxMishaps = 0
PROPERTIES
    NothingLeftRunning
CHECK_DEADLOCK FALSE
