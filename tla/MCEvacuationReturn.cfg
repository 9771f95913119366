SPECIFICATION EvacuationSpec
CONSTANTS
    Source = a
    Dest = b
    EvacMishaps = 2
PROPERTIES EvacuatedGone
CHECK_DEADLOCK FALSE
