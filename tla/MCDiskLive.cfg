SPECIFICATION Spec
CONSTANTS
    Clients = {p1, p2}
    Killable = {p1, p2}
    CACHE_SIZE = 2
    Blocks = {k1, k2}
    NoBlock = NoBlock
    NoClient = NoClient
    SECTORS = 2
    FAULTS = TRUE
    CHANGES = 1
CHECK_DEADLOCK FALSE
PROPERTY TransfersEnd
