SPECIFICATION Spec
CONSTANTS
    Clients = {p1, p2, p3}
    Killable = {p1, p2, p3}
    CACHE_SIZE = 2
    Blocks = {k1, k2, k3}
    NoBlock = NoBlock
    NoClient = NoClient
    SECTORS = 2
    FAULTS = TRUE
    CHANGES = 1
SYMMETRY BlockSymmetry
CHECK_DEADLOCK FALSE
INVARIANTS LockedByOne ReadsLatestUnlessCut NoLostUpdateUnlessCut QueueUnlessCut
VIEW CutView
CONSTRAINT QueueIsList
