SPECIFICATION Spec
CONSTANTS
    Readers = {r1, r2}
    RING = 4
    LINE = 3
    Sizes = {0, 2, 5}
    Kinds = {"c", "b", "n", "d"}
    MAXIN = 4
CHECK_DEADLOCK FALSE
INVARIANTS NoLostWakeup InOrder
PROPERTIES LosesNothingUntilFull ReadersWake
