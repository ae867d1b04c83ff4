SPECIFICATION Spec
CONSTANTS
    Procs = {p1, p2, p3}
    TMAX = 7
    Requests = {0, 1, 2, 3, 7}
INVARIANT SleepersCovered
PROPERTY NoEarlyReturn
