SPECIFICATION Spec
CONSTANTS
    N = 3
    QUANTUM = 2
    TICKMOD = 4
    Chans = {c1, c2}
    Null = Null
INVARIANTS OneRunning SliceBound
PROPERTIES WaitersAdvance ImplementsSchedAbs
