SPECIFICATION Spec
CONSTANTS
    N = 2
    QUANTUM = 10
    TICKMOD = 256
    Chans = {c1}
    Null = Null
INVARIANT QuantumRespected
