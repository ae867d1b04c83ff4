SPECIFICATION Spec
CONSTANTS
    Calls = {"fork", "exit", "wait", "kill", "sbrk", "io", "write", "open", "epilogue"}
    N = 3
    SEGS = 2
    PAGE = 2
    INITTOP = 1
    PIDMOD = 5
    Frames = {f1, f2, f3, f4, f5}
    NoFrame = NoFrame
    BUFFER = 3
    IO = IO
    Null = Null
SYMMETRY FrameSymmetry
INVARIANTS BuildingHasBuilder FramesExclusiveUnlessShared FramesConservedUnlessLeak
           HeapMappedUnlessWrap WriteExact
