SPECIFICATION Spec
CONSTANTS
    Calls = {"fork", "exit", "wait", "kill"}
    N = 4
    SEGS = 1
    PAGE = 2
    INITTOP = 1
    PIDMOD = 6
    Frames = {f1, f2, f3, f4, f5, f6, f7, f8}
    NoFrame = NoFrame
    BUFFER = 3
    IO = IO
    Null = Null
VIEW FrameView
INVARIANTS ParentAlive NoLostExit WaiterHasChild NoKilledUser UniquePids
PROPERTIES ZombieUntilReaped WaitReturns KilledRunnableEnds
