SPECIFICATION Spec
CONSTANTS
  Clients = {"p", "q"}
  Fs = "fs"
  SuperBlock = 1
  InodeBlocks = 1
  BitsPerBlock = 7
  Size = 11
INVARIANTS AllocatedIsZero SystemBlocksKeptUnlessFull
PROPERTY ImplementsBlocksAbs
