SPECIFICATION Spec
CONSTANTS
  Procs = {"init", "sh"}
  InitProc = "init"
  DEPTH = 2
INVARIANTS
  UserAsLeft
  KernelMapped
  WindowRightUnlessTorn
  LeakOnlyInTwoTraps
  TakenIrqServed
