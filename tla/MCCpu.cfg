SPECIFICATION Spec
CONSTANTS
  Bytes = {0, 1, 100, 127, 128, 255}
  Decimals = {0, 1, 25, 80, 153}
  Nested = {"less", "copy"}
INVARIANTS ProgramsCorrect CausesTold
