SPECIFICATION MCSpec
CONSTANTS
  CapIds = 14
  MaxRegs = 6
  ListCap = 22
  Shapes = {"if"}
  Kinds = {"LOAD", "STORE"}
  WideMoves = FALSE
  VgprCaps = {5}
INVARIANTS
  NoReadBeforeWait
CHECK_DEADLOCK FALSE
