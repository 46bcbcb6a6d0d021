SPECIFICATION MCSpec
CONSTANTS
  CapIds = 14
  MaxRegs = 6
  ListCap = 22
  Shapes = {"straight"}
  Kinds = {"LOAD_X2", "STORE", "STORE_X2"}
  WideMoves = FALSE
  VgprCaps = {5}
INVARIANTS
  ScratchAboveHighWater
CHECK_DEADLOCK FALSE
