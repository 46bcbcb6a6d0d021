SPECIFICATION MCSpec
CONSTANTS
  CapIds = 14
  MaxRegs = 8
  ListCap = 22
  Shapes = {"loop"}
  Kinds = {"LOAD_X2", "V_ADD_F64", "STORE_X2"}
  WideMoves = TRUE
  VgprCaps = {8}
INVARIANTS
  ReadsFindTheirValue
CHECK_DEADLOCK FALSE
