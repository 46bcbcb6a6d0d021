SPECIFICATION MCSpec
CONSTANTS
  CapIds = 14
  MaxRegs = 6
  ListCap = 21
  Shapes = {"straight", "if", "loop", "nested", "return"}
  Kinds = {"LOAD", "V_ADD", "STORE", "LOAD_X2", "STORE_X2", "S_ADD", "EXTRACT"}
  WideMoves = FALSE
  VgprCaps = {5}
INVARIANTS
  WaveTypeOK
  NoRegisterSharedWhileLive
  IntervalsCoverLoops
  OneRoundCloses
  AllocatedInFile
  RunsAsFiled
  ReadsFindTheirValue
  StaleReadNeedsABranch
  RetiresDrained
CHECK_DEADLOCK FALSE
