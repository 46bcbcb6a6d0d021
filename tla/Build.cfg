SPECIFICATION Spec
CONSTANTS
  Align = 2
  AddedKinds = {"compute"}
  QueueCalls = {"TRANSFER"}
  Resources = {0, 1}
  Sessions <- BuildSessions
  Shapes <- SessionShapes
  Devices = {"null", "gpu"}
  DeviceRefuses = TRUE
  MaxNodes = 3
  MaxTransients = 2
  MaxReads = 2
  MaxWrites = 2
INVARIANTS
  RGTypeOK
  BuiltIsSorted
  ScheduleCoversDeps
  PlannedBytesSafe
  RejectedGraphIntact
  RejectsOnlyCycles
  KahnExact
