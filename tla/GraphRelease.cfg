SPECIFICATION Spec
CONSTANTS
  Align = 2
  AddedKinds = {"compute"}
  QueueCalls = {}
  Resources = {0, 1}
  Sessions <- ReleaseSessions
  Shapes <- SessionShapes
  Devices = {"gpu"}
  DeviceRefuses = FALSE
  MaxNodes = 2
  MaxTransients = 1
  MaxReads = 1
  MaxWrites = 1
INVARIANT ReleasesOnlyHandles
