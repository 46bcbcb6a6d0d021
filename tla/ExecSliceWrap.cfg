SPECIFICATION Spec
CONSTANTS
  Slots = 2
  Faults = {}
  MaxNodes = 3
  MaxRuns = 1
  Graphs <- AllGraphs
INVARIANT StagedStreamIntact
