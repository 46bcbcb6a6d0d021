SPECIFICATION Spec
CONSTANTS
  Slots = 4
  Faults = {}
  MaxNodes = 3
  MaxRuns = 1
  Graphs <- AllGraphs
INVARIANT DependencyOrder
