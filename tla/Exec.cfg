SPECIFICATION ClientSpec
CONSTANTS
  Slots = 4
  Faults = {"get", "submit", "wait"}
  MaxNodes = 3
  MaxRuns = 3
  Graphs <- AnyGraphs
INVARIANTS
  TypeOK
  TimelineOrder
  StagedStreamIntact
  DependencyOrder
  CompletionContract
  CalmQueueIsIdle
PROPERTIES
  EveryRunReturns
  ImplementsTaskGraph
