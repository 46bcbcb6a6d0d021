SPECIFICATION Spec
CONSTANTS
  Scripts = {"stack", "write", "sizing"}
  Families = {"guarded", "forwarded", "called", "listed"}
  Projects <- AllProjects
  MaxDepth = 14
  MaxEntries = 64
  AddressTop = 1000000
  Inputs = {0, 4, 8, 12}
  Trees <- AllTrees
  Sources <- AllSources
INVARIANTS
  StackTypeOK
  ExecutedIsJudged
  CleanExitInBounds
  FindingsAreReal
  ForwardersFound
  WrappersWrite
  CountsReported
  CleanExitSized
  DeficitsAreReal
  EverySiteOnce
PROPERTIES
  GatesReport
