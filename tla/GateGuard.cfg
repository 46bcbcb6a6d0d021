SPECIFICATION Spec
CONSTANTS
  Scripts = {"stack"}
  Families = {"early"}
  Projects <- AllProjects
  MaxDepth = 14
  MaxEntries = 64
  AddressTop = 1000000
  Inputs = {0, 4, 8, 12}
  Trees <- AllTrees
  Sources <- AllSources
INVARIANTS
  ExecutedIsJudged
