SPECIFICATION Spec
CONSTANTS
  Align = 2
  MaxTransients = 3
  Widths = {1, 3}
  LastNode = 2
  VaBase <- RegionBase
  VaTop <- RegionTop
  VaAlign = 2
  FreeCap = 2
  Sizes = {1, 3}
  ShaderSize = 2
  Objects = {1, 2, 3}
INVARIANTS
  PlanTypeOK
  PlanSound
  PlanNoWorse
  RegionsPartitioned
