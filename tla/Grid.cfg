SPECIFICATION Spec
CONSTANTS
  Shapes <- MCShapes
  StartSize <- MCStartSize
  GridSizes <- MCGridSizes
  MaxEntries = 2
  MaxStacks = 2
INVARIANTS
  CellsMatchPlacements
  ItemsDoNotOverlap
  RefusesOnlyWhatFitsNowhere
