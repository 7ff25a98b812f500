CONSTANTS
  Layouts <- MCLayouts
  Default = 0
  Size <- MCSize
  Width <- MCWidth
  Entry <- MCEntry
  Elements <- MCElements
  RowLists <- AllLists
  Bcs <- MCBcs
  Sides <- MCSides
  Diags = {0, 1}
  MaxVal = 2
  Trial <- MCTrial
SPECIFICATION Spec
INVARIANTS SameSolutions CacheSound
PROPERTY Contract

