CONSTANTS
  Layouts <- MCLayouts
  Default = 0
  Size <- MCSize
  Width <- MCWidth
  Entry <- MCEntry
  Elements <- MCElements
  RowLists <- ValidLists
  Bcs <- MCBcs
  Sides <- MCSides
  Diags = {0, 1}
  MaxVal = 2
  Trial <- MCTrial
  Addresses = {a1, a2}
  Null = null
  ListsMove = FALSE
SPECIFICATION Spec
INVARIANT MarksOfList
PROPERTY Contract
