CONSTANTS
  P = 7
  Ticks = 4
  NumSteps = 3
  NumStates = 3
  NumHist = 2
  Scripts <- MCScripts
  Sessions <- MCSessions
  Field <- MCField
  LevelLists <- MCLevelLists
  TimeLists <- MCTimeLists
SPECIFICATION Problems
INVARIANTS
  StepSolvesResidual
  BoundaryFollowsScript
  ControlOfBoundary
  ControlJacIsDerivative
  RowsAtTheirTime
  Duality
  GradientIsDerivative
  ObservationOfField
  DataReadBack
