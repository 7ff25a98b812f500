CONSTANTS
  Grid <- MCGrid
  MaxEvals = 2
  MaxBcs = 1
  MaxBuilds = 2
  Cases <- MCCases
  Objectives <- MCObjectives
  Terms <- MCTerms
  Starts <- MCStarts
  Scales <- MCScales
  Boxes <- MCBoxes
  Others <- MCOthers
  MaxCalls = 2
SPECIFICATION Spec
INVARIANTS EvaluationExact RaceFree PointsWithinBounds
PROPERTIES ResultOfOnePoint SolverOfThisProblem SolveReturns
CHECK_DEADLOCK FALSE
