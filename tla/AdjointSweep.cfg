CONSTANTS
  p1 = p1
  p2 = p2
  Params = {p1}
  UserStates = {u1}
  Mapped = mapped
  NoPrm = noprm
  NumSteps = 5
  NumHist = 3
  Trajs = {rf}
  NoTraj = notraj
  RfTraj = rf
  OtherCalls <- NoOther
  Requests <- AllKinds
SPECIFICATION RfSpec
INVARIANTS AdjointEquation GradientComplete
