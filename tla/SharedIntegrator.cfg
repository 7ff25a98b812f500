CONSTANTS
  p1 = p1
  p2 = p2
  Params = {p1, p2}
  UserStates = {u1}
  Mapped = mapped
  NoPrm = noprm
  NumSteps = 2
  NumHist = 1
  Trajs = {rf}
  NoTraj = notraj
  RfTraj = rf
  OtherCalls <- OneOther
  Requests <- TwoKinds
SPECIFICATION RfSpec
INVARIANT SweepOfThisMarch
