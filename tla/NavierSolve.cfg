CONSTANTS
  Params = {p1}
  UserStates = {u1}
  Mapped = mapped
  NoPrm = noprm
  NumSteps = 3
  NumHist = 1
  Trajs = {}
  NoTraj = notraj
  Interval = 2
  MinSteps = 1
  NoMesh = nomesh
SPECIFICATION NavierSpec
INVARIANTS ResultOfMarch SeriesPaired FieldOutput VelocityReadBack
PROPERTY SolveEnds
