CONSTANTS
  Params = {p1, p2}
  UserStates = {u1}
  Mapped = mapped
  NoPrm = noprm
  NumSteps = 3
  NumHist = 3
  Trajs = {t1}
  NoTraj = notraj
SPECIFICATION Spec
INVARIANTS StartKept HistoryWindow StoredLevels ObserverViews
PROPERTY Marching
