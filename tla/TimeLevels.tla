----------------------------- MODULE TimeLevels -----------------------------
(***************************************************************************)
(* The data of a time march, abstracted to what its correctness depends    *)
(* on.  A march is determined by the parameter vector it runs with and by  *)
(* where it starts: from the residual's parameter-dependent initial state  *)
(* (Mapped) or from a state the client has set.  A state vector is named   *)
(* by the march and the time level it is the solution of.                  *)
(***************************************************************************)
EXTENDS Integers

CONSTANTS
  Params,       \* parameter vectors a caller may solve with
  UserStates,   \* initial states a client may set
  Mapped,       \* "no state set": the residual maps the parameters to one
  NoPrm,        \* the parameter of a vector that depends on none
  NumSteps,     \* TimeDims::num_steps
  NumHist,      \* TimeDims::num_hist
  Trajs,        \* the TimeTrajectory objects callers own
  NoTraj        \* "solve without a trajectory"

ASSUME MappedAssumption == Mapped \notin UserStates
ASSUME NoPrmAssumption == NoPrm \notin Params
ASSUME StepsAssumption == NumSteps \in Nat
ASSUME TrajAssumption == NoTraj \notin Trajs
ASSUME HistAssumption == NumHist \in Nat \ {0}

Marches == [prm : Params, init : UserStates \cup {Mapped}]
Levels == 0 .. NumSteps
Lags == 0 .. NumHist - 1

Vectors == [init : UserStates \cup {Mapped}, prm : Params \cup {NoPrm}, level : Levels]

(* The vector at level k of march m.  Level 0 of a march from a client's   *)
(* state is that state, whatever the parameters are.                       *)
Level(m, k) ==
  [init |-> m.init,
   prm |-> IF k = 0 /\ m.init # Mapped THEN NoPrm ELSE m.prm,
   level |-> k]

(* A vector that is no level of any march: zeros, a failed step, a mix of  *)
(* two marches.  It is what level 0 of no march would be.                  *)
NoMarch == [prm |-> NoPrm, init |-> Mapped]
Junk == Level(NoMarch, 0)

(* The level whose state is lag slot `lag` of step `step`: the initial     *)
(* state stands in for the levels before the first.                        *)
HistLevel(step, lag) == IF step > lag THEN step - lag ELSE 0

(* The history a residual of march m must see at step `step`.              *)
Window(m, step) == [lag \in Lags |-> Level(m, HistLevel(step, lag))]

(* One linear step: the residual is assembled with history h around the    *)
(* guess g, with parameters p; only the inputs of one march at one step    *)
(* give that march's next level.                                           *)
NextLevel(step, h, g, p) ==
  LET m == [prm |-> p, init |-> g.init]
  IN  IF g = Level(m, step) /\ h = Window(m, step)
      THEN Level(m, step + 1)
      ELSE Junk
=============================================================================
