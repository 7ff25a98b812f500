---------------------------- MODULE DiscreteAdjoint ----------------------------
(***************************************************************************)
(* The numbers of a transient inverse problem: a march of the constrained  *)
(* residual (TimeIntegrator::solveStep), the objective's value, and the    *)
(* adjoint sweep (TimeReducedFunctional::solveAdj), over exact arithmetic. *)
(* Which buffer holds what is the matter of TimeIntegrator and             *)
(* TimeReducedFunctional; here each vector has its value.  `slope` and     *)
(* `tangent` are history variables: the derivative of the march and of the *)
(* objective that residual and value themselves define.                    *)
(***************************************************************************)
EXTENDS TimeObjectives

-----------------------------------------------------------------------------
(***************************************************************************)
(* A parameter-free time residual with its boundary rows taken over by     *)
(* controls (femx::assembly::ConstrainedTimeResidual and BoundaryMap).     *)
(* The base residual stands for the physics: linear in the next state, its *)
(* matrix and right-hand side depending on the step, and advected by the   *)
(* newest history state, so that its Jacobians depend on the states they   *)
(* are assembled with.                                                     *)
(***************************************************************************)

Lag0(hist) == hist[0]

(* The base residual: K(step) u + (hist_0 . adv) u - sum_lag B_lag hist_lag *)
(* - f(step), and its Jacobians.                                           *)
BaseMatrix(base, step, hist) ==
  [i \in DOMAIN base.K[step] |-> [j \in DOMAIN base.K[step] |->
     (base.K[step][i][j] + base.adv[i][j] * Dot(base.speed[i], Lag0(hist))) % P]]

BaseRes(base, step, hist, u) ==
  [i \in DOMAIN u |->
     (Dot(BaseMatrix(base, step, hist)[i], u)
      - Sum(LAMBDA lag : Dot(base.B[lag][i], hist[lag]), DOMAIN hist)
      - base.f[step][i]) % P]

BaseHistJac(base, step, lag, u) ==
  [i \in DOMAIN u |-> [j \in DOMAIN u |->
     ((IF lag = 0 THEN Dot(base.adv[i], u) * base.speed[i][j] ELSE 0) - base.B[lag][i][j]) % P]]

BaseHistJacT(base, step, lag, u, adj) == MatVecT(BaseHistJac(base, step, lag, u), adj, DOMAIN u)

(* BoundaryMap: the rows of a vector and of a matrix that are constrained. *)
Constrained(map, d) == \E i \in DOMAIN map.dofs : map.dofs[i] = d
Prescribed(map, vals, d) == vals[CHOOSE i \in DOMAIN map.dofs : map.dofs[i] = d]

ApplyDirichlet(map, u, vals, res) ==
  [d \in DOMAIN res |-> IF Constrained(map, d) THEN (u[d] - Prescribed(map, vals, d)) % P ELSE res[d]]
ReplaceRows(map, jac) ==
  [d \in DOMAIN jac |-> IF Constrained(map, d) THEN [j \in DOMAIN jac |-> IF j = d THEN 1 ELSE 0] ELSE jac[d]]
ZeroBoundary(map, x) == [d \in DOMAIN x |-> IF Constrained(map, d) THEN 0 ELSE x[d]]

(* assembleNext: residual and next-state Jacobian around nxt.              *)
AssembledRes(base, map, step, hist, nxt, prm) ==
  ApplyDirichlet(map, nxt, ControlVals(map, step, prm), BaseRes(base, step, hist, nxt))
AssembledJac(base, map, step, hist) == ReplaceRows(map, BaseMatrix(base, step, hist))

(* The constrained columns stay.  (Mutant.)                                *)
RowsOnly(map, jac) == ReplaceRows(map, jac)

(* setup: the constrained columns go to the right-hand side.               *)
EliminatedJac(map, jac) ==
  ReplaceRows(map, [i \in DOMAIN jac |-> ZeroBoundary(map, jac[i])])
EliminatedSide(map, jac, vals, rhs) ==
  [i \in DOMAIN rhs |->
     IF Constrained(map, i) THEN Prescribed(map, vals, i)
     ELSE (rhs[i] - Sum(LAMBDA k : jac[i][map.dofs[k]] * vals[k], DOMAIN map.dofs)) % P]

(* The history sees the adjoint of the constrained rows.  (Mutant.)        *)
UnmaskedHistJacT(base, map, step, lag, nxt, adj) == BaseHistJacT(base, step, lag, nxt, adj)

(* applyJacT: the constrained rows do not see the history, and only the    *)
(* controlled ones see the parameters.                                     *)
HistJacT(base, map, step, lag, nxt, adj) ==
  BaseHistJacT(base, step, lag, nxt, ZeroBoundary(map, adj))
ParamJacT(map, step, adj) == AddControlJacT(map, step, adj, Zero(Range0(map.num_prm)))

-----------------------------------------------------------------------------
CONSTANTS
  Scripts,    \* problems, with their objectives and the parameters tried
  NumHist     \* TimeDims::num_hist

ASSUME HistAssumption == NumHist \in Nat \ {0}
ASSUME ScriptAssumption ==
  \A s \in Scripts :
    /\ Accepted(s, States)
    /\ \A t \in s.terms : t.kind = "misfit" => LeastSquaresOK(t, NumSteps)

VARIABLES
  script,     \* the problem
  map,        \* ConstrainedTimeResidual::ctr_
  pc,         \* where valueGrad is
  prm,        \* its parameters
  traj,       \* traj_, as far as it is computed
  tangent,    \* history: the trajectory's derivative in each parameter
  value,      \* the objective's value
  slope,      \* history: its derivative
  step,       \* in the sweep: the steps still to come
  carry,      \* the carried products by lag: carry(lag) of the ring
  init_grad,  \* init_grad_
  grad        \* grad_

vars == <<script, map, pc, prm, traj, tangent, value, slope, step, carry, init_grad, grad>>

Lags == Range0(NumHist)
Levels == 0 .. NumSteps
Dirs == Range0(map.num_prm)
Along(d, a) == [p \in Dirs |-> IF p = d THEN a ELSE 0]
Moved(d, a) == Axpy(1, Along(d, a), prm)

HistLevel(s, lag) == Max({s - lag, 0})
Window(t, s) == [lag \in Lags |-> t[HistLevel(s, lag)]]
Computed == DOMAIN traj
Last == Max(Computed)

(* The start: the residual's map of the parameters, or a state set in the  *)
(* integrator.                                                             *)
Start(p) == IF script.mapped THEN InitialState(ProblemInit(script), p) ELSE script.mean

(* One step: assemble around the newest state, eliminate, solve.           *)
StepJac(s) == AssembledJac(script.base, map, s, Window(traj, s))
StepSide(s, guess, p) ==
  LET jac == StepJac(s)
      rhs == Axpy(-1, AssembledRes(script.base, map, s, Window(traj, s), guess, p), MatVec(jac, guess))
  IN  EliminatedSide(map, jac, ControlVals(map, s, p), rhs)

(* The derivative of the next state: what keeps the residual at zero when  *)
(* all its arguments move.  The residual is quadratic, so the difference   *)
(* of two points is exact.                                                 *)
Shifted(t, tan, a) == [k \in DOMAIN t |-> Axpy(a, tan[k], t[k])]
NextTangent(s, next, tan, d) ==
  LET res(u, a) ==
        AssembledRes(script.base, map, s, Window(Shifted(traj, tan, a), s), Axpy(a, u, next), Moved(d, a))
  IN  CHOOSE u \in [States -> F] : res(u, 1) = res(u, -1)

Slope(t, tan) ==
  [d \in Dirs |->
     (Half * ( Value(script.terms, Shifted(t, tan[d], 1), Moved(d, 1))
             - Value(script.terms, Shifted(t, tan[d], -1), Moved(d, -1)))) % P]

Nothing == Zero(States)
NoLevels == [k \in {} |-> Nothing]

StartAt(from) ==
  /\ script \in Scripts
  /\ map = ProblemMap(script)
  /\ pc = from
  /\ prm = Zero(Dirs)
  /\ traj = NoLevels
  /\ tangent = [d \in Dirs |-> NoLevels]
  /\ value = 0
  /\ slope = Zero(Dirs)
  /\ step = 0
  /\ carry = [lag \in Lags |-> Nothing]
  /\ init_grad = Nothing
  /\ grad = Zero(Dirs)
Init == StartAt("idle")

(* valueGrad: the march starts.                                            *)
Request(p) ==
  /\ pc = "idle"
  /\ pc' = "forward"
  /\ prm' = p
  /\ traj' = [k \in {0} |-> Start(p)]
  /\ tangent' = [d \in Dirs |-> [k \in {0} |-> Axpy(-1, Start(p), Start(Axpy(1, Along(d, 1), p)))]]
  /\ UNCHANGED <<script, map, value, slope, step, carry, init_grad, grad>>

ForwardStep ==
  /\ pc = "forward" /\ Last < NumSteps
  /\ LET jac == EliminatedJac(map, StepJac(Last))
         next == Solve(jac, StepSide(Last, traj[Last], prm))
     IN  /\ Regular(jac)
         /\ traj' = [k \in Computed \cup {Last + 1} |-> IF k \in Computed THEN traj[k] ELSE next]
         /\ tangent' = [d \in Dirs |-> [k \in Computed \cup {Last + 1} |->
              IF k \in Computed THEN tangent[d][k] ELSE NextTangent(Last, next, tangent[d], d)]]
  /\ UNCHANGED <<script, map, pc, prm, value, slope, step, carry, init_grad, grad>>

(* The matrix of a step is singular: the solver throws.                    *)
SolverThrows ==
  /\ pc = "forward" /\ Last < NumSteps
  /\ ~Regular(EliminatedJac(map, StepJac(Last)))
  /\ pc' = "idle"
  /\ UNCHANGED <<script, map, prm, traj, tangent, value, slope, step, carry, init_grad, grad>>

(* The value, and what solveAdj does before its loop.                      *)
BeginAdjoint ==
  /\ pc = "forward" /\ Last = NumSteps
  /\ pc' = "adjoint"
  /\ value' = Value(script.terms, traj, prm)
  /\ slope' = Slope(traj, tangent)
  /\ grad' = ParamGrad(script.terms, traj, prm)
  /\ init_grad' = StateGrad(script.terms, 0, traj)
  /\ carry' = [lag \in Lags |-> Nothing]
  /\ step' = NumSteps
  /\ UNCHANGED <<script, map, prm, traj, tangent>>

(* One step of the loop: the adjoint of level s + 1, its products with the *)
(* history blocks to the levels they belong to, with the parameters to the *)
(* gradient.                                                               *)
Advanced == [lag \in Lags |-> IF lag + 1 \in Lags THEN carry[lag + 1] ELSE Nothing]

AdjointStep ==
  /\ pc = "adjoint" /\ step > 0
  /\ LET s == step - 1
         rhs == Axpy(1, carry[0], StateGrad(script.terms, s + 1, traj))
         adj == SolveT(StepJac(s), rhs)
         product == [lag \in Lags |-> HistJacT(script.base, map, s, lag, traj[s + 1], adj)]
         early == {lag \in Lags : HistLevel(s, lag) = 0}
     IN  /\ carry' = [lag \in Lags |-> IF lag \in early THEN Advanced[lag] ELSE Axpy(-1, product[lag], Advanced[lag])]
         /\ init_grad' = [i \in States |-> (init_grad[i] - Sum(LAMBDA lag : product[lag][i], early)) % P]
         /\ grad' = Axpy(-1, ParamJacT(map, s, adj), grad)
         /\ step' = s
  /\ UNCHANGED <<script, map, pc, prm, traj, tangent, value, slope>>

EndAdjoint ==
  /\ pc = "adjoint" /\ step = 0
  /\ pc' = "done"
  /\ grad' = IF script.mapped THEN AddInitialJacT(ProblemInit(script), init_grad, grad) ELSE grad
  /\ UNCHANGED <<script, map, prm, traj, tangent, value, slope, step, carry, init_grad>>

Return ==
  /\ pc = "done"
  /\ pc' = "idle"
  /\ UNCHANGED <<script, map, prm, traj, tangent, value, slope, step, carry, init_grad, grad>>

Next ==
  \/ \E p \in script.prms : Request(p)
  \/ ForwardStep
  \/ SolverThrows
  \/ BeginAdjoint
  \/ AdjointStep
  \/ EndAdjoint
  \/ Return

Spec == Init /\ [][Next]_vars

--------------------------------------------------------------------------------
(* A state the eliminated system gives solves the residual: two different  *)
(* ways of imposing the boundary rows, setup's columns and assembleNext's  *)
(* rows, agree.                                                            *)
StepSolvesResidual ==
  Computed # {} /\ Last > 0 =>
    AssembledRes(script.base, map, Last - 1, Window(traj, Last - 1), traj[Last], prm) = Nothing

(* What the script states at the end of a step, read off the script alone: *)
(* a control's level values are joined by straight lines, held outside of  *)
(* the times and repeated when periodic.                                   *)
Ends(times, t) == {l \in DOMAIN times \ {0} : times[l - 1] <= t /\ t <= times[l]}
JoinedAt(times, n, level, t) ==
  LET last == Cardinality(DOMAIN times) - 1
      at(l) == level[l % n]
      l == Min(Ends(times, t))
  IN  IF t <= times[0] THEN at(0)
      ELSE IF t >= times[last] THEN at(last)
      ELSE (at(l - 1) + (t - times[l - 1]) * Inv((times[l] - times[l - 1]) % P) * (at(l) - at(l - 1))) % P

StatedAt(scr, cols, p, s, col) ==
  LET level == [l \in Range0((Cardinality(DOMAIN p) - scr.ctr_off) \div cols) |-> p[scr.ctr_off + l * cols + col]]
  IN  IF scr.times = <<>> THEN level[s]
      ELSE JoinedAt(scr.times, Cardinality(DOMAIN level), level, EndOf(s))
ControlAt(s, col) == StatedAt(script, ActiveControl(script).cols, prm, s, col)

(* Every computed level takes the values the script states at its time: a  *)
(* fixed dof its condition's, a controlled one the control's.              *)
BoundaryFollowsScript ==
  Computed # {} /\ Last > 0 =>
    LET ctr == ActiveControl(script)
        conds == script.bc_at[EndOf(Last - 1)]
    IN  /\ \A i \in DOMAIN conds : traj[Last][conds[i].dof] = conds[i].val
        /\ \A r \in DOMAIN ctr.dofs :
             traj[Last][ctr.dofs[r]] =
               Sum(LAMBDA e : e.wt * ControlAt(Last - 1, e.col), {e \in ctr.entries : e.row = r})

(* controlJac is the derivative of the residual's rows in the parameters,  *)
(* and addControlJacT its transpose.                                       *)
ControlJacIsDerivative ==
  pc = "forward" /\ Last < NumSteps =>
    \A d \in Dirs :
      LET jac == ControlJac(map, Last, Along(d, 1), States)
          res(p) == AssembledRes(script.base, map, Last, Window(traj, Last), traj[Last], p)
      IN  /\ Axpy(1, jac, res(prm)) = res(Moved(d, 1))
          /\ \A i \in States :
               ParamJacT(map, Last, [j \in States |-> IF j = i THEN 1 ELSE 0])[d] = jac[i]

(* A data row is compared with the state at its time: between the two      *)
(* levels around it, nearer to the nearer one.                             *)
RowsAtTheirTime ==
  pc = "idle" =>
    \A t \in {t \in script.terms : t.kind = "misfit"} : \A row \in Rows(t) :
      LET s == Interpolation(t, row)
          ticks == IF t.time_vals # <<>> THEN t.time_vals[row] + t.offset
                   ELSE (IF t.time_levels # <<>> THEN t.time_levels[row] ELSE row) * Ticks + t.offset
      IN  /\ s.lower * Ticks <= ticks /\ ticks <= s.upper * Ticks
          /\ (Ticks * Sum(LAMBDA w : w.wt * w.level, Weights(s))) % P = ticks % P

(* Duality: at every step of the sweep, what has entered the gradient,     *)
(* what waits at the initial state, what is carried to earlier levels and  *)
(* the objective's gradients at levels not yet visited give the derivative *)
(* of the objective in every parameter.                                    *)
Waiting(d) ==
  Dot(init_grad, tangent[d][0])
  + Sum(LAMBDA lag : Dot(carry[lag], tangent[d][step - lag]), {lag \in Lags : lag < step})
  + Sum(LAMBDA k : Dot(StateGrad(script.terms, k, traj), tangent[d][k]), 1 .. step)
Duality == pc = "adjoint" => \A d \in Dirs : slope[d] = (grad[d] + Waiting(d)) % P

(* The gradient returned is the derivative of the value returned.          *)
GradientIsDerivative == pc = "done" => grad = slope
=============================================================================
