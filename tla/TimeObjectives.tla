---------------------------- MODULE TimeObjectives ----------------------------
(***************************************************************************)
(* Time objectives: their values, and the gradients they hand the adjoint  *)
(* (femx::inverse TimeLeastSquaresObjective, TimeRegularization,           *)
(* TimeBlockRegularization, SumTimeObjective, over the observations of     *)
(* fem::TimePointInterpolator).  A trajectory is a function from levels to *)
(* states.  Times are integers in ticks, Ticks of them to a step.          *)
(***************************************************************************)
EXTENDS ControlledDirichletProblem

(* The offset of the times is forgotten.  (Mutant.)                        *)
OffsetForgotten(obj, row) ==
  LET tick == obj.time_vals[row]
      level == tick \div Ticks
      own == IF obj.time_levels = <<>> THEN row ELSE obj.time_levels[row]
  IN  IF obj.time_vals = <<>> THEN [lower |-> own, upper |-> own, wt |-> 0]
      ELSE IF tick % Ticks = 0 THEN [lower |-> level, upper |-> level, wt |-> 0]
      ELSE [lower |-> level, upper |-> level + 1, wt |-> ((tick % Ticks) * Inv(Ticks % P)) % P]

(* Where a data row lies between the levels: at a time, or at a level (the *)
(* row's own without a list of levels), moved by the offset.               *)
Interpolation(obj, row) ==
  LET tick == obj.time_vals[row] + obj.offset
      level == tick \div Ticks
      own == (IF obj.time_levels = <<>> THEN row ELSE obj.time_levels[row]) + obj.offset \div Ticks
  IN  IF obj.time_vals = <<>> THEN [lower |-> own, upper |-> own, wt |-> 0]
      ELSE IF tick % Ticks = 0 THEN [lower |-> level, upper |-> level, wt |-> 0]
      ELSE [lower |-> level, upper |-> level + 1, wt |-> ((tick % Ticks) * Inv(Ticks % P)) % P]

Rows(obj) == DOMAIN obj.data

(* What the constructor requires: every row inside the march, and an       *)
(* offset of whole steps for rows given by level.                          *)
LeastSquaresOK(obj, num_steps) ==
  /\ obj.time_vals = <<>> => obj.offset % Ticks = 0
  /\ obj.time_vals = <<>> /\ obj.time_levels = <<>> => Rows(obj) = 0 .. num_steps
  /\ DOMAIN obj.wts = 0 .. num_steps
  /\ \A row \in Rows(obj) :
       LET s == Interpolation(obj, row) IN StencilOK(s) /\ s.upper <= num_steps

ObservationWeight(obj, s) == Sum(LAMBDA w : w.wt * obj.wts[w.level], Weights(s))

(* TimePointInterpolator: an interpolation matrix over the state.          *)
Observe(obj, u) == MatVec(obj.points, u)
ApplyStateJacT(obj, dir, u) == MatVecT(obj.points, dir, DOMAIN u)

ObsResidual(obj, row, traj) ==
  LET s == Interpolation(obj, row)
      lower == Observe(obj, traj[s.lower])
      mixed == IF HasUpper(s)
               THEN Axpy(s.wt, Observe(obj, traj[s.upper]), Scaled(LowerWeight(s), lower))
               ELSE lower
  IN  Axpy(-1, obj.data[row], mixed)

MisfitOfRow(obj, row, traj) ==
  LET res == ObsResidual(obj, row, traj)
  IN  Sum(LAMBDA j : Half * obj.entry_wts[row][j] * res[j] * res[j], DOMAIN res)
Misfit(obj, traj) ==
  Sum(LAMBDA row : ObservationWeight(obj, Interpolation(obj, row)) * MisfitOfRow(obj, row, traj), Rows(obj))

ScaledResidual(obj, row, traj, factor) ==
  LET res == ObsResidual(obj, row, traj)
  IN  [j \in DOMAIN res |-> (factor * obj.entry_wts[row][j] * res[j]) % P]

LevelFactor(s, level) == Sum(LAMBDA w : w.wt, {w \in Weights(s) : w.level = level})

MisfitStateGrad(obj, level, traj) ==
  LET term(row) ==
        LET s == Interpolation(obj, row)
        IN  ApplyStateJacT(obj,
              ScaledResidual(obj, row, traj, LevelFactor(s, level) * ObservationWeight(obj, s)),
              traj[level])
      reached == {row \in Rows(obj) : LevelFactor(Interpolation(obj, row), level) # 0}
  IN  [d \in DOMAIN traj[level] |-> Sum(LAMBDA row : term(row)[d], reached)]

(* The interpolation does not depend on the parameters.                    *)
ApplyParamJacT(dir, prm) == Zero(DOMAIN prm)

MisfitParamGrad(obj, traj, prm) ==
  LET factor(row) == ObservationWeight(obj, Interpolation(obj, row))
      grad(row) == ApplyParamJacT(ScaledResidual(obj, row, traj, factor(row)), prm)
      met == UNION {{<<row, w>> : w \in Weights(Interpolation(obj, row))} : row \in {r \in Rows(obj) : factor(r) # 0}}
  IN  [p \in DOMAIN prm |-> Sum(LAMBDA m : m[2].wt * grad(m[1])[p], met)]

(* TimeRegularization and TimeBlockRegularization: quadratic in the        *)
(* parameters, which lie level after level in blocks.                      *)
Index(reg, level, comp) == level * reg.block + comp
Centered(reg, prm, level, comp) ==
  prm[Index(reg, level, comp)] - reg.reference[Index(reg, level, comp)]
Change(reg, prm, level, comp) ==
  Centered(reg, prm, level, comp) - Centered(reg, prm, level - 1, comp)

Places(reg) == Range0(reg.levels) \X Range0(reg.block)
Regularization(reg, prm) ==
  ( Sum(LAMBDA q : Half * reg.beta_value * Centered(reg, prm, q[1], q[2]) * Centered(reg, prm, q[1], q[2]),
        Places(reg))
  + Sum(LAMBDA q : Half * reg.beta_diff * Change(reg, prm, q[1], q[2]) * Change(reg, prm, q[1], q[2]),
        {q \in Places(reg) : q[1] >= 1})) % P

RegularizationGrad(reg, prm) ==
  [p \in DOMAIN prm |->
     LET level == p \div reg.block  comp == p % reg.block
     IN  (reg.beta_value * (prm[p] - reg.reference[p])
          + (IF level >= 1 THEN reg.beta_diff * Change(reg, prm, level, comp) ELSE 0)
          - (IF level + 1 < reg.levels THEN reg.beta_diff * Change(reg, prm, level + 1, comp) ELSE 0)) % P]

BlockRegularization(reg, prm) ==
  Sum(LAMBDA q : Half * reg.weight * q[2].wt * Centered(reg, prm, q[1], q[2].row) * Centered(reg, prm, q[1], q[2].col),
      Range0(reg.levels) \X reg.entries)

BlockRegularizationGrad(reg, prm) ==
  [p \in DOMAIN prm |->
     LET level == p \div reg.block  comp == p % reg.block
     IN  ( Sum(LAMBDA e : Half * reg.weight * e.wt * Centered(reg, prm, level, e.col),
               {e \in reg.entries : e.row = comp})
         + Sum(LAMBDA e : Half * reg.weight * e.wt * Centered(reg, prm, level, e.row),
               {e \in reg.entries : e.col = comp})) % P]

(* SumTimeObjective over terms of the three kinds; the regularizations do  *)
(* not see the state, the observations not the parameters.                 *)
Value(terms, traj, prm) ==
  (Sum(LAMBDA t : Misfit(t, traj), {t \in terms : t.kind = "misfit"})
   + Sum(LAMBDA t : Regularization(t, prm), {t \in terms : t.kind = "time"})
   + Sum(LAMBDA t : BlockRegularization(t, prm), {t \in terms : t.kind = "block"})) % P

StateGrad(terms, level, traj) ==
  LET gs == [t \in {t \in terms : t.kind = "misfit"} |-> MisfitStateGrad(t, level, traj)]
  IN  [d \in DOMAIN traj[level] |-> Sum(LAMBDA t : gs[t][d], DOMAIN gs)]

ParamGrad(terms, traj, prm) ==
  LET gs == [t \in terms |->
               CASE t.kind = "misfit" -> MisfitParamGrad(t, traj, prm)
                 [] t.kind = "time" -> RegularizationGrad(t, prm)
                 [] t.kind = "block" -> BlockRegularizationGrad(t, prm)]
  IN  [p \in DOMAIN prm |-> Sum(LAMBDA t : gs[t][p], DOMAIN gs)]
=============================================================================
