---------------------- MODULE ControlledDirichletProblem ----------------------
(***************************************************************************)
(* How a controlled problem is put together from what a script states: the *)
(* boundary conditions as functions of time, a control and the times of    *)
(* its levels, the initial state (femx::fem::makeTimeDirichletData and the *)
(* bindings' ControlledDirichletProblem).  Times are integers in ticks,    *)
(* Ticks of them to a step.                                                *)
(***************************************************************************)
EXTENDS ControlMap, Sequences, TLC

Lists == INSTANCE SequencesExt
Fem == INSTANCE NavierSpaces

CONSTANTS
  Ticks,      \* ticks of a time step
  NumSteps,   \* the steps of the march
  NumStates   \* the size of a state

ASSUME TicksAssumption == Ticks \in Nat \ {0} /\ Ticks % P # 0
ASSUME SizeAssumption == NumSteps \in Nat \ {0} /\ NumStates \in Nat \ {0}

States == Range0(NumStates)
EndOf(step) == (step + 1) * Ticks

(* Boundary conditions at a time: a sequence of dofs and values, in which  *)
(* a dof may come twice.                                                   *)
DofsOf(conds) == {conds[i].dof : i \in DOMAIN conds}
Agreeing(conds) == \A i, j \in DOMAIN conds : conds[i].dof = conds[j].dof => conds[i].val = conds[j].val
ValueAt(conds, dof) == conds[CHOOSE i \in DOMAIN conds : conds[i].dof = dof].val

(* makeTimeDirichletData: the dofs constrained at time zero in order, and  *)
(* their values at the end of each step, row after row.  Conditions that   *)
(* disagree, or that leave or add a dof later, are refused.                *)
TimeDirichletOK(bc_at, num_steps, states) ==
  /\ \A t \in {0} \cup {EndOf(s) : s \in Range0(num_steps)} :
       Agreeing(bc_at[t]) /\ DofsOf(bc_at[t]) = DofsOf(bc_at[0])
  /\ DofsOf(bc_at[0]) \subseteq states

FixedDofs(bc_at) ==
  LET set == DofsOf(bc_at[0])
  IN  [r \in Range0(Cardinality(set)) |-> AtRank(set, r)]
FixedVals(bc_at, num_steps) ==
  LET dofs == FixedDofs(bc_at)  n == Cardinality(DOMAIN dofs)
  IN  [i \in Range0(num_steps * n) |-> ValueAt(bc_at[EndOf(i \div n)], dofs[i % n])]

(* The weight stays with the position when the levels change places.       *)
(* (Mutant.)                                                               *)
WeightKept(s, last) ==
  IF s.lower = last \/ (s.upper = last /\ s.lower = 0) THEN [lower |-> 0, upper |-> 0, wt |-> 0]
  ELSE IF s.upper = last THEN [lower |-> 0, upper |-> s.lower, wt |-> s.wt]
  ELSE s

(* makePythonControlTimeStencils: the levels of a control at the end of    *)
(* each step; with `periodic` the last time stands for the first level.    *)
Wrapped(s, last) ==
  IF s.lower = last \/ (s.upper = last /\ s.lower = 0) THEN [lower |-> 0, upper |-> 0, wt |-> 0]
  ELSE IF s.upper = last THEN [lower |-> 0, upper |-> s.lower, wt |-> LowerWeight(s)]
  ELSE s

TimeStencils(times, periodic) ==
  IF times = <<>> THEN <<>>
  ELSE LET last == Cardinality(DOMAIN times) - 1
           plain(step) == LinearInterpolation(times, EndOf(step))
       IN  [step \in Range0(NumSteps) |-> IF periodic THEN Wrapped(plain(step), last) ELSE plain(step)]

NumTimeLevels(times, periodic) == Cardinality(DOMAIN times) - (IF periodic THEN 1 ELSE 0)

(* Every level must matter at some step.                                   *)
StencilsOK(times, periodic) ==
  \/ times = <<>>
  \/ LET stencils == TimeStencils(times, periodic)
     IN  /\ times[0] >= 0 /\ \A l \in DOMAIN times \ {0} : times[l - 1] < times[l]
         /\ times[Cardinality(DOMAIN times) - 1] <= EndOf(NumSteps - 1)
         /\ periodic => times[0] = 0 /\ times[Cardinality(DOMAIN times) - 1] = EndOf(NumSteps - 1)
         /\ UNION {{w.level : w \in {w \in Weights(stencils[s]) : w.wt # 0}} : s \in Range0(NumSteps)}
            = Range0(NumTimeLevels(times, periodic))

(* The problem of a script: the control keeps the dofs that no boundary    *)
(* condition fixes; conditions that do not change have one row of values.  *)
ActiveControl(script) == WithoutStateDofs(script.ctr, DofsOf(script.bc_at[0]))
BcSteps(script) == IF script.constant THEN 1 ELSE NumSteps

ProblemMap(script) ==
  MakeControlMap(NumSteps, ActiveControl(script), FixedDofs(script.bc_at),
                 FixedVals(script.bc_at, BcSteps(script)),
                 TimeStencils(script.times, script.periodic), script.ctr_off, -1)

ProblemInit(script) ==
  [mean |-> script.mean, modes |-> script.modes, num_modes |-> script.num_modes,
   init_off |-> 0, ctr_off |-> script.ctr_off, ctr |-> ActiveControl(script),
   num_prm |-> ProblemMap(script).num_prm]

(* A script the constructors accept.                                       *)
Accepted(script, states) ==
  /\ TimeDirichletOK(script.bc_at, BcSteps(script), states)
  /\ DOMAIN ActiveControl(script).dofs # {} /\ ActiveControl(script).cols > 0
  /\ StencilsOK(script.times, script.periodic)
  /\ ControlMapOK(ProblemMap(script), NumSteps, states)
  /\ InitialStateMapOK(ProblemInit(script))

-----------------------------------------------------------------------------
(* Scripts of a mesh.  A condition has a field, a boundary, and what its   *)
(* value is at a time and a node; `constant` tells a value from a callable.*)
(* A boundary is chosen by a physical name or by a tag.                    *)
FieldId == "velocity" :> "u" @@ "pressure" :> "p"
Matches(facet, boundary) ==
  IF boundary.by = "name" THEN facet.pname = boundary.name ELSE facet.ptag = boundary.tag
BoundaryNodes(m, boundary) ==
  UNION {{facet.nids[i] : i \in DOMAIN facet.nids} : facet \in {facet \in m.facets : Matches(facet, boundary)}}
NumComps(m, cond) == Fem!Comps(m, FieldId[cond.field])
ConditionOK(m, cond) ==
  /\ cond.field \in DOMAIN FieldId
  /\ BoundaryNodes(m, cond.boundary) # {}
  /\ \A t \in DOMAIN cond.vals : \A in \in BoundaryNodes(m, cond.boundary) :
       Len(cond.vals[t][in]) = NumComps(m, cond)

(* A condition at a time: its nodes in order, at each its components.      *)
ConditionAt(m, cond, t) ==
  LET nodes == BoundaryNodes(m, cond.boundary)
      n == NumComps(m, cond)
  IN  [i \in 1 .. n * Cardinality(nodes) |->
         LET in == AtRank(nodes, (i - 1) \div n)
             ic == (i - 1) % n
         IN  [dof |-> Fem!GlobalDof(m, FieldId[cond.field], in, ic), val |-> cond.vals[t][in][ic + 1]]]

(* pythonDirichletBC: constant values, the pressure of the first node      *)
(* where no condition is on the pressure, and then what is called.         *)
PressurePin(m, conds) ==
  IF \E i \in DOMAIN conds : conds[i].field = "pressure" THEN <<>>
  ELSE <<[dof |-> Fem!GlobalDof(m, "p", 0, 0), val |-> 0]>>
PythonDirichletBC(m, conds, t) ==
  LET fixed == SelectSeq(conds, LAMBDA c : c.constant)
      called == SelectSeq(conds, LAMBDA c : ~c.constant)
      At(list) == Lists!FlattenSeq([i \in DOMAIN list |-> ConditionAt(m, list[i], t)])
  IN  At(fixed) \o PressurePin(m, conds) \o At(called)

(* makeVelocityControl: a parameter for every component on the boundary.   *)
VelocityBoundaryDofs(m, boundary) ==
  {Fem!GlobalDof(m, "u", in, ic) : in \in BoundaryNodes(m, boundary), ic \in Range0(m.dim)}
IdentityEntries(n) == {[row |-> i, col |-> i, wt |-> 1] : i \in Range0(n)}
VelocityControl(m, boundary) ==
  LET dofs == VelocityBoundaryDofs(m, boundary)
      n == Cardinality(dofs)
  IN  [dofs |-> [r \in Range0(n) |-> AtRank(dofs, r)], cols |-> n, entries |-> IdentityEntries(n)]

(* The unit vector along a normal of whole length.                         *)
Direction(normal) ==
  LET norm2 == MapThenSumSet(LAMBDA i : normal[i] * normal[i], DOMAIN normal)
      norm == CHOOSE r \in 0 .. norm2 : r * r = norm2
  IN  [ic \in Range0(Len(normal)) |-> (normal[ic + 1] * Inv(norm % P)) % P]

(* makeNormalVelocityControl: a parameter for every node, along the normal *)
(* of length one; a component the normal has not is held at zero.          *)
NormalControl(m, boundary, normal) ==
  LET nodes == BoundaryNodes(m, boundary)
      n == m.dim
      dir == Direction(normal)
      rows == Range0(n * Cardinality(nodes))
  IN  [dofs |-> [r \in rows |-> Fem!GlobalDof(m, "u", AtRank(nodes, r \div n), r % n)],
       cols |-> Cardinality(nodes),
       entries |-> {[row |-> r, col |-> r \div n, wt |-> dir[r % n]] : r \in {r \in rows : dir[r % n] # 0}}]

NoControl == [dofs |-> [r \in {} |-> 0], cols |-> 0, entries |-> {}]
(* makeControlMatrix and the constructor of a control: entries in place,   *)
(* none twice, and no dof twice.                                           *)
ControlMatrixOK(ctr) ==
  \A e \in ctr.entries :
    /\ e.row \in DOMAIN ctr.dofs /\ e.col \in Range0(ctr.cols)
    /\ \A f \in ctr.entries : f.row = e.row /\ f.col = e.col => f = e
DirichletControlOK(ctr) ==
  ControlMatrixOK(ctr) /\ \A r, q \in DOMAIN ctr.dofs : ctr.dofs[r] = ctr.dofs[q] => r = q

(* What the classes of controls check when they are declared.              *)
SpecificationOK(spec) == spec.periodic => spec.times # <<>>
NormalOK(m, normal) == Len(normal) = m.dim /\ \E i \in DOMAIN normal : normal[i] # 0
PythonControl(m, spec) ==
  IF spec.kind = "normal" THEN NormalControl(m, spec.boundary, spec.normal)
  ELSE IF spec.kind = "vector" THEN VelocityControl(m, spec.boundary) ELSE NoControl
ControlOK(m, spec) ==
  /\ SpecificationOK(spec)
  /\ BoundaryNodes(m, spec.boundary) # {}
  /\ spec.kind = "normal" => NormalOK(m, spec.normal)
  /\ DirichletControlOK(PythonControl(m, spec))

(* What a script of a mesh comes to; without modes.                        *)
ScriptOf(m, conds, spec) ==
  [ctr |-> PythonControl(m, spec),
   bc_at |-> [t \in 0 .. NumSteps * Ticks |-> PythonDirichletBC(m, conds, t)],
   constant |-> \A i \in DOMAIN conds : conds[i].constant,
   times |-> spec.times, periodic |-> spec.periodic, ctr_off |-> spec.ctr_off,
   mean |-> Zero(Fem!Dofs(m)), modes |-> [d \in Fem!Dofs(m) |-> <<>>], num_modes |-> 0]

(* The constructors of FixedDirichletProblem and ControlledDirichletProblem*)
(* throw, or give the problem: its data, its control and its map.          *)
CompiledProblems(m, conds, spec) ==
  LET scr == ScriptOf(m, conds, spec)
      fixed == spec.kind = "none"
      ok == /\ \A i \in DOMAIN conds : ConditionOK(m, conds[i])
            /\ IF fixed THEN TimeDirichletOK(scr.bc_at, BcSteps(scr), Fem!Dofs(m))
               ELSE ControlOK(m, spec) /\ Accepted(scr, Fem!Dofs(m))
  IN  {[script |-> scr, map |-> ProblemMap(scr), ctr |-> ActiveControl(scr)] : p \in {TRUE} \cap {ok}}

(* controlMeshNodeIds: the node of every column, or no element where it    *)
(* throws.                                                                 *)
NodesOfCol(m, ctr, col) == {ctr.dofs[e.row] \div m.dim : e \in {e \in ctr.entries : e.col = col}}
ControlMeshNodeIds(m, ctr) ==
  {[col \in Range0(ctr.cols) |-> CHOOSE in \in NodesOfCol(m, ctr, col) : TRUE] :
     ok \in {TRUE} \cap {/\ \A r \in DOMAIN ctr.dofs : ctr.dofs[r] < m.dim * Fem!NumNodes(m)
                         /\ \A col \in Range0(ctr.cols) : Cardinality(NodesOfCol(m, ctr, col)) = 1}}

(* fixed_values of the problem, of which Python repeats a single row.      *)
StoredSteps(scr) == IF DofsOf(scr.bc_at[0]) = {} THEN NumSteps ELSE BcSteps(scr)
FixedValues(scr) ==
  LET n == Cardinality(DofsOf(scr.bc_at[0]))
  IN  [s \in Range0(NumSteps) |->
         Block(FixedVals(scr.bc_at, BcSteps(scr)), (IF StoredSteps(scr) = 1 THEN 0 ELSE s) * n, n)]
(* initial_state: the fixed values at time zero, and zero elsewhere.       *)
InitState(m, scr) ==
  [d \in Fem!Dofs(m) |-> IF d \in DofsOf(scr.bc_at[0]) THEN ValueAt(scr.bc_at[0], d) ELSE 0]
=============================================================================
