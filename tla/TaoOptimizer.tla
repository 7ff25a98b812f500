----------------------------- MODULE TaoOptimizer ------------------------------
(***************************************************************************)
(* TaoOptimizer and TaoReducedFunctionalAdapter: PETSc's TAO minimises a   *)
(* functional in coordinates of its own, q with p = scale * q, within      *)
(* bounds, and tells a monitor of every iterate.  TAO is external: it      *)
(* evaluates where it likes, with bounds and a type that keeps them only   *)
(* between them, and stops when it likes, at an iterate it accepted.       *)
(*                                                                         *)
(* The functional answers through ask, out and phase: it is asked for      *)
(* value and gradient, and is "done" or "threw".                           *)
(***************************************************************************)
EXTENDS ReducedFunctional

CONSTANTS
  Grid,      \* the points of TAO's coordinates
  MaxEvals   \* how often TAO evaluates in a solve

ASSUME GridAssumption == Grid \subseteq [1 .. 2 -> Int] /\ MaxEvals \in Nat

VARIABLES
  type,      \* opts_.type
  scale,     \* scale_ when has_scale_, or NotScaled
  bounds,    \* bounds_ when has_bounds_, or NoBounds
  monitor,   \* whether a progress monitor is set
  tao,       \* the TAO object and the solve that runs
  seen,      \* what the monitor is being told
  result,    \* the caller's TaoResult
  code       \* what solve returned

taoVars == <<type, scale, bounds, monitor, tao, seen, result, code>>

NotScaled == <<>>
NoBounds == [lower |-> <<>>, upper |-> <<>>]

(* A scale that a monitor sets is not validated, and may be zero.          *)
Infinite == 999
Over(a, b) == IF b = 0 THEN Infinite ELSE a \div b

ToPhysical(s, q) == IF s = NotScaled THEN q ELSE [i \in 1 .. 2 |-> s[i] * q[i]]
ToOptimizer(s, p) == IF s = NotScaled THEN p ELSE [i \in 1 .. 2 |-> Over(p[i], s[i])]

(* The gradient with respect to q, and back.                               *)
ToOptimizerGrad(s, g) == ToPhysical(s, g)
ToPhysicalGrad(s, g) == ToOptimizer(s, g)

(* validateBounds, validateScale.                                          *)
BoundsValid(b) ==
  b = NoBounds \/ (Len(b.lower) = 2 /\ \A i \in 1 .. 2 : b.lower[i] <= b.upper[i])
ScaleValid == scale = NotScaled \/ (Len(scale) = 2 /\ \A i \in 1 .. 2 : scale[i] > 0)

(* The type is passed on as it is.  (Mutant.)                              *)
TypeAsSet(t, b) == t

(* taoType: with bounds, the default becomes its bounded variant.          *)
TaoType(t, b) == IF b # NoBounds /\ t = "lmvm" THEN "blmvm" ELSE t

Keeps(t) == t = "blmvm"
Box(lo, hi) == {q \in Grid : \A i \in 1 .. 2 : lo[i] <= q[i] /\ q[i] <= hi[i]}

(* Where TAO may evaluate.                                                 *)
Allowed == IF tao.box.lower # <<>> /\ Keeps(tao.type) THEN Box(tao.box.lower, tao.box.upper) ELSE Grid

NoPoint == <<>>
IdleTao ==
  [pc |-> "idle", type |-> "lmvm", box |-> NoBounds, told |-> FALSE, trial |-> NoPoint,
   at |-> NoPoint, value |-> 0, grad |-> ZeroVec, evals |-> 0]
NoResult == [prm |-> NoPoint, value |-> 0, grad |-> ZeroVec]
NotTold == NoResult

TaoInit ==
  /\ tao = IdleTao /\ seen = NotTold /\ result = NoResult /\ code = "none"

-----------------------------------------------------------------------------
(* The setters, at any time the caller or its monitor runs.                *)
ClientRuns == tao.pc \in {"idle", "monitor"} /\ phase = "idle"

SetBounds(b) ==
  /\ ClientRuns
  /\ bounds' = b
  /\ UNCHANGED <<evalVars, type, scale, monitor, tao, seen, result, code>>

SetVariableScale(s) ==
  /\ ClientRuns
  /\ scale' = s
  /\ UNCHANGED <<evalVars, type, bounds, monitor, tao, seen, result, code>>

SetMonitor(set) ==
  /\ ClientRuns
  /\ monitor' = set
  /\ UNCHANGED <<evalVars, type, scale, bounds, tao, seen, result, code>>

(* solve, up to TaoSolve: the starting point is within the bounds when TAO *)
(* keeps them.  No option of PETSc names another type: TaoSetFromOptions,  *)
(* which comes after the type is set, would take it.                       *)
Projected(q, box) ==
  [i \in 1 .. 2 |-> IF q[i] < box.lower[i] THEN box.lower[i]
                    ELSE IF q[i] > box.upper[i] THEN box.upper[i] ELSE q[i]]

NewTao(b, told, p) ==
  LET t == TaoType(type, b)
      box == IF b = NoBounds THEN NoBounds
             ELSE [lower |-> ToOptimizer(scale, b.lower), upper |-> ToOptimizer(scale, b.upper)]
      q == ToOptimizer(scale, p)
  IN [IdleTao EXCEPT !.pc = "evaluate", !.type = t, !.box = box, !.told = told,
                     !.trial = IF b # NoBounds /\ Keeps(t) THEN Projected(q, box) ELSE q]

Start(p) ==
  /\ tao.pc = "idle" /\ phase = "idle"
  /\ IF BoundsValid(bounds) /\ ScaleValid
     THEN tao' = NewTao(bounds, monitor, p) /\ code' = "none"
     ELSE tao' = tao /\ code' = "argument"
  /\ UNCHANGED <<evalVars, type, scale, bounds, monitor, seen, result>>

(* formValueGrad: the functional is asked in the caller's coordinates, and *)
(* an exception ends the solve with an error.                              *)
FormValueGrad ==
  /\ tao.pc = "evaluate"
  /\ Ask("valueGrad", ToPhysical(scale, tao.trial))
  /\ tao' = [tao EXCEPT !.pc = "waits", !.evals = @ + 1]
  /\ UNCHANGED <<type, scale, bounds, monitor, seen, result, code>>

(* An evaluation that failed is tried again.  (Mutant.)                    *)
TriesAgain(c) == tao' = [tao EXCEPT !.pc = "evaluate", !.evals = @ - 1] /\ UNCHANGED code

(* An error code, or an exception, ends the solve.                         *)
Fails(c) == tao' = IdleTao /\ code' = c

Answered ==
  /\ tao.pc = "waits" /\ phase \in {"done", "threw"}
  /\ Returned
  /\ IF phase = "done"
     THEN \/ /\ tao' = [tao EXCEPT !.pc = IF tao.told THEN "tells" ELSE "iterates", !.at = tao.trial,
                                   !.value = out.val, !.grad = ToOptimizerGrad(scale, out.grad)]
             /\ UNCHANGED code
          \/ /\ tao.at # NoPoint
             /\ tao' = [tao EXCEPT !.pc = "iterates"]
             /\ UNCHANGED code
     ELSE Fails("library")
  /\ UNCHANGED <<config, fwd, work, init, prm, state, it, adj, obj, ask, out,
                 type, scale, bounds, monitor, seen, result>>

(* monitorCallback.  A monitor that was cleared meanwhile is not called.   *)
MonitorCallback ==
  /\ tao.pc = "tells"
  /\ IF monitor
     THEN /\ seen' = [prm |-> ToPhysical(scale, tao.at), value |-> tao.value,
                      grad |-> ToPhysicalGrad(scale, tao.grad)]
          /\ tao' = [tao EXCEPT !.pc = "monitor"]
     ELSE tao' = [tao EXCEPT !.pc = "iterates"] /\ UNCHANGED seen
  /\ UNCHANGED <<evalVars, type, scale, bounds, monitor, result, code>>

MonitorReturns ==
  /\ tao.pc = "monitor"
  /\ tao' = [tao EXCEPT !.pc = "iterates"]
  /\ seen' = NotTold
  /\ UNCHANGED <<evalVars, type, scale, bounds, monitor, result, code>>

MonitorThrows ==
  /\ tao.pc = "monitor"
  /\ Fails("library")
  /\ seen' = NotTold
  /\ UNCHANGED <<evalVars, type, scale, bounds, monitor, result>>

(* TAO tries another point, stops at its iterate, or fails.                *)
Iterates ==
  /\ tao.pc = "iterates"
  /\ \/ /\ tao.evals < MaxEvals
        /\ \E q \in Allowed : tao' = [tao EXCEPT !.pc = "evaluate", !.trial = q]
        /\ UNCHANGED code
     \/ tao' = [tao EXCEPT !.pc = "final"] /\ UNCHANGED code
     \/ Fails("library")
  /\ UNCHANGED <<evalVars, type, scale, bounds, monitor, seen, result>>

(* TAO's solution vector.                                                  *)
Solved == tao.at

(* The end of solve: the parameters are assigned before the functional is  *)
(* evaluated there once more.                                              *)
FinalEvaluation ==
  /\ tao.pc = "final"
  /\ result' = [result EXCEPT !.prm = ToPhysical(scale, Solved)]
  /\ Ask("valueGrad", ToPhysical(scale, Solved))
  /\ tao' = [tao EXCEPT !.pc = "ends"]
  /\ UNCHANGED <<type, scale, bounds, monitor, seen, code>>

Ends ==
  /\ tao.pc = "ends" /\ phase \in {"done", "threw"}
  /\ Returned
  /\ tao' = IdleTao
  /\ IF phase = "done"
     THEN /\ result' = [result EXCEPT !.value = out.val, !.grad = out.grad]
          /\ code' = "success"
     ELSE code' = "library" /\ UNCHANGED result
  /\ UNCHANGED <<config, fwd, work, init, prm, state, it, adj, obj, ask, out,
                 type, scale, bounds, monitor, seen>>

TaoSteps ==
  FormValueGrad \/ Answered \/ MonitorCallback \/ MonitorReturns \/ Iterates \/ FinalEvaluation \/ Ends
=============================================================================
