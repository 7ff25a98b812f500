--------------------------- MODULE ReducedFunctional ---------------------------
(***************************************************************************)
(* ReducedFunctional: the objective J(x(p), p) and its gradient by one     *)
(* adjoint solve.  The state is solved for on the forward context, the     *)
(* gradient on the context of a second linear system, and the objective is *)
(* the host's.                                                             *)
(***************************************************************************)
EXTENDS StateSolver, FiniteSetsExt

-----------------------------------------------------------------------------
(***************************************************************************)
(* LeastSquaresObjective and SumObjective: squared distances of a state    *)
(* and of parameters to targets.  An objective is the sequence of the      *)
(* terms of a SumObjective; a term that is not set weighs nothing.         *)
(* Weights are even, so that the halves are exact.                         *)
(***************************************************************************)

NotSet == [target |-> <<>>, weights |-> <<>>]
Term(target, weights) == [target |-> target, weights |-> weights]

SumOver(f(_), S) == MapThenSumSet(f, S)

(* checkTerm.                                                              *)
Valid(term, size) ==
  /\ Len(term.target) = size /\ Len(term.weights) = size
  /\ \A i \in 1 .. size : term.weights[i] >= 0

(* termValue, termGrad.                                                    *)
TermValue(x, term) ==
  SumOver(LAMBDA i : (term.weights[i] * (x[i] - term.target[i]) * (x[i] - term.target[i])) \div 2,
          DOMAIN term.target)
TermGrad(x, term) ==
  [i \in DOMAIN x |-> IF term.target = <<>> THEN 0 ELSE term.weights[i] * (x[i] - term.target[i])]

(* SumObjective::value, stateGrad and paramGrad over its terms.            *)
Value(obj, x, p) ==
  SumOver(LAMBDA t : TermValue(x, obj[t].state) + TermValue(p, obj[t].prm), DOMAIN obj)
StateGrad(obj, x) ==
  [i \in DOMAIN x |-> SumOver(LAMBDA t : TermGrad(x, obj[t].state)[i], DOMAIN obj)]
ParamGrad(obj, p) ==
  [i \in DOMAIN p |-> SumOver(LAMBDA t : TermGrad(p, obj[t].prm)[i], DOMAIN obj)]

-----------------------------------------------------------------------------
VARIABLES
  adj,       \* the adjoint linear system
  obj,       \* the objective
  ask,       \* what is asked for, and where
  out        \* what the last evaluation returned

functionalVars == <<adj, obj, ask, out>>
evalVars == <<solverVars, functionalVars>>

AdjBuf(name) == <<"adj", name>>
HostBuf(name) == <<"host", name>>

Wants == {"value", "grad", "valueGrad"}
NoOut == [val |-> 0, grad |-> ZeroVec]

FunctionalInit ==
  /\ phase = "idle" /\ work = NoWork /\ init = NoState
  /\ fwd = NewSystem("fwd") /\ adj = NewSystem("adj")
  /\ prm = ZeroVec /\ state = ZeroVec /\ it = 0
  /\ ask = [what |-> "value", prm |-> ZeroVec] /\ out = NoOut /\ abandoned = FALSE

(* setStateTerm, setParamTerm and their clear: a term that is not valid is *)
(* rejected before anything is assigned.                                   *)
SetTerm(t, kind, term) ==
  /\ Valid(term, 2) \/ term = NotSet
  /\ obj' = [obj EXCEPT ![t][kind] = term]
  /\ UNCHANGED <<solverVars, adj, ask, out, abandoned>>

(* value, grad, valueGrad: up to the state solver's call.                  *)
Ask(what, p) ==
  /\ phase = "idle"
  /\ ask' = [what |-> what, prm |-> p]
  /\ prm' = p
  /\ work' = Calls(<<ByHost({}, {HostBuf("prm")}), On("fwd", {HostBuf("prm")}, {FwdBuf("prm")})>>)
  /\ phase' = "solve"
  /\ UNCHANGED <<config, fwd, init, state, it, adj, obj, out, abandoned>>

(* The last calls of solveState.                                           *)
CopyState == <<On("fwd", {FwdBuf("state")}, {HostBuf("state")}), Sync("fwd")>>

(* The state is solved for: the objective's value, if it is asked for.     *)
ObjectiveValue ==
  /\ phase = "solved"
  /\ work' = Calls(CopyState \o <<ByHost({HostBuf("state"), HostBuf("prm")}, {})>>)
  /\ IF ask.what = "grad" THEN UNCHANGED out
     ELSE out' = [out EXCEPT !.val = Value(obj, state, prm)]
  /\ phase' = IF ask.what = "value" THEN "done" ELSE "grad"
  /\ UNCHANGED <<config, fwd, init, prm, state, it, adj, obj, ask, abandoned>>

ObjectiveThrows ==
  /\ phase \in {"solved", "grad"}
  /\ Throws
  /\ work' = IF phase = "solved" THEN Calls(CopyState) ELSE work
  /\ UNCHANGED <<config, fwd, init, prm, state, it, abandoned, functionalVars>>

(* gradAtState: the calls up to the adjoint solve, and those after it.     *)
AdjointAssembly ==
  <<ByHost({HostBuf("state")}, {HostBuf("state_grad")}),
    On("adj", {HostBuf("state_grad")}, {AdjBuf("state_grad")}),
    On("adj", {FwdBuf("state"), FwdBuf("prm")}, {AdjBuf("mat")})>>
GradientCalls ==
  <<ByHost({HostBuf("state")}, {HostBuf("prm_grad")}),
    On("adj", {HostBuf("prm_grad")}, {AdjBuf("prm_grad")}),
    On("adj", {FwdBuf("state"), FwdBuf("prm"), AdjBuf("adj")}, {AdjBuf("product")}),
    On("adj", {AdjBuf("product"), AdjBuf("prm_grad")}, {AdjBuf("prm_grad")}),
    On("adj", {AdjBuf("prm_grad")}, {HostBuf("out")}),
    Sync("adj")>>

(* The gradient the adjoint gives.                                         *)
GradientOf(a) == Plus(ParamGrad(obj, prm), Minus(ParamJacT(state, prm, a)))

GradAtState ==
  LET rhs == StateGrad(obj, state) IN
  /\ phase = "grad"
  /\ \E r \in SystemSolves(config.kind, Assembled(adj, state, prm), "trans", rhs, AdjBuf("state_grad"), AdjBuf("adj")) :
     \E later \in {TRUE, FALSE} :
       /\ adj' = r.sys
       /\ IF r.ok /\ later
          THEN /\ phase' = "done"
               /\ out' = [out EXCEPT !.grad = GradientOf(r.x)]
               /\ work' = Calls(AdjointAssembly \o r.ops \o GradientCalls)
          ELSE /\ Throws
               /\ work' = Calls(AdjointAssembly \o r.ops)
               /\ UNCHANGED out
  /\ UNCHANGED <<config, fwd, init, prm, state, it, obj, ask, abandoned>>

(* The caller has the result, or the exception, which leaves the streams   *)
(* as they are.                                                            *)
Returned ==
  /\ phase' = "idle"
  /\ abandoned' = (abandoned \/ (phase = "threw" /\ work.open # {}))

Evaluate ==
  \/ StateSolve /\ UNCHANGED functionalVars
  \/ ObjectiveThrows
  \/ ObjectiveValue
  \/ GradAtState

-----------------------------------------------------------------------------
(***************************************************************************)
(* What an evaluation should return, without an adjoint: the state in      *)
(* closed form and the sensitivities of the state to each parameter.       *)
(***************************************************************************)
StateAt(p) == <<p[2] - p[1] * p[1] - config.curv * p[1] * p[1], p[1]>>
Sensitivity(p, i) ==
  IF i = 1 THEN <<(-2) * p[1] - 2 * config.curv * p[1], 1>> ELSE <<1, 0>>

ReducedValue(p) == Value(obj, StateAt(p), p)
ReducedGrad(p) ==
  LET x == StateGrad(obj, StateAt(p)) IN
  [i \in 1 .. 2 |->
     ParamGrad(obj, p)[i] + x[1] * Sensitivity(p, i)[1] + x[2] * Sensitivity(p, i)[2]]

(* An evaluation that returns does so with the objective and the gradient  *)
(* at the parameters it was asked for, whatever was kept of earlier and    *)
(* failed calls by the solvers, as long as no call had left work behind    *)
(* and the map to the transpose was finished.                              *)
EvaluationExact ==
  (phase = "done" /\ config.solver # "time" /\ ~work.race /\ adj.map # "half")
    => /\ ask.what # "grad" => out.val = ReducedValue(ask.prm)
       /\ ask.what # "value" => out.grad = ReducedGrad(ask.prm)

(* Until an exception leaves work on a stream, no call touches data that   *)
(* another stream, or the host, may still be using.                        *)
RaceFree == work.race => abandoned
=============================================================================
