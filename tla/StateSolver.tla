------------------------------ MODULE StateSolver ------------------------------
(***************************************************************************)
(* LinearStateSolver and NewtonStateSolver: a state x with R(x, p) = 0,    *)
(* by one assembly and one solve, or by Newton's method from the initial   *)
(* state the client set, or zero.  The residual is the client's; here it   *)
(* is                                                                      *)
(*   R(x, p) = << x1 + p1 x2 + curv x2^2 - p2,  x2 - p1 >>                 *)
(* whose Jacobian is not symmetric and changes with the parameters and,    *)
(* unless curv is zero, with the state.                                    *)
(***************************************************************************)
EXTENDS LinearSystems

VARIABLES
  config,   \* which solvers: [solver, kind, curv, max_its]
  phase,    \* where the running evaluation is, "idle" when none runs
  fwd,      \* the forward linear system
  work,     \* the streams of the two contexts and of ReSolve
  init,     \* init_ when has_init_, or NoState
  prm,      \* the parameters in the solver's memory space
  state,    \* the state in the solver's memory space
  it,       \* Newton's iteration
  abandoned \* an exception left work on a stream

solverVars == <<config, phase, fwd, work, init, prm, state, it, abandoned>>

NoState == <<>>
FwdBuf(name) == <<"fwd", name>>

(* Only the device has streams.                                            *)
Calls(ops) == IF config.kind = "cuda" THEN After(work, ops) ELSE work

Minus(x) == [i \in DOMAIN x |-> -x[i]]
Plus(x, y) == [i \in DOMAIN x |-> x[i] + y[i]]

(* The residual, its state Jacobian, and its parameter Jacobian transposed.*)
Residual(x, p) ==
  <<x[1] + p[1] * x[2] + config.curv * x[2] * x[2] - p[2], x[2] - p[1]>>
StateJac(x, p) == <<<<1, p[1] + 2 * config.curv * x[2]>>, <<0, 1>>>>
ParamJacT(x, p, a) == <<x[2] * a[1] - a[2], -a[1]>>

(* setup, assembleJacobian and finalize of a system's matrix.              *)
Assembled(sys, x, p) == [sys EXCEPT !.mat = Csr("square", StateJac(x, p))]

-----------------------------------------------------------------------------
Throws == phase' = "threw"

(* setInitialState, clearInitialState.                                     *)
SetInitialState(x) ==
  /\ phase = "idle" /\ config.solver = "newton"
  /\ init' \in {x, NoState}
  /\ UNCHANGED <<abandoned, config, phase, fwd, work, prm, state, it>>

(* The calls of LinearStateSolver::solve around those of the system's.     *)
LinearCalls(after) == after \o <<Sync("fwd")>>

LinearAssembly ==
  <<On("fwd", {}, {FwdBuf("mat")}),
    On("fwd", {FwdBuf("zero"), FwdBuf("prm")}, {FwdBuf("res")}),
    On("fwd", {FwdBuf("res")}, {FwdBuf("minus")}),
    On("fwd", {FwdBuf("zero"), FwdBuf("prm")}, {FwdBuf("mat")})>>

(* LinearStateSolver::solve.                                               *)
LinearSolve ==
  LET assembled == Assembled(fwd, ZeroVec, prm)
      rhs == Minus(Residual(ZeroVec, prm)) IN
  /\ phase = "solve" /\ config.solver = "linear"
  /\ \E r \in SystemSolves(config.kind, assembled, "fwd", rhs, FwdBuf("minus"), FwdBuf("state")) :
       /\ fwd' = r.sys
       /\ work' = Calls(LinearAssembly \o IF r.ok THEN LinearCalls(r.ops) ELSE r.ops)
       /\ IF r.ok THEN phase' = "solved" /\ state' = r.x ELSE Throws /\ UNCHANGED state
  /\ UNCHANGED <<abandoned, config, init, prm, it>>

(* initState.                                                              *)
NewtonFrom == IF init # NoState THEN init ELSE ZeroVec

(* NewtonStateSolver::solve.                                               *)
NewtonStart ==
  /\ phase = "solve" /\ config.solver = "newton"
  /\ state' = NewtonFrom
  /\ it' = 0
  /\ phase' = "newton"
  /\ UNCHANGED <<abandoned, config, fwd, work, init, prm>>

Converged == Residual(state, prm) = ZeroVec

NewtonReturns ==
  /\ phase = "newton" /\ Converged
  /\ phase' = "solved"
  /\ UNCHANGED <<abandoned, config, fwd, work, init, prm, state, it>>

NewtonStep ==
  LET assembled == Assembled(fwd, state, prm) IN
  /\ phase = "newton" /\ ~Converged /\ it < config.max_its
  /\ \E r \in SystemSolves(config.kind, assembled, "fwd", Minus(Residual(state, prm)), FwdBuf("rhs"), FwdBuf("step")) :
       /\ fwd' = r.sys
       /\ IF r.ok THEN state' = Plus(state, r.x) /\ it' = it + 1 /\ UNCHANGED phase
          ELSE Throws /\ UNCHANGED <<state, it>>
  /\ UNCHANGED <<abandoned, config, work, init, prm>>

NewtonFails ==
  /\ phase = "newton" /\ ~Converged /\ it = config.max_its
  /\ Throws
  /\ UNCHANGED <<abandoned, config, fwd, work, init, prm, state, it>>

(* The residual, or an allocation, throws while a state is solved for.     *)
AssemblyThrows ==
  /\ phase \in {"solve", "newton"}
  /\ Throws
  /\ UNCHANGED <<abandoned, config, fwd, work, init, prm, state, it>>

StateSolve == AssemblyThrows \/ LinearSolve \/ NewtonStart \/ NewtonReturns \/ NewtonStep \/ NewtonFails

(* Another user of the forward system solves with a matrix of its own, of  *)
(* the same shape or not.                                                  *)
OtherSolve(A) ==
  /\ phase = "idle"
  /\ \E r \in SystemSolves(config.kind, [fwd EXCEPT !.mat = A], "fwd", <<1, 1>>, FwdBuf("other"), FwdBuf("otherx")) :
       /\ fwd' = r.sys
       /\ work' = Calls(<<On("fwd", {}, {FwdBuf("mat")})>> \o r.ops)
       /\ abandoned' = (abandoned \/ (~r.ok /\ work'.open # {}))
  /\ UNCHANGED <<config, phase, init, prm, state, it>>
=============================================================================
