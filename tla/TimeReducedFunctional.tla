------------------------ MODULE TimeReducedFunctional ------------------------
(***************************************************************************)
(* femx::inverse::TimeReducedFunctional over the integrator it borrows:    *)
(* a forward solve into its own trajectory, then the adjoint sweep from    *)
(* the last step to the first.  A product with a history Jacobian that     *)
(* belongs to an earlier level waits in a ring of num_hist blocks (carry_, *)
(* carry_head_) until the sweep reaches that level.                        *)
(*                                                                         *)
(* A vector the sweep accumulates is the set of the terms summed in it.    *)
(* The client's progress callback runs between two actions; it may change  *)
(* the integrator's initial state, and it may throw, as the residual, the  *)
(* objective and the linear solver may.                                    *)
(***************************************************************************)
EXTENDS TimeIntegrator

CONSTANTS
  RfTraj,       \* the functional's own trajectory, traj_
  OtherCalls,   \* the solves other users of the integrator make
  Requests      \* what is evaluated, with which parameters and progress callback

ASSUME RfTrajAssumption == RfTraj \in Trajs
ASSUME OtherCallsAssumption == OtherCalls \subseteq {c \in Calls : c.traj # RfTraj}

VARIABLES
  phase,            \* where value, grad or valueGrad is
  request,          \* the arguments: what is evaluated, for which parameters
  h_prm,            \* h_prm_, and prm_, its copy
  a_step, lag,      \* the loop counters of solveAdj
  a_hist, a_nxt,    \* the functional's own hist_ and nxt_
  rhs, x,           \* rhs_, and x_: the step it is the adjoint solution of
  carry, head,      \* carry_ by block, and carry_head_
  init_grad, grad,  \* init_grad_ and grad_
  calls,            \* assm_calls_ and solve_calls_
  out, val          \* what the last request returned

sums == <<rhs, carry, head, init_grad, grad>>
rfVars == <<phase, request, h_prm, a_step, lag, a_hist, a_nxt, x, sums, calls, out, val>>
allVars == <<vars, rfVars>>

(***************************************************************************)
(* Terms.                                                                  *)
(***************************************************************************)
StateGrad(k) == <<"stateGrad", k, 0>>        \* dJ/dx of level k
ParamGrad == <<"paramGrad", 0, 0>>           \* dJ/dp
HistTerm(s, l) == <<"hist", s, l>>           \* minus the product at step s, lag l
ParamTerm(s) == <<"param", s, 0>>            \* minus the parameter product at step s
StartTerm == <<"start", 0, 0>>               \* the product with the initial-state Jacobian
Wrong == <<"wrong", 0, 0>>                   \* a product with anything else

(* A sum in which a term occurs twice is wrong.                            *)
Plus(a, b) == a \cup b \cup (IF a \cap b = {} THEN {} ELSE {Wrong})

Steps == 0 .. NumSteps - 1

(* What the sweep owes a level once it has applied the first n lags of     *)
(* step s and every lag of the steps after s.                              *)
Owed(s, n, level) ==
  LET Done(w) == w[1] > s \/ (w[1] = s /\ w[2] < n) IN
  {HistTerm(u[1], u[2]) : u \in {w \in Steps \X Lags : HistLevel(w[1], w[2]) = level /\ Done(w)}}

(* The adjoint equations: what each vector must be the sum of.             *)
TermsOf(level) == {StateGrad(level)} \cup Owed(0, NumHist, level)

Gradient == {ParamGrad, StartTerm} \cup {ParamTerm(s) : s \in Steps}

(***************************************************************************)
(* The ring.                                                               *)
(***************************************************************************)
(* carry(lag).                                                             *)
Block(l) == (head + l) % NumHist

(* The block that was taken keeps its terms.  (Mutant.)                    *)
NotTaken(ring) == ring

(* advanceCarry: the block that was taken is zeroed, the head moves on.    *)
Taken(ring) == [ring EXCEPT ![Block(0)] = {}]
Turned == (head + 1) % NumHist

(* resetCarry.                                                             *)
FreshRing == [b \in Lags |-> {}]

(* Only the last lag reaches the initial state.  (Mutant.)                 *)
ReachesFirst(s, l) == s = l

(* Whether the state of a lag slot is the initial state.                   *)
ReachesInitial(s, l) == HistLevel(s, l) = 0

(***************************************************************************)
(* loadStep, and whether what it loaded is one step of one march.          *)
(***************************************************************************)
Loaded(s) == [l \in Lags |-> traj[RfTraj][HistLevel(s, l)]]

AtStep(s) ==
  LET m == [prm |-> h_prm, init |-> a_nxt.init] IN
  a_hist = Window(m, s) /\ a_nxt = Level(m, s + 1)

(* applyJacT of one block with the adjoint solution of the step.           *)
Product(term) == {IF AtStep(a_step) /\ x = a_step THEN term ELSE Wrong}

(* The whole trajectory belongs to one march.                              *)
MarchOf(t, p) ==
  LET m == [prm |-> p, init |-> traj[t][0].init] IN
  IF \A k \in Levels : traj[t][k] = Level(m, k) THEN m ELSE NoMarch

-----------------------------------------------------------------------------
NoRequest == [what |-> "none", progress |-> FALSE, prm |-> NoPrm]
NoStep == -1

ASSUME RequestsAssumption ==
  Requests \subseteq
    [what : {"value", "grad", "valueGrad"}, progress : BOOLEAN, prm : Params]

RfInit ==
  /\ Init
  /\ phase = "idle" /\ request = NoRequest
  /\ h_prm = NoPrm
  /\ a_step = 0 /\ lag = 0
  /\ a_hist = [l \in Lags |-> Junk] /\ a_nxt = Junk
  /\ rhs = {} /\ x = NoStep
  /\ carry = [b \in Lags |-> {}] /\ head = 0
  /\ init_grad = {} /\ grad = {}
  /\ calls = [assm |-> 0, solve |-> 0]
  /\ out = {} /\ val = NoMarch

(***************************************************************************)
(* Clients: the integrator's other users between requests, and its initial *)
(* state at any callback.                                                  *)
(***************************************************************************)
AtCallback ==
  /\ request.progress
  /\ \/ phase \in {"forward-begin", "forward-end", "adjoint-begin", "adjoint-step", "adjoint-end"}
     \/ phase = "forward" /\ step > 0

ClientAsks ==
  /\ phase = "idle" \/ AtCallback
  /\ (\E u \in UserStates : SetInitialState(u)) \/ ClearInitialState
  /\ UNCHANGED rfVars

OtherSolve ==
  /\ phase = "idle"
  /\ \/ \E c \in OtherCalls : Solve(c)
     \/ SolveFails
     \/ SolveStep
     \/ StepThrows
     \/ \E stop \in BOOLEAN : ObserverReturns(stop)
     \/ ObserverThrows
  /\ UNCHANGED rfVars

(* value, grad or valueGrad is left, and its locals with it.               *)
LeaveRf ==
  /\ phase' = "idle"
  /\ request' = NoRequest
  /\ a_step' = 0 /\ lag' = 0

(***************************************************************************)
(* value, grad, valueGrad: resetTiming and solveFwd.                       *)
(***************************************************************************)
(* The parameters of the first request are kept.  (Mutant.)                *)
KeptPrm(p) == IF h_prm = NoPrm THEN p ELSE h_prm

(* h_prm_ = prm.                                                           *)
CopiedPrm(p) == p

Begin(r) ==
  /\ phase = "idle" /\ pc = "idle"
  /\ phase' = "forward-begin"
  /\ request' = r
  /\ h_prm' = CopiedPrm(r.prm)
  /\ calls' = [assm |-> 0, solve |-> 0]
  /\ out' = {} /\ val' = NoMarch
  /\ UNCHANGED <<vars, a_step, lag, a_hist, a_nxt, x, sums>>

(* The forward solve has reached a callback, the next step or its end,     *)
(* where the statistics are added.                                         *)
ForwardReached ==
  IF pc' = "idle"
  THEN phase' = "forward-end" /\ calls' = [assm |-> steps', solve |-> steps']
  ELSE phase' = "forward" /\ UNCHANGED calls

Forward ==
  /\ phase = "forward-begin"
  /\ Solve([prm |-> h_prm, traj |-> RfTraj, observed |-> request.progress])
  /\ ForwardReached
  /\ UNCHANGED <<request, h_prm, a_step, lag, a_hist, a_nxt, x, sums, out, val>>

(* The functional's observer reports progress and never stops the solve.   *)
ObserverStops == FALSE

ForwardStep ==
  /\ phase = "forward"
  /\ SolveStep \/ ObserverReturns(ObserverStops)
  /\ ForwardReached
  /\ UNCHANGED <<request, h_prm, a_step, lag, a_hist, a_nxt, x, sums, out, val>>

ForwardThrows ==
  /\ \/ phase = "forward-begin" /\ SolveFails
     \/ phase = "forward" /\ (StepThrows \/ ObserverThrows)
  /\ LeaveRf
  /\ UNCHANGED <<h_prm, a_hist, a_nxt, x, sums, calls, out, val>>

(* The end of solveFwd, the value of the objective, and the return of      *)
(* value or the entry of solveAdj.                                         *)
ForwardEnd ==
  /\ phase = "forward-end"
  /\ val' = IF request.what = "grad" THEN NoMarch ELSE MarchOf(RfTraj, h_prm)
  /\ IF request.what = "value"
     THEN /\ LeaveRf
          /\ UNCHANGED <<grad, init_grad, carry, head>>
     ELSE /\ phase' = "adjoint-begin"
          /\ grad' = {ParamGrad}
          /\ init_grad' = {StateGrad(0)}
          /\ carry' = FreshRing /\ head' = 0
          /\ a_step' = NumSteps
          /\ UNCHANGED <<request, lag>>
  /\ UNCHANGED <<vars, h_prm, a_hist, a_nxt, rhs, x, calls, out>>

(***************************************************************************)
(* solveAdj.                                                               *)
(***************************************************************************)
(* The loop test: `step-- > 0`.                                            *)
NextRound ==
  /\ phase \in {"adjoint-begin", "sweep"}
  /\ IF a_step > 0
     THEN phase' = "adjoint-step" /\ a_step' = a_step - 1
     ELSE phase' = "finish" /\ UNCHANGED a_step
  /\ UNCHANGED <<vars, request, h_prm, lag, a_hist, a_nxt, x, sums, calls, out, val>>

(* The right-hand side takes what waits for this level; advanceCarry       *)
(* empties that block and turns the ring.                                  *)
TakeCarry ==
  /\ phase = "adjoint-step"
  /\ rhs' = Plus({StateGrad(a_step + 1)}, carry[Block(0)])
  /\ carry' = Taken(carry)
  /\ head' = Turned
  /\ phase' = "assemble"
  /\ UNCHANGED <<vars, request, h_prm, a_step, lag, a_hist, a_nxt, x, init_grad, grad, calls, out, val>>

(* assembleNext with loadStep.                                             *)
Assemble ==
  /\ phase = "assemble"
  /\ a_hist' = Loaded(a_step)
  /\ a_nxt' = traj[RfTraj][a_step + 1]
  /\ x' = NoStep
  /\ calls' = [calls EXCEPT !.assm = @ + 1]
  /\ phase' = "solveT"
  /\ UNCHANGED <<vars, request, h_prm, a_step, lag, sums, out, val>>

SolveT ==
  /\ phase = "solveT"
  /\ x' = IF AtStep(a_step) /\ rhs = TermsOf(a_step + 1) THEN a_step ELSE NoStep
  /\ calls' = [calls EXCEPT !.solve = @ + 1]
  /\ phase' = "lags"
  /\ lag' = 0
  /\ UNCHANGED <<vars, request, h_prm, a_step, a_hist, a_nxt, sums, out, val>>

(* One lag: the product goes to the initial state or waits in the ring.    *)
ApplyLag ==
  LET product == Product(HistTerm(a_step, lag)) IN
  /\ phase = "lags"
  /\ lag < NumHist
  /\ rhs' = product
  /\ IF ReachesInitial(a_step, lag)
     THEN init_grad' = Plus(init_grad, product) /\ UNCHANGED carry
     ELSE carry' = [carry EXCEPT ![Block(lag)] = Plus(@, product)] /\ UNCHANGED init_grad
  /\ lag' = lag + 1
  /\ UNCHANGED <<vars, phase, request, h_prm, a_step, a_hist, a_nxt, x, head, grad, calls, out, val>>

ApplyParam ==
  /\ phase = "lags"
  /\ lag = NumHist
  /\ grad' = Plus(grad, Product(ParamTerm(a_step)))
  /\ phase' = "sweep"
  /\ UNCHANGED <<vars, request, h_prm, a_step, lag, a_hist, a_nxt, x, rhs, carry, head, init_grad,
                 calls, out, val>>

(* addInitialStateJacT, whatever state the integrator started from.        *)
Finish ==
  LET start == IF init_grad = TermsOf(0) THEN StartTerm ELSE Wrong
      total == Plus(grad, {start}) IN
  /\ phase = "finish"
  /\ grad' = total
  /\ out' = total
  /\ phase' = "adjoint-end"
  /\ UNCHANGED <<vars, request, h_prm, a_step, lag, a_hist, a_nxt, rhs, x, carry, head, init_grad, calls, val>>

(* The last callback returns.                                              *)
Return ==
  /\ phase = "adjoint-end"
  /\ LeaveRf
  /\ UNCHANGED <<vars, h_prm, a_hist, a_nxt, x, sums, calls, out, val>>

(* An exception of the objective, the residual, the solver or a callback.  *)
AdjointThrows ==
  /\ phase \notin {"idle", "forward"}
  /\ LeaveRf
  /\ UNCHANGED <<vars, h_prm, a_hist, a_nxt, x, sums, calls, out, val>>

RfNext ==
  \/ ClientAsks
  \/ OtherSolve
  \/ \E r \in Requests : Begin(r)
  \/ Forward \/ ForwardStep \/ ForwardThrows \/ ForwardEnd
  \/ NextRound \/ TakeCarry \/ Assemble \/ SolveT \/ ApplyLag \/ ApplyParam
  \/ Finish \/ Return \/ AdjointThrows

RfSpec == RfInit /\ [][RfNext]_allVars
-----------------------------------------------------------------------------
(* The adjoint is taken of the march that was solved for this request:     *)
(* whatever clients did to the integrator since, the trajectory holds all  *)
(* of it, for the parameters of this request.                              *)
SweepOfThisMarch ==
  phase \notin {"idle", "forward-begin", "forward"} =>
    MarchOf(RfTraj, h_prm) = march /\ march.prm = request.prm

(* Every step solves the transposed system of its own step with the        *)
(* adjoint equation's right-hand side: the derivative of the objective at  *)
(* the level and every product that later steps owe it, none twice, none   *)
(* left over from a sweep that threw.                                      *)
AdjointEquation ==
  /\ phase = "assemble" => rhs = TermsOf(a_step + 1)
  /\ phase = "lags" => x = a_step /\ AtStep(a_step)

(* A gradient handed out is the sum of all terms of the derivative, each   *)
(* once, and no other.                                                     *)
GradientComplete == out \in {{}, Gradient}

-----------------------------------------------------------------------------
(* The types of what the functional keeps.                                 *)
Terms == {"stateGrad", "paramGrad", "hist", "param", "start", "wrong"} \X Int \X Int
Adjoint == {"adjoint-begin", "adjoint-step", "assemble", "solveT", "lags", "sweep"}
Phases == {"idle", "forward-begin", "forward", "forward-end", "finish", "adjoint-end"} \cup Adjoint

RfTypeOK ==
  /\ phase \in Phases
  /\ request \in Requests \cup {NoRequest}
  /\ h_prm \in Params \cup {NoPrm}
  /\ a_step \in Levels /\ lag \in 0 .. NumHist
  /\ a_hist \in [Lags -> Vectors] /\ a_nxt \in Vectors
  /\ rhs \in SUBSET Terms /\ x \in Steps \cup {NoStep}
  /\ carry \in [Lags -> SUBSET Terms] /\ head \in Lags
  /\ init_grad \in SUBSET Terms /\ grad \in SUBSET Terms
  /\ out \in SUBSET Terms /\ val \in Marches \cup {NoMarch}

(* What a request holds while it runs: its parameters, the integrator for  *)
(* as long as the forward solve lasts, and then all of the trajectory.     *)
Running ==
  /\ phase # "idle" => request \in Requests /\ h_prm = request.prm
  /\ phase = "forward-begin" => pc = "idle"
  /\ phase = "forward" =>
       /\ pc # "idle"
       /\ call = [prm |-> h_prm, traj |-> RfTraj, observed |-> request.progress]
  /\ phase \notin {"idle", "forward-begin", "forward"} =>
       /\ pc = "idle" /\ step = NumSteps /\ call.traj = RfTraj
       /\ march \in Marches /\ march.prm = h_prm

(* Where the sweep stands.                                                 *)
Sweeping == phase \in Adjoint \cup {"finish"}
Applied == CASE phase = "lags" -> lag
             [] phase \in {"adjoint-begin", "sweep", "finish"} -> NumHist
             [] OTHER -> 0
NextLevelToSolve == IF phase = "adjoint-step" THEN a_step + 1 ELSE a_step
FirstStepDone == IF phase \in {"adjoint-begin", "sweep", "finish"} THEN a_step ELSE a_step + 1

StepInRange ==
  /\ phase \in {"adjoint-step", "assemble", "solveT", "lags"} => a_step < NumSteps
  /\ phase = "adjoint-begin" => a_step = NumSteps
  /\ phase = "finish" => a_step = 0

(* Block l of the ring holds what the steps done owe the level l below the *)
(* next one to solve; nothing waits there for the initial state.           *)
RingHolds ==
  phase \in Adjoint =>
    \A l \in Lags :
      LET level == NextLevelToSolve - l IN
      carry[Block(l)] = IF level > 0 THEN Owed(a_step, Applied, level) ELSE {}

(* The two gradients so far.                                               *)
SumsSoFar ==
  Sweeping =>
    /\ init_grad = {StateGrad(0)} \cup Owed(a_step, Applied, 0)
    /\ grad = {ParamGrad} \cup {ParamTerm(s) : s \in FirstStepDone .. NumSteps - 1}

(* The system of a step once it is assembled.                              *)
StepLoaded ==
  /\ phase \in {"assemble", "solveT"} => rhs = TermsOf(a_step + 1)
  /\ phase \in {"solveT", "lags"} => AtStep(a_step)
  /\ phase = "lags" => x = a_step

(* Together they are inductive.                                            *)
RfIInv ==
  /\ IInv /\ RfTypeOK /\ Running /\ StepInRange
  /\ RingHolds /\ SumsSoFar /\ StepLoaded /\ GradientComplete

(* What the comment on the class says: the gradient is that of the         *)
(* objective the functional evaluates.  When the integrator starts from a  *)
(* state the client set, the objective does not depend on the parameters   *)
(* through the initial state, and the gradient must have no such term.     *)
GradientOfObjective ==
  phase = "adjoint-end" => (StartTerm \in out <=> march.init = Mapped)
=============================================================================
