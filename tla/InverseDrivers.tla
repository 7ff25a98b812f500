---------------------------- MODULE InverseDrivers -----------------------------
(***************************************************************************)
(* The programs that optimise: a C++ client with TaoOptimizer over a       *)
(* stationary ReducedFunctional (as poisson-opt does), taoSolve of the     *)
(* Python module over a functional that reports its progress, and the      *)
(* Python NavierProblem with its solvers.                                  *)
(***************************************************************************)
EXTENDS TaoOptimizer, NavierProblem

CONSTANTS
  Cases,       \* the solvers, the options, scale, bounds and monitor a C++ client starts with
  Objectives,  \* the objectives at the start
  Terms,       \* the terms the client may set, by kind
  Starts,      \* where solves and Newton's method start
  Scales,      \* variable scales, valid or not
  Boxes,       \* bounds, valid or not
  Others,      \* matrices another user of the forward system solves with
  MaxCalls     \* how many calls a client makes

(* What setters accept has two components; quotients by a scale are exact. *)
ASSUME BoxesAssumption ==
  /\ NoBounds \in Boxes /\ NotScaled \in Scales
  /\ Boxes \subseteq [lower : Seq(Int), upper : Seq(Int)] /\ Scales \subseteq Seq(Int)
  /\ Starts \subseteq [1 .. 2 -> Int]
  /\ \A b \in Boxes : Len(b.lower) = Len(b.upper)
  /\ \A c \in Cases : c.scale \in Scales /\ c.bounds \in Boxes
ASSUME ExactAssumption ==
  \A s \in Scales, b \in Boxes :
    Len(s) = 2 /\ Len(b.lower) = 2 =>
      \A i \in 1 .. 2 : s[i] > 0 => b.lower[i] % s[i] = 0 /\ b.upper[i] % s[i] = 0

(* What setStateTerm and setParamTerm accept is of the size of the state or *)
(* the parameters, and a linear solver is given a linear residual.  With a *)
(* scale of another size, set while TAO runs, the adapter would read past  *)
(* its end: what is read then is not modelled.                             *)
TermValues == [target : Seq(Int), weights : Seq(Int)]
Proper(term) == term \in TermValues /\ (Valid(term, 2) \/ term = NotSet)

ASSUME SizesAssumption ==
  /\ \A o \in Objectives : /\ o \in Seq([state : TermValues, prm : TermValues])
                           /\ \A t \in DOMAIN o : Proper(o[t].state) /\ Proper(o[t].prm)
  /\ DOMAIN Terms \subseteq {"state", "prm"} /\ \A kind \in DOMAIN Terms : Terms[kind] \subseteq TermValues
  /\ \A s \in Scales : s = NotScaled \/ Len(s) = 2
ASSUME SolversAssumption ==
  \A c \in Cases : /\ c.config.solver \in {"linear", "newton"} /\ c.config.curv \in Int
                   /\ c.config.solver = "linear" => c.config.curv = 0

VARIABLES
  client,       \* "cpp", "tao_solve", "problem"
  calls,        \* how many calls it has made
  begun,        \* the coordinates, bounds and type the running solve began with
  interrupted,  \* interrupted_ of taoSolve's monitor
  answer        \* what taoSolve did: "none", "result" or "raised"

driverVars == <<client, calls, begun, interrupted, answer>>
vars == <<evalVars, taoVars, problemVars, driverVars>>

NotBegun == [scale |-> NotScaled, bounds |-> NoBounds, type |-> "lmvm"]

(* The functional of taoSolve is one over time; its value here is that of  *)
(* the stationary one.                                                     *)
OverTime == [solver |-> "time", kind |-> "dense", curv |-> 0, max_its |-> 0]

Init ==
  /\ FunctionalInit /\ TaoInit /\ ProblemInit
  /\ obj \in Objectives
  /\ \/ /\ client = "cpp"
        /\ \E c \in Cases :
             /\ config = c.config /\ type = c.type
             /\ scale = c.scale /\ bounds = c.bounds /\ monitor = c.monitor
     \/ /\ client \in {"tao_solve", "problem"} /\ config = OverTime /\ type = "lmvm"
        /\ scale = NotScaled /\ bounds = NoBounds /\ monitor = FALSE
  /\ calls = 0 /\ begun = NotBegun /\ interrupted = FALSE /\ answer = "none"

Called == calls < MaxCalls /\ calls' = calls + 1

-----------------------------------------------------------------------------
(***************************************************************************)
(* The C++ client.  Its monitor is code of its own, and may do what it     *)
(* does itself between two solves.                                         *)
(***************************************************************************)
CppSetup ==
  /\ Called
  /\ \/ \E b \in Boxes : SetBounds(b)
     \/ \E s \in Scales : SetVariableScale(s)
     \/ SetMonitor(~monitor)
     \/ /\ ClientRuns
        /\ \E t \in DOMAIN obj, kind \in DOMAIN Terms : \E term \in Terms[kind] : SetTerm(t, kind, term)
        /\ UNCHANGED taoVars
     \/ /\ tao.pc = "idle"
        /\ \/ \E p \in Starts : SetInitialState(p)
           \/ \E A \in Others : OtherSolve(A)
        /\ UNCHANGED <<functionalVars, taoVars>>

CppSolve ==
  /\ Called
  /\ \E p \in Starts : Start(p)
  /\ begun' = [scale |-> scale, bounds |-> bounds, type |-> type]

(* The client evaluates on its own, and takes what comes.                  *)
CppAsks ==
  /\ Called
  /\ tao.pc = "idle"
  /\ \E what \in Wants, p \in Starts : Ask(what, p)
  /\ UNCHANGED taoVars

CppTakes ==
  /\ tao.pc = "idle" /\ phase \in {"done", "threw"}
  /\ Returned
  /\ UNCHANGED <<config, fwd, work, init, prm, state, it, adj, obj, ask, out, taoVars>>

CppNext ==
  /\ client = "cpp"
  /\ \/ CppSetup /\ UNCHANGED begun
     \/ CppSolve
     \/ CppAsks /\ UNCHANGED begun
     \/ /\ CppTakes \/ (TaoSteps \/ MonitorThrows) \/ (Evaluate /\ UNCHANGED taoVars)
        /\ UNCHANGED <<calls, begun>>
  /\ UNCHANGED <<client, interrupted, answer, problemVars>>

-----------------------------------------------------------------------------
(***************************************************************************)
(* taoSolve.  The functional is one over time, which calls back before its *)
(* steps; an interrupt, or an exception of the caller's progress function, *)
(* cancels the evaluation that runs and is raised when TAO is done.        *)
(***************************************************************************)
PyStart ==
  /\ Called
  /\ tao.pc = "idle" /\ answer = "none" /\ code = "none"
  /\ \E b \in {c \in Boxes : Len(c.lower) \in {0, 2}}, p \in Starts :
       /\ bounds' = b /\ monitor' = TRUE
       /\ IF BoundsValid(b)
          THEN tao' = NewTao(b, TRUE, p) /\ UNCHANGED code
          ELSE code' = "argument" /\ UNCHANGED tao
       /\ begun' = [scale |-> scale, bounds |-> b, type |-> type]
  /\ UNCHANGED <<evalVars, type, scale, seen, result, interrupted, answer>>

(* notify, of a progress function that may raise.                          *)
Notify == interrupted' \in {interrupted, TRUE}

(* The callback around valueGrad: a cancelled evaluation answers zero.     *)
PyEvaluates ==
  /\ phase = "solve"
  /\ Notify
  /\ \/ /\ interrupted'
        /\ phase' = "done" /\ out' = NoOut
     \/ /\ ~interrupted'
        /\ phase' = "done" /\ out' = [val |-> ReducedValue(prm), grad |-> ReducedGrad(prm)]
     \/ Throws /\ UNCHANGED out
  /\ UNCHANGED <<config, fwd, work, init, prm, state, it, adj, obj, ask, abandoned, taoVars, calls, begun, answer>>

(* observe does not throw: TAO goes on, and is stopped by its next         *)
(* evaluation.                                                             *)
PyObserves ==
  /\ tao.pc = "monitor" /\ ~interrupted
  /\ interrupted' = TRUE
  /\ UNCHANGED <<evalVars, taoVars, calls, begun, answer>>

(* An interrupt is not looked at.  (Mutant.)                               *)
UnlookedAnswer == IF code = "success" THEN "result" ELSE "raised"

PyAnswer == IF interrupted \/ code # "success" THEN "raised" ELSE "result"

PyReturns ==
  /\ tao.pc = "idle" /\ code # "none" /\ answer = "none"
  /\ answer' = PyAnswer
  /\ UNCHANGED <<evalVars, taoVars, calls, begun, interrupted>>

PyNext ==
  /\ client = "tao_solve"
  /\ \/ PyStart \/ PyEvaluates \/ PyObserves \/ PyReturns
     \/ TaoSteps /\ UNCHANGED <<calls, begun, interrupted, answer>>
  /\ UNCHANGED <<client, problemVars>>

-----------------------------------------------------------------------------
ProblemClient ==
  /\ client = "problem"
  /\ ProblemNext
  /\ UNCHANGED <<evalVars, taoVars, driverVars>>

Next == CppNext \/ PyNext \/ ProblemClient

(* An evaluation that began, and a solve, are carried on: nothing in them  *)
(* waits for anyone.                                                       *)
Steps ==
  \/ CppNext /\ ~Called
  \/ PyNext /\ ~Called

Spec == Init /\ [][Next]_vars /\ WF_vars(Steps)

-----------------------------------------------------------------------------
Exact == ~work.race /\ adj.map # "half"

(* A result that a solve reports as successful, or that Python is given,   *)
(* holds a point with the value and the gradient of that point, and so     *)
(* does what the monitor is told as long as the coordinates stay.          *)
ResultOfOnePoint ==
  [][/\ (client = "cpp" /\ tao.pc = "ends" /\ code' = "success" /\ Exact) \/ answer' = "result"
          => result'.value = ReducedValue(result'.prm) /\ result'.grad = ReducedGrad(result'.prm)
     /\ (tao.pc = "tells" /\ tao'.pc = "monitor" /\ scale = begun.scale /\ ~interrupted /\ Exact)
          => seen'.value = ReducedValue(seen'.prm) /\ seen'.grad = ReducedGrad(seen'.prm)]_vars

(* With bounds and the type the options start with, the functional is      *)
(* never asked for a point outside of them, in the caller's coordinates,   *)
(* unless these change while TAO runs or an option of PETSc replaces the   *)
(* type.                                                                   *)
PointsWithinBounds ==
  (tao.pc \in {"waits", "ends"} /\ begun.type = "lmvm" /\ begun.bounds # NoBounds /\ scale = begun.scale)
    => \A i \in 1 .. 2 : begun.bounds.lower[i] <= ask.prm[i] /\ ask.prm[i] <= begun.bounds.upper[i]

(* What makes it inductive: TAO keeps the type and the box its solve began *)
(* with, its points stay in the box, and while the functional answers, the *)
(* point it was asked for is TAO's in coordinates nobody can change.       *)
ScaledBox(s, b) == [lower |-> ToOptimizer(s, b.lower), upper |-> ToOptimizer(s, b.upper)]
InBox(q, box) == \A i \in 1 .. 2 : box.lower[i] <= q[i] /\ q[i] <= box.upper[i]

(* What the setters leave, whether it is valid or not.                     *)
Settings ==
  /\ bounds \in Boxes /\ scale \in Scales
  /\ client = "tao_solve" => scale = NotScaled
  /\ DOMAIN tao = DOMAIN IdleTao

(* A scale that a solve accepts.                                           *)
Positive(s) == s = NotScaled \/ (Len(s) = 2 /\ \A i \in 1 .. 2 : s[i] > 0)

Underway ==
  tao.pc # "idle" =>
    /\ begun.bounds \in Boxes /\ BoundsValid(begun.bounds)
    /\ begun.scale \in Scales /\ Positive(begun.scale)
    /\ tao.type = TaoType(begun.type, begun.bounds)
    /\ tao.box = IF begun.bounds = NoBounds THEN NoBounds ELSE ScaledBox(begun.scale, begun.bounds)

KeptInBox == tao.pc # "idle" /\ begun.type = "lmvm" /\ begun.bounds # NoBounds
Point(q) == q \in [1 .. 2 -> Int] /\ InBox(q, tao.box)

PointsInBox ==
  KeptInBox =>
    /\ tao.pc \in {"evaluate", "waits"} => Point(tao.trial)
    /\ tao.at # NoPoint => Point(tao.at)
    /\ tao.pc \in {"tells", "monitor", "iterates", "final", "ends"} => tao.at # NoPoint

Asked ==
  /\ tao.pc = "waits" => ask.prm = ToPhysical(scale, tao.trial)
  /\ tao.pc = "ends" => ask.prm = ToPhysical(scale, tao.at)

BoundsIInv == Settings /\ Underway /\ PointsInBox /\ Asked

(* What makes RaceFree inductive: without an exception that left work      *)
(* behind, the forward stream alone has work while the state is solved     *)
(* for, and no stream has any before, after it, and when an evaluation has *)
(* returned.                                                               *)
Quiet(q) == DOMAIN q = DOMAIN NoWork /\ ~q.race
OnlyOn(q, stream) == Quiet(q) /\ \A a \in q.open : a.on = stream
AtRest(q) == Quiet(q) /\ q.open = {}

Streams ==
  CASE phase \in {"solve", "newton", "solved"} -> OnlyOn(work, "fwd")
    [] phase = "threw" -> Quiet(work)
    [] OTHER -> AtRest(work)

OwnContexts ==
  /\ "ctx" \in DOMAIN fwd /\ fwd.ctx = "fwd" /\ "map" \in DOMAIN fwd
  /\ "ctx" \in DOMAIN adj /\ adj.ctx = "adj" /\ "map" \in DOMAIN adj

RaceIInv ==
  /\ client = "tao_solve" => config = OverTime
  /\ IF config.kind = "cuda" THEN OwnContexts /\ (~abandoned => Streams) ELSE work = NoWork

(* What makes EvaluationExact inductive: an evaluation keeps the parameters *)
(* it was asked for, its state is the one in closed form once it is solved *)
(* for, and the value is that of the objective, which nobody changes while *)
(* it runs; systems and solvers have all their parts, and all numbers are  *)
(* numbers.                                                                *)
Pairs == [1 .. 2 -> Int]
Whole(sys) ==
  /\ DOMAIN sys = DOMAIN NewSystem("fwd")
  /\ DOMAIN sys.fwd = DOMAIN NoSolver /\ DOMAIN sys.trans = DOMAIN NoSolver

Numbers ==
  /\ prm \in Pairs /\ state \in Pairs /\ (init = NoState \/ init \in Pairs)
  /\ obj \in Seq([state : TermValues, prm : TermValues])
  /\ \A t \in DOMAIN obj : Proper(obj[t].state) /\ Proper(obj[t].prm)
  /\ DOMAIN out = DOMAIN NoOut /\ Whole(fwd) /\ Whole(adj)

TaoNumbers ==
  /\ tao.pc \in {"evaluate", "waits"} => tao.trial \in Pairs
  /\ tao.at # NoPoint => tao.at \in Pairs
  /\ tao.pc \in {"tells", "monitor", "iterates", "final", "ends"} => tao.at # NoPoint

Configured ==
  IF client = "cpp" THEN \E c \in Cases : config = c.config ELSE config = OverTime

SolvedAt ==
  /\ prm = ask.prm
  /\ config.solver # "time" =>
       /\ phase \in {"solved", "grad"} => state = StateAt(prm)
       /\ phase = "grad" /\ ask.what # "grad" => out.val = ReducedValue(prm)
       /\ phase = "done" /\ adj.map # "half" =>
            /\ ask.what # "grad" => out.val = ReducedValue(prm)
            /\ ask.what # "value" => out.grad = ReducedGrad(prm)

EvaluationIInv == BoundsIInv /\ Numbers /\ TaoNumbers /\ Configured /\ SolvedAt

(* What makes ResultOfOnePoint inductive: nothing is evaluated but for the *)
(* point TAO waits for, what TAO was answered is exact while it tells a    *)
(* monitor, and the result of taoSolve stays as it was assigned.           *)
ExactAt(r) == r.value = ReducedValue(r.prm) /\ r.grad = ReducedGrad(r.prm)
Told == LET p == ToPhysical(scale, tao.at) IN
        tao.value = ReducedValue(p) /\ tao.grad = ToOptimizerGrad(scale, ReducedGrad(p))

Answers ==
  /\ tao.pc # "idle" => code = "none"
  /\ (tao.pc # "idle" \/ client = "tao_solve") /\ tao.pc \notin {"waits", "ends"} => phase = "idle"
  /\ tao.pc \in {"waits", "ends"} => ask.what = "valueGrad"
  /\ tao.pc = "ends" => result.prm = ask.prm
  /\ DOMAIN result = DOMAIN NoResult
  /\ tao.pc = "tells" /\ ~interrupted /\ adj.map # "half" => Told

TaoSolved ==
  /\ client # "tao_solve" => answer = "none"
  /\ client = "tao_solve" =>
       /\ phase = "done" /\ ~interrupted => out.val = ReducedValue(prm) /\ out.grad = ReducedGrad(prm)
       /\ (code = "success" /\ ~interrupted) \/ answer = "result" => ExactAt(result)
       /\ answer # "none" => code # "none"

ResultIInv == EvaluationIInv /\ Answers /\ TaoSolved

(* Every solve returns to its caller, and every evaluation ends.           *)
SolveReturns == (tao.pc # "idle" \/ phase # "idle") ~> (tao.pc = "idle" /\ phase = "idle")
=============================================================================
