---------------------------- MODULE NavierProblem ------------------------------
(***************************************************************************)
(* The Python side of a flow problem: NavierProblem is declared piece by   *)
(* piece, built into a compiled problem when it is first needed, and       *)
(* solved through solvers that are kept.  A solver belongs to the compiled *)
(* problem it was made from and refuses to run for another.                *)
(*                                                                         *)
(* Boundary conditions are counted.  A state is a number: state k agrees   *)
(* with the first k conditions on the boundary.                            *)
(***************************************************************************)
EXTENDS Naturals

CONSTANTS MaxBcs, MaxBuilds
ASSUME BuildsAssumption == MaxBcs \in Nat /\ MaxBuilds \in Nat

VARIABLES
  decl,      \* what was declared
  compiled,  \* _compiled, or NotCompiled
  start,     \* _initial_state
  modes,     \* whether _initial_modes has columns
  map,       \* _initial_map: the build it belongs to, or NoMap
  kept,      \* the solver in _solvers, or NoSolverYet
  held,      \* a solver or functional the caller keeps, or NoSolverYet
  builds,    \* how many problems were compiled
  failed,    \* build raised after the problem was compiled
  ran        \* what the last solve did

problemVars == <<decl, compiled, start, modes, map, kept, held, builds, failed, ran>>

None == 99
Unset == 98
NotCompiled == [id |-> 0, bcs |-> 0]
NoMap == 0
NoSolverYet == [of |-> NotCompiled, start |-> 0, fixed |-> FALSE]
NoRun == [start |-> 0, bcs |-> 0]

States == 0 .. MaxBcs
Preserves(s, bcs) == s >= bcs

(* A fixed initial state, and an initial-state control: its mean, which    *)
(* may be left to the fixed state, and whether its modes vanish on the     *)
(* boundary.                                                               *)
NoInitCtr == [mean |-> Unset, clean |-> FALSE]
HasInitCtr(d) == d.init_ctr # NoInitCtr

ProblemInit ==
  /\ decl = [bcs |-> 0, ctr |-> FALSE, value |-> None, init_ctr |-> NoInitCtr]
  /\ compiled = NotCompiled /\ start = 0 /\ modes = FALSE /\ map = NoMap
  /\ kept = NoSolverYet /\ held = NoSolverYet /\ builds = 0 /\ failed = FALSE /\ ran = NoRun

-----------------------------------------------------------------------------
(* What is compiled stays in use.  (Mutant.)                               *)
KeptCompiled == UNCHANGED compiled /\ kept' = NoSolverYet /\ failed' = FALSE

(* The end of every declaration.                                           *)
Reset == compiled' = NotCompiled /\ kept' = NoSolverYet /\ failed' = FALSE

Declares(d) ==
  /\ decl' = d
  /\ Reset
  /\ UNCHANGED <<start, modes, map, held, builds, ran>>

(* add_bc, add_ctr, add_init_ctr, set_initial_state.                       *)
AddBc == decl.bcs < MaxBcs /\ Declares([decl EXCEPT !.bcs = @ + 1])
AddCtr == ~decl.ctr /\ Declares([decl EXCEPT !.ctr = TRUE])
AddInitCtr(mean, clean) ==
  ~HasInitCtr(decl) /\ Declares([decl EXCEPT !.init_ctr = [mean |-> mean, clean |-> clean]])
SetInitialValue(s) == Declares([decl EXCEPT !.value = s])

(* build: the boundary's own state agrees with every condition.  Three     *)
(* tests come after the compiled problem is in place, each with what was   *)
(* assigned before it.                                                     *)
Mean == IF decl.init_ctr.mean # None THEN decl.init_ctr.mean
        ELSE IF decl.value # None THEN decl.value ELSE decl.bcs

ValueFits == decl.value = None \/ Preserves(decl.value, decl.bcs)
MeanFits == Preserves(Mean, decl.bcs) /\ decl.init_ctr.clean

Fixed == IF decl.value = None THEN decl.bcs ELSE decl.value

(* What a build leaves in start, modes, map and failed.                    *)
Built(s, ms, mp, f) == start' = s /\ modes' = ms /\ map' = mp /\ failed' = f

Assigns(id) ==
  \/ ~ValueFits /\ Built(decl.bcs, modes, map, TRUE)
  \/ ValueFits /\ ~HasInitCtr(decl) /\ Built(Fixed, FALSE, NoMap, FALSE)
  \/ ValueFits /\ HasInitCtr(decl) /\ ~MeanFits /\ Built(Fixed, FALSE, NoMap, TRUE)
  \/ ValueFits /\ HasInitCtr(decl) /\ MeanFits
     /\ \/ Built(Mean, TRUE, id, FALSE)
        \/ Built(Mean, TRUE, NoMap, TRUE)

Build ==
  /\ kept' = NoSolverYet
  /\ \/ /\ (HasInitCtr(decl) /\ ~decl.ctr) \/ decl.bcs > 0   \* no inlet control, or the conditions conflict
        /\ compiled' = NotCompiled /\ failed' = FALSE
        /\ UNCHANGED <<start, modes, map, builds>>
     \/ /\ ~(HasInitCtr(decl) /\ ~decl.ctr)
        /\ builds < MaxBuilds
        /\ builds' = builds + 1 /\ compiled' = [id |-> builds', bcs |-> decl.bcs]
        /\ Assigns(builds')
  /\ UNCHANGED <<decl, held, ran>>

(* NavierSolver, NavierReducedFunctional: made for the compiled problem,   *)
(* with its start handed over unless it has a map.                         *)
NewSolver == [of |-> compiled, start |-> start, fixed |-> map = NoMap]

CreateSolver ==
  /\ compiled # NotCompiled
  /\ held' = NewSolver
  /\ UNCHANGED <<decl, compiled, start, modes, map, kept, builds, failed, ran>>

(* _check_current, and the test at the head of solve and run.              *)
Current(s) == s # NoSolverYet /\ s.of = compiled

(* The start of a march: the state the solver was given, or the one the    *)
(* residual's map gives, if it was given one.                              *)
StartOf(s) == IF s.fixed THEN s.start ELSE IF map = s.of.id THEN start ELSE None

Runs(s) == ran' = [start |-> StartOf(s), bcs |-> s.of.bcs]

(* The caller's solver, evaluating; an old one raises.                     *)
SolverSolve ==
  /\ Current(held)
  /\ Runs(held)
  /\ UNCHANGED <<decl, compiled, start, modes, map, kept, held, builds, failed>>

(* NavierProblem.solve, which keeps its solver.                            *)
ProblemSolve ==
  /\ compiled # NotCompiled
  /\ kept' = IF kept = NoSolverYet THEN NewSolver ELSE kept
  /\ Current(kept')
  /\ Runs(kept')
  /\ UNCHANGED <<decl, compiled, start, modes, map, held, builds, failed>>

ProblemNext ==
  \/ AddBc \/ AddCtr
  \/ \E mean \in States \cup {None}, clean \in BOOLEAN : AddInitCtr(mean, clean)
  \/ \E s \in States : SetInitialValue(s)
  \/ Build \/ CreateSolver \/ SolverSolve \/ ProblemSolve

-----------------------------------------------------------------------------
(* The state a declaration asks a march to start from.                     *)
Declared == IF HasInitCtr(decl) THEN Mean ELSE Fixed

(* A solve that is not refused is one of the problem as it is declared     *)
(* now: its boundary conditions and its initial state, whichever solver    *)
(* was kept from before, unless the last build had raised.                 *)
SolverOfThisProblem ==
  [][(SolverSolve \/ ProblemSolve) /\ ~failed
       => ran'.bcs = decl.bcs /\ ran'.start = Declared]_problemVars

(* What makes it inductive.  A build is numbered, and a solver that can    *)
(* still run has what the last build left.                                 *)
BuildsNumbered ==
  /\ builds \in Nat
  /\ compiled = NotCompiled \/ compiled.id \in 1 .. builds

OfBuild ==
  compiled # NotCompiled /\ ~failed =>
    /\ compiled.bcs = decl.bcs /\ start = Declared
    /\ map = NoMap \/ map = compiled.id

SolverOfBuild(s) ==
  s # NoSolverYet =>
    /\ s.of.id \in 1 .. builds
    /\ s.of = compiled => s = NewSolver

ProblemIInv == BuildsNumbered /\ OfBuild /\ SolverOfBuild(kept) /\ SolverOfBuild(held)
=============================================================================
