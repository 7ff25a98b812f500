------------------------------- MODULE PoissonMain -------------------------------
(***************************************************************************)
(* The programs of the repository: the Navier-Stokes ones of NavierMain    *)
(* and the stationary examples: poisson, poisson-resolve, poisson-petsc,   *)
(* which solve once and take the norm of the residual, and the control     *)
(* programs poisson-opt-resolve and poisson-opt-petsc, which make a target *)
(* state, let TAO move the boundary values towards it, with a forward and  *)
(* an adjoint system for every value and gradient, and solve once more at  *)
(* the result.  The ranks of the PETSc programs assemble on their own, and *)
(* meet in collective calls; the others run on one process, which is       *)
(* rank 0.  The elements of a rank are added in one step: their threads    *)
(* and blocks are those of ElementLoop.                                    *)
(***************************************************************************)
EXTENDS NavierMain, PoissonProblem

CONSTANTS
  PoissonCases,    \* program, words, ranks, and whether it is built for CUDA
  MaxEvaluations   \* bound: points TAO evaluates

VARIABLES
  opts,         \* the options, or NoConfig
  layout,       \* the rows, controls and observations of the problem
  task,         \* what the ranks are at, the same on all of them
  adj_part, adj_mat, adj_stash,   \* the adjoint system
  files,        \* what the first rank has printed and written
  unwritten     \* history: it could not write a file

Adj == INSTANCE PETScMatrix WITH part <- adj_part, mat <- adj_mat, stash <- adj_stash

adjVars == <<adj_part, adj_mat, adj_stash>>
poissonVars == <<opts, layout, task, adj_part, adj_mat, adj_stash, files, unwritten>>
programVars == <<reader, mesh, bc, data, part, mat, stash, asm, step, vec, loop, blocks, case, prm, problem, pc, status,
                 alone, overflow, opts, layout, task, adj_part, adj_mat, adj_stash, files, unwritten>>

(* aim: why the state is solved for; prm: at which parameters; points: the *)
(* parameters and gradients TAO has; result: what it returned.             *)
NoResult == <<>>
NoTask == [aim |-> "none", prm |-> <<>>, target |-> NoVector, points |-> <<>>, result |-> NoResult, converged |-> TRUE]
NoFile == <<>>

PoissonIdle ==
  /\ opts = NoConfig /\ layout = NoConfig /\ task = NoTask
  /\ adj_part = NoPartition /\ adj_mat = NoMatrix /\ adj_stash = [rank \in Ranks(case.ranks) |-> {}]
  /\ files = [report |-> NoFile, fields |-> NoFile, observations |-> NoFile] /\ unwritten = FALSE

PoissonInit == case \in PoissonCases /\ AtStart("options") /\ PoissonIdle

UsesPETSc == case.program \in {"poisson-petsc", "poisson-opt-petsc"}
UsesReSolve == case.program \in {"poisson-resolve", "poisson-opt-resolve"}
Supports(o) == o.memspace = "cpu" \/ (UsesReSolve /\ case.cuda)

(* What the steps of these programs leave alone of the others' state.      *)
Elsewhere == UNCHANGED <<reader, bc, data, asm, step, loop, blocks, case, prm, problem, alone, overflow>>
Made == UNCHANGED <<mesh, opts, layout>>
Forward == UNCHANGED adjVars
Adjoint == UNCHANGED matrixVars
Unwritten == UNCHANGED <<files, unwritten>>

-----------------------------------------------------------------------------
(* main, and run up to the systems.                                        *)
ProgramOptions ==
  IF case.program \in {"poisson-opt-petsc", "poisson-opt-resolve"}
  THEN ParseOptions(case.words, PoissonOptDefaults, TRUE)
  ELSE ParseOptions(case.words, PoissonDefaults, UsesPETSc)

ReadOptions ==
  LET accepted == {o \in ProgramOptions : Supports(o) /\ Layouts(o) # {}} IN
  /\ AllAt("options")
  /\ \/ HasHelp(case.words) /\ AllGoto("finalize") /\ UNCHANGED <<status, mesh, opts, layout, task>>
     \/ ~HasHelp(case.words) /\ accepted = {} /\ AllThrow /\ UNCHANGED <<mesh, opts, layout, task>>
     \/ /\ ~HasHelp(case.words)
        /\ \E o \in accepted : \E l \in Layouts(o) :
             /\ opts' = o /\ layout' = l /\ mesh' = StructuredQuad(o)
             /\ task' = [task EXCEPT !.aim = IF Optimizes(o) THEN "target" ELSE "forward",
                                     !.prm = l.target_ctr]
        /\ AllGoto("state_setup") /\ UNCHANGED status
  /\ UNCHANGED vec /\ Elsewhere /\ Forward /\ Adjoint /\ Unwritten

-----------------------------------------------------------------------------
(* Assembly over elements: the rows and entries of the scalar space.       *)
ScalarRows == 0 .. NumShapes(mesh) - 1
ElemNodes(ie) == SpaceElemDofs(mesh, "p", ie)

(* assembleHostElements: those a rank owns, of its range.                  *)
HostElements(p, rank) ==
  {ie \in Elems(mesh) : /\ InRange(ie, ElementRange(p, Len(mesh.elems), rank, case.ranks))
                        /\ OwnsElement(p, ie, Len(mesh.elems), ElemNodes(ie), rank, case.ranks)}

(* assembleKernel: a block for every element.                              *)
DeviceElements == Elems(mesh)
ElementsOf(p, rank) == IF opts.memspace = "cuda" THEN DeviceElements ELSE HostElements(p, rank)

(* evalRow of the kernel: a row of the element's matrix, times its states. *)
ElementRow(x, ie, il) == <<ie, il, [jl \in ScalarRows |-> x[ElemNodes(ie)[jl]]]>>

AssembledRows(x, elems) ==
  [d \in Nodes(mesh) |->
     Residual({ElementRow(x, y[1], y[2]) : y \in {z \in elems \X ScalarRows : ElemNodes(z[1])[z[2]] = d}})]

AssembledEntries(p, elems) ==
  {<<PetscIndex(p, ElemNodes(y[1])[y[2]]), PetscIndex(p, ElemNodes(y[1])[y[3]]), y[1], y[2], y[3], 0>> :
     y \in elems \X ScalarRows \X ScalarRows}

(* applyDirichletConditions of a residual: state less value, row by row.   *)
Vals == ValuesOfRows(opts, layout, task.prm)
Constrained == {layout.rows[i] : i \in DOMAIN layout.rows}
ConstrainedRows(res, x) ==
  [d \in DOMAIN res |->
     IF d \in Constrained
     THEN LET i == CHOOSE i \in DOMAIN layout.rows : layout.rows[i] = d IN [terms |-> {}, at |-> <<x[d], Vals[i]>>]
     ELSE res[d]]

ZeroState == [d \in Nodes(mesh) |-> Zero]

-----------------------------------------------------------------------------
(* LinearStateSolver::solve.                                               *)
SetupState ==
  /\ AllAt("state_setup")
  /\ IF UsesPETSc THEN \E owners \in Partitions(NumNodes(mesh), case.ranks) : Resize(owners)
     ELSE mat' = Cleared /\ UNCHANGED <<part, stash>>
  /\ AllGoto("state_residual")
  /\ UNCHANGED <<vec, status, task>> /\ Elsewhere /\ Made /\ Forward /\ Unwritten

AssembleRes(rank, from, x, to) ==
  /\ pc[rank] = from
  /\ vec' = [vec EXCEPT ![rank].res = AssembledRows(x, ElementsOf(part, rank))]
  /\ Goto(rank, to)
  /\ UNCHANGED <<status, task>> /\ Elsewhere /\ Made /\ Forward /\ Adjoint /\ Unwritten

ReduceRes(from, to) ==
  LET sums == AllReduceSum(Copies("res")) IN
  /\ AllAt(from)
  /\ vec' = [rank \in Processes |-> [vec[rank] EXCEPT !.res = sums[rank]]]
  /\ AllGoto(to)
  /\ UNCHANGED <<status, task>> /\ Elsewhere /\ Made /\ Forward /\ Adjoint /\ Unwritten

(* The residual at the zero state, with its sign changed, is the right-    *)
(* hand side; the elements are added to the Jacobian.                      *)
AssembleStateJac(rank) ==
  /\ pc[rank] = "state_boundary"
  /\ vec' = [vec EXCEPT ![rank].rhs = [d \in DOMAIN vec[rank].res |->
                                         [negated |-> ConstrainedRows(vec[rank].res, ZeroState)[d]]]]
  /\ AddBlock(rank, AssembledEntries(part, ElementsOf(part, rank)))
  /\ Goto(rank, "state_rows")
  /\ UNCHANGED <<part, status, task>> /\ Elsewhere /\ Made /\ Forward /\ Unwritten

ReplaceStateRows ==
  /\ AllAt("state_rows")
  /\ ReplaceRows(Constrained)
  /\ AllGoto("state_finalize")
  /\ UNCHANGED <<part, vec, status, task>> /\ Elsewhere /\ Made /\ Forward /\ Unwritten

FinalizeState ==
  /\ AllAt("state_finalize")
  /\ Finalize
  /\ AllGoto("state_solve")
  /\ UNCHANGED <<part, vec, status, task>> /\ Elsewhere /\ Made /\ Forward /\ Unwritten

(* The solution, by what it solves: an identity row's component is its     *)
(* value; another is the unknown its column belongs to, of the boundary    *)
(* values that columns meet.                                               *)
Column(m, i) == {t \in m.terms : t[2] = i}
NodeOfColumn(m, i) == LET t == CHOOSE t \in Column(m, i) : TRUE IN Conn(mesh, t[3], t[5])
Met(m) == {i \in Nodes(mesh) : Column(m, i) # {}}

StateAt(node, values) == [is |-> "state", node |-> node, of |-> values]
AdjointAt(node, misfit) == [is |-> "adjoint", node |-> node, of |-> misfit]

StateComponents(b) ==
  LET Value(i) == b[i].negated.at[2]
      values == {<<NodeOfColumn(mat, i), Value(i)>> : i \in mat.diag \cap Met(mat)}
  IN [i \in Nodes(mesh) |-> IF i \in mat.diag THEN Value(i)
                            ELSE IF i \in Met(mat) THEN StateAt(NodeOfColumn(mat, i), values) ELSE Garbage]

(* setupObjective takes the state at the manufactured control.             *)
AfterState(aim) ==
  CASE aim = "forward" -> "norm_residual"
    [] aim = "target" -> "tao"
    [] aim = "final" -> "report"
    [] OTHER -> "adj_setup"

SolveState ==
  /\ AllAt("state_solve")
  /\ \/ /\ \E x \in {CopyFromPETSc(StateComponents(CopyToPETSc(Copies("rhs"), Nodes(mesh))))} :
             /\ vec' = [rank \in Processes |-> [vec[rank] EXCEPT !.nxt = x]]
             /\ task' = IF task.aim = "target" THEN [task EXCEPT !.target = x] ELSE task
        /\ AllGoto(AfterState(task.aim))
        /\ UNCHANGED status
     \/ AllThrow /\ UNCHANGED <<vec, task>>
  /\ Elsewhere /\ Made /\ Forward /\ Adjoint /\ Unwritten

(* resNorm: the residual at the solution.                                  *)
ConstrainNorm(rank) ==
  /\ pc[rank] = "norm_boundary"
  /\ vec' = [vec EXCEPT ![rank].res = ConstrainedRows(@, vec[rank].nxt)]
  /\ Goto(rank, "report")
  /\ UNCHANGED <<status, task>> /\ Elsewhere /\ Made /\ Forward /\ Adjoint /\ Unwritten

-----------------------------------------------------------------------------
(* TaoOptimizer::solve: TAO evaluates the initial control and further      *)
(* points, and returns one of them, converged or not, or an error.  The    *)
(* value and gradient are taken once more at what it returned.             *)
PointAt(k) == [ip \in DOMAIN layout.ctr_dofs |-> [is |-> "parameter", point |-> k, at |-> ip]]

Tao ==
  /\ AllAt("tao")
  /\ \/ /\ Len(task.points) < MaxEvaluations
        /\ task' = [task EXCEPT !.aim = "point", !.prm = PointAt(Len(task.points))]
        /\ AllGoto("state_setup") /\ UNCHANGED status
     \/ /\ \E k \in DOMAIN task.points, converged \in BOOLEAN :
             task' = [task EXCEPT !.aim = "last", !.prm = task.points[k].prm, !.converged = converged]
        /\ AllGoto("state_setup") /\ UNCHANGED status
     \/ AllThrow /\ UNCHANGED task
  /\ UNCHANGED vec /\ Elsewhere /\ Made /\ Forward /\ Adjoint /\ Unwritten

(* ReducedFunctional::gradAtState.                                         *)
SetupAdjoint ==
  /\ AllAt("adj_setup")
  /\ IF UsesPETSc THEN \E owners \in Partitions(NumNodes(mesh), case.ranks) : Adj!Resize(owners)
     ELSE adj_mat' = Cleared /\ UNCHANGED <<adj_part, adj_stash>>
  /\ AllGoto("adj_jacobian")
  /\ UNCHANGED <<vec, status, task>> /\ Elsewhere /\ Made /\ Adjoint /\ Unwritten

AssembleAdjointJac(rank) ==
  /\ pc[rank] = "adj_jacobian"
  /\ Adj!AddBlock(rank, AssembledEntries(adj_part, ElementsOf(adj_part, rank)))
  /\ Goto(rank, "adj_rows")
  /\ UNCHANGED <<adj_part, vec, status, task>> /\ Elsewhere /\ Made /\ Adjoint /\ Unwritten

ReplaceAdjointRows ==
  /\ AllAt("adj_rows")
  /\ Adj!ReplaceRows(Constrained)
  /\ AllGoto("adj_finalize")
  /\ UNCHANGED <<adj_part, vec, status, task>> /\ Elsewhere /\ Made /\ Adjoint /\ Unwritten

FinalizeAdjoint ==
  /\ AllAt("adj_finalize")
  /\ Adj!Finalize
  /\ AllGoto("adj_solve")
  /\ UNCHANGED <<adj_part, vec, status, task>> /\ Elsewhere /\ Made /\ Adjoint /\ Unwritten

(* The state gradient of the misfit: at the observed entries only.         *)
Observed == {layout.obs_dofs[q] : q \in DOMAIN layout.obs_dofs}
Misfit(state, target) == [is |-> "misfit", state |-> state, target |-> target]
StateGrad(x) == [d \in Nodes(mesh) |-> IF d \in Observed THEN Misfit(x[d], task.target[d]) ELSE Zero]

AdjointComponents(b) ==
  LET misfit == {<<NodeOfColumn(adj_mat, i), b[i]>> : i \in {j \in Met(adj_mat) : b[j] # Zero}}
  IN [i \in Nodes(mesh) |-> IF i \in Met(adj_mat) THEN AdjointAt(NodeOfColumn(adj_mat, i), misfit) ELSE b[i]]

(* paramGrad, applyParamJacT and axpby: alpha times weight times parameter,*)
(* less the derivative of state less parameter times the adjoint.          *)
ControlDerivative == -1

(* The adjoint's first components.  (Mutant.)                              *)
LeadingGrad(lambda) ==
  [ip \in DOMAIN layout.ctr_dofs |->
     [weight |-> opts.alpha, prm |-> task.prm[ip], sign |-> 1, adj |-> lambda[ip - 1]]]

ParamGrad(lambda) ==
  [ip \in DOMAIN layout.ctr_dofs |->
     [weight |-> opts.alpha, prm |-> task.prm[ip],
      sign |-> -1 * ControlDerivative, adj |-> lambda[layout.ctr_dofs[ip]]]]

SolveAdjoint ==
  LET grads == [rank \in Processes |-> StateGrad(vec[rank].nxt)] IN
  /\ AllAt("adj_solve")
  /\ \/ /\ \E lambda \in {Adj!CopyFromPETSc(AdjointComponents(Adj!CopyToPETSc(grads, Nodes(mesh))))} :
             LET evaluated == [prm |-> task.prm, grad |-> ParamGrad(lambda)] IN
             IF task.aim = "point"
             THEN task' = [task EXCEPT !.points = Append(@, evaluated)] /\ AllGoto("tao")
             ELSE task' = [task EXCEPT !.result = evaluated, !.aim = "final"] /\ AllGoto("state_setup")
        /\ UNCHANGED status
     \/ AllThrow /\ UNCHANGED task
  /\ UNCHANGED vec /\ Elsewhere /\ Made /\ Forward /\ Adjoint /\ Unwritten

-----------------------------------------------------------------------------
(* The report and the files of the first rank, and the end of run.         *)
PoissonReport(x) ==
  IF Optimizes(opts)
  THEN [state |-> [d \in Nodes(mesh) |-> <<x[d], task.target[d]>>],
        control |-> [ip \in DOMAIN layout.ctr_dofs |-> <<task.result.prm[ip], layout.target_ctr[ip]>>],
        grad |-> task.result.grad]
  ELSE [state |-> [d \in Nodes(mesh) |-> <<x[d], ExactAt(NodeOf(mesh, d))>>], norm |-> vec[0].res]

AtControls(values, in) ==
  LET ips == {ip \in DOMAIN layout.ctr_dofs : layout.ctr_dofs[ip] = in} IN
  IF ips = {} THEN Zero ELSE values[CHOOSE ip \in ips : TRUE]

WriteFields(x) ==
  [in \in Nodes(mesh) |->
     IF Optimizes(opts)
     THEN <<x[in], task.target[in], AtControls(task.result.prm, in), AtControls(layout.target_ctr, in)>>
     ELSE <<x[in], ExactAt(NodeOf(mesh, in))>>]

WriteObservations(x) ==
  [q \in DOMAIN layout.obs_dofs |->
     [at |-> layout.obs_points[q], target |-> task.target[layout.obs_dofs[q]], prediction |-> x[layout.obs_dofs[q]]]]

(* writeSolution: the files in their order, of which one may fail.         *)
Solution(x) ==
  LET printed == [files EXCEPT !.report = PoissonReport(x)]
      fields == [printed EXCEPT !.fields = WriteFields(x)]
      both == [fields EXCEPT !.observations = WriteObservations(x)]
  IN IF ~opts.write_output THEN {<<printed, FALSE>>}
     ELSE IF Optimizes(opts) THEN {<<printed, TRUE>>, <<fields, TRUE>>, <<both, FALSE>>}
     ELSE {<<printed, TRUE>>, <<fields, FALSE>>}

Report(rank) ==
  /\ pc[rank] = "report"
  /\ \E out \in IF rank = 0 THEN Solution(vec[rank].nxt) ELSE {<<files, unwritten>>} :
       /\ files' = out[1] /\ unwritten' = out[2]
       /\ status' = [status EXCEPT ![rank] = IF (rank = 0 /\ out[2]) \/ ~task.converged THEN 1 ELSE 0]
  /\ Goto(rank, "finalize")
  /\ UNCHANGED <<vec, task>> /\ Elsewhere /\ Made /\ Forward /\ Adjoint

PoissonNext ==
  \/ ReadOptions \/ SetupState \/ ReduceRes("state_reduce", "state_boundary") \/ ReduceRes("norm_reduce", "norm_boundary")
  \/ ReplaceStateRows \/ FinalizeState \/ SolveState \/ Tao
  \/ SetupAdjoint \/ ReplaceAdjointRows \/ FinalizeAdjoint \/ SolveAdjoint
  \/ \E rank \in Processes :
       \/ AssembleRes(rank, "state_residual", ZeroState, "state_reduce")
       \/ AssembleRes(rank, "norm_residual", vec[rank].nxt, "norm_reduce")
       \/ AssembleStateJac(rank) \/ ConstrainNorm(rank) \/ AssembleAdjointJac(rank) \/ Report(rank)

ProgramsInit == (Init /\ PoissonIdle) \/ PoissonInit
ProgramsNext == (Next /\ UNCHANGED poissonVars) \/ PoissonNext

Programs == ProgramsInit /\ [][ProgramsNext]_programVars

-----------------------------------------------------------------------------
(* What the square says, by the columns and rows of its nodes.             *)
Col(in) == in % PerRow(opts)
Row(in) == in \div PerRow(opts)
Inner(in) == Col(in) \in 1 .. opts.num_x_cells - 1 /\ Row(in) \in 1 .. opts.num_y_cells - 1
Outer == {in \in Nodes(mesh) : ~Inner(in)}
OnTop(in) == Row(in) = opts.num_y_cells
Controls == IF Optimizes(opts) THEN {in \in Nodes(mesh) : OnTop(in) /\ Col(in) \in 1 .. opts.num_x_cells - 1} ELSE {}
Watched == {in \in Nodes(mesh) : Optimizes(opts) /\ Inner(in) /\ Col(in) % Stride(opts) = 0 /\ Row(in) % Stride(opts) = 0}
PlaceOf(in) == <<Col(in) * opts.num_y_cells, Row(in) * opts.num_x_cells, 0>>

(* Every element is a cell, its nodes counter-clockwise from the lower     *)
(* left, and every cell is one element.                                    *)
MeshOfCells ==
  LET corner == [ie \in Elems(mesh) |-> Conn(mesh, ie, 0)] IN
  /\ \A in \in Nodes(mesh) : NodeOf(mesh, in) = PlaceOf(in)
  /\ {<<Col(corner[ie]), Row(corner[ie])>> : ie \in Elems(mesh)}
       = (0 .. opts.num_x_cells - 1) \X (0 .. opts.num_y_cells - 1)
  /\ \A ie \in Elems(mesh), il \in ScalarRows :
       LET other == Conn(mesh, ie, il) IN
       <<Col(other) - Col(corner[ie]), Row(other) - Row(corner[ie])>>
         = << <<0, 0>>, <<1, 0>>, <<1, 1>>, <<0, 1>> >>[il + 1]

(* The value at a node of the boundary, of the parameters of an            *)
(* evaluation, or of the manufactured ones; and the states they make.      *)
Manufactured == -1
ValueOn(k, in) ==
  IF ~Optimizes(opts) THEN (IF OnTop(in) THEN SineAt(PlaceOf(in)) ELSE Zero)
  ELSE IF in \notin Controls THEN Zero
  ELSE IF k = Manufactured THEN ExactAt(PlaceOf(in))
  ELSE [is |-> "parameter", point |-> k, at |-> Col(in)]

Beside(in) == \E other \in Nodes(mesh) \ Outer : Col(in) - Col(other) \in -1 .. 1 /\ Row(in) - Row(other) \in -1 .. 1
StateOn(k, in) ==
  IF Inner(in) THEN StateAt(in, {<<n, ValueOn(k, n)>> : n \in {o \in Outer : Beside(o)}}) ELSE ValueOn(k, in)
StateOfPoint(k) == [in \in Nodes(mesh) |-> StateOn(k, in)]
MisfitOn(k, in) == IF in \in Watched THEN Misfit(StateOn(k, in), StateOn(Manufactured, in)) ELSE Zero
AdjointOn(k, in) == AdjointAt(in, {<<n, MisfitOn(k, n)>> : n \in Watched})

(* The evaluation whose parameters the ranks have.                         *)
PointNow == IF task.prm = layout.target_ctr THEN Manufactured ELSE task.prm[1].point

(* A matrix that is the square's, with the identity on the boundary.       *)
MatrixOfSquare(m, p) ==
  /\ m.diag = {PetscIndex(p, in) : in \in Outer}
  /\ m.terms = {<<PetscIndex(p, Conn(mesh, y[1], y[2])), PetscIndex(p, Conn(mesh, y[1], y[3])), y[1], y[2], y[3], 0>> :
                  y \in {z \in Elems(mesh) \X ScalarRows \X ScalarRows : Inner(Conn(mesh, z[1], z[2]))}}

(* A residual that is the square's at a state.                             *)
ResidualOfSquare(res, x, k) ==
  \A in \in Nodes(mesh) :
    res[in] = IF Inner(in)
              THEN Residual({<<y[1], y[2], [jl \in ScalarRows |-> x[Conn(mesh, y[1], jl)]]>> :
                               y \in {z \in Elems(mesh) \X ScalarRows : Conn(mesh, z[1], z[2]) = in}})
              ELSE [terms |-> {}, at |-> <<x[in], ValueOn(k, in)>>]

StateSystem ==
  AllAt("state_solve") =>
    /\ MeshOfCells /\ MatrixOfSquare(mat, part)
    /\ \A rank \in Processes :
         ResidualOfSquare([in \in Nodes(mesh) |-> vec[rank].rhs[in].negated], ZeroState, PointNow)

AdjointSystem ==
  AllAt("adj_solve") =>
    /\ MatrixOfSquare(adj_mat, adj_part)
    /\ \A rank \in Processes : StateGrad(vec[rank].nxt) = [in \in Nodes(mesh) |-> MisfitOn(PointNow, in)]

(* A gradient has at a control the adjoint of that control's node.         *)
GradientAt(evaluated, k) ==
  /\ DOMAIN evaluated.grad = 1 .. Cardinality(Controls)
  /\ \A in \in Controls :
       evaluated.grad[Col(in)] = [weight |-> opts.alpha, prm |-> ValueOn(k, in), sign |-> 1, adj |-> AdjointOn(k, in)]

ResultPoint == task.result.prm[1].point
ReportOfResult ==
  LET k == IF Optimizes(opts) THEN ResultPoint ELSE Manufactured
      x == StateOfPoint(k)
      target == StateOfPoint(Manufactured)
      At(j, in) == IF in \in Controls THEN ValueOn(j, in) ELSE Zero
      Goal(in) == IF Optimizes(opts) THEN target[in] ELSE ExactAt(PlaceOf(in))
  IN /\ files.report # NoFile =>
          /\ \A in \in Nodes(mesh) : files.report.state[in] = <<x[in], Goal(in)>>
          /\ Optimizes(opts) => /\ GradientAt(files.report, k)
                                /\ \A in \in Controls :
                                     files.report.control[Col(in)] = <<ValueOn(k, in), ValueOn(Manufactured, in)>>
          /\ ~Optimizes(opts) => ResidualOfSquare(files.report.norm, x, k)
     /\ files.fields # NoFile => \A in \in Nodes(mesh) :
          files.fields[in] = <<x[in], Goal(in)>> \o (IF Optimizes(opts) THEN <<At(k, in), At(Manufactured, in)>> ELSE <<>>)
     /\ files.observations # NoFile =>
          {files.observations[q] : q \in DOMAIN files.observations}
            = {[at |-> PlaceOf(in), target |-> target[in], prediction |-> x[in]] : in \in Watched}

(* Every stationary system solved is that of the square, once per cell and *)
(* by whichever rank, with the identity and the parameters of the          *)
(* evaluation in the rows of the boundary, each at its own node; that of   *)
(* the adjoint has the misfit at the observed nodes; a gradient TAO gets   *)
(* has at every control the adjoint of that control; and what is printed   *)
(* and written at the end is of the parameters TAO returned, not of those  *)
(* it tried last.  (LinearStateSolver::solve, gradAtState, initBoundary,   *)
(* initObservations, optimizeImpl, writeSolution.)                         *)
StationaryResult ==
  opts # NoConfig =>
    /\ StateSystem /\ AdjointSystem /\ ReportOfResult
    /\ \A k \in DOMAIN task.points : GradientAt(task.points[k], k - 1)
    /\ task.result # NoResult => GradientAt(task.result, ResultPoint)

-----------------------------------------------------------------------------
(* Two ranks in collective calls are in the same call, and ranks that      *)
(* have ended have the same status, whatever the script, the words and the *)
(* mesh are and wherever a solver gives up, unless the first of several    *)
(* leaves on its own.  It does so when it cannot write a file or logs a    *)
(* Courant number that is not finite: the Navier-Stokes ranks may then     *)
(* wait for it in one call while it waits for them in another; those of    *)
(* the examples have done with their calls, and only its status differs.   *)
(* (main, run, solve, and the collective calls of the PETSc classes.)      *)
AllCollectives ==
  Collectives \cup {"options", "state_setup", "state_reduce", "state_rows", "state_finalize", "state_solve", "norm_reduce",
                    "tao", "adj_setup", "adj_rows", "adj_finalize", "adj_solve"}
RanksMeet ==
  alone \/ \A rank, other \in Processes :
    /\ pc[rank] \in AllCollectives /\ pc[other] \in AllCollectives => pc[rank] = pc[other]
    /\ pc[rank] = "exited" /\ ~unwritten => status[rank] = status[other]

(* The inductive invariant: unless the first rank left, the ranks are on   *)
(* their way to one call, the step and the state they decide it by are the *)
(* same on all of them, and those on their way to the end will have the    *)
(* same status.                                                            *)
AtLast(rank) == Stops(rank) \/ step[rank] = prm.time.steps

Meeting(rank) ==
  CASE pc[rank] \in {"build_info", "problem"} ->
         (IF problem = "none" THEN "problem" ELSE IF problem = "made" THEN "system" ELSE "finalize")
    [] pc[rank] \in {"run_info", "observe"} -> IF AtLast(rank) THEN "finalize" ELSE "setup"
    [] pc[rank] \in {"return", "norm_boundary", "report"} -> "finalize"
    [] pc[rank] \in {"assemble", "assembling"} -> "reduce"
    [] pc[rank] = "boundary" -> "replace"
    [] pc[rank] = "state_residual" -> "state_reduce"
    [] pc[rank] = "state_boundary" -> "state_rows"
    [] pc[rank] = "norm_residual" -> "norm_reduce"
    [] pc[rank] = "adj_jacobian" -> "adj_rows"
    [] OTHER -> pc[rank]

HasEnded(rank) == pc[rank] \in {"finalize", "exited"}
Ends(rank) == Meeting(rank) \in {"finalize", "exited"}

Verdict(rank) ==
  CASE HasEnded(rank) -> status[rank]
    [] pc[rank] \in {"build_info", "problem"} -> 1
    [] pc[rank] \in {"norm_boundary", "report"} -> IF task.converged THEN 0 ELSE 1
    [] OTHER -> IF Finite(vec[rank].nxt) THEN 0 ELSE 1

VectorNames == {"nxt", "hist", "res", "rhs"}
OnAllRanks ==
  /\ DOMAIN status = Processes /\ DOMAIN step = Processes /\ DOMAIN vec = Processes
  /\ \A rank \in Processes : DOMAIN vec[rank] = VectorNames
Replicated == \A rank, other \in Processes : step[rank] = step[other] /\ vec[rank].nxt = vec[other].nxt
NoVerdictYet == \A rank \in Processes : HasEnded(rank) \/ status[rank] = 0
SameMeeting == \A rank, other \in Processes : Meeting(rank) = Meeting(other)
SameVerdict ==
  \A rank, other \in Processes : Ends(rank) /\ Ends(other) /\ ~unwritten => Verdict(rank) = Verdict(other)
FirstHasEnded == unwritten => \A rank \in Processes : rank = 0 => HasEnded(rank)

MeetIInv ==
  /\ OnAllRanks /\ Replicated
  /\ alone \/ (NoVerdictYet /\ SameMeeting /\ SameVerdict /\ FirstHasEnded)
=============================================================================
