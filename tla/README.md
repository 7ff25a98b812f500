# femx: a verification project in TLA+

femx is a C++ finite-element library for transient inverse problems: a mesh and
its spaces, an assembly of residuals and Jacobians on the host or on a CUDA
device, implicit time integration of a nonlinear or linear residual, an adjoint
of that march for gradients with respect to control parameters, an optimizer on
top (PETSc/TAO), file output, a Navier-Stokes application and Python bindings.
This directory holds TLA+ modules of the parts whose correctness is a matter of
control (which state is used when, who owns it, what survives a failure) and of
the formulas that a gradient rests on.

Contents: [Inventory](#inventory) - [Plan](#plan) - [Modules](#modules) -
[Runs](#runs) - [Proofs](#proofs) - [Findings](#findings) -
[Not modelled](#not-modelled).

## Inventory

| Component | Sources (femx/ unless said) | State it keeps | Operations | What is hard |
|---|---|---|---|---|
| Time integrator | state/TimeIntegrator.hpp, TimeTrajectory.hpp | initial state and flag, history slots, next state, matrix and right-hand side, statistics | setInitialState, clearInitialState, solve (with or without trajectory, with or without observer) | one buffer serves the client's and the computed initial state; slots are shifted in place; observers stop or throw; objects are reused after failures |
| Transient reduced functional | inverse/TimeReducedFunctional.hpp | parameter copies, trajectory, history views, right-hand side, the ring of carried products, gradients | value, grad, valueGrad, progress | the ring and its head; the first num_hist steps; the integrator is shared; callbacks throw |
| Stationary solvers | state/StateSolver.hpp, Residual.hpp | initial guess, state, residual, correction, matrix | LinearStateSolver::solve, NewtonStateSolver::solve | when an iteration is taken as converged; failures leave a partly updated state |
| Reduced functional | inverse/ReducedFunctional.hpp | parameters and state shared by a forward and an adjoint context | value, grad, valueGrad | state handed from one context (stream) to the other |
| Constraint cache, host matrix | linalg/host/HostSystemMatrix.cpp | values; a cache of the entries a set of constrained rows touches | setup, addElement, replaceRows, eliminateColumns | the cache is keyed before it is built; the pattern changes under it |
| CUDA linear algebra | linalg/cuda, common/Cuda* | streams, copies of host data, cached constraints keyed by pointer | copies, assembly, sync | asynchronous copies on several streams, pointer keys |
| ReSolve linear solver | linalg/resolve/ReSolveLinearSolver.cpp | operator pattern, factorisation set-up flags, transposed operator | setOperator, solve, solveT | what is reused after the matrix or its values change, and after a failure |
| PETSc linear algebra | linalg/petsc | distributed matrices and vectors, ownership ranges, preallocation, a KSP | resize, setElement, replaceRows, eliminateColumns, solve, solveT | collectives; each entry and each element has one owner |
| Partition | linalg/petsc/PETScPartition, MpiContext; runtime/Parallel.hpp | ranges of indices, the owner of each element | contiguousRange, elementRange, create, partitionRange | ranges cover without gaps or overlap, whatever the sizes |
| Assembly | assembly | element lists, maps, per-thread buffers | assembleResidual, assembleJacobian | threads add to shared entries; an exception inside a parallel region |
| Constrained residual | assembly/ConstrainedTimeResidual.cpp | the controls' boundary values and maps, mutable buffers | residual, Jacobians and their transposes | buffers shared by the forward and the adjoint use |
| Objectives and observations | inverse/* objectives, TimeObservationData; python/femx/observation.py | weights, time levels and values, layouts | value, stateGrad, paramGrad; predict, residual, misfit; setters, text input and output | a setter that throws has already assigned; interpolation at the ends; one objective written twice, in Python and in C++; files that were cut |
| Optimizer | opt | TAO object, bounds, scale, best value | solve, the callbacks TAO makes | exceptions cross C; scaling of bounds, values and gradients |
| Time series output | io/TimeSeriesDataOut.cpp | the mesh, the steps and their fields | attachMesh, beginStep, addNodal*Field, clear, write | two files that must agree; a write that throws is retried at stop; names and sizes of fields are looked at late or not at all |
| Time series input | io/TimeSeriesDataIn.cpp | mesh, times and vector fields of a file | read | the XDMF file may be old or cut; what it does not say is inferred from the other |
| Navier application | apps/navier | configuration, monitor | solve, observe, stop | convergence stop, output interval, output at failure |
| Runtime | runtime, common | PETSc/MPI lifetime, output switches | construct, destroy | the collective end, and what a rank does that threw alone |
| Examples | examples/poisson, poisson-opt | options, problem, forward and adjoint systems, files | the five programs | ranks that optimize together; options refused late; one problem built in three ways |
| Finite elements | fem | meshes, dof maps, controls, time interpolators | construct, look-up | a point on an edge, a time at a level or at an end; nodes that two conditions or a condition and a control name |
| Navier model | model/navier | quadrature data | element residuals and Jacobians | numerical content |
| Python bindings | python | shared owners of C++ objects, callbacks | the classes of the library | Python exceptions inside C++ loops; lifetime |

How they interact.  A reduced functional borrows an integrator, a residual, an
objective and a linear system.  It calls the integrator (which calls the
residual and the forward linear solver once per step and the observer between
steps), then assembles and solves the transposed systems itself with the adjoint
linear system.  The observer and the progress callback belong to the client and
may call back into what is not const: the client owns the integrator and can set
its initial state there.  A residual is usually a constrained residual over a
Navier residual; both write buffers they keep.  A linear solver keeps what it
derived from a matrix from call to call.  The application connects a monitor as
the observer, and the monitor drives the time series.

Each line of PROJECT.json "hazards" names one place where that goes wrong in a
way a unit test would hardly reach.

## Plan

The order follows what the program lives on: the march and its adjoint first,
then what they call, then what calls them.

| Step | Modules | Composes | Status |
|---|---|---|---|
| 1 | TimeLevels, TimeMarch (abstract), TimeIntegrator, TimeIntegratorProofs | | modelled, checked, proved |
| 2 | TimeReducedFunctional, TimeReducedFunctionalProofs | TimeIntegrator | modelled, checked, proved |
| 3 | CsrLayouts, SystemMatrix (abstract), HostSystemMatrix, CudaSystemMatrix, HostSystemMatrixProofs, CudaSystemMatrixProofs | | modelled, checked, proved |
| 4 | TimeSeriesDataOut, NavierSolve, TimeSeriesDataOutProofs, NavierSolveProofs | TimeIntegrator and two time series | modelled, checked, proved |
| 5 | MpiContext, PETScMatrix | ranks that make collective calls | modelled, checked with step 9; ranges, graph and numbering proved in PoissonMainProofs |
| 6 | LinearSystems, StateSolver, ReducedFunctional, TaoOptimizer, NavierProblem, InverseDrivers, InverseDriversProofs | the stationary inverse problem and its three clients: C++, TAO, Python; two contexts and the copies between them | modelled, checked, proved but for liveness |
| 7 | ControlMap, ControlledDirichletProblem, TimeObjectives, DiscreteAdjoint | the march and its adjoint, with numbers | modelled, checked |
| 8 | TimeObservations; the boundary of a mesh in ControlledDirichletProblem | DiscreteAdjoint and NavierSpaces | modelled, checked with step 7 |
| 9 | NavierConfig, GmshReader, NavierSpaces, BoundaryConditions, ElementLoop, NavierMain | a program from the command line to the exit status: script, mesh, unknowns, conditions, ranks, threads and device blocks | modelled, checked |
| 10 | PoissonProblem, PoissonMain, PoissonMainProofs | NavierMain, with a second PETScMatrix for the adjoint | modelled, checked with step 9; the meeting of the ranks proved |

Abstract specifications: TimeMarch is what an integrator promises, SystemMatrix
what both back ends do.

Theorems that could follow: that threads and device blocks of ElementLoop lose no
update, and what the partition of NavierMain owes to the ranges of MpiContext.

## Modules

**TimeLevels** names the data.  A march is a parameter vector and a start: the
residual's own initial state, or one the client set.  A state vector is the pair
of a march and a level, and `Junk` is any vector that is no level of a march.
One linear step (`NextLevel`) gives the next level exactly when the history, the
guess and the parameters all belong to one march at one step; with anything else
it gives `Junk`.  So a wrong slot, a stale buffer or a mixture of two marches
shows up in every later state.

**TimeMarch** is the abstract integrator: no buffers, only the march, the level
reached, what the observer is shown, what the trajectories hold, how it ended.

**TimeIntegrator** models femx/state/TimeIntegrator.hpp.

| Variables | Code |
|---|---|
| has_init, init | `has_init_`, `init_` (also the buffer of `initialState`) |
| hist, nxt | `hist_`, `nxt_` |
| obs_prev, obs_curr | the two buffers solveImpl uses when there is no trajectory |
| pc, call, step | where solveImpl is; its arguments; its loop counter |
| seen | the context the observer is called with |
| steps | `stats_.lin_solve_calls` and `assm_calls` |
| asked, march | history variables: what the client wants; the march a solve computes |

A callback is a state, not a step: between the action that reaches a level and
`ObserverReturns` the client may set or clear the initial state.  It may not
solve there (the integrator's buffers are in use; nothing in the repository
does).  The residual and the solver throw in `StepThrows`, the observer in
`ObserverThrows`, the initial state in `SolveFails`.

**TimeReducedFunctional** extends it with femx/inverse/TimeReducedFunctional.hpp.
A vector the sweep accumulates is the *set of terms* summed in it, and a term
that enters twice becomes `Wrong`.  The adjoint equation of a level is then a set
(`TermsOf`), and so is the gradient.  `carry` and `head` are the ring
`carry_`, `carry_head_`; an action is one statement group of `solveAdj`, so that
an exception may come between any two.  Progress callbacks are the phases of
`AtCallback`; clients may change the integrator's start at each of them, and use
the integrator themselves between requests (`OtherSolve`).

**CsrLayouts, SystemMatrix**: patterns, matrices as sequences of small integers
in CSR order, and the constraints without a cache.  **HostSystemMatrix** and
**CudaSystemMatrix** add their caches: on the host keyed by the layout and the
list, on the device by the layout and the list's address and length, with device
memory a function from addresses to lists.  `Rejected` and `Unchecked` are the
two calls with a list that cannot be constrained: the first throws after the key
is set, the second finds the key.

**TimeSeriesDataOut** models the writer and the reader together: `steps` is
`steps_`, the two files are variables that outlive the process, and `leaked`
says that an HDF5 identifier of a write that threw is still open.  The XDMF text
is the sequence of its grids, one for each step, with time, shape and the names
of the fields; a cut leaves the first ones, and of the last a part.  The reader
(`Read`) takes from it the times, the shape of the elements and the names of the
vector fields, and infers or numbers what is not there.  `Printed` is what a
stream of six digits does to a time.  A mesh is its dimension, the shapes of its
elements and whether it lies in the plane z = 0, in any combination, as the class
Mesh ties none of them to another; a field is its kind, its name, its length and
the number of its step.

**NavierSolve** composes TimeIntegrator with a Monitor and two instances of
TimeSeriesDataOut, velocity and pressure.  `at` is where `solve`,
`observeStep`, `writeFieldOutput` and `stop` are; the guard of every action is
the code's order of calls.

**ControlMap** to **DiscreteAdjoint** are the same march and sweep with values
in place of names.  TimeReducedFunctional shows that every term arrives where it
should; DiscreteAdjoint shows that the terms are the right ones.  Numbers are
the elements of a field of P elements, in which systems are solved exactly: an identity of the code's formulas that holds for reals holds
there, and a formula that is wrong fails at some of the inputs.  A matrix may be
singular, and then the solver throws.

| Module | Code |
|---|---|
| ControlMap | the arithmetic of the handlers in that field; fem/DirichletControl, ControlMap, InitialStateMap, LinearInterpolation: values, derivatives and transposes; positions of a boundary vector are the controlled dofs, then the fixed ones |
| ControlledDirichletProblem | what the bindings build from a script: fem/TimeDirichletData, the control without fixed dofs, the stencils of a control's levels, periodic or not; and how navier.py and the bindings come to the script from a mesh: the nodes of facets by name or tag, conditions that are values or callables, controls by component or along a normal, nodes and values handed back |
| TimeObjectives | inverse/TimeLeastSquaresObjective over fem/TimePointInterpolator, the two regularizations, the sum |
| DiscreteAdjoint | assembly/ConstrainedTimeResidual and BoundaryMap over a base residual; solveStep and solveAdj, one action per step of each loop |
| TimeObservations | fem/TimePointInterpolator: the element of a point, its stencil, its transpose; the operator and Gaussian misfit of observation.py; TimeLeastSquaresObjective made of the same data; inverse/TimeObservationData with its setters and its text file |

The base residual stands for the physics.  It is linear in the next state, has a
matrix and a load of every step's own, and is advected by the newest history
state, as the semi-implicit scheme of the Navier model is; so its history
Jacobian depends on both states of a step, and a sweep that loads a wrong level
gets a wrong gradient.  `slope` and `tangent` are history variables: the
derivative of the march in every parameter, found from the residual alone (the
next tangent is what keeps the residual at zero; all expressions are at most
quadratic, so differences of two points are exact), and the derivative of the
objective's value along it.  Nothing the adjoint uses is used for them.
`Duality` is the invariant of the sweep: what is already in the gradient, what
waits at the initial state, what is carried and what the objective still has to
give make up the derivative at every step.

TimeObservations adds *sessions* to the adjoint's behaviours (specification
`Problems`): a client of Python or of the library with points, components, times
and a field, and a client with a mesh, conditions and a control.  A session and a
march are never in one behaviour.  The field is affine in the point and a
polynomial in the level, so that what an operator should give is known without
it.  A data file is the list of its words, and a cut may fall within a number.

**LinearSystems** to **InverseDrivers** are the stationary inverse problem.

| Module | Code |
|---|---|
| LinearSystems | common/Cuda.cu, linalg/cuda/CudaContext: what a stream has been given, what the host has waited for, which pairs of operations on one buffer are ordered; linalg/resolve/ReSolveLinearSolver, linalg/host/DenseLinearSolver, the two linear systems and the device's transpose: what a solver keeps of the last matrix and what it takes again |
| StateSolver | state/StateSolver.hpp: the linear and the Newton solver |
| ReducedFunctional | inverse/LeastSquaresObjective, SumObjective; inverse/ReducedFunctional.hpp over a forward and an adjoint context |
| TaoOptimizer | opt/TaoOptimizer.hpp and its adapter: settings, coordinates, the callbacks TAO makes, the final evaluation |
| NavierProblem | python/femx/navier.py: declarations, what `build` keeps, the solvers made from it |
| InverseDrivers | the clients: examples/poisson-opt, `taoSolve` of the bindings, a script with a NavierProblem |

Systems are 2 by 2 over the integers with determinant 1, so that every solution
is exact and a solve with the values, the pattern or the transpose of another
matrix shows.  An evaluation is done in program order with the values it then
has; which of its device operations another stream could overtake is recorded
apart, as a race (`RaceFree`), for on a device a race has no single outcome.
TAO is external: it may ask for any points, in any order, within the bounds if
its type keeps them, may stop at any time and may report an error.  ReSolve is
external too; a solver that has no matrix or no preconditioner is taken to
report an error, not to answer.  The three clients are cases of one run that
share no state.  An evaluation that threw leaves no value: the properties
except what the code itself marks as failed (the return code of `solve`, an
exception), and `abandoned` says that device work was given out and not waited
for when an exception passed.

**NavierConfig** to **NavierMain** are the application's programs as wholes, each
module extending the one before.

| Module | Code |
|---|---|
| NavierConfig | apps/navier/Config.cpp: what a JSON script gives and which scripts are refused; a JSON object is a function on its keys |
| GmshReader | io/GmshReader.cpp: the sections of a file in the order they come, in both formats; a file is the sequence of its sections |
| NavierSpaces | fem/FESpace, MixedFESpace, MixedFieldView, assembly/AssemblyMap, the row order of model/navier/NavierElementKernel.hpp |
| BoundaryConditions | apps/navier/BoundaryConditions.cpp, fem/DirichletBC.cpp and the data the problem makes of them |
| MpiContext, PETScMatrix | linalg/petsc: ranges, the graph the rows are partitioned with, the numbering of the system, who assembles an element, what waits in a stash |
| ElementLoop | assembly/Assembly.hpp: the threads of a rank, their updates as a load and a store; assembly/CudaAssembly.hpp: a block per element, its phases and barriers |
| NavierMain | apps/navier/main-petsc.cpp, main-resolve.cpp and Problem: every rank's way through collective and local calls to its exit status |
| PoissonProblem | examples/poisson and poisson-opt up to their problem: the words of a command line, the structured mesh, boundary rows, controls and observed nodes |
| PoissonMain | the five stationary programs: forward and adjoint systems on ranks or a device, the evaluations TAO asks for, the solve at the result, report and files |

Two names of one unknown meet there.  The element kernel numbers its rows by
(node, field, component); the spaces, the assembly map, the conditions and the
partition number them by arithmetic.  A term of a sum is named by the first and
travels by the second, so a wrong offset anywhere puts a term in a row that it
does not belong to.  What a rank adds is a set of such terms; one that enters
twice is `Wrong`, one that an update lost is missing.  The state is symbolic: a
prescribed value is the number the script gives, a solved one names its level and
unknown.  Values, coordinates and times are integers, chosen so that the quotients
that the code takes have no remainder.  All ranks read the same files and make
the same problem of them, which is done once for all.

PoissonMain joins the two families of programs in one specification (`Programs`),
because they share the reader's spaces, the matrix, the ranks and their way to an
exit status.  Its states are symbolic as well: a value is named by the boundary
values it was solved for, and TAO is free to move to any point, which is named by
the number of its evaluation.  The elements of a rank are added in one step:
their threads and blocks are those of the time-dependent programs.

MC modules hold the constants that a .cfg file cannot.

## Runs

| Run | Question | Bounds |
|---|---|---|
| time_integrator | Does every solve march from the right start through its own history, and does the integrator implement TimeMarch? | 3 steps, 3 slots, 2 parameter vectors, 1 set state, 1 trajectory |
| adjoint_sweep | Does each adjoint solve see exactly its equation's terms, and is the gradient complete? | 5 steps, 3 slots, 1 parameter vector |
| shared_integrator | Is the adjoint taken of this request's march although others use the integrator? | 2 steps, 1 slot, 2 parameter vectors, another user |
| gradient_comment | (violation) Is it the gradient of the objective evaluated? | as shared_integrator |
| host_matrix | Does the cached host matrix do what the matrix without a cache does, also after rejected lists? | 4 layouts, 8 lists, values up to 2 |
| cuda_matrix | The same on the device, for lists that stay where they are | 4 layouts, 5 lists, 2 addresses |
| cuda_matrix_comment | (violation) The same when a caller rewrites a list in place | 1 address |
| time_series | Can what was written be read back - mesh, times, vector fields - after crashes, failed writes and cut files? | 2 steps, 2 fields of 2 names and 2 kinds, 12 meshes, a time that is rounded when printed |
| navier_solve | Are the result, the two series and the final write consistent, whatever throws, and does solve end? | 3 steps, an interval of 2, convergence from step 1 |
| discrete_adjoint | Is the constrained step the solution of its residual, do levels take the script's boundary values, and is the gradient the derivative of the value? Do observations give the field, in Python and in C++, and data come back from a file? Are the controlled and fixed dofs of a mesh those its script names? | numbers modulo 7, 3 dofs, 3 steps of 4 ticks, 2 slots, three problems, 6 parameter vectors each; sessions over meshes of 4, 5 and 8 nodes, some of them to be refused; files cut anywhere |
| inverse_drivers | Are evaluations exact and free of races whatever failed before, does TAO keep its bounds and return a result of one point, does Python solve the problem as declared, does `solve` return? | 2 evaluations, 1 boundary condition, 2 builds, 2 calls of a solver; 2 by 2 systems |
| navier_main | Is the system that is solved that of the mesh and the script, once per element, whatever the ranks, threads or blocks do; is the result that of the steps asked for, or of the parameters the optimizer returned; do the ranks meet in every collective call? | 1 to 3 ranks, 2 threads, blocks of 2 threads, 4 meshes of at most 2 elements, 4 scripts of at most 3 steps, 16 scripts and meshes that are refused; the stationary programs on up to 4 by 3 cells, 2 evaluations, and 16 command lines that are refused |

Why these are enough.  More steps than slots, so that every slot has held a
level, the window has moved past the initial state, and the ring has turned
round once (5 steps, 3 slots); as many slots as the code uses is not needed,
because the slots are treated alike.  Two parameter vectors tell one request's
data from another's; one set state tells it from the mapped one.  The layouts
are one default, two of one size with different entries (a cache of one is wrong
for the other), and one that is not square; a list in two orders shows the order
of the prescribed values.  `KeepsSolutions` compares solution sets over all
vectors with components between -2 and 2.  Three steps with an interval of two
make the last step no multiple of the interval.  Integer values of a matrix are
bounded by `MaxVal` in `AddElement`, the steps and fields of a series by
`MaxSteps` in `BeginStep` and `MaxFields` in `AddField`; all else is finite by
itself.

Two fields are what it takes for a name to come twice in a step, in two steps, or
once as a scalar and once as a vector; the meshes are a triangle, a tetrahedron,
and two shapes in one mesh, which the writer refuses, each in the plane z = 0 and
off it and each called two- and three-dimensional.  The run's VIEW (`Live`) takes
a mesh that the writer refuses for none, since both only keep `write` from
starting, and leaves out what a file holds while nothing is promised of it and
before it is emptied: no step and no property looks at it then.  Several times in one series are read back
in navier_solve.

The three problems of discrete_adjoint are made to differ: a control of two dofs
of which one is a wall, with levels between the steps, modes of the initial
state and data between levels; a periodic control that moves two dofs together,
with a start the client sets and data at listed levels with an offset; a control
with a level of its own for every step beside a wall whose value does not
change, and a block regularization that is not symmetric.  Three dofs hold one
free, one controlled and one fixed degree of freedom; three steps with two slots
let the sweep carry a product over two levels and return one to the initial
state early.  Parameter vectors lie on lines, so that a derivative is not zero
by chance at all of them.

The observations of the sessions lie at nodes, on edges and inside of triangles,
quadrilaterals and tetrahedra, at levels and between them; points outside, times
that do not increase or are beyond the end, and components that are given twice
or that the field has not are refused.  `ControlOfBoundary` looks at problems in two and
three dimensions, with a group given by its name and by its tag, a node that two
groups share, normals of one and of three components, a control whose levels lie
between the steps, and a control that another condition covers in part or
altogether.

In inverse_drivers a failure at the first evaluation meets what it left behind in
the second (`MaxEvals`); two builds and two calls (`MaxBuilds`, `MaxCalls`) with
a declaration between them (`MaxBcs`) are what a stale solver needs.

The meshes of navier_main are a square of two triangles in both file formats, a
square of one quadrilateral and one tetrahedron; tags of nodes do not agree with
their order.  Two elements that share two nodes are what two threads or two ranks
need to meet in an entry; one element on two ranks leaves a rank without any.
The partitions (`MCPartitions`) include ones that interleave the unknowns, ones
that reverse them and ones that leave a rank without any.  The scripts have
a pulse, a table, and lists of times (linear, nearest and cubic samples), every
kind of profile in space, periods that are passed, and nodes that two conditions
name.  `Second` is 100 ticks.

The stationary programs of navier_main have, but for one, more nodes in one
direction than in the other, so that rows and columns of nodes cannot be mistaken
for each other; one mesh has no inner node, so that every row is a boundary row.  Two evaluations (`MaxEvaluations`) are what a gradient of
an earlier point needs to be returned for a later one.

Deadlock is checked in every run but inverse_drivers, whose clients end.  In
navier_main a program that has ended only stutters (`Ended`), and so do ranks
that wait for a first rank which left alone; every behaviour is finite, so that
the absence of other deadlocks says that every run of a program gets there.

Fairness is used in two runs.  `SolveReturns` holds under weak fairness of
`Steps`: a call to `solve` is one thread, whose evaluations and callbacks are
carried on to an answer or an exception.  `SolveEnds` holds under weak fairness of
`Runs`: `solve` is one thread, and each call it makes returns or throws.  Which
of the two is left open, so that liveness does not come from assuming success.

## Proofs

TLC checks small instances; the theorems hold for every value of the constants.

| Module | Theorems | For every |
|---|---|---|
| TimeIntegratorProofs | `StartKeptAlways`, `HistoryWindowAlways`, `StoredLevelsAlways`, `ObserverViewsAlways`, `TypesAlways`; `Implements` (of TimeMarch) | number of steps and slots; set of parameters, states, trajectories |
| TimeReducedFunctionalProofs | `SweepOfThisMarchAlways`, `AdjointEquationAlways`, `GradientCompleteAlways`; `ClientOfIntegrator` | number of steps and slots, any client at the callbacks |
| HostSystemMatrixProofs | `CacheSoundAlways`, `SameSolutionsAlways`; `Implements` (of SystemMatrix) | set of patterns, of lists, of values and of numbers tried |
| CudaSystemMatrixProofs | `MarksOfListAlways`, `SameSolutionsAlways`; `Implements` (of SystemMatrix), all when lists stay in place | the same, and set of addresses |
| TimeSeriesDataOutProofs | `ReadBackAlways` | set of shapes, names and times, dimension and position of a mesh (of one or two elements), precision of a printed time, number of steps and fields |
| NavierSolveProofs | `ResultOfMarchAlways`, `SeriesPairedAlways`, `FieldOutputAlways`, `VelocityReadBackAlways` | number of steps and interval, number of solves; one mesh, `TheMesh` |
| InverseDriversProofs | `RaceFreeAlways`, `EvaluationExactAlways`, `ResultOfOnePointAlways`, `PointsWithinBoundsAlways`, `SolverOfThisProblemAlways` | residual, objective, solver and starts; scales, bounds, grid and evaluations of TAO; number of declarations, builds and calls |
| PoissonMainProofs | `RanksMeetAlways`; `NoElementTwice`, `NoElementLost`, `EdgeOfOneRank`, `GraphSymmetric`; `NumberingPermutes`, `IndicesInvert`, `RowOwnerOwns`, `CopiesComeBack`, `ElementOfOneRank` | number of ranks, elements, unknowns and steps, mesh, script, partition, any pattern, any owners |

An invariant of a run says what a reader wants to know and seldom enough to be
inductive.  Each module of proofs rests on an `IInv` that is, defined at the end
of the module it is about; the lemmas have one action or one group of actions
each, and the theorem follows by `Init => IInv`, `IInv /\ [Next]_vars => IInv'`
and `IInv => Inv`.

*The march.*  `ObserverViews` in a callback says nothing of the buffers between
callbacks, so `ObserverBuffers` does: which of the two buffers holds the level
reached, before and after they change places.  `HistoryWindow` needs `Control` (a
running solve has a call and a march; the loop is left at the last step), and
`StepsCounted` ties the statistics to the loop.  The lemmas say that the start
filled into every slot is the window of step 0 (`FirstWindow`), that shifting the
slots turns the window of a step into that of the next (`ShiftedWindow`), and that
a step with the right window gives the next level (`NextLevelOfWindow`).
Refinement then is one case per action.

*The sweep.*  `RfIInv` says what the ring holds at every point of `solveAdj`:
block l, counted from the head, has exactly the products that the steps done owe
the level l below the next one to solve, and nothing for levels at or below the
initial state (`RingHolds`).  What is owed to the initial state is in `init_grad`,
what was given by the parameters is in `grad` (`SumsSoFar`), and the right-hand
side of an assembled step is all that its level is owed (`StepLoaded`).  From
there the equation of a step and the completeness of the gradient follow, both
for rings of any length, also for one longer than the march.  Every step of the functional
is one of TimeIntegrator or leaves it alone (`IntegratorStep`), so that the
integrator's invariant and its refinement hold for it too (`ClientOfIntegrator`).

*The caches.*  On the host `CacheKey` joins `CacheSound`: a cache that is found
and was not finished belongs to rows that cannot be constrained, which is the case
SystemMatrix leaves open.  With a sound cache the entries that are emptied, moved
and replaced are those that a search of the pattern finds (`ColumnsEliminated`),
and each call is the call of the matrix without a cache.  On the device `Lists`
says that the cache is keyed by the address of a list that is still there, `Marks`
that its marks are the positions of the rows in that list.  The theorems there
assume `~ListsMove`: when lists move they are false, as the run
cuda_matrix_comment shows.

*The solutions.*  `SameSolutions` says of an eliminated system that its solutions
are those of the system before that take the prescribed values.  `SolutionsIInv`
adds to `IInv` that the values are numbers, and the step that matters is algebra
over a pattern of any size (`EliminationKeeps`).  A constrained row is left with
its diagonal entry alone, so that its equation is the prescribed value
(`ConstrainedRow`).  A free row's product is a sum over its entries, of which those
in constrained columns are the terms that went to the right-hand side, each named
by its position in the list and its entry (`SumSplit`, `SumRenamed`, `FreeRow`):
this needs that no row is listed twice, which `Constrainable` has from the
rejection of duplicates.  Sums are choices of a function on subsets, as in the
model; that the function exists and that any order gives one sum is proved by
induction on the size of the set (`SumExists`, `SumRemove`).  The device's
eliminateColumns refines the same abstract elimination, so that the lemma is cited
there (`Host`, an instance of HostSystemMatrixProofs) and not proved again.

*The files.*  `Underway` says what is in the HDF5 file at every point of a write,
`Promised` that after a write that went well both files are those of the promised
series.  That this suffices (`ReadBackOfIInv`) is a fact about the reader: of the
text of a series it takes the same times, shape and fields, whatever they are.

*The solve.*  NavierSolve joins the integrator's invariant and those of the two
series (`VelP`, `PreP`, instances of TimeSeriesDataOutProofs, whose theorems are
used and not proved again) with `Kept` (which level the monitor has), `Paired`
(the velocity is one level ahead between its record and the pressure's) and
`InOrder` (the last level of the series, while no write has thrown).

*The streams.*  The calls a step makes are folded over a sequence (`After`).  The
fold chooses a function on sets of positions; that it exists and agrees with the
fold of a shorter sequence is proved by induction on the number of calls
(`FoldingExists`, `FoldingUnique`), so that a call more is a step more
(`AfterOneMore`) and two sequences are folded one after the other (`AfterBoth`).
A sequence then has one of three ends when one stream alone had work: work on
that stream only (`Stays`), no work (`Finishes`), or at least no race (`Submits`),
and each call of the functional is shown to have the one it needs.
`RaceIInv` says where: the forward stream alone has work while the state is
solved for, and no stream has any at other times (`Streams`); each of the two
systems is that of its own context (`OwnContexts`).  An exception may leave work
behind; from then on (`abandoned`) nothing is promised.

*The evaluations.*  `EvaluationExact` compares what an evaluation returns with the
value and the gradient in closed form at the parameters the caller named.
`EvaluationIInv` follows the evaluation: the parameters are those asked for
until it has returned, the state is without residual once it is solved for, the
value is that of the objective, and the gradient that of the adjoint
(`SolvedAt`).  This rests on three groups of lemmas.  A solve is one with the
matrix assembled last, whatever a solver kept of earlier calls, failed ones
included (`SystemExact`; only the device's map of the transpose can be left
incomplete, and the property leaves that out).  The gradients of an objective,
which are sums over its terms, are pairs of numbers for any number of terms
(`SumExists`, `SumIsInt`, by induction on the size of a finite set).  And with an exact
state and an exact adjoint, the sum of gradAtState is the gradient
(`AdjointAlgebra`), for any curvature of the residual.

*The result.*  `ResultIInv` adds that nothing is evaluated but for the point TAO
waits for (`Answers`), that while TAO tells a monitor, what it was answered is
exact in the coordinates of its scale (`Told`), and that the evaluation tao_solve
ends with is the one it returns (`TaoSolved`).  A gradient that was scaled for TAO
comes back unchanged because a scale is positive (`GradientComesBack`).

*The optimizer.*  `PointsWithinBounds` looks at a point while the functional
answers.  `BoundsIInv` follows it from where it comes from: TAO keeps the type
and the box its solve began with, whatever a monitor sets meanwhile (`Underway`);
a start is projected into the box (`StartInBox`), another trial is allowed by it
(`AllowedInBox`), and an iterate was a trial (`PointsInBox`); and the scale cannot
change while the functional answers (`Asked`).  Then a point of the box is within
the bounds in the caller's coordinates (`PhysicalInBounds`), because a positive
scale keeps the order.  That TAO stays in its box with a bounded type is what is
assumed of it; that such a type is chosen is femx's part (`taoType`).  The PETSc
options are left out: TaoSetFromOptions comes after TaoSetType
(femx/opt/TaoOptimizer.hpp:309), so a user who gives `-tao_type` may replace the
bounded type by one that knows no bounds, and then nothing is said of the points.

*Python's solvers.*  `ProblemIInv`: builds are numbered, so that a solver of an
earlier build can never be taken for one of this build; a solver of this build
has what the build left, and a build that did not raise left the declared start,
through the solver or through the residual's map (`OfBuild`).

*The ranks.*  That ranks meet cannot be seen at one of them.  `MeetIInv` names for
each the call it is on its way to (`Meeting`) and, when that is the end, the
status it will have (`Verdict`): they are the same on all ranks, because what a
rank decides by - the step, the state, whether the solver converged - is the same
on all of them (`Replicated`), although each assembles on its own and a call that
throws does so in its own time.  A first rank that left alone is excepted, and
`FirstHasEnded` says that a file which cannot be written is such a case.  There is
one step per action of the programs, for any number of ranks.

A range ends where the next begins (`Consecutive`) and ranges begin
in the order of the ranks (`InOrderOfRanks`), so that two ranges have no element
in common; the rank an element falls to is a quotient (`OwnerHolds`), by the width
of the first ranks' ranges or by that of the others'.  Fewer elements than ranks
is the case of a quotient of zero.  Then each edge of the graph the ranks build
has one rank, and the graph is symmetric, which the partitioner relies on.

*The numbering.*  What METIS makes of that graph is any assignment of owners.
The unknowns that come before one another are subsets of one another
(`NumberingInOrder`), so that no two unknowns have one number; an injection of a
finite set into itself is onto, and `Create` is a permutation with its inverse
(`NumberingPermutes`, `IndicesInvert`).  The number of an unknown lies in the range
of its owner (`NumberInRange`) and ranges come one after the other (`RangesApart`),
so that the rank which has a row is the one that owns its unknown (`RowOwnerOwns`).
Then a replicated vector that goes into the system and comes back has at every
unknown what that unknown's owner had (`CopiesComeBack`): an index permuted the
wrong way, or in one of the two directions only, is excluded for every partition.
With a partition every rank looks at all elements; one and only one assembles an
element, and none owns more of its rows (`ElementOfOneRank`): among the ranks that
hold some there is one no other goes before (`FirstOfHolders`).

Assumptions are named in the module that declares the constants: `NumSteps`
natural, `NumHist` positive, markers distinct from the values they mark
(TimeLevels); entries of a pattern within its rows and columns, right-hand sides
of the size of its rows, the empty pattern before the first `setup`
(`LayoutAssumption` of CsrLayouts); element values and prescribed values that are
numbers, one prescribed value at least for each row of a list, as the calls require
vectors of one size (`NumbersAssumption` of CsrLayouts); no list is a legal list and `Null` no address
(CudaSystemMatrix); scales and bounds of as many components as the setters let
through, and bounds that a scale divides (InverseDrivers: the code divides
floating-point numbers, so that a point may be out of its bounds by a rounding);
terms of an objective of the sizes that `setStateTerm` and `setParamTerm` let
through, scales of as many components as there are parameters (with another size
the adapter would read past the end, which has no meaning to prove about), and a
linear residual for the linear solver (InverseDrivers).  TLC evaluates them in
every run.

Numbers are integers in the theorems as in the runs, and what is said of the
values is exact arithmetic: what rounding does to them is not modelled.

Induction is over sets here (`NatSetInduction`, and the well-founded induction of
the library on the size of a finite set): a theorem that takes a predicate as a
parameter cannot be instantiated by the provers, one that takes a set can.

Only model-checked:

- liveness (`SolveEnds`, `SolveReturns`), which the prover does not do;
- all of DiscreteAdjoint and TimeObservations: what a whole march computes in
  numbers modulo a prime, and the derivative of it by the adjoint, which is an
  identity between sums over levels, rows and controls;
- the Navier and the stationary programs but for the meeting of their ranks
  (`SystemOfMesh`, `ConditionsOfScript`, `ResultOfScript`, `StationaryResult`).

## Findings

- *The gradient keeps a term the objective does not have* (gradient_comment).
  When the integrator starts from a state a client has set, the objective does
  not depend on the parameters through the initial state; solveAdj adds that
  product all the same (femx/inverse/TimeReducedFunctional.hpp:419).
- *The device's constraint cache does not see that a list was rewritten*
  (cuda_matrix_comment): it is keyed by address and length
  (femx/linalg/cuda/CudaSystemMatrix.cu:97).

Seen while modelling, and not stated as findings because nothing in the
repository says otherwise in so many words, or because a run already allows for
it:

- A list that was rejected once is accepted at the second call
  (femx/linalg/host/HostSystemMatrix.cpp:49): the key is set before the rows are
  validated.  The model has it (`Unchecked`), and SystemMatrix allows any values
  after it.
- A trajectory that is reused for a solve the observer stops holds the levels of
  two marches.
- When a write throws in the observer, `stop` records the same level again, and
  the series then has it twice; the levels stay paired.
- When the evaluation after TaoSolve fails, the result holds the new parameters
  and the old value (femx/opt/TaoOptimizer.hpp:310); the return code says so.
- The step tolerance of the Newton solver ends an iteration by the size of the
  correction alone; in exact arithmetic it is the exit by the residual.
- A solver of the PETSc program that applies its preconditioner only (`preonly`)
  reports no failure when what it returns is not finite; the program looks at the
  final state alone (`overflow`).
- The Courant number is a maximum taken with `std::max`, which passes over NaN,
  so that "Stopping as CFL became invalid" is reached by infinities only
  (apps/navier/Monitor.cpp:214).
- When the first rank alone throws (a file it cannot write, a Courant number it
  logs), the others wait for it in a collective call while it waits for them in
  PetscFinalize (apps/navier/main-petsc.cpp:140); `alone` marks it.
- Cubic samples of periodic data take the neighbour after the last sample from
  the next period, and the one before the first from none
  (apps/navier/BoundaryConditions.cpp).
- A node that no element uses gives empty rows, and the pressure is fixed at the
  first node even if that one is unused.
- Times are printed with six digits, so that late steps of a long series may be
  read back rounded.
- A series in which a scalar has the name that a vector field has in another step,
  or that has no vector field and a scalar named velocity, is written but cannot be
  read (`NamesApart`); a name that a step has twice makes the write throw and
  leaves its HDF5 identifier open.
- The reader of a series infers the dimension of a mesh (TimeSeriesDataIn.cpp:177),
  which the files do not say.  A mesh of dimension three whose nodes all lie in the
  plane z = 0 comes back with two; a surface of dimension two that leaves the plane,
  which the Gmsh reader makes of any triangles or quadrilaterals and the writer
  accepts (TimeSeriesDataOut.cpp:58), comes back with three (`DimensionShows`).
- The examples print their report on the first rank; one that cannot write its
  files there ends alone (`unwritten`), and no status is promised then.

## Not modelled

Element integrals, quadrature, shape functions and Krylov iterations are real
arithmetic without control state and stay out, and so do rounding and the
tolerances with which the code compares times and coordinates.  Device versions
of the controls and observations repeat the host's formulas and are not modelled
apart.  HDF5, PETSc, TAO, ReSolve and CUDA are external: a model says what femx
hands them and what it does with the answer.  CUDA errors, running out of memory
and failing MPI calls are left out where they end the program.  Timings and log
text are left out.

- The points TAO reaches and the values of a solution are named, not computed:
  that an optimizer converges is not a question of these models.
- Of an interpolator, elements that are no parallelograms (the Newton iteration
  of a quadrilateral) and its own parameters are left out; normals are taken to
  have a length that is a whole number.
- The stationary assemblies are one step for a rank or a device; history and
  parameter products are not assembled element by element.
- Two threads of one Python process (python/bindings/State.cpp:774) and the copy
  of parameters on the adjoint stream of the transient functional
  (femx/inverse/TimeReducedFunctional.hpp:315) are interleavings that no model
  has: the code has no lock and no synchronisation there, and what a model could
  add is that any outcome is possible.
- The wait that never ends when the first rank alone throws
  (apps/navier/main-petsc.cpp:140) is in the model, and `RanksMeet` leaves it out.
- VTU and VTI writers keep no state; the containers that the bindings wrap hold
  none of their own.

Components that are not modelled, or only partly, are listed with their reason in
PROJECT.json, and every hazard without a property says there why.
