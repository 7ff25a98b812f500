------------------------------- MODULE NavierMain -------------------------------
(***************************************************************************)
(* The Navier-Stokes programs, from the command line to the exit status:   *)
(* navier-petsc on the ranks of a communicator, and navier-resolve on one  *)
(* process, with the host's threads or a CUDA device.  Every rank reads    *)
(* the same files and makes the same problem of them, which is done here   *)
(* once for all; from there on the ranks run on their own, and meet in     *)
(* collective calls, which are steps of all ranks at that call.  The first *)
(* rank alone writes files, any of which may fail.                         *)
(***************************************************************************)
EXTENDS ElementLoop

CONSTANTS
  Roots,   \* the readable configurations, by path
  Cases    \* command line, program, ranks, the level the flow is steady at

VARIABLES
  case,      \* the run
  prm,       \* its configuration, or NoConfig
  problem,   \* NavierProblem: "none", "made" or "thrown"
  pc,        \* by rank
  status,    \* by rank: the exit status
  alone,     \* history: the first rank left the others
  overflow  \* history: a solve returned a vector that is not finite

mainVars == <<case, prm, problem, pc, status, alone, overflow>>
vars == <<reader, mesh, bc, data, part, mat, stash, asm, step, vec, loop, blocks, case, prm, problem, pc, status, alone, overflow>>

NoConfig == <<>>
NoVector == <<>>
Processes == DOMAIN pc
Distributed == case.program = "petsc"
Unread == UNCHANGED <<reader, mesh, bc, data, asm, problem>>
NoSystem == UNCHANGED <<part, mat, stash, step, vec, loop, blocks, overflow>>

(* Before the first call of a program's main.                              *)
AtStart(place) ==
  /\ pc = [rank \in Ranks(case.ranks) |-> place]
  /\ status = [rank \in Ranks(case.ranks) |-> 0]
  /\ step = [rank \in Ranks(case.ranks) |-> 0]
  /\ vec = [rank \in Ranks(case.ranks) |-> [nxt |-> NoVector, hist |-> NoVector, res |-> NoVector, rhs |-> NoVector]]
  /\ loop = [rank \in Ranks(case.ranks) |-> [left |-> {}, at |-> NoWork]]
  /\ stash = [rank \in Ranks(case.ranks) |-> {}]
  /\ reader = NotReading /\ mesh = NoMesh /\ asm = NoMap /\ bc = NoConditions /\ data = NoData
  /\ part = NoPartition /\ mat = NoMatrix /\ blocks = NoBlocks
  /\ prm = NoConfig /\ problem = "none" /\ alone = FALSE /\ overflow = FALSE

Init == case \in Cases /\ AtStart("main")

AllAt(place) == \A rank \in Processes : pc[rank] = place
Goto(rank, place) == pc' = [pc EXCEPT ![rank] = place]
AllGoto(place) == pc' = [rank \in Processes |-> place]

(* The handlers of main: status 1, and on to the end.                      *)
Throw(rank) == Goto(rank, "finalize") /\ status' = [status EXCEPT ![rank] = 1]
AllThrow == AllGoto("finalize") /\ status' = [rank \in Processes |-> 1]

-----------------------------------------------------------------------------
(* main: parseCommandLine and loadConfig.                                  *)
Writes(rank) == rank = 0 /\ prm.output.enabled

Main ==
  LET path == case.config_file
      config == IF path \in DOMAIN Roots THEN LoadConfig(Roots[path]) ELSE Throws
  IN /\ AllAt("main")
     /\ \/ case.help /\ AllGoto("finalize") /\ UNCHANGED <<prm, status, reader, mesh>>
        \/ ~case.help /\ config = Throws /\ AllThrow /\ UNCHANGED <<prm, reader, mesh>>
        \/ /\ ~case.help /\ config # Throws
           /\ prm' = config
           /\ pc' = [rank \in Processes |-> IF rank = 0 /\ config.output.enabled THEN "build_info" ELSE "problem"]
           /\ IF config.mesh_file \in DOMAIN Files THEN Open(config.mesh_file) ELSE UNCHANGED <<reader, mesh>>
           /\ UNCHANGED status
     /\ UNCHANGED <<bc, data, asm, problem, case, alone>> /\ NoSystem

(* A file of the first rank is written, or it throws.                      *)
Write(from, to) ==
  /\ pc[0] = from
  /\ \/ Goto(0, to) /\ UNCHANGED <<status, alone>>
     \/ Throw(0) /\ alone' = TRUE
  /\ UNCHANGED <<case, prm>> /\ NoSystem /\ Unread

WriteBuildInfo == Write("build_info", "problem")
OpenRunInfo == Write("run_info", "observe")

(* The constructor of NavierProblem.                                       *)
ReadMesh ==
  /\ prm # NoConfig /\ problem = "none"
  /\ ReadSection \/ ReadEnds
  /\ UNCHANGED <<bc, data, asm>> /\ UNCHANGED mainVars /\ NoSystem

MakeModel ==
  /\ prm # NoConfig /\ problem = "none"
  /\ mesh # NoMesh /\ asm = NoMap /\ ModelValid(mesh, prm.time)
  /\ asm' = MapOf(mesh)
  /\ UNCHANGED <<reader, mesh, bc, data>> /\ UNCHANGED mainVars /\ NoSystem

MakeConditions ==
  /\ problem = "none" /\ asm # NoMap
  /\ ListConditions(mesh, prm) \/ OrderConditions(mesh)
  /\ UNCHANGED <<reader, mesh, asm>> /\ UNCHANGED mainVars /\ NoSystem

MakeBoundaryData ==
  /\ problem = "none" /\ asm # NoMap
  /\ MakeTimeDirichletData(mesh, prm)
  /\ problem' = "made"
  /\ UNCHANGED <<reader, mesh, asm, case, prm, pc, status, alone>> /\ NoSystem

ProblemThrows ==
  /\ prm # NoConfig /\ problem = "none"
  /\ \/ reader = NotReading /\ mesh = NoMesh
     \/ ReadThrows
     \/ mesh # NoMesh /\ ~ModelValid(mesh, prm.time)
     \/ asm # NoMap /\ \E i \in DOMAIN prm.bcs : ConditionThrows(mesh, prm.bcs[i])
  /\ problem' = "thrown"
  /\ UNCHANGED <<reader, mesh, bc, data, asm, case, prm, pc, status, alone>> /\ NoSystem

Problem(rank) ==
  /\ pc[rank] = "problem" /\ problem # "none"
  /\ IF problem = "made" THEN Goto(rank, "system") /\ UNCHANGED status ELSE Throw(rank)
  /\ UNCHANGED <<case, prm, alone>> /\ NoSystem /\ Unread

(* The linear system duplicates the communicator; the integrator takes the *)
(* initial state.                                                          *)
MakeSystem ==
  LET x0 == [d \in Dofs(mesh) |-> Prescribed(data.init_state[d])] IN
  /\ AllAt("system")
  /\ vec' = [rank \in Processes |-> [vec[rank] EXCEPT !.nxt = x0, !.hist = [lag \in Lags |-> x0]]]
  /\ pc' = [rank \in Processes |-> IF Writes(rank) THEN "run_info" ELSE "observe"]
  /\ UNCHANGED <<case, prm, status, alone, overflow, part, mat, stash, step, loop, blocks>> /\ Unread

-----------------------------------------------------------------------------
(* solve: the monitor at a level, and the time steps.                      *)
(* The flow is steady when no component changed since a given level.       *)
Steady(rank) ==
  \E d \in DOMAIN vec[rank].nxt :
    vec[rank].nxt[d].is = "solved" /\ vec[rank].nxt[d].level >= case.steady

(* Only the rank with the log looks for convergence.  (Mutant.)            *)
StopsWithLog(rank) ==
  step[rank] > 0 /\ prm.time.conv /\ Writes(rank) /\ step[rank] >= prm.time.min_steps /\ Steady(rank)

Stops(rank) == step[rank] > 0 /\ prm.time.conv /\ step[rank] >= prm.time.min_steps /\ Steady(rank)

Continues(rank) == Goto(rank, IF Stops(rank) \/ step[rank] = prm.time.steps THEN "return" ELSE "setup")

(* The levels at which the first rank writes fields, or, at the start,     *)
(* makes their directory, and those at which it logs: there it throws on a *)
(* Courant number that is not finite, of a state with an infinite          *)
(* velocity; what is not a number is passed over by the maximum.           *)
OutputLevel(rank) == step[rank] % prm.output.interval = 0 \/ step[rank] = prm.time.steps
Logs(rank) == rank = 0 /\ (prm.output.enabled => OutputLevel(rank))
Finite(x) == \A d \in DOMAIN x : x[d] # Garbage

Observe(rank) ==
  /\ pc[rank] = "observe"
  /\ \/ Continues(rank) /\ UNCHANGED <<status, alone>>
     \/ /\ (Writes(rank) /\ OutputLevel(rank)) \/ (Logs(rank) /\ ~Finite(vec[rank].hist[1]))
        /\ Throw(rank) /\ alone' = TRUE
  /\ UNCHANGED <<case, prm>> /\ NoSystem /\ Unread

(* jac.setup, and the context's partition.                                 *)
Setup ==
  /\ AllAt("setup")
  /\ IF Distributed THEN \E owners \in Partitions(NumDofs(mesh), case.ranks) : Resize(owners)
     ELSE mat' = Cleared /\ UNCHANGED <<part, stash>>
  /\ AllGoto("assemble")
  /\ UNCHANGED <<case, prm, status, alone, overflow, step, vec, loop, blocks>> /\ Unread

Assemble(rank) ==
  /\ pc[rank] = "assemble"
  /\ IF case.program = "cuda" THEN Launch /\ UNCHANGED loop
     ELSE Start(rank, case.ranks, IF Distributed THEN {0} ELSE Threads) /\ UNCHANGED blocks
  /\ Goto(rank, "assembling")
  /\ UNCHANGED <<case, prm, status, alone, overflow, part, mat, stash, step>> /\ Unread

LoopStep(rank) ==
  /\ pc[rank] = "assembling" /\ case.program # "cuda"
  /\ \E thread \in DOMAIN loop[rank].at : RunLoop(rank, thread)
  /\ UNCHANGED blocks /\ UNCHANGED mainVars /\ UNCHANGED <<reader, mesh, bc, data>>

BlockStep ==
  /\ AllAt("assembling") /\ case.program = "cuda"
  /\ \E ie \in DOMAIN blocks, tid \in BlockThreads : RunBlock(ie, tid)
  /\ UNCHANGED mainVars /\ UNCHANGED <<reader, mesh, bc, data>>

EndAssembly(rank) ==
  /\ pc[rank] = "assembling"
  /\ IF case.program = "cuda" THEN Done ELSE Finished(rank)
  /\ Goto(rank, "reduce")
  /\ UNCHANGED <<case, prm, status, alone>> /\ NoSystem /\ Unread

Reduce ==
  LET sums == AllReduceSum(Copies("res")) IN
  /\ AllAt("reduce")
  /\ vec' = [rank \in Processes |-> [vec[rank] EXCEPT !.res = sums[rank]]]
  /\ AllGoto("boundary")
  /\ UNCHANGED <<case, prm, status, alone, overflow, part, mat, stash, step, loop, blocks>> /\ Unread

(* applyDirichletConditions on the residual, of a rank's copy: the state   *)
(* less the value of the step.                                             *)
BoundaryVals(rank) == [d \in data.dofs |-> Prescribed(data.vals[step[rank]][d])]

ConstrainResidual(rank) ==
  /\ pc[rank] = "boundary"
  /\ vec' = [vec EXCEPT ![rank].res =
       [d \in DOMAIN @ |-> IF d \in data.dofs
                           THEN [terms |-> {}, at |-> <<vec[rank].nxt[d], BoundaryVals(rank)[d]>>] ELSE @[d]]]
  /\ Goto(rank, "replace")
  /\ UNCHANGED <<case, prm, status, alone, overflow, part, mat, stash, step, loop, blocks>> /\ Unread

Replace ==
  /\ AllAt("replace")
  /\ ReplaceRows(data.dofs)
  /\ AllGoto("finalize_matrix")
  /\ UNCHANGED <<case, prm, status, alone, overflow, part, step, vec, loop, blocks>> /\ Unread

FinalizeMatrix ==
  /\ AllAt("finalize_matrix")
  /\ Finalize
  /\ AllGoto("matvec")
  /\ UNCHANGED <<case, prm, status, alone, overflow, part, step, vec, loop, blocks>> /\ Unread

(* rhs = jac nxt - res, a row of which is a record of its parts.           *)
FormRhs ==
  /\ AllAt("matvec")
  /\ \E product \in {MatVec(Copies("nxt"), Dofs(mesh))} : vec' = [rank \in Processes |-> [vec[rank] EXCEPT !.rhs =
         [d \in Dofs(mesh) |-> [product |-> product[d], res |-> vec[rank].res[d], moved |-> {}, set |-> {}]]]]
  /\ AllGoto("eliminate")
  /\ UNCHANGED <<case, prm, status, alone, overflow, part, mat, stash, step, loop, blocks>> /\ Unread

Eliminate ==
  LET values == [rank \in Processes |->
                   [d \in Dofs(mesh) |-> IF d \in data.dofs THEN BoundaryVals(rank)[d] ELSE Prescribed(0)]]
  IN /\ AllAt("eliminate")
     /\ \E system \in {EliminateColumns(data.dofs, values, Copies("rhs"), Dofs(mesh))} :
          /\ mat' = system.mat
          /\ vec' = [rank \in Processes |-> [vec[rank] EXCEPT !.rhs = system.rhs]]
     /\ AllGoto("solve")
     /\ UNCHANGED <<case, prm, status, alone, overflow, part, stash, step, loop, blocks>> /\ Unread

(* The solver is exact: a column's component is the unknown its terms      *)
(* belong to.  It may also not converge, and what it returns may not be    *)
(* finite.                                                                 *)
Component(i, b) ==
  LET column == {t \in mat.terms : t[2] = i} IN
  IF i \in mat.diag THEN CHOOSE value \in b.set : TRUE
  ELSE IF column = {} \/ \E t \in column : t[6] = Wrong THEN Garbage
  ELSE LET t == CHOOSE t \in column : TRUE IN Solved(t[6] + 1, KernelRow(mesh, t[3], t[5]))

Overflown(i, b) == IF i \in mat.diag THEN Component(i, b) ELSE Garbage

(* The components in the order of the system.  (Mutant.)                   *)
InSystemOrder(x) == x

InOrder(x) == CopyFromPETSc(x)

Solve ==
  /\ AllAt("solve")
  /\ \/ /\ \E spoilt \in BOOLEAN, b \in {CopyToPETSc(Copies("rhs"), Dofs(mesh))} :
             \E x \in {InOrder([i \in Dofs(mesh) |-> IF spoilt THEN Overflown(i, b[i]) ELSE Component(i, b[i])])} :
               /\ vec' = [rank \in Processes |->
                    [vec[rank] EXCEPT !.nxt = x,
                                      !.hist = [lag \in Lags |-> IF lag = 0 THEN x ELSE @[lag - 1]]]]
               /\ overflow' = (overflow \/ spoilt)
        /\ step' = [rank \in Processes |-> step[rank] + 1]
        /\ AllGoto("observe")
        /\ UNCHANGED status
     \/ AllThrow /\ UNCHANGED <<vec, step, overflow>>
  /\ UNCHANGED <<case, prm, alone, part, mat, stash, loop, blocks>> /\ Unread

(* The monitor stops, which writes the last field if it is not written,    *)
(* and hasFiniteValues looks at the final state.                           *)
Return(rank) ==
  /\ pc[rank] = "return"
  /\ \/ /\ IF Finite(vec[rank].nxt) THEN Goto(rank, "finalize") /\ UNCHANGED status ELSE Throw(rank)
        /\ UNCHANGED alone
     \/ Writes(rank) /\ ~OutputLevel(rank) /\ Throw(rank) /\ alone' = TRUE
  /\ UNCHANGED <<case, prm>> /\ NoSystem /\ Unread

(* PetscSession::finalize is collective.                                   *)
Exit ==
  /\ AllAt("finalize")
  /\ AllGoto("exited")
  /\ UNCHANGED <<case, prm, status, alone>> /\ NoSystem /\ Unread

(* The programs have ended, or wait for a first rank that left on its own. *)
Ended == (AllAt("exited") \/ alone) /\ UNCHANGED vars

Next ==
  \/ Ended
  \/ Main \/ WriteBuildInfo \/ ReadMesh \/ MakeModel \/ MakeConditions \/ MakeBoundaryData \/ ProblemThrows
  \/ MakeSystem \/ OpenRunInfo \/ Setup \/ BlockStep
  \/ Reduce \/ Replace \/ FinalizeMatrix \/ FormRhs \/ Eliminate \/ Solve \/ Exit
  \/ \E rank \in Processes :
       \/ Problem(rank) \/ Observe(rank) \/ Assemble(rank) \/ LoopStep(rank)
       \/ EndAssembly(rank) \/ ConstrainResidual(rank) \/ Return(rank)

Spec == Init /\ [][Next]_vars

-----------------------------------------------------------------------------
(* The system of the mesh, by its elements, in the names of the unknowns.  *)
RowOf(u) == PetscIndex(part, DofOf(u))
Fixed(u) == DofOf(u) \in data.dofs
Parts(u) == {x \in Elems(mesh) \X Rows(mesh) : KernelRow(mesh, x[1], x[2]) = u}
Term(ie, il, jl, k) == <<RowOf(KernelRow(mesh, ie, il)), RowOf(KernelRow(mesh, ie, jl)), ie, il, jl, k>>

RowRhs(u, k) ==
  LET Met(cols, level) ==
        {<<Term(x[1][1], x[1][2], x[2], k), ValueAt(level, KernelRow(mesh, x[1][1], x[2]))>> :
           x \in {y \in Parts(u) \X cols : level = k \/ Fixed(KernelRow(mesh, y[1][1], y[2]))}}
  IN [product |-> [products |-> Met(Rows(mesh), k), diag |-> {}],
      res |-> [terms |-> {<<x[1], x[2], k>> : x \in Parts(u)}, at |-> NoEntry],
      moved |-> Met(Rows(mesh), k + 1), set |-> {}]

(* The system that is solved is that of the mesh at the level of the       *)
(* step, once per element: no update of a thread or a block is lost, no    *)
(* element is left out or assembled by two ranks, no contribution waits in *)
(* a stash, and every dof is the same unknown to the kernel, the assembly  *)
(* map, the conditions and the numbering of the ranks; but where a solve   *)
(* returned what is not finite.  (assembleHostElements,                    *)
(* assembleTimeKernel, PETScMatrix, PETScPartition, MixedFESpace.)         *)
SystemOfMesh ==
  AllAt("solve") /\ ~overflow =>
    /\ {RowOf(u) : u \in Unknowns(mesh)} = Dofs(mesh)
    /\ mat.diag = {PetscIndex(part, d) : d \in data.dofs}
    /\ \A rank \in Processes :
         LET k == step[rank] IN
         /\ mat.terms = {Term(x[1], x[2], x[3], k) :
                           x \in {y \in Elems(mesh) \X Rows(mesh) \X Rows(mesh) :
                                    ~Fixed(KernelRow(mesh, y[1], y[2])) /\ ~Fixed(KernelRow(mesh, y[1], y[3]))}}
         /\ \A u \in Unknowns(mesh) :
              IF Fixed(u) THEN vec[rank].rhs[DofOf(u)].set = {ValueAt(k + 1, u)}
              ELSE vec[rank].rhs[DofOf(u)] = RowRhs(u, k)

-----------------------------------------------------------------------------
(* What the script says of an unknown: the last condition that names it.   *)
Option(cond, u) == IF u[2] = "p" THEN cond.p ELSE <<cond.ux, cond.uy, cond.uz>>[u[3] + 1]
Names(cond, u) ==
  /\ \E i \in DOMAIN mesh.facets : mesh.facets[i].ptag = cond.tag /\ \E k \in DOMAIN mesh.facets[i].nids : mesh.facets[i].nids[k] = u[1]
  /\ Option(cond, u) # Absent \/ (u[2] = "u" /\ cond.velocity # Absent)

Naming(u) == {i \in DOMAIN prm.bcs : Names(prm.bcs[i], u)}
Said(u, time) ==
  LET cond == prm.bcs[CHOOSE i \in Naming(u) : \A j \in Naming(u) : j <= i] IN
  IF Option(cond, u) # Absent THEN Option(cond, u)
  ELSE VelocityComponent(mesh, cond.velocity, cond.tag, NodeOf(mesh, u[1]), time, u[3])

Pinned(u) == u = <<0, "p", 0>> /\ \A i \in DOMAIN prm.bcs : prm.bcs[i].p = Absent

(* A sample at the time of a table is the table's value, between two times *)
(* of a profile that is not a cubic one it is between theirs, and what a   *)
(* profile repeats after its period is the same.                           *)
Sampled(v, t) ==
  LET value == SampleVelocityValue(v, t) IN
  /\ \A i \in DOMAIN v.time : v.time[i] = t /\ (i < Len(v.time) \/ v.per = 0) => value = v.vals[i]
  /\ \A i \in 1 .. Len(v.time) - 1 :
       v.time[i] < t /\ t < v.time[i + 1] /\ v.interp # "cubic"
         => \/ v.vals[i] <= value /\ value <= v.vals[i + 1]
            \/ v.vals[i + 1] <= value /\ value <= v.vals[i]
  /\ SampleVelocityValue(v, t + v.per) = value

(* At every level, the fixed dofs are those the script names or, without a *)
(* pressure, the pressure at the first node, and each has the value of the *)
(* last condition that names it.  (makeDirichletBoundaryConditions,        *)
(* orderedBC, makeTimeDirichletData, sampleVelocityValue.)                 *)
ConditionsOfScript ==
  problem = "made" =>
    /\ data.dofs = {DofOf(u) : u \in {w \in Unknowns(mesh) : Naming(w) # {} \/ Pinned(w)}}
    /\ \A k \in 0 .. prm.time.steps :
         /\ \A u \in {w \in Unknowns(mesh) : Naming(w) # {}} :
              ValueAt(k, u) = Prescribed(Said(u, k * prm.time.dt))
         /\ \A i \in DOMAIN prm.bcs : prm.bcs[i].velocity # Absent => Sampled(prm.bcs[i].velocity, k * prm.time.dt)

-----------------------------------------------------------------------------
(* The steps the script asks for: as many as reach its end time.           *)
Asked ==
  LET time == Get(Roots[case.config_file], "time", EmptyObject) IN
  IF Has(time, "end_time")
  THEN CHOOSE n \in 1 .. time.end_time : n * prm.time.dt >= time.end_time /\ (n - 1) * prm.time.dt < time.end_time
  ELSE Get(time, "steps", TimeDefaults.steps)

(* A rank that returns has the states of the last step, and of the one     *)
(* before, in the application's order: every free component solved for at  *)
(* its level, every fixed one as prescribed there; and the last step is    *)
(* the one the script asks for, or an earlier one at which the flow was    *)
(* steady; but where a solve returned what is not finite.                  *)
(* (stepsForEndTime, solve, advanceHist, copyFromPETSc.)                   *)
ResultOfScript ==
  \A rank \in Processes :
    pc[rank] = "return" /\ ~overflow =>
      LET k == step[rank] IN
      /\ k = Asked \/ (k < Asked /\ prm.time.conv /\ k >= case.steady /\ k >= prm.time.min_steps)
      /\ \A u \in Unknowns(mesh) :
           /\ vec[rank].nxt[DofOf(u)] = ValueAt(k, u)
           /\ \A lag \in Lags : vec[rank].hist[lag][DofOf(u)] = ValueAt(Level(k - lag), u)

(* The calls in which the ranks of navier-petsc meet.                      *)
Collectives == {"main", "system", "setup", "reduce", "replace", "finalize_matrix", "matvec", "eliminate", "solve", "finalize"}
=============================================================================
