----------------------------- MODULE LinearSystems -----------------------------
(***************************************************************************)
(* The linear systems the stationary solvers are given: the matrix a       *)
(* system owns and the solver behind it, DenseLinearSolver, or             *)
(* ReSolveLinearSolver on Host (Krylov or direct) or on the device, with   *)
(* what that solver keeps from one call to the next and every call of      *)
(* ReSolve that may report an error.  Systems have two unknowns and a      *)
(* determinant of one, so that solutions are exact integers.               *)
(*                                                                         *)
(* Of ReSolve it is assumed that a solver that was not given its matrix or *)
(* its preconditioner reports an error instead of a solution.              *)
(***************************************************************************)
EXTENDS Integers, Sequences, FiniteSets, SequencesExt

-----------------------------------------------------------------------------
(***************************************************************************)
(* What a CudaContext orders and what it leaves open.  Work is submitted   *)
(* to a stream and is outstanding until the host waits for that stream;    *)
(* streams of different contexts, and the default stream, run on their own *)
(* (they are created non-blocking).  A program whose conflicting accesses  *)
(* are all ordered computes what it would with every call synchronous, so  *)
(* values are kept in program order elsewhere and only the races are found *)
(* here.  On Host contexts every call is synchronous.                      *)
(***************************************************************************)

(* The stream the solver launches on.                                      *)
DefaultStream == "default"

NoWork == [open |-> {}, race |-> FALSE]

(* A call that submits work reading and writing buffers to a stream; the   *)
(* host touching buffers itself; the host waiting for a stream.            *)
On(stream, reads, writes) == [on |-> stream, reads |-> reads, writes |-> writes]
ByHost(reads, writes) == On("host", reads, writes)
Sync(stream) == [on |-> "sync", stream |-> stream]

Conflicts(q, op) ==
  \E a \in q.open :
    /\ a.on # op.on
    /\ a.buf \in op.writes \/ (a.writes /\ a.buf \in op.reads)

Submitted(q, op) ==
  [open |-> IF op.on = "host" THEN q.open
            ELSE q.open \cup [on : {op.on}, buf : op.reads, writes : {FALSE}]
                        \cup [on : {op.on}, buf : op.writes, writes : {TRUE}],
   race |-> q.race \/ Conflicts(q, op)]

Waited(q, stream) == [q EXCEPT !.open = {a \in @ : a.on # stream}]

(* The streams after a sequence of calls.                                  *)
After(q, ops) ==
  FoldLeft(LAMBDA s, op : IF op.on = "sync" THEN Waited(s, op.stream) ELSE Submitted(s, op), q, ops)

-----------------------------------------------------------------------------
Kinds == {"dense", "krylov", "direct", "cuda"}

(* Two-by-two matrices by rows, of determinant one.                        *)
Transposed(A) == <<<<A[1][1], A[2][1]>>, <<A[1][2], A[2][2]>>>>
Solution(A, b) == <<A[2][2] * b[1] - A[1][2] * b[2], A[1][1] * b[2] - A[2][1] * b[1]>>
ZeroVec == <<0, 0>>

(* A CSR matrix: its numbers of rows and entries, and its values.          *)
Csr(shape, vals) == [shape |-> shape, vals |-> vals]
NoShape == "none"
NoCsr == Csr(NoShape, <<>>)

(* What a ReSolve solver keeps: the shape it recorded, its own copy of the *)
(* matrix, its factors, and whether matrix and preconditioner are set.     *)
NoSolver == [shape |-> NoShape, csr |-> NoCsr, factors |-> NoCsr, ready |-> FALSE]

(* The shape decides alone.  (Mutant.)                                     *)
AnyReuse(kind, st, A) == st.csr # NoCsr /\ st.shape = A.shape

(* reuse: a direct solver is always set up again, a Krylov solver for      *)
(* another number of rows or entries.                                      *)
Reuse(kind, st, A) == kind = "krylov" /\ st.csr # NoCsr /\ st.shape = A.shape

(* setHostMatrix into the matrix at hand.                                  *)
WithValues(st, A) == [st EXCEPT !.csr = A]

(* A new solver with its options, and its matrix; before setupCpu it has   *)
(* no factors and no preconditioner.                                       *)
Made(A) == [NoSolver EXCEPT !.shape = A.shape, !.csr = A]

(* setupCpu: the factors of a direct solver, or the preconditioner.        *)
SetUp(kind, st) == [st EXCEPT !.ready = TRUE, !.factors = IF kind = "direct" THEN st.csr ELSE NoCsr]

(* setOperator, setTransposeOperator: the solver afterwards, and whether   *)
(* it returned.  A new solver is reset before its matrix is allocated, and *)
(* the shape is recorded before the solver is set up.                      *)
HostSet(kind, st, A) ==
  IF Reuse(kind, st, A)
  THEN {[st |-> st, ok |-> FALSE],
        [st |-> WithValues(st, A), ok |-> FALSE]}
       \cup IF st.ready THEN {[st |-> WithValues(st, A), ok |-> TRUE]} ELSE {}
  ELSE {[st |-> [Made(Csr(A.shape, <<>>)) EXCEPT !.shape = st.shape], ok |-> FALSE],
        [st |-> Made(A), ok |-> FALSE],
        [st |-> SetUp(kind, Made(A)), ok |-> TRUE]}

(* solveHost: a Krylov solver may not converge.                            *)
HostSolve(kind, st, rhs) ==
  LET A == IF kind = "direct" THEN st.factors ELSE st.csr IN
  {[ok |-> TRUE, x |-> Solution(A.vals, rhs)], [ok |-> FALSE, x |-> ZeroVec]}

(* setCudaMatrix: the storage is recorded before the solver is made and    *)
(* given its matrix; with the same storage it returns.                     *)
CudaSet(st, A) ==
  IF st.csr # NoCsr /\ st.shape = A.shape
  THEN {[st |-> st, ok |-> TRUE]}
  ELSE {[st |-> [Made(A) EXCEPT !.csr = NoCsr], ok |-> FALSE],
        [st |-> Made(A), ok |-> FALSE],
        [st |-> [Made(A) EXCEPT !.ready = TRUE], ok |-> TRUE]}

(* The solver does not wait for the producer of its matrix.  (Mutant.)     *)
SolvesAtOnce(ctx, mat, rhs, x) ==
  <<On(ctx, {}, {x}), On(DefaultStream, {mat, rhs}, {x}), Sync(DefaultStream)>>

(* solveCuda: the context ends its work, the solver its own before the     *)
(* caller goes on.                                                         *)
CudaSolves(ctx, mat, rhs, x) ==
  <<On(ctx, {}, {x}), Sync(ctx), On(DefaultStream, {mat, rhs}, {x}), Sync(DefaultStream)>>

-----------------------------------------------------------------------------
(***************************************************************************)
(* A linear system: its context, its matrix, the solvers for the matrix    *)
(* and for its transpose, and how far the context's map from the matrix to *)
(* its transpose has come.                                                 *)
(***************************************************************************)
NewSystem(ctx) ==
  [ctx |-> ctx, mat |-> NoCsr, fwd |-> NoSolver, trans |-> NoSolver, map |-> "none"]

Buf(sys, name) == <<sys.ctx, name>>

(* A result of a solve: the system afterwards, the solution or not, and    *)
(* the calls made on streams.                                              *)
Outcome(sys, ok, x, ops) == [sys |-> sys, ok |-> ok, x |-> x, ops |-> ops]
Failed(sys, ops) == Outcome(sys, FALSE, ZeroVec, ops)

(* The matrix solveT solves with.                                          *)
TransposedOf(sys) == Csr(sys.mat.shape, Transposed(sys.mat.vals))

DenseSolves(sys, A, rhs) == {Outcome(sys, TRUE, Solution(A.vals, rhs), <<>>)}

(* A right-hand side of zeros never reaches ReSolve's Host solvers; the    *)
(* transposed solve does not even set its matrix.                          *)
HostSolves(kind, sys, field, A, rhs) ==
  IF field = "trans" /\ rhs = ZeroVec
  THEN {Outcome(sys, TRUE, ZeroVec, <<>>)}
  ELSE UNION {LET after == [sys EXCEPT ![field] = s.st] IN
              IF ~s.ok THEN {Failed(after, <<>>)}
              ELSE IF rhs = ZeroVec THEN {Outcome(after, TRUE, ZeroVec, <<>>)}
              ELSE {Outcome(after, r.ok, r.x, <<>>) : r \in HostSolve(kind, s.st, rhs)} :
                s \in HostSet(kind, sys[field], A)}

(* CudaMatrixHandler::transpose: the entry of the map is kept before it is *)
(* computed, and an entry that is found is taken to be complete.  With one *)
(* that is not, the transposed matrix is anything.                         *)
Maps(map) == IF map = "none" THEN {"half", "built"} ELSE {map}

Anything == <<99, 99>>

CudaSolvesWith(sys, field, mat, A, rhs, rhs_buf, x_buf) ==
  LET copied == <<On(sys.ctx, {rhs_buf}, {Buf(sys, "rhs")})>>
      moved == copied \o IF field = "trans" THEN <<On(sys.ctx, {Buf(sys, "mat")}, {mat})>> ELSE <<>>
      solving == moved \o CudaSolves(sys.ctx, mat, Buf(sys, "rhs"), x_buf)
  IN UNION {LET after == [sys EXCEPT ![field] = s.st] IN
            {Failed(after, IF s.ok THEN Front(solving) ELSE moved)}
              \cup IF s.ok /\ s.st.ready
                   THEN {Outcome(after, TRUE,
                                 IF field = "trans" /\ sys.map = "half" THEN Anything ELSE Solution(A.vals, rhs),
                                 solving)}
                   ELSE {} :
              s \in CudaSet(sys[field], A)}

CudaTransposes(sys) ==
  {[sys EXCEPT !.map = m] : m \in Maps(sys.map)}

DeviceSolves(sys, field, A, rhs, rhs_buf, x_buf) ==
  IF field = "fwd"
  THEN CudaSolvesWith(sys, field, Buf(sys, "mat"), A, rhs, rhs_buf, x_buf)
  ELSE UNION {IF sys.map = "none" /\ s.map = "half"
              THEN {Failed(s, <<On(sys.ctx, {rhs_buf}, {Buf(sys, "rhs")})>>)}
              ELSE CudaSolvesWith(s, field, Buf(sys, "trans"), A, rhs, rhs_buf, x_buf) :
                s \in CudaTransposes(sys)}

(* solve and solveT of the system, field naming the solver that is used.   *)
SystemSolves(kind, sys, field, rhs, rhs_buf, x_buf) ==
  LET A == IF field = "trans" THEN TransposedOf(sys) ELSE sys.mat IN
  CASE kind = "dense" -> DenseSolves(sys, A, rhs)
    [] kind = "cuda" -> DeviceSolves(sys, field, A, rhs, rhs_buf, x_buf)
    [] OTHER -> HostSolves(kind, sys, field, A, rhs)
=============================================================================
