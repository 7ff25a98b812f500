------------------------------- MODULE ElementLoop ------------------------------
(***************************************************************************)
(* The assembly of a time step on the CPU: the threads of a rank share out *)
(* the elements, gather the states of an element, add its residual row by  *)
(* row with atomic updates, and then its Jacobian.  The atomic update of   *)
(* an entry is its load and its store, between which no other thread of    *)
(* the rank loads that entry.                                              *)
(***************************************************************************)
EXTENDS PETScMatrix

CONSTANT Threads    \* of a process that keeps OpenMP's default

VARIABLES
  asm,     \* the assembly map of the model, or NoMap
  step,    \* by rank: the time step
  vec,     \* by rank: nxt, hist by lag, res, rhs
  loop     \* by rank: the elements left, and what every thread is at

loopVars == <<asm, step, vec, loop>>

NoMap == <<>>
NoWork == <<>>
NoEntry == <<>>
NumHist == 2
Lags == 0 .. NumHist - 1

-----------------------------------------------------------------------------
(* What a component of the state is: the value a condition prescribed, or  *)
(* the solution of the system of a level.                                  *)
Prescribed(value) == [is |-> "value", value |-> value]
Solved(level, unknown) == [is |-> "solved", level |-> level, unknown |-> unknown]
Garbage == [is |-> "garbage"]

DofOf(u) == GlobalDof(mesh, u[2], u[1], u[3])
ValueAt(level, u) ==
  IF level = 0 THEN Prescribed(data.init_state[DofOf(u)])
  ELSE IF DofOf(u) \in data.dofs THEN Prescribed(data.vals[level - 1][DofOf(u)])
  ELSE Solved(level, u)

(* An element's rows of the kernel read the gathered states; a term bears  *)
(* the level that they are of.                                             *)
ElementRows(ie) == asm.dofs[ie]
Gather(x, ie) == [j \in DOMAIN ElementRows(ie) |-> x[ElementRows(ie)[j]]]
Level(k) == IF k < 0 THEN 0 ELSE k

StatesOf(nxt, hist, ie, k) ==
  \A j \in DOMAIN nxt :
    /\ nxt[j] = ValueAt(k, KernelRow(mesh, ie, j))
    /\ \A lag \in Lags : hist[lag][j] = ValueAt(Level(k - lag), KernelRow(mesh, ie, j))

EvalRow(rank, ie) ==
  IF StatesOf(Gather(vec[rank].nxt, ie), [lag \in Lags |-> Gather(vec[rank].hist[lag], ie)], ie, step[rank])
  THEN step[rank] ELSE Wrong

Residual(terms) == [terms |-> terms, at |-> NoEntry]
ZeroResidual == [d \in Dofs(mesh) |-> Residual({})]

-----------------------------------------------------------------------------
(* The loop of a rank over the elements it owns, of those in its range.    *)
Assigned(rank, size) == ElementRange(part, Len(mesh.elems), rank, size)
Owned(rank, size) ==
  {ie \in Elems(mesh) : InRange(ie, Assigned(rank, size))
                        /\ OwnsElement(part, ie, Len(mesh.elems), ElementRows(ie), rank, size)}

Start(rank, size, threads) ==
  /\ vec' = [vec EXCEPT ![rank].res = ZeroResidual]
  /\ loop' = [loop EXCEPT ![rank] = [left |-> Owned(rank, size), at |-> [thread \in threads |-> NoWork]]]

Finished(rank) == loop[rank].left = {} /\ \A thread \in DOMAIN loop[rank].at : loop[rank].at[thread] = NoWork

(* omp for: any thread any element.                                        *)
Take(rank, thread) ==
  /\ loop[rank].at[thread] = NoWork
  /\ \E ie \in loop[rank].left :
       loop' = [loop EXCEPT ![rank].left = @ \ {ie},
                            ![rank].at[thread] = [ie |-> ie, row |-> 0, entry |-> NoEntry]]
  /\ UNCHANGED <<asm, step, vec>> /\ UNCHANGED matrixVars

Work(rank, thread) == loop[rank].at[thread]
RowDof(rank, thread) == ElementRows(Work(rank, thread).ie)[Work(rank, thread).row]
AtRow(rank, thread) == Work(rank, thread) # NoWork /\ Work(rank, thread).row \in Rows(mesh)

(* The update is not atomic.  (Mutant.)                                    *)
NothingHeld(rank, thread) == TRUE

(* omp atomic update: the entry is with no other thread.                   *)
NotHeld(rank, thread) ==
  \A other \in DOMAIN loop[rank].at \ {thread} :
    ~(AtRow(rank, other) /\ Work(rank, other).entry # NoEntry /\ RowDof(rank, other) = RowDof(rank, thread))

LoadEntry(rank, thread) ==
  /\ AtRow(rank, thread) /\ Work(rank, thread).entry = NoEntry
  /\ NotHeld(rank, thread)
  /\ loop' = [loop EXCEPT ![rank].at[thread].entry = vec[rank].res[RowDof(rank, thread)]]
  /\ UNCHANGED <<asm, step, vec>> /\ UNCHANGED matrixVars

StoreEntry(rank, thread) ==
  LET work == Work(rank, thread)
      term == <<work.ie, work.row, EvalRow(rank, work.ie)>>
  IN /\ AtRow(rank, thread) /\ work.entry # NoEntry
     /\ vec' = [vec EXCEPT ![rank].res[RowDof(rank, thread)] = Residual(Plus(work.entry.terms, {term}))]
     /\ loop' = [loop EXCEPT ![rank].at[thread] = [@ EXCEPT !.row = @ + 1, !.entry = NoEntry]]
     /\ UNCHANGED <<asm, step>> /\ UNCHANGED matrixVars

-----------------------------------------------------------------------------
(* addTimeElement.  PETSc takes the element's block in a critical section  *)
(* by its dofs, the host matrix entry by entry, atomically, by the map of  *)
(* entries: the sums do not depend on the order.                           *)
DofBlock(ie, level) ==
  {<<PetscIndex(part, ElementRows(ie)[il]), PetscIndex(part, ElementRows(ie)[jl]), ie, il, jl, level>> :
     il \in Rows(mesh), jl \in Rows(mesh)}

EntryBlock(ie, level) ==
  {LET entry == PatternEntry(asm, JacMap(asm, ie, il, jl)) IN <<entry[1], entry[2], ie, il, jl, level>> :
     il \in Rows(mesh), jl \in Rows(mesh)}

AddElement(rank, thread) ==
  LET work == Work(rank, thread)
      level == EvalRow(rank, work.ie)
  IN /\ work # NoWork /\ work.row \notin Rows(mesh)
     /\ AddBlock(rank, IF part # NoPartition THEN DofBlock(work.ie, level) ELSE EntryBlock(work.ie, level))
     /\ loop' = [loop EXCEPT ![rank].at[thread] = NoWork]
     /\ UNCHANGED <<asm, step, vec, part>>

RunLoop(rank, thread) ==
  Take(rank, thread) \/ LoadEntry(rank, thread) \/ StoreEntry(rank, thread) \/ AddElement(rank, thread)

-----------------------------------------------------------------------------
(* allReduceSum.                                                           *)
Copies(field) == [rank \in DOMAIN vec |-> vec[rank][field]]

(* Every rank keeps what it assembled.  (Mutant.)                          *)
OwnSum(res) == res

AllReduceSum(res) ==
  [rank \in DOMAIN res |->
     [d \in DOMAIN res[rank] |-> Residual(PlusAll([other \in DOMAIN res |-> res[other][d].terms]))]]

-----------------------------------------------------------------------------
(***************************************************************************)
(* The assembly of a time step on a CUDA device: a block of threads for    *)
(* every element.  The threads gather the states into shared memory and    *)
(* clear the element's sums, evaluate rows, and add rows and entries to    *)
(* the system atomically; a thread takes every number that is its own      *)
(* modulo the number of threads.  Between the phases the threads of a      *)
(* block, and only they, wait for each other.                              *)
(***************************************************************************)

CONSTANT BlockDim   \* threads of a block

VARIABLE blocks     \* by element: the phase of every thread, shared memory

NoBlocks == <<>>
BlockThreads == 0 .. BlockDim - 1
Strided(tid, count) == {i \in 0 .. count - 1 : i % BlockDim = tid}

NumRows == NumElemDofs(mesh)
NewBlock == [phase |-> [tid \in BlockThreads |-> "gather"],
             state |-> {},                                      \* the columns that are gathered
             res |-> [i \in Rows(mesh) |-> Wrong],              \* by row, the level of the states
             jac |-> [k \in 0 .. NumRows * NumRows - 1 |-> Wrong]]

(* The launch, after the residual is cleared.                              *)
Launch ==
  /\ vec' = [vec EXCEPT ![0].res = ZeroResidual]
  /\ blocks' = [ie \in Elems(mesh) |-> NewBlock]

Done == \A ie \in DOMAIN blocks : \A tid \in BlockThreads : blocks[ie].phase[tid] = "done"

(* No barrier.  (Mutant.)                                                  *)
AnyTime(ie, tid, phase) == blocks[ie].phase[tid] = phase

(* A thread enters a phase when all of its block have left the one before. *)
Synchronized(ie, tid, phase) ==
  /\ blocks[ie].phase[tid] = phase
  /\ \A other \in BlockThreads :
       CASE phase = "rows" -> blocks[ie].phase[other] # "gather"
         [] phase = "add" -> blocks[ie].phase[other] \notin {"gather", "rows"}
         [] OTHER -> TRUE

GatherAndClear(ie, tid) ==
  /\ blocks[ie].phase[tid] = "gather"
  /\ blocks' = [blocks EXCEPT
       ![ie].phase[tid] = "rows",
       ![ie].state = @ \cup Strided(tid, NumRows),
       ![ie].res = [i \in DOMAIN @ |-> IF i \in Strided(tid, NumRows) THEN Wrong ELSE @[i]],
       ![ie].jac = [k \in DOMAIN @ |-> IF k \in Strided(tid, NumRows * NumRows) THEN Wrong ELSE @[k]]]
  /\ UNCHANGED <<asm, step, vec, loop>> /\ UNCHANGED matrixVars

EvalRows(ie, tid) ==
  LET level == IF blocks[ie].state = Rows(mesh) THEN EvalRow(0, ie) ELSE Wrong IN
  /\ Synchronized(ie, tid, "rows")
  /\ blocks' = [blocks EXCEPT
       ![ie].phase[tid] = "add",
       ![ie].res = [i \in DOMAIN @ |-> IF i \in Strided(tid, NumRows) THEN level ELSE @[i]],
       ![ie].jac = [k \in DOMAIN @ |-> IF k \div NumRows \in Strided(tid, NumRows) THEN level ELSE @[k]]]
  /\ UNCHANGED <<asm, step, vec, loop>> /\ UNCHANGED matrixVars

AddRows(ie, tid) ==
  LET Term(d) == {<<ie, i, blocks[ie].res[i]>> : i \in {j \in Strided(tid, NumRows) : ElementRows(ie)[j] = d}} IN
  /\ Synchronized(ie, tid, "add")
  /\ blocks' = [blocks EXCEPT ![ie].phase[tid] = "entries"]
  /\ vec' = [vec EXCEPT ![0].res = [d \in DOMAIN @ |-> Residual(Plus(@[d].terms, Term(d)))]]
  /\ UNCHANGED <<asm, step, loop>> /\ UNCHANGED matrixVars

AddEntries(ie, tid) ==
  /\ blocks[ie].phase[tid] = "entries"
  /\ blocks' = [blocks EXCEPT ![ie].phase[tid] = "done"]
  /\ AddBlock(0, {LET il == k \div NumRows
                      jl == k % NumRows
                      entry == PatternEntry(asm, JacMap(asm, ie, il, jl))
                  IN <<entry[1], entry[2], ie, il, jl, blocks[ie].jac[k]>> : k \in Strided(tid, NumRows * NumRows)})
  /\ UNCHANGED <<asm, step, vec, loop, part>>

RunBlock(ie, tid) == GatherAndClear(ie, tid) \/ EvalRows(ie, tid) \/ AddRows(ie, tid) \/ AddEntries(ie, tid)
=============================================================================
