------------------------------- MODULE PETScMatrix ------------------------------
(***************************************************************************)
(* femx::linalg::PETScMatrix: a system matrix spread over the ranks, each  *)
(* with the rows of its unknowns.  What a rank adds to rows of others      *)
(* waits in its stash until all assemble.  An entry's value is the sum of  *)
(* the tuples <<row, column, element, local row, local column, level>>     *)
(* that hold its row and column; a term added twice is Wrong.              *)
(*                                                                         *)
(* A replicated vector is a copy on every rank, a function on the ranks of *)
(* vectors over the unknowns; a system vector is one over rows.            *)
(***************************************************************************)
EXTENDS BoundaryConditions, MpiContext

-----------------------------------------------------------------------------
(***************************************************************************)
(* femx::linalg::PETScPartition: the owners of the unknowns, as the graph  *)
(* partitioner chose them, the numbering of the system in which every rank *)
(* holds consecutive rows, and the rank that assembles an element.         *)
(***************************************************************************)

(* What the partitioner may return, for a number of unknowns and of ranks: *)
(* functions from unknowns to ranks.                                       *)
CONSTANT Partitions(_, _)

NoPartition == <<>>

OwnedBy(owners, rank) == {d \in DOMAIN owners : owners[d] = rank}

(* ISPartitioningToNumbering: rank by rank, in their order.                *)
Numbering(owners) ==
  [d \in DOMAIN owners |->
     Cardinality({e \in DOMAIN owners : owners[e] < owners[d] \/ (owners[e] = owners[d] /\ e < d)})]

(* create: one rank keeps the order of the application.                    *)
Create(owners) ==
  LET petsc == Numbering(owners) IN
  [owners |-> owners,
   app_to_petsc |-> petsc,
   petsc_to_app |-> [i \in DOMAIN owners |-> CHOOSE d \in DOMAIN owners : petsc[d] = i],
   ranges |-> [rank \in {owners[d] : d \in DOMAIN owners} |->
                 LET begin == Cardinality({d \in DOMAIN owners : owners[d] < rank}) IN
                 [begin |-> begin, end |-> begin + Cardinality(OwnedBy(owners, rank))]]]

PetscIndex(part, d) == IF part = NoPartition THEN d ELSE part.app_to_petsc[d]
ApplicationIndex(part, i) == IF part = NoPartition THEN i ELSE part.petsc_to_app[i]

(* The rank whose range a row of the system is in.                         *)
RowOwner(part, i) ==
  IF part = NoPartition THEN 0 ELSE CHOOSE rank \in DOMAIN part.ranges : InRange(i, part.ranges[rank])

(* elementOwner: the rank that owns most of the rows; of equals, the       *)
(* lowest.                                                                 *)
ElementOwner(part, rows) ==
  LET Held(rank) == Cardinality({i \in DOMAIN rows : part.owners[rows[i]] = rank})
      holders == {part.owners[rows[i]] : i \in DOMAIN rows}
  IN CHOOSE rank \in holders :
       \A other \in holders : Held(rank) > Held(other) \/ (Held(rank) = Held(other) /\ rank <= other)

(* MpiContext::elementRange and ownsElement: with a partition, every rank  *)
(* looks at all elements.                                                  *)
ElementRange(part, count, rank, size) ==
  IF part # NoPartition THEN [begin |-> 0, end |-> count] ELSE ContiguousRange(count, rank, size)

OwnsElement(part, ie, count, rows, rank, size) ==
  IF part # NoPartition THEN ElementOwner(part, rows) = rank ELSE OwnsContiguous(ie, count, rank, size)

-----------------------------------------------------------------------------
VARIABLES
  part,     \* the partition, NoPartition before the first setup
  mat,      \* the terms and the identity rows, or NoMatrix
  stash     \* by rank

matrixVars == <<part, mat, stash>>

NoMatrix == <<>>
Wrong == -1
Cleared == [terms |-> {}, diag |-> {}]

(* A sum with the terms of another; one that both hold is spoilt.          *)
Spoilt(t) == [t EXCEPT ![Len(t)] = Wrong]
Plus(terms, others) == terms \cup others \cup {Spoilt(t) : t \in terms \cap others}
PlusAll(f) == FoldFunction(LAMBDA terms, sum : Plus(sum, terms), {}, f)

-----------------------------------------------------------------------------
(* detail::copyToPETSc: every rank writes the rows of its range, in the    *)
(* numbering of the system; copyFromPETSc: every rank gets all of them, in *)
(* that of the application.                                                *)
CopyToPETSc(copies, rows) ==
  [i \in rows |-> copies[RowOwner(part, i)][ApplicationIndex(part, i)]]

CopyFromPETSc(vec) == [d \in DOMAIN vec |-> vec[PetscIndex(part, d)]]

-----------------------------------------------------------------------------
(* resize: zeros for the layout it has, else a matrix with its partition.  *)
Resize(owners) ==
  /\ mat' = Cleared
  /\ IF mat # NoMatrix THEN UNCHANGED <<part, stash>>
     ELSE part' = Create(owners) /\ stash' = [rank \in DOMAIN stash |-> {}]

(* addBlock: the rows of the rank at once, the others when all assemble.   *)
AddBlock(rank, block) ==
  LET own == {t \in block : RowOwner(part, t[1]) = rank} IN
  /\ mat' = [mat EXCEPT !.terms = Plus(@, own)]
  /\ stash' = [stash EXCEPT ![rank] = Plus(@, block \ own)]

(* finalize.                                                               *)
Assembled(m) == [m EXCEPT !.terms = Plus(@, PlusAll(stash))]
Finalize ==
  /\ mat' = Assembled(mat)
  /\ stash' = [rank \in DOMAIN stash |-> {}]

(* zeroRows: the rows become rows of the identity.                         *)
ZeroRows(m, rows) == [terms |-> {t \in m.terms : t[1] \notin rows}, diag |-> m.diag \cup rows]

ReplaceRows(rows) ==
  /\ mat' = ZeroRows(Assembled(mat), {PetscIndex(part, d) : d \in rows})
  /\ stash' = [rank \in DOMAIN stash |-> {}]

(* matvec: a row's products, each a term with the component it meets.      *)
RowTerms(i) == {t \in mat.terms : t[1] = i}
MatVec(copies, rows) ==
  LET x == CopyToPETSc(copies, rows) IN
  CopyFromPETSc([i \in rows |-> [products |-> {<<t, x[t[2]]>> : t \in RowTerms(i)},
                                 diag |-> IF i \in mat.diag THEN {x[i]} ELSE {}]])

(* eliminateColumns: MatZeroRowsColumns moves the products with the        *)
(* prescribed values to the right-hand side and empties rows and columns.  *)
EliminateColumns(constrained, values, rhs, rows) ==
  LET prows == {PetscIndex(part, d) : d \in constrained}
      prescribed == CopyToPETSc(values, rows)
      b == CopyToPETSc(rhs, rows)
      a == Assembled(mat)
  IN [mat |-> [ZeroRows(a, prows) EXCEPT !.terms = {t \in @ : t[2] \notin prows}],
      rhs |-> CopyFromPETSc(
        [i \in rows |->
           IF i \in prows THEN [b[i] EXCEPT !.set = {prescribed[i]}]
           ELSE [b[i] EXCEPT !.moved = {<<t, prescribed[t[2]]>> : t \in {u \in a.terms : u[1] = i /\ u[2] \in prows}}]])]
=============================================================================
