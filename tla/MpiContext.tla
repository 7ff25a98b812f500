------------------------------- MODULE MpiContext -------------------------------
(***************************************************************************)
(* femx::linalg::MpiContext: which of the count elements, numbered from 0, *)
(* a rank of size ranks assembles when no partition of the unknowns says   *)
(* so, and the graph of the unknowns that PETScPartition is made from.  A  *)
(* range is [begin, end).                                                  *)
(***************************************************************************)
EXTENDS Integers

Ranks(size) == 0 .. size - 1

Smaller(a, b) == IF a < b THEN a ELSE b

(* contiguousRange and runtime::partitionRange: the first ranks take one   *)
(* element more.                                                           *)
Begin(count, rank, size) == rank * (count \div size) + Smaller(rank, count % size)
Width(count, rank, size) == (count \div size) + (IF rank < count % size THEN 1 ELSE 0)

ContiguousRange(count, rank, size) ==
  [begin |-> Begin(count, rank, size), end |-> Begin(count, rank, size) + Width(count, rank, size)]

(* ownsElement, of a rank's range.                                         *)
InRange(ie, range) == range.begin <= ie /\ ie < range.end
OwnsContiguous(ie, count, rank, size) == InRange(ie, ContiguousRange(count, rank, size))

(* makeAdjacency: the graph the rows are partitioned with, in the rows of  *)
(* a rank's range (initialOwnership).  A rank reads the whole pattern and  *)
(* takes an entry for the row and for the column, but not the diagonal.    *)
Adjacency(pattern, count, rank, size) ==
  LET held == {i \in 0 .. count - 1 : OwnsContiguous(i, count, rank, size)} IN
  {e \in held \X (0 .. count - 1) : e[1] # e[2] /\ (e \in pattern \/ <<e[2], e[1]>> \in pattern)}
=============================================================================
