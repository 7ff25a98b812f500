------------------------------ MODULE CsrLayouts ------------------------------
(***************************************************************************)
(* CSR patterns and what callers pass to a system matrix.  A layout        *)
(* identifier (CsrPattern::layoutId) stands for one immutable pattern; a   *)
(* matrix of a layout is the sequence of its values in CSR order.  Numbers *)
(* are integers, rows and columns count from 0 and entries from 1.         *)
(***************************************************************************)
EXTENDS Integers, Sequences, FiniteSetsExt

CONSTANTS
  Layouts,    \* layout identifiers, the default pattern's among them
  Default,    \* the layout identifier of a default-constructed pattern
  Size,       \* the number of rows of a layout
  Width,      \* its number of columns
  Entry,      \* its CSR entries: a sequence of pairs of row and column
  Elements,   \* element contributions: a layout and the values by entry
  RowLists,   \* the lists of constrained rows callers pass
  Bcs,        \* the values they prescribe, by position in the list
  Sides,      \* right-hand sides callers pass, by layout
  Diags,      \* diagonal values callers ask for
  MaxVal,     \* bound: the largest absolute value assembled
  Trial       \* the numbers tried as components of solutions

ASSUME LayoutAssumption ==
  /\ Default \in Layouts
  /\ Size \in [Layouts -> Nat] /\ Width \in [Layouts -> Nat]
  /\ Size[Default] = 0 /\ Width[Default] = 0
  /\ \A l \in Layouts : Entry[l] \in Seq((0 .. Size[l] - 1) \X (0 .. Width[l] - 1))
  /\ RowLists \subseteq Seq(Int)
  /\ \A l \in Layouts : Sides[l] \subseteq [0 .. Size[l] - 1 -> Int]

Entries(l) == DOMAIN Entry[l]
RowOf(l, k) == Entry[l][k][1]
ColOf(l, k) == Entry[l][k][2]
RowsOf(l) == 0 .. Size[l] - 1
Positions(rows) == DOMAIN rows

Zeros(l) == [k \in Entries(l) |-> 0]

(* Numbers are integers, and a prescribed value comes with every row: the  *)
(* calls require vectors of one size.                                      *)
ASSUME NumbersAssumption ==
  /\ \A e \in Elements : e.layout \in Layouts /\ e.vals \in [Entries(e.layout) -> Int]
  /\ \A bc \in Bcs, rows \in RowLists : \A i \in Positions(rows) : bc[i] \in Int
  /\ Diags \subseteq Int /\ Trial \subseteq Int

(* Rows that can be constrained: in range, each once, each with exactly    *)
(* one diagonal entry, in a square matrix.                                 *)
Constrainable(l, rows) ==
  /\ Size[l] = Width[l]
  /\ \A i \in Positions(rows) :
       /\ rows[i] \in RowsOf(l)
       /\ \A j \in Positions(rows) : rows[i] = rows[j] => i = j
       /\ \E k \in Entries(l) : Entry[l][k] = <<rows[i], rows[i]>>
       /\ \A k, n \in Entries(l) :
            Entry[l][k] = <<rows[i], rows[i]>> /\ Entry[l][n] = Entry[l][k] => k = n

(* The product of a row with x.                                            *)
RowTimes(l, a, row, x) ==
  MapThenSumSet(LAMBDA k : a[k] * x[ColOf(l, k)], {k \in Entries(l) : RowOf(l, k) = row})

(* What a set of constrained entries u = <<position, entry>> takes from    *)
(* the right-hand side.                                                    *)
Contribution(a, bc, moved) ==
  MapThenSumSet(LAMBDA u : a[u[2]] * bc[u[1]], moved)

(* a and b have exactly the solutions of the system `before` that take its *)
(* prescribed values at its constrained rows.                              *)
KeepsSolutions(l, a, b, before) ==
  \A x \in [RowsOf(l) -> Trial] :
    (\A row \in RowsOf(l) : RowTimes(l, a, row, x) = b[row])
    <=> (\A row \in RowsOf(l) :
           IF \E i \in Positions(before.rows) : before.rows[i] = row
           THEN \E i \in Positions(before.rows) : before.rows[i] = row /\ x[row] = before.bc[i]
           ELSE RowTimes(l, before.vals, row, x) = before.rhs[row])
=============================================================================
