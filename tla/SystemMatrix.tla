----------------------------- MODULE SystemMatrix -----------------------------
(***************************************************************************)
(* What femx::linalg::SystemMatrix promises, without any cache: a sparse   *)
(* matrix is prepared for a CSR layout, takes element contributions, and   *)
(* constrained rows are replaced or eliminated.  A matrix is the sequence  *)
(* of its values in CSR order; numbers are integers.                       *)
(***************************************************************************)
EXTENDS CsrLayouts

VARIABLES
  layout,   \* the layout of the matrix
  vals,     \* its values
  rhs,      \* the right-hand side corrected by the last call, if it eliminated
  pre       \* history: the system before that call, or NoSystem

vars == <<layout, vals, rhs, pre>>

NoSystem == [rows |-> <<>>, bc |-> <<>>, vals |-> <<>>, rhs |-> <<>>]

(* The rows become diagonal rows.                                          *)
Replaced(l, a, rows, diag) ==
  [k \in Entries(l) |->
     IF \E i \in Positions(rows) : Entry[l][k] = <<rows[i], rows[i]>> THEN diag
     ELSE IF \E i \in Positions(rows) : RowOf(l, k) = rows[i] THEN 0
     ELSE a[k]]

(* The constrained columns are emptied, what they contributed to a free    *)
(* row goes to the right-hand side, the rows become identity rows.         *)
EliminatedVals(l, a, rows) ==
  Replaced(l,
           [k \in Entries(l) |-> IF \E i \in Positions(rows) : ColOf(l, k) = rows[i] THEN 0 ELSE a[k]],
           rows, 1)

Moved(l, rows, row) ==
  {u \in Positions(rows) \X Entries(l) :
     RowOf(l, u[2]) = row /\ ColOf(l, u[2]) = rows[u[1]]}

EliminatedRhs(l, a, rows, bc, b) ==
  [row \in RowsOf(l) |->
     IF \E i \in Positions(rows) : rows[i] = row
     THEN bc[CHOOSE i \in Positions(rows) : rows[i] = row]
     ELSE b[row] - Contribution(a, bc, Moved(l, rows, row))]

Init ==
  /\ layout = Default
  /\ vals = Zeros(Default)
  /\ rhs = <<>>
  /\ pre = NoSystem

Setup(l) ==
  /\ layout' = l
  /\ vals' = Zeros(l)
  /\ rhs' = <<>> /\ pre' = NoSystem

AddElement(e) ==
  /\ e.layout = layout
  /\ vals' = [k \in Entries(layout) |-> vals[k] + e.vals[k]]
  /\ \A k \in Entries(layout) : vals'[k] \in -MaxVal .. MaxVal
  /\ rhs' = <<>> /\ pre' = NoSystem
  /\ UNCHANGED layout

ReplaceRows(rows, diag) ==
  /\ Constrainable(layout, rows)
  /\ vals' = Replaced(layout, vals, rows, diag)
  /\ rhs' = <<>> /\ pre' = NoSystem
  /\ UNCHANGED layout

EliminateColumns(rows, bc, b) ==
  /\ Constrainable(layout, rows)
  /\ vals' = EliminatedVals(layout, vals, rows)
  /\ rhs' = EliminatedRhs(layout, vals, rows, bc, b)
  /\ pre' = [rows |-> rows, bc |-> bc, vals |-> vals, rhs |-> b]
  /\ UNCHANGED layout

(* A call with rows that cannot be constrained throws or, when it repeats  *)
(* one that threw, may leave any values; the layout stays.                 *)
Misused(rows) ==
  /\ ~Constrainable(layout, rows)
  /\ rhs' = <<>> /\ pre' = NoSystem
  /\ UNCHANGED layout

Next ==
  \/ \E l \in Layouts \ {Default} : Setup(l)
  \/ \E e \in Elements : AddElement(e)
  \/ \E rows \in RowLists :
       \/ \E diag \in Diags : ReplaceRows(rows, diag)
       \/ \E bc \in Bcs, b \in Sides[layout] : EliminateColumns(rows, bc, b)
       \/ Misused(rows)

Spec == Init /\ [][Next]_vars
=============================================================================
