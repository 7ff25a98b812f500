--------------------------- MODULE CudaSystemMatrix ---------------------------
(***************************************************************************)
(* femx::linalg::CudaSystemMatrix: its constraint cache is keyed by the    *)
(* layout and by the address and length of the caller's device vector of   *)
(* rows, whose content the host does not see.  Device memory is a function *)
(* from addresses to lists.  The kernels of one context run in order on    *)
(* its stream, so a call is one action.                                    *)
(***************************************************************************)
EXTENDS CsrLayouts

CONSTANTS
  Addresses,    \* where device vectors of rows may live
  Null,         \* the address of an empty vector
  ListsMove     \* whether callers free or rewrite vectors of rows

ASSUME NullAssumption == Null \notin Addresses
ASSUME ListsMoveAssumption == ListsMove \in BOOLEAN
ASSUME EmptyAssumption == <<>> \in RowLists

VARIABLES
  layout, vals,   \* mat_
  cache,          \* constraints_
  mem,            \* the lists in device memory; <<>> where there is none
  rhs,            \* the right-hand side the last call corrected
  pre             \* history: the system before that call, or NoSystem

vars == <<layout, vals, cache, mem, rhs, pre>>

NoSystem == [rows |-> <<>>, bc |-> <<>>, vals |-> <<>>, rhs |-> <<>>]
NoCache == [layout |-> Default, rows |-> Null, count |-> 0, rowOf |-> <<>>]
Nothing == rhs' = <<>> /\ pre' = NoSystem

Init ==
  /\ layout = Default
  /\ vals = Zeros(Default)
  /\ cache = NoCache
  /\ mem = [at \in Addresses |-> <<>>]
  /\ rhs = <<>> /\ pre = NoSystem

(* Callers put a list at a free address, or, when lists move, anywhere.    *)
Write(at, rows) ==
  /\ ListsMove \/ mem[at] = <<>>
  /\ mem' = [mem EXCEPT ![at] = rows]
  /\ UNCHANGED <<layout, vals, cache, rhs, pre>>

(***************************************************************************)
(* ensureConstraints.                                                      *)
(***************************************************************************)
ListAt(at) == IF at = Null THEN <<>> ELSE mem[at]

(* The address alone is the key.  (Mutant.)                                *)
MatchesAddress(at) == cache.rows = at /\ cache.layout # Default

Matches(at) ==
  cache.layout = layout /\ cache.rows = at /\ cache.count = Len(ListAt(at))

Marked(at) ==
  [layout |-> layout, rows |-> at, count |-> Len(ListAt(at)),
   rowOf |-> [row \in RowsOf(layout) |->
                IF \E i \in Positions(ListAt(at)) : ListAt(at)[i] = row
                THEN CHOOSE i \in Positions(ListAt(at)) : ListAt(at)[i] = row
                ELSE 0]]

Ensured(at) == IF Matches(at) THEN cache ELSE Marked(at)

(***************************************************************************)
(* Operations.                                                             *)
(***************************************************************************)
(* The cache stays when the layout changes.  (Mutant.)                     *)
CacheKept(l) == [cache EXCEPT !.layout = l]

CacheOf(l) == NoCache

Setup(l) ==
  /\ layout' = l
  /\ vals' = Zeros(l)
  /\ cache' = IF l = layout THEN cache ELSE CacheOf(l)
  /\ Nothing
  /\ UNCHANGED mem

(* What the assembly kernels add through assemblyView.                     *)
AddElement(e) ==
  /\ e.layout = layout
  /\ vals' = [k \in Entries(layout) |-> vals[k] + e.vals[k]]
  /\ \A k \in Entries(layout) : vals'[k] \in -MaxVal .. MaxVal
  /\ Nothing
  /\ UNCHANGED <<layout, cache, mem>>

(* replaceConstraintRowsKernel: it reads the list, not the cache.          *)
RowsReplaced(rows, a, diag) ==
  [k \in Entries(layout) |->
     IF \E i \in Positions(rows) : RowOf(layout, k) = rows[i]
     THEN IF RowOf(layout, k) = ColOf(layout, k) THEN diag ELSE 0
     ELSE a[k]]

(* eliminateConstraintColumnsKernel: it reads the cache.                   *)
ColumnsEmptied(c, a) ==
  [k \in Entries(layout) |-> IF c.rowOf[ColOf(layout, k)] # 0 THEN 0 ELSE a[k]]

(* The prescribed values are taken in the order of the rows.  (Mutant.)    *)
Unordered(c, row) ==
  {<<1, k>> : k \in {n \in Entries(layout) :
     RowOf(layout, n) = row /\ c.rowOf[ColOf(layout, n)] # 0}}

(* The constrained entries of a row, with the position of the value.       *)
MovedEntries(c, row) ==
  {<<c.rowOf[ColOf(layout, k)], k>> : k \in {n \in Entries(layout) :
     RowOf(layout, n) = row /\ c.rowOf[ColOf(layout, n)] # 0}}

Valid(rows) == Constrainable(layout, rows)

ReplaceRows(at, diag) ==
  /\ Valid(ListAt(at))
  /\ cache' = Ensured(at)
  /\ vals' = RowsReplaced(ListAt(at), vals, diag)
  /\ Nothing
  /\ UNCHANGED <<layout, mem>>

EliminateColumns(at, bc, b) ==
  LET rows == ListAt(at)
      c == Ensured(at) IN
  /\ Valid(rows)
  /\ cache' = c
  /\ vals' = IF rows = <<>> THEN vals ELSE RowsReplaced(rows, ColumnsEmptied(c, vals), 1)
  /\ rhs' = [row \in RowsOf(layout) |->
               IF rows = <<>> THEN b[row]
               ELSE IF \E i \in Positions(rows) : rows[i] = row
               THEN bc[CHOOSE i \in Positions(rows) : rows[i] = row]
               ELSE IF c.rowOf[row] = 0
               THEN b[row] - Contribution(vals, bc, MovedEntries(c, row))
               ELSE b[row]]
  /\ pre' = [rows |-> rows, bc |-> bc, vals |-> vals, rhs |-> b]
  /\ UNCHANGED <<layout, mem>>

Next ==
  \/ \E at \in Addresses, rows \in RowLists : Write(at, rows)
  \/ \E l \in Layouts \ {Default} : Setup(l)
  \/ \E e \in Elements : AddElement(e)
  \/ \E at \in {Null} \cup {a \in Addresses : mem[a] # <<>>} :
       \/ \E diag \in Diags : ReplaceRows(at, diag)
       \/ \E bc \in Bcs, b \in Sides[layout] : EliminateColumns(at, bc, b)

Spec == Init /\ [][Next]_vars
-----------------------------------------------------------------------------
(* As for the host: the free equations are kept and the prescribed values  *)
(* are those of the list the caller passed.                                *)
SameSolutions == pre # NoSystem => KeepsSolutions(layout, vals, rhs, pre)

(* Marks that could be found are those of the list now at the address.     *)
MarksOfList ==
  cache.layout # Default /\ cache.count = Len(ListAt(cache.rows)) =>
    /\ cache.layout = layout
    /\ DOMAIN cache.rowOf = RowsOf(layout)
    /\ \A row \in RowsOf(layout) :
         cache.rowOf[row] # 0 <=> \E i \in Positions(ListAt(cache.rows)) : ListAt(cache.rows)[i] = row

(* What makes it inductive when lists stay where they are: the cache is    *)
(* that of a vector which is still there, and its marks are the positions  *)
(* of the rows in its list.                                                *)
Lists ==
  /\ layout \in Layouts
  /\ DOMAIN vals = Entries(layout) /\ vals = [k \in Entries(layout) |-> vals[k]]
  /\ mem \in [Addresses -> RowLists]
  /\ cache.rows \in {Null} \cup {at \in Addresses : mem[at] # <<>>}
Marks ==
  /\ cache.layout \in {Default, layout}
  /\ cache.layout = layout =>
       /\ cache.count = Len(ListAt(cache.rows))
       /\ DOMAIN cache.rowOf = RowsOf(layout)
       /\ \A row \in RowsOf(layout) :
            /\ cache.rowOf[row] # 0 <=> \E i \in Positions(ListAt(cache.rows)) : ListAt(cache.rows)[i] = row
            /\ cache.rowOf[row] # 0 =>
                 /\ cache.rowOf[row] \in Positions(ListAt(cache.rows))
                 /\ ListAt(cache.rows)[cache.rowOf[row]] = row
IInv == Lists /\ Marks

(* The matrix without a cache.                                             *)
SM == INSTANCE SystemMatrix
Contract == SM!Spec

(* What the comment on SystemMatrix::eliminateColumns says: the columns of *)
(* the rows passed are eliminated and the right-hand side is corrected.    *)
(* When a list is rewritten in place, or freed and another allocated at    *)
(* its address, the columns of the old list are.                           *)
EliminatesTheseRows == SameSolutions
=============================================================================
