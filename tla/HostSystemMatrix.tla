--------------------------- MODULE HostSystemMatrix ---------------------------
(***************************************************************************)
(* femx::linalg::HostSystemMatrix: the matrix and the cache of what a list *)
(* of constrained rows means in its layout.  The cache is keyed by the     *)
(* layout and the content of the list, and the key is assigned before the  *)
(* rows are validated.                                                     *)
(***************************************************************************)
EXTENDS CsrLayouts

VARIABLES
  layout, vals,   \* mat_: its pattern's layoutId and its values
  cache,          \* constraints_
  rhs,            \* the right-hand side the last call corrected
  pre             \* history: the system before that call, or NoSystem

vars == <<layout, vals, cache, rhs, pre>>

NoSystem == [rows |-> <<>>, bc |-> <<>>, vals |-> <<>>, rhs |-> <<>>]

(* A default-constructed ConstraintCache: layout_id is 0, as the default   *)
(* pattern's.                                                              *)
NoCache ==
  [layout |-> Default, rows |-> <<>>, complete |-> TRUE,
   rowOf |-> <<>>, diag |-> <<>>, cols |-> <<>>]

Init ==
  /\ layout = Default
  /\ vals = Zeros(Default)
  /\ cache = NoCache
  /\ rhs = <<>> /\ pre = NoSystem

(***************************************************************************)
(* ConstraintCache.                                                        *)
(***************************************************************************)
(* The list is compared by its length.  (Mutant.)                          *)
MatchesCount(rows) ==
  cache.layout = layout /\ Len(cache.rows) = Len(rows)

Matches(rows) ==
  cache.layout = layout /\ cache.rows = rows

(* build(): row_to_constraint, diag_entries and, of each constraint, the   *)
(* entries of its column.                                                  *)
Built(rows) ==
  [layout |-> layout, rows |-> rows, complete |-> TRUE,
   rowOf |-> [row \in RowsOf(layout) |->
                IF \E i \in Positions(rows) : rows[i] = row
                THEN CHOOSE i \in Positions(rows) : rows[i] = row
                ELSE 0],
   diag |-> [i \in Positions(rows) |->
               CHOOSE k \in Entries(layout) : Entry[layout][k] = <<rows[i], rows[i]>>],
   cols |-> [i \in Positions(rows) |-> {k \in Entries(layout) : ColOf(layout, k) = rows[i]}]]

(* A build that threw after the key was set.                               *)
Unfinished(rows) ==
  [layout |-> layout, rows |-> rows, complete |-> FALSE,
   rowOf |-> <<>>, diag |-> <<>>, cols |-> <<>>]

(* constraints(rows): whether it returns, and the cache it returns.        *)
Usable(rows) == IF Matches(rows) THEN cache.complete ELSE Constrainable(layout, rows)
Lookup(rows) == IF Matches(rows) THEN cache ELSE Built(rows)

(***************************************************************************)
(* Operations.                                                             *)
(***************************************************************************)
(* The cache stays when the layout changes.  (Mutant.)                     *)
CacheKept(l) == [cache EXCEPT !.layout = l]

(* The cache after the matrix is replaced by one of another layout.        *)
CacheOf(l) == NoCache

(* setup: a new matrix for another layout, else zeros.                     *)
Setup(l) ==
  /\ layout' = l
  /\ vals' = Zeros(l)
  /\ cache' = IF l = layout THEN cache ELSE CacheOf(l)
  /\ rhs' = <<>> /\ pre' = NoSystem

AddElement(e) ==
  /\ e.layout = layout
  /\ vals' = [k \in Entries(layout) |-> vals[k] + e.vals[k]]
  /\ \A k \in Entries(layout) : vals'[k] \in -MaxVal .. MaxVal
  /\ rhs' = <<>> /\ pre' = NoSystem
  /\ UNCHANGED <<layout, cache>>

(* The loop of replaceRows: zeros, then the diagonal entry.                *)
DiagonalRows(c, rows, a, diag) ==
  [k \in Entries(layout) |->
     IF \E i \in Positions(rows) : k = c.diag[i] THEN diag
     ELSE IF \E i \in Positions(rows) : RowOf(layout, k) = rows[i] THEN 0
     ELSE a[k]]

ReplaceRows(rows, diag) ==
  LET c == Lookup(rows) IN
    /\ Usable(rows)
    /\ vals' = DiagonalRows(c, rows, vals, diag)
    /\ cache' = c
    /\ rhs' = <<>> /\ pre' = NoSystem
    /\ UNCHANGED layout

(* The columns are emptied and nothing is corrected.  (Mutant.)            *)
CorrectsNone(c, row) == FALSE

(* Only free rows of the right-hand side are corrected.                    *)
Corrects(c, row) == c.rowOf[row] = 0

ColumnEntries(c, rows, row) ==
  {u \in Positions(rows) \X Entries(layout) :
     RowOf(layout, u[2]) = row /\ u[2] \in c.cols[u[1]]}

(* The loop of eliminateColumns, replaceRows(rows, 1), and the prescribed  *)
(* values in the right-hand side.                                          *)
EliminateColumns(rows, bc, b) ==
  LET c == Lookup(rows) IN
    /\ Usable(rows)
    /\ vals' = DiagonalRows(c, rows,
                            [k \in Entries(layout) |->
                               IF \E i \in Positions(rows) : k \in c.cols[i] THEN 0 ELSE vals[k]],
                            1)
    /\ rhs' = [row \in RowsOf(layout) |->
                 IF \E i \in Positions(rows) : rows[i] = row
                 THEN bc[CHOOSE i \in Positions(rows) : rows[i] = row]
                 ELSE IF Corrects(c, row)
                 THEN b[row] - Contribution(vals, bc, ColumnEntries(c, rows, row))
                 ELSE b[row]]
    /\ cache' = c
    /\ pre' = [rows |-> rows, bc |-> bc, vals |-> vals, rhs |-> b]
    /\ UNCHANGED layout

(* A build that throws: before the key is set, or after.                   *)
Rejected(rows) ==
  /\ ~Matches(rows)
  /\ ~Constrainable(layout, rows)
  /\ cache' = IF Size[layout] = Width[layout] THEN Unfinished(rows) ELSE cache
  /\ rhs' = <<>> /\ pre' = NoSystem
  /\ UNCHANGED <<layout, vals>>

(* A call with the key of an unfinished build: nothing is validated, and   *)
(* what the values become is not defined; three ways they may.             *)
Unchecked(rows) ==
  /\ Matches(rows)
  /\ ~cache.complete
  /\ vals' \in {vals,
                [k \in Entries(layout) |->
                   IF \E i \in Positions(rows) : RowOf(layout, k) = rows[i] THEN 0 ELSE vals[k]],
                Zeros(layout)}
  /\ rhs' = <<>> /\ pre' = NoSystem
  /\ UNCHANGED <<layout, cache>>

Next ==
  \/ \E l \in Layouts \ {Default} : Setup(l)
  \/ \E e \in Elements : AddElement(e)
  \/ \E rows \in RowLists :
       \/ \E diag \in Diags : ReplaceRows(rows, diag)
       \/ \E bc \in Bcs, b \in Sides[layout] : EliminateColumns(rows, bc, b)
       \/ Rejected(rows)
       \/ Unchecked(rows)

Spec == Init /\ [][Next]_vars
-----------------------------------------------------------------------------
(* The eliminated system has exactly the solutions of the system before    *)
(* the call that take the prescribed values at the constrained rows: the   *)
(* free equations are kept, the columns moved to the right-hand side are   *)
(* those of this list in this layout, whatever the cache held.             *)
SameSolutions == pre # NoSystem => KeepsSolutions(layout, vals, rhs, pre)

(* A cache that could be found is what a build of its key would give, also *)
(* after calls that threw and after the layout changed.                    *)
CacheSound ==
  /\ cache.layout \in {Default, layout}
  /\ cache.layout = layout /\ cache.complete =>
       /\ Constrainable(layout, cache.rows)
       /\ DOMAIN cache.rowOf = RowsOf(layout)
       /\ \A i \in Positions(cache.rows) :
            /\ cache.diag[i] \in Entries(layout)
            /\ Entry[layout][cache.diag[i]] = <<cache.rows[i], cache.rows[i]>>
            /\ cache.cols[i] = {k \in Entries(layout) : ColOf(layout, k) = cache.rows[i]}
            /\ cache.rowOf[cache.rows[i]] = i
       /\ \A row \in RowsOf(layout) : cache.rowOf[row] # 0 => cache.rows[cache.rowOf[row]] = row

(* A cache that is found and was not finished belongs to rows that cannot  *)
(* be constrained; one that was finished marks with positions.             *)
CacheKey ==
  /\ layout \in Layouts /\ cache.complete \in BOOLEAN
  /\ cache.layout = layout =>
       IF cache.complete
       THEN \A row \in RowsOf(layout) : cache.rowOf[row] \in Positions(cache.rows) \cup {0}
       ELSE ~Constrainable(layout, cache.rows)

(* Together they are inductive.                                            *)
IInv == CacheSound /\ CacheKey

(* The matrix without a cache.                                             *)
SM == INSTANCE SystemMatrix
Contract == SM!Spec
=============================================================================
