------------------------ MODULE CudaSystemMatrixProofs ------------------------
(***************************************************************************)
(* For all layouts, all lists of rows and all values, as long as callers   *)
(* neither free nor rewrite a vector of rows: the marks of the cache are   *)
(* those of the list passed, and the CUDA matrix does what a matrix        *)
(* without a cache does.                                                   *)
(***************************************************************************)
EXTENDS CudaSystemMatrix, TLAPS

-----------------------------------------------------------------------------
(* The lists and the layouts.                                              *)
LEMMA ListType ==
  ASSUME IInv, NEW at \in {Null} \cup {a \in Addresses : mem[a] # <<>>}
  PROVE  ListAt(at) \in RowLists /\ ListAt(at) \in Seq(Int) /\ 0 \notin Positions(ListAt(at))
  <1>1. ListAt(at) \in RowLists
    BY EmptyAssumption, NullAssumption DEF IInv, Lists, ListAt
  <1>2. ListAt(at) \in Seq(Int)
    BY <1>1, LayoutAssumption
  <1> QED
    BY <1>1, <1>2 DEF Positions

(* An entry of a layout is the pair of its row and its column.             *)
LEMMA EntryType ==
  ASSUME NEW l \in Layouts, NEW k \in Entries(l)
  PROVE  /\ Entry[l][k] = <<RowOf(l, k), ColOf(l, k)>>
         /\ RowOf(l, k) \in RowsOf(l) /\ ColOf(l, k) \in 0 .. Width[l] - 1
  <1>1. Entry[l] \in Seq((0 .. Size[l] - 1) \X (0 .. Width[l] - 1))
    BY LayoutAssumption
  <1>2. Entry[l][k] \in (0 .. Size[l] - 1) \X (0 .. Width[l] - 1)
    BY <1>1 DEF Entries
  <1> QED
    BY <1>2 DEF RowOf, ColOf, RowsOf

(* What a cache has to say of a list in the layout of the matrix.          *)
SoundFor(c, rows) ==
  /\ DOMAIN c.rowOf = RowsOf(layout)
  /\ \A row \in RowsOf(layout) :
       /\ c.rowOf[row] # 0 <=> \E i \in Positions(rows) : rows[i] = row
       /\ c.rowOf[row] # 0 => c.rowOf[row] \in Positions(rows) /\ rows[c.rowOf[row]] = row

(* markConstraintsKernel leaves the marks of the list it was given,        *)
(* whatever the marks were before it.                                      *)
LEMMA MarkedSound ==
  ASSUME IInv, NEW at \in {Null} \cup {a \in Addresses : mem[a] # <<>>}
  PROVE  SoundFor(Marked(at), ListAt(at))
  <1> DEFINE rows == ListAt(at)
             c == Marked(at)
  <1>1. 0 \notin Positions(rows)
    BY ListType
  <1>2. DOMAIN c.rowOf = RowsOf(layout)
    BY DEF Marked
  <1>3. ASSUME NEW row \in RowsOf(layout)
        PROVE  /\ c.rowOf[row] # 0 <=> \E i \in Positions(rows) : rows[i] = row
               /\ c.rowOf[row] # 0 => c.rowOf[row] \in Positions(rows) /\ rows[c.rowOf[row]] = row
    <2>1. c.rowOf[row] = IF \E i \in Positions(rows) : rows[i] = row
                         THEN CHOOSE i \in Positions(rows) : rows[i] = row
                         ELSE 0
      BY DEF Marked
    <2> QED
      BY <1>1, <2>1
  <1> QED
    BY <1>2, <1>3 DEF SoundFor

(* What ensureConstraints leaves, found or marked anew.                    *)
LEMMA EnsuredSound ==
  ASSUME IInv, NEW at \in {Null} \cup {a \in Addresses : mem[a] # <<>>}
  PROVE  /\ SoundFor(Ensured(at), ListAt(at))
         /\ Ensured(at).layout = layout /\ Ensured(at).rows = at
         /\ Ensured(at).count = Len(ListAt(at))
  <1>1. CASE Matches(at)
    <2>1. cache.layout = layout /\ cache.rows = at /\ cache.count = Len(ListAt(at)) /\ Ensured(at) = cache
      BY <1>1 DEF Matches, Ensured
    <2>2. SoundFor(cache, ListAt(at))
      BY <2>1 DEF SoundFor, IInv, Marks
    <2> QED
      BY <2>1, <2>2
  <1>2. CASE ~Matches(at)
    <2>1. Ensured(at) = Marked(at)
      BY <1>2 DEF Ensured
    <2>2. Marked(at).layout = layout /\ Marked(at).rows = at /\ Marked(at).count = Len(ListAt(at))
      BY DEF Marked
    <2> QED
      BY <2>1, <2>2, MarkedSound
  <1> QED
    BY <1>1, <1>2

-----------------------------------------------------------------------------
(* The marks stay those of the list.                                       *)
THEOREM InitIInv == Init => IInv
  <1> SUFFICES ASSUME Init PROVE IInv
    OBVIOUS
  <1>1. /\ layout = Default /\ vals = [k \in Entries(Default) |-> 0] /\ mem = [at \in Addresses |-> <<>>]
        /\ cache.layout = Default /\ cache.rows = Null /\ cache.count = 0 /\ cache.rowOf = <<>>
    BY DEF Init, Zeros, NoCache
  <1>2. RowsOf(Default) = {} /\ DOMAIN <<>> = {} /\ Len(<<>>) = 0 /\ ListAt(Null) = <<>>
    BY LayoutAssumption DEF RowsOf, ListAt
  <1>3. Lists
    BY <1>1, EmptyAssumption, LayoutAssumption DEF Lists
  <1>4. Marks
    BY <1>1, <1>2 DEF Marks
  <1> QED
    BY <1>3, <1>4 DEF IInv

(* A list that is written where no list was leaves the cache as sound as   *)
(* it was: the address it is keyed by is in use.                           *)
LEMMA WriteIInv ==
  ASSUME IInv, ~ListsMove, NEW at \in Addresses, NEW rows \in RowLists, Write(at, rows)
  PROVE  IInv'
  <1>1. /\ mem[at] = <<>> /\ mem' = [mem EXCEPT ![at] = rows]
        /\ UNCHANGED <<layout, vals, cache>>
    BY DEF Write
  <1>2. Lists'
    BY <1>1 DEF IInv, Lists
  <1>3. ListAt(cache.rows)' = ListAt(cache.rows)
    BY <1>1, NullAssumption DEF IInv, Lists, ListAt
  <1>4. Marks'
    BY <1>1, <1>3 DEF IInv, Marks
  <1> QED
    BY <1>2, <1>4 DEF IInv

(* replaceRows, eliminateColumns and assembly change only values and       *)
(* marks, and the marks they leave are those ensureConstraints made for    *)
(* the list.                                                               *)
LEMMA OperationIInv ==
  ASSUME IInv, NEW at \in {Null} \cup {a \in Addresses : mem[a] # <<>>},
         cache' = Ensured(at), UNCHANGED <<layout, mem>>,
         DOMAIN vals' = Entries(layout), vals' = [k \in Entries(layout) |-> vals'[k]]
  PROVE  IInv'
  <1>1. /\ SoundFor(cache', ListAt(at)) /\ cache'.layout = layout /\ cache'.rows = at
        /\ cache'.count = Len(ListAt(at))
    BY EnsuredSound
  <1>2. ListAt(cache.rows)' = ListAt(at)
    BY <1>1 DEF ListAt
  <1>3. Lists'
    BY <1>1 DEF IInv, Lists
  <1>4. Marks'
    BY <1>1, <1>2 DEF Marks, SoundFor
  <1> QED
    BY <1>3, <1>4 DEF IInv

(* No call of the matrix and no new list breaks the invariant, unless      *)
(* lists move.                                                             *)
THEOREM NextIInv == ~ListsMove /\ IInv /\ [Next]_vars => IInv'
  <1> SUFFICES ASSUME ~ListsMove, IInv, [Next]_vars PROVE IInv'
    OBVIOUS
  <1>1. CASE UNCHANGED vars
    BY <1>1 DEF vars, IInv, Lists, Marks, ListAt
  <1>2. ASSUME NEW at \in Addresses, NEW rows \in RowLists, Write(at, rows)
        PROVE  IInv'
    BY <1>2, WriteIInv
  <1>3. ASSUME NEW l \in Layouts \ {Default}, Setup(l)
        PROVE  IInv'
    <2>1. /\ layout' = l /\ vals' = [k \in Entries(l) |-> 0] /\ mem' = mem
          /\ cache' = IF l = layout THEN cache ELSE NoCache
      BY <1>3 DEF Setup, Zeros, CacheOf
    <2>2. Lists'
      BY <2>1 DEF IInv, Lists, NoCache
    <2>3. Marks'
      <3>1. CASE l = layout
        BY <2>1, <3>1 DEF IInv, Marks, ListAt
      <3>2. CASE l # layout
        BY <2>1, <3>2 DEF Marks, NoCache
      <3> QED
        BY <3>1, <3>2
    <2> QED
      BY <2>2, <2>3 DEF IInv
  <1>4. ASSUME NEW e \in Elements, AddElement(e)
        PROVE  IInv'
    BY <1>4 DEF AddElement, IInv, Lists, Marks, ListAt
  <1>5. ASSUME NEW at \in {Null} \cup {a \in Addresses : mem[a] # <<>>},
               \/ \E diag \in Diags : ReplaceRows(at, diag)
               \/ \E bc \in Bcs, b \in Sides[layout] : EliminateColumns(at, bc, b)
        PROVE  IInv'
    <2>1. cache' = Ensured(at) /\ UNCHANGED <<layout, mem>>
      BY <1>5 DEF ReplaceRows, EliminateColumns
    <2>2. DOMAIN vals' = Entries(layout) /\ vals' = [k \in Entries(layout) |-> vals'[k]]
      BY <1>5 DEF ReplaceRows, EliminateColumns, RowsReplaced, IInv, Lists
    <2> QED
      BY <2>1, <2>2, OperationIInv
  <1> QED
    BY <1>1, <1>2, <1>3, <1>4, <1>5 DEF Next

(* So the invariant holds at all times.                                    *)
THEOREM AlwaysIInv ==
  ASSUME ~ListsMove
  PROVE  Spec => []IInv
  <1>1. IInv /\ [Next]_vars => IInv'
    BY NextIInv
  <1> QED
    BY <1>1, InitIInv, PTL DEF Spec

(* Marks that could be found are those of the list now at the address, as  *)
(* long as callers leave their lists alone.                                *)
THEOREM MarksOfListAlways ==
  ASSUME ~ListsMove
  PROVE  Spec => []MarksOfList
  <1>1. IInv => MarksOfList
    BY DEF IInv, Marks, MarksOfList
  <1> QED
    BY <1>1, AlwaysIInv, PTL

-----------------------------------------------------------------------------
(* The matrix without a cache.  What the two modules call by one name.     *)
LEMMA SameNames ==
  /\ \A l : SM!Entries(l) = Entries(l) /\ SM!RowsOf(l) = RowsOf(l) /\ SM!Zeros(l) = Zeros(l)
  /\ \A l, k : SM!RowOf(l, k) = RowOf(l, k) /\ SM!ColOf(l, k) = ColOf(l, k)
  /\ \A rows : SM!Positions(rows) = Positions(rows)
  /\ \A l, rows : SM!Constrainable(l, rows) <=> Constrainable(l, rows)
  /\ SM!NoSystem = NoSystem
  BY DEF SM!Entries, SM!RowsOf, SM!Zeros, SM!RowOf, SM!ColOf, SM!Positions, SM!Constrainable, SM!NoSystem,
         Entries, RowsOf, Zeros, RowOf, ColOf, Positions, Constrainable, NoSystem

(* Both modules compute the same contribution of a column.                 *)
LEMMA SameContribution ==
  ASSUME NEW a, NEW bc, NEW moved
  PROVE  SM!Contribution(a, bc, moved) = Contribution(a, bc, moved)
  BY 
     DEF SM!Contribution, Contribution, SM!MapThenSumSet, MapThenSumSet, SM!MapThenFoldSet,
         MapThenFoldSet

(* Nothing is moved when nothing is constrained.                           *)
LEMMA NoContribution ==
  ASSUME NEW a, NEW bc
  PROVE  Contribution(a, bc, {}) = 0
  <1> DEFINE Sums(f) == f = [s \in SUBSET {} |->
                               IF s = {} THEN 0
                               ELSE LET u == CHOOSE x \in s : TRUE
                                    IN  a[u[2]] * bc[u[1]] + f[s \ {u}]]
             sum == CHOOSE f : Sums(f)
  <1>1. Sums([s \in SUBSET {} |-> 0])
    OBVIOUS
  <1>2. Sums(sum)
    BY <1>1
  <1>3. sum[{}] = 0
    BY <1>2
  <1>4. Contribution(a, bc, {}) = sum[{}]
    BY DEF Contribution, MapThenSumSet, MapThenFoldSet
  <1> QED
    BY <1>3, <1>4

(* replaceConstraintRowsKernel, row by row on the device, replaces the     *)
(* rows the way the matrix without a cache does.                           *)
LEMMA RowsReplacedReplaced ==
  ASSUME IInv, NEW rows, Constrainable(layout, rows), NEW a, NEW diag
  PROVE  RowsReplaced(rows, a, diag) = SM!Replaced(layout, a, rows, diag)
  <1>1. ASSUME NEW k \in Entries(layout), NEW i \in Positions(rows)
        PROVE  Entry[layout][k] = <<rows[i], rows[i]>>
                 <=> RowOf(layout, k) = rows[i] /\ RowOf(layout, k) = ColOf(layout, k)
    BY EntryType DEF IInv, Lists
  <1> QED
    BY <1>1, SameNames DEF RowsReplaced, SM!Replaced

(* Marks that are sound find the columns and the values of the list.       *)
LEMMA ColumnsMarked ==
  ASSUME IInv, NEW rows, Constrainable(layout, rows), NEW c, SoundFor(c, rows)
  PROVE  /\ RowsReplaced(rows, ColumnsEmptied(c, vals), 1) = SM!EliminatedVals(layout, vals, rows)
         /\ \A row : MovedEntries(c, row) = SM!Moved(layout, rows, row)
  <1>1. ASSUME NEW k \in Entries(layout)
        PROVE  ColOf(layout, k) \in RowsOf(layout)
    BY EntryType DEF IInv, Lists, Constrainable, RowsOf
  <1>2. ASSUME NEW k \in Entries(layout)
        PROVE  c.rowOf[ColOf(layout, k)] # 0 <=> \E i \in Positions(rows) : ColOf(layout, k) = rows[i]
    BY <1>1 DEF SoundFor
  <1>3. ASSUME NEW k \in Entries(layout), NEW i \in Positions(rows), ColOf(layout, k) = rows[i]
        PROVE  c.rowOf[ColOf(layout, k)] = i
    <2>1. c.rowOf[rows[i]] \in Positions(rows) /\ rows[c.rowOf[rows[i]]] = rows[i]
      BY <1>1, <1>3 DEF SoundFor
    <2>2. \A j \in Positions(rows) : rows[i] = rows[j] => i = j
      BY DEF Constrainable
    <2> QED
      BY <1>3, <2>1, <2>2
  <1>4. ColumnsEmptied(c, vals)
          = [k \in SM!Entries(layout) |->
               IF \E i \in SM!Positions(rows) : SM!ColOf(layout, k) = rows[i] THEN 0 ELSE vals[k]]
    BY <1>2, SameNames DEF ColumnsEmptied
  <1>5. RowsReplaced(rows, ColumnsEmptied(c, vals), 1) = SM!EliminatedVals(layout, vals, rows)
    BY <1>4, RowsReplacedReplaced DEF SM!EliminatedVals
  <1>6. ASSUME NEW row
        PROVE  MovedEntries(c, row) = SM!Moved(layout, rows, row)
    <2>1. ASSUME NEW u \in MovedEntries(c, row)
          PROVE  u \in SM!Moved(layout, rows, row)
      <3>1. PICK k \in Entries(layout) :
              RowOf(layout, k) = row /\ c.rowOf[ColOf(layout, k)] # 0 /\ u = <<c.rowOf[ColOf(layout, k)], k>>
        BY DEF MovedEntries
      <3>2. PICK i \in Positions(rows) : ColOf(layout, k) = rows[i]
        BY <1>2, <3>1
      <3>3. u = <<i, k>>
        BY <1>3, <3>1, <3>2
      <3> QED
        BY <3>1, <3>2, <3>3, SameNames DEF SM!Moved
    <2>2. ASSUME NEW u \in SM!Moved(layout, rows, row)
          PROVE  u \in MovedEntries(c, row)
      <3>1. PICK i \in Positions(rows), k \in Entries(layout) :
              u = <<i, k>> /\ RowOf(layout, k) = row /\ ColOf(layout, k) = rows[i]
        BY SameNames DEF SM!Moved
      <3>2. c.rowOf[ColOf(layout, k)] = i /\ c.rowOf[ColOf(layout, k)] # 0
        BY <1>2, <1>3, <3>1
      <3> QED
        BY <3>1, <3>2 DEF MovedEntries
    <2> QED
      BY <2>1, <2>2
  <1> QED
    BY <1>5, <1>6

-----------------------------------------------------------------------------
(* Every call is a call of the matrix without a cache, with the list that  *)
(* is at the address.                                                      *)
LEMMA ReplaceRefines ==
  ASSUME IInv, NEW at, NEW diag, ReplaceRows(at, diag)
  PROVE  SM!ReplaceRows(ListAt(at), diag)
  <1>1. Constrainable(layout, ListAt(at))
    BY DEF ReplaceRows, Valid
  <1>2. vals' = SM!Replaced(layout, vals, ListAt(at), diag)
    BY <1>1, RowsReplacedReplaced DEF ReplaceRows
  <1> QED
    BY <1>1, <1>2, SameNames DEF ReplaceRows, SM!ReplaceRows, Nothing

(* eliminateColumns with the marks of its list moves and empties the       *)
(* columns of that list.                                                   *)
LEMMA EliminateRefines ==
  ASSUME IInv, NEW at \in {Null} \cup {a \in Addresses : mem[a] # <<>>},
         NEW bc, NEW b \in Sides[layout], EliminateColumns(at, bc, b)
  PROVE  SM!EliminateColumns(ListAt(at), bc, b)
  <1> DEFINE rows == ListAt(at)
             c == Ensured(at)
  <1>1. Constrainable(layout, rows) /\ SoundFor(c, rows)
    BY EnsuredSound DEF EliminateColumns, Valid
  <1>2. /\ RowsReplaced(rows, ColumnsEmptied(c, vals), 1) = SM!EliminatedVals(layout, vals, rows)
        /\ \A row : MovedEntries(c, row) = SM!Moved(layout, rows, row)
    BY <1>1, ColumnsMarked
  <1>3. CASE rows = <<>>
    <2>1. Positions(rows) = {} /\ \A row : SM!Moved(layout, rows, row) = {}
      BY <1>3, SameNames DEF Positions, SM!Moved
    <2>2. vals' = SM!EliminatedVals(layout, vals, rows)
      <3>1. vals' = vals /\ vals = [k \in Entries(layout) |-> vals[k]]
        BY <1>3 DEF EliminateColumns, IInv, Lists
      <3> QED
        BY <2>1, <3>1, SameNames DEF SM!EliminatedVals, SM!Replaced
    <2>3. \A row \in RowsOf(layout) : b[row] \in Int
      BY LayoutAssumption DEF IInv, Lists, RowsOf
    <2>4. rhs' = SM!EliminatedRhs(layout, vals, rows, bc, b)
      <3>1. rhs' = [row \in RowsOf(layout) |-> b[row]]
        BY <1>3 DEF EliminateColumns
      <3>2. \A row : SM!Contribution(vals, bc, SM!Moved(layout, rows, row)) = 0
        BY <2>1, SameContribution, NoContribution
      <3> QED
        BY <2>1, <2>3, <3>1, <3>2, SameNames DEF SM!EliminatedRhs
    <2> QED
      BY <1>1, <2>2, <2>4, SameNames DEF EliminateColumns, SM!EliminateColumns
  <1>4. CASE rows # <<>>
    <2>1. vals' = SM!EliminatedVals(layout, vals, rows)
      BY <1>2, <1>4 DEF EliminateColumns
    <2>2. ASSUME NEW row \in RowsOf(layout), ~ \E i \in Positions(rows) : rows[i] = row
          PROVE  c.rowOf[row] = 0
      BY <1>1, <2>2 DEF SoundFor
    <2>3. ASSUME NEW row \in RowsOf(layout)
          PROVE  Contribution(vals, bc, MovedEntries(c, row)) = SM!Contribution(vals, bc, SM!Moved(layout, rows, row))
      BY <1>2, SameContribution
    <2>4. rhs' = SM!EliminatedRhs(layout, vals, rows, bc, b)
      BY <1>4, <2>2, <2>3, SameNames DEF EliminateColumns, SM!EliminatedRhs
    <2> QED
      BY <1>1, <2>1, <2>4, SameNames DEF EliminateColumns, SM!EliminateColumns
  <1> QED
    BY <1>3, <1>4

(* A new matrix has the default layout and its zeros in either module.     *)
THEOREM InitRefines == Init => SM!Init
  BY SameNames DEF Init, SM!Init

(* Every call of the device matrix is that call of the matrix without a    *)
(* cache.                                                                  *)
THEOREM NextRefines == IInv /\ [Next]_vars => [SM!Next]_(SM!vars)
  <1> SUFFICES ASSUME IInv, [Next]_vars PROVE [SM!Next]_(SM!vars)
    OBVIOUS
  <1>1. CASE UNCHANGED vars
    BY <1>1 DEF vars, SM!vars
  <1>2. ASSUME NEW at \in Addresses, NEW rows \in RowLists, Write(at, rows)
        PROVE  UNCHANGED SM!vars
    BY <1>2 DEF Write, SM!vars
  <1>3. ASSUME NEW l \in Layouts \ {Default}, Setup(l)
        PROVE  SM!Next
    BY <1>3, SameNames DEF Setup, SM!Setup, SM!Next, Nothing
  <1>4. ASSUME NEW e \in Elements, AddElement(e)
        PROVE  SM!Next
    <2>1. SM!AddElement(e)
      BY <1>4, SameNames DEF AddElement, SM!AddElement, Nothing
    <2> QED
      BY <2>1 DEF SM!Next
  <1>5. ASSUME NEW at \in {Null} \cup {a \in Addresses : mem[a] # <<>>},
               \/ \E diag \in Diags : ReplaceRows(at, diag)
               \/ \E bc \in Bcs, b \in Sides[layout] : EliminateColumns(at, bc, b)
        PROVE  SM!Next
    BY <1>5, ListType, ReplaceRefines, EliminateRefines DEF SM!Next
  <1> QED
    BY <1>1, <1>2, <1>3, <1>4, <1>5 DEF Next

(* The cache of the CUDA matrix is never seen, as long as callers leave    *)
(* their lists alone: every behaviour is one of the matrix without it.     *)
THEOREM Implements ==
  ASSUME ~ListsMove
  PROVE  Spec => Contract
  BY AlwaysIInv, InitRefines, NextRefines, PTL DEF Spec, Contract, SM!Spec

-----------------------------------------------------------------------------
(* An elimination keeps the solutions: proved of the host matrix for any   *)
(* system and any list, and cited here of the calls on the device.         *)
Host == INSTANCE HostSystemMatrixProofs

(* What the two proofs call by one name.                                   *)
LEMMA HostNames ==
  /\ \A l : Host!Entries(l) = Entries(l) /\ Host!RowsOf(l) = RowsOf(l)
  /\ \A rows : Host!Positions(rows) = Positions(rows)
  /\ \A l, rows : Host!Constrainable(l, rows) <=> Constrainable(l, rows)
  BY DEF Host!Entries, Host!RowsOf, Host!RowOf, Host!ColOf, Host!Positions, Host!Constrainable,
         Entries, RowsOf, RowOf, ColOf, Positions, Constrainable

(* What is assumed of the layouts and numbers is assumed of them there.    *)
LEMMA HostAssumptions == Host!LayoutAssumption /\ Host!NumbersAssumption
  BY LayoutAssumption, NumbersAssumption
    DEF Host!LayoutAssumption, Host!NumbersAssumption, Host!Entries, Host!Positions, Entries, Positions

(* The products of rows are the same.                                      *)
LEMMA HostRowTimes ==
  ASSUME NEW l, NEW a, NEW row, NEW x
  PROVE  Host!RowTimes(l, a, row, x) = RowTimes(l, a, row, x)
  BY DEF Host!RowTimes, Host!MapThenSumSet, Host!MapThenFoldSet, Host!Entries, Host!RowOf, Host!ColOf,
         RowTimes, MapThenSumSet, MapThenFoldSet, Entries, RowOf, ColOf

(* So are the solutions that are kept.                                     *)
LEMMA HostKeeps ==
  ASSUME NEW l, NEW a, NEW b, NEW before
  PROVE  Host!KeepsSolutions(l, a, b, before) <=> KeepsSolutions(l, a, b, before)
  BY HostNames, HostRowTimes DEF Host!KeepsSolutions, KeepsSolutions

(* The two matrices refine one abstract elimination.                       *)
LEMMA HostEliminated ==
  ASSUME NEW l, NEW a, NEW rows, NEW bc, NEW b
  PROVE  /\ Host!SM!EliminatedVals(l, a, rows) = SM!EliminatedVals(l, a, rows)
         /\ Host!SM!EliminatedRhs(l, a, rows, bc, b) = SM!EliminatedRhs(l, a, rows, bc, b)
  <1>1. Host!SM!EliminatedVals(l, a, rows) = SM!EliminatedVals(l, a, rows)
    BY DEF Host!SM!EliminatedVals, Host!SM!Replaced, Host!SM!Entries, Host!SM!Positions, Host!SM!ColOf, Host!SM!RowOf,
           SM!EliminatedVals, SM!Replaced, SM!Entries, SM!Positions, SM!ColOf, SM!RowOf
  <1>2. Host!SM!EliminatedRhs(l, a, rows, bc, b) = SM!EliminatedRhs(l, a, rows, bc, b)
    BY DEF Host!SM!EliminatedRhs, Host!SM!Contribution, Host!SM!MapThenSumSet, Host!SM!MapThenFoldSet, Host!SM!Moved,
           Host!SM!RowsOf, Host!SM!Entries, Host!SM!Positions, Host!SM!ColOf, Host!SM!RowOf,
           SM!EliminatedRhs, SM!Contribution, SM!MapThenSumSet, SM!MapThenFoldSet, SM!Moved,
           SM!RowsOf, SM!Entries, SM!Positions, SM!ColOf, SM!RowOf
  <1> QED
    BY <1>1, <1>2

(* An elimination of the matrix without a cache keeps the solutions.       *)
LEMMA AbstractKeeps ==
  ASSUME NEW l \in Layouts, NEW rows \in RowLists, Constrainable(l, rows), NEW bc \in Bcs,
         NEW a \in [Entries(l) -> Int], NEW b \in Sides[l]
  PROVE  KeepsSolutions(l, SM!EliminatedVals(l, a, rows), SM!EliminatedRhs(l, a, rows, bc, b),
                        [rows |-> rows, bc |-> bc, vals |-> a, rhs |-> b])
  <1>1. a \in [Host!Entries(l) -> Int] /\ Host!Constrainable(l, rows)
    BY HostNames
  <1>2. Host!KeepsSolutions(l, Host!SM!EliminatedVals(l, a, rows), Host!SM!EliminatedRhs(l, a, rows, bc, b),
                            [rows |-> rows, bc |-> bc, vals |-> a, rhs |-> b])
    BY <1>1, HostAssumptions, Host!AbstractKeeps
  <1> QED
    BY <1>2, HostKeeps, HostEliminated

(* A call of eliminateColumns leaves a system with the solutions of the    *)
(* one before it, of the list at its address.                              *)
LEMMA EliminateKeeps ==
  ASSUME IInv, vals \in [Entries(layout) -> Int], NEW at \in {Null} \cup {a \in Addresses : mem[a] # <<>>},
         NEW bc \in Bcs, NEW b \in Sides[layout], EliminateColumns(at, bc, b)
  PROVE  SameSolutions'
  <1> DEFINE rows == ListAt(at)
  <1>1. layout \in Layouts /\ rows \in RowLists
    BY ListType DEF IInv, Lists
  <1>2. SM!EliminateColumns(rows, bc, b)
    BY EliminateRefines
  <1>3. /\ Constrainable(layout, rows) /\ layout' = layout
        /\ vals' = SM!EliminatedVals(layout, vals, rows) /\ rhs' = SM!EliminatedRhs(layout, vals, rows, bc, b)
        /\ pre' = [rows |-> rows, bc |-> bc, vals |-> vals, rhs |-> b]
    BY <1>2, SameNames DEF SM!EliminateColumns
  <1> HIDE DEF rows
  <1>4. KeepsSolutions(layout, SM!EliminatedVals(layout, vals, rows), SM!EliminatedRhs(layout, vals, rows, bc, b),
                       [rows |-> rows, bc |-> bc, vals |-> vals, rhs |-> b])
    BY <1>1, <1>3, AbstractKeeps
  <1> QED
    BY <1>3, <1>4 DEF SameSolutions

(* The values of the matrix are numbers, and the last elimination kept the *)
(* solutions.                                                              *)
SolutionsIInv == IInv /\ vals \in [Entries(layout) -> Int] /\ SameSolutions

(* The new matrix has no system before it.                                 *)
THEOREM InitSolutionsIInv == Init => SolutionsIInv
  <1>1. Zeros(Default) \in [Entries(Default) -> Int]
    BY DEF Zeros
  <1> QED
    BY <1>1, InitIInv DEF Init, SolutionsIInv, SameSolutions

(* No call breaks it, as long as lists stay what they were.                *)
THEOREM NextSolutionsIInv == ~ListsMove /\ SolutionsIInv /\ [Next]_vars => SolutionsIInv'
  <1> SUFFICES ASSUME ~ListsMove, SolutionsIInv, [Next]_vars PROVE SolutionsIInv'
    OBVIOUS
  <1>1. IInv /\ vals \in [Entries(layout) -> Int] /\ SameSolutions /\ IInv'
    BY NextIInv DEF SolutionsIInv
  <1> SUFFICES vals' \in [Entries(layout') -> Int] /\ SameSolutions'
    BY <1>1 DEF SolutionsIInv
  <1>2. CASE UNCHANGED vars
    BY <1>1, <1>2 DEF vars, SameSolutions
  <1>3. ASSUME NEW at \in Addresses, NEW rows \in RowLists, Write(at, rows)
        PROVE  vals' \in [Entries(layout') -> Int] /\ SameSolutions'
    BY <1>1, <1>3 DEF Write, SameSolutions
  <1>4. ASSUME NEW l \in Layouts \ {Default}, Setup(l)
        PROVE  vals' \in [Entries(layout') -> Int] /\ SameSolutions'
    BY <1>4 DEF Setup, Zeros, Nothing, SameSolutions
  <1>5. ASSUME NEW e \in Elements, AddElement(e)
        PROVE  vals' \in [Entries(layout') -> Int] /\ SameSolutions'
    <2>1. layout' = layout /\ pre' = NoSystem /\ vals' = [k \in Entries(layout) |-> vals[k] + e.vals[k]]
      BY <1>5 DEF AddElement, Nothing
    <2>2. \A k \in Entries(layout) : e.vals[k] \in Int
      BY <1>5, NumbersAssumption DEF AddElement
    <2>3. \A k \in Entries(layout) : vals[k] + e.vals[k] \in Int
      BY <1>1, <2>2
    <2> QED
      BY <2>1, <2>3 DEF SameSolutions
  <1>6. ASSUME NEW rows, NEW a \in [Entries(layout) -> Int], NEW diag \in Int
        PROVE  RowsReplaced(rows, a, diag) \in [Entries(layout) -> Int]
    BY DEF RowsReplaced
  <1>7. ASSUME NEW at \in {Null} \cup {a \in Addresses : mem[a] # <<>>}, NEW diag \in Diags, ReplaceRows(at, diag)
        PROVE  vals' \in [Entries(layout') -> Int] /\ SameSolutions'
    BY <1>1, <1>6, <1>7, NumbersAssumption DEF ReplaceRows, Nothing, SameSolutions
  <1>8. ASSUME NEW at \in {Null} \cup {a \in Addresses : mem[a] # <<>>}, NEW bc \in Bcs, NEW b \in Sides[layout],
               EliminateColumns(at, bc, b)
        PROVE  vals' \in [Entries(layout') -> Int] /\ SameSolutions'
    <2> DEFINE emptied == ColumnsEmptied(Ensured(at), vals)
    <2>1. emptied \in [Entries(layout) -> Int]
      BY <1>1 DEF ColumnsEmptied
    <2>2. (vals' = vals \/ vals' = RowsReplaced(ListAt(at), emptied, 1)) /\ layout' = layout
      BY <1>8 DEF EliminateColumns
    <2> HIDE DEF emptied
    <2>3. RowsReplaced(ListAt(at), emptied, 1) \in [Entries(layout) -> Int]
      BY <1>6, <2>1
    <2>4. SameSolutions'
      BY <1>1, <1>8, EliminateKeeps
    <2> QED
      BY <1>1, <2>2, <2>3, <2>4
  <1> QED
    BY <1>2, <1>3, <1>4, <1>5, <1>7, <1>8 DEF Next

(* An eliminated system on the device has the solutions of the system      *)
(* before the call that take the prescribed values of the list passed, as  *)
(* long as callers leave their lists alone.                                *)
THEOREM SameSolutionsAlways ==
  ASSUME ~ListsMove
  PROVE  Spec => []SameSolutions
  <1>1. SolutionsIInv /\ [Next]_vars => SolutionsIInv'
    BY NextSolutionsIInv
  <1>2. SolutionsIInv => SameSolutions
    BY DEF SolutionsIInv
  <1> QED
    BY <1>1, <1>2, InitSolutionsIInv, PTL DEF Spec
=============================================================================
