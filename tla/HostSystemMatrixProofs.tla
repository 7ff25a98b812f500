------------------------ MODULE HostSystemMatrixProofs ------------------------
(***************************************************************************)
(* For all layouts, all lists of rows and all values: the cache of the     *)
(* host matrix never changes what the matrix does, and an elimination      *)
(* keeps the solutions.                                                    *)
(***************************************************************************)
EXTENDS HostSystemMatrix, FiniteSetTheorems, SequenceTheorems, WellFoundedInduction, TLAPS

-----------------------------------------------------------------------------
(* The cache.                                                              *)
(* What a finished cache of a list of rows has to say in a layout.         *)
SoundFor(c, rows) ==
  /\ Constrainable(layout, rows)
  /\ DOMAIN c.rowOf = RowsOf(layout)
  /\ \A i \in Positions(rows) :
       /\ c.diag[i] \in Entries(layout)
       /\ Entry[layout][c.diag[i]] = <<rows[i], rows[i]>>
       /\ c.cols[i] = {k \in Entries(layout) : ColOf(layout, k) = rows[i]}
       /\ c.rowOf[rows[i]] = i
  /\ \A row \in RowsOf(layout) :
       /\ c.rowOf[row] \in Positions(rows) \cup {0}
       /\ c.rowOf[row] # 0 => rows[c.rowOf[row]] = row

(* A complete cache for the pattern of the matrix is sound for its own     *)
(* rows.                                                                   *)
LEMMA FoundSound ==
  ASSUME IInv, cache.layout = layout, cache.complete
  PROVE  SoundFor(cache, cache.rows)
  BY DEF IInv, CacheSound, CacheKey, SoundFor

(* A build gives what it should.                                           *)
LEMMA BuiltSound ==
  ASSUME NEW rows, Constrainable(layout, rows), 0 \notin Positions(rows)
  PROVE  SoundFor(Built(rows), rows)
  <1> DEFINE c == Built(rows)
  <1>1. ASSUME NEW i \in Positions(rows)
        PROVE  /\ c.diag[i] \in Entries(layout) /\ Entry[layout][c.diag[i]] = <<rows[i], rows[i]>>
               /\ c.cols[i] = {k \in Entries(layout) : ColOf(layout, k) = rows[i]}
               /\ c.rowOf[rows[i]] = i
    <2>1. \E k \in Entries(layout) : Entry[layout][k] = <<rows[i], rows[i]>>
      BY DEF Constrainable
    <2>2. c.diag[i] = CHOOSE k \in Entries(layout) : Entry[layout][k] = <<rows[i], rows[i]>>
      BY DEF Built
    <2>3. c.cols[i] = {k \in Entries(layout) : ColOf(layout, k) = rows[i]}
      BY DEF Built
    <2>4. rows[i] \in RowsOf(layout) /\ \A j \in Positions(rows) : rows[i] = rows[j] => i = j
      BY DEF Constrainable
    <2>5. c.rowOf[rows[i]] = CHOOSE j \in Positions(rows) : rows[j] = rows[i]
      BY <2>4 DEF Built
    <2> QED
      BY <2>1, <2>2, <2>3, <2>4, <2>5
  <1>2. DOMAIN c.rowOf = RowsOf(layout)
    BY DEF Built
  <1>3. ASSUME NEW row \in RowsOf(layout)
        PROVE  /\ c.rowOf[row] \in Positions(rows) \cup {0}
               /\ c.rowOf[row] # 0 => rows[c.rowOf[row]] = row
    <2>1. c.rowOf[row] = IF \E i \in Positions(rows) : rows[i] = row
                         THEN CHOOSE i \in Positions(rows) : rows[i] = row
                         ELSE 0
      BY DEF Built
    <2> QED
      BY <2>1
  <1> QED
    BY <1>1, <1>2, <1>3 DEF SoundFor

(* Positions in a list start at one, so that zero marks a row that is not  *)
(* constrained.                                                            *)
LEMMA PositionsNotZero ==
  ASSUME NEW rows \in RowLists
  PROVE  0 \notin Positions(rows)
  <1>1. rows \in Seq(Int)
    BY LayoutAssumption
  <1> QED
    BY <1>1 DEF Positions

(* What constraints(rows) returns, found or built.                         *)
LEMMA LookupSound ==
  ASSUME IInv, NEW rows \in RowLists, Usable(rows)
  PROVE  /\ SoundFor(Lookup(rows), rows)
         /\ Lookup(rows).layout = layout /\ Lookup(rows).rows = rows /\ Lookup(rows).complete = TRUE
  <1>1. CASE Matches(rows)
    <2>1. cache.layout = layout /\ cache.rows = rows /\ cache.complete = TRUE /\ Lookup(rows) = cache
      BY <1>1 DEF Matches, Usable, Lookup, IInv, CacheKey
    <2> QED
      BY <2>1, FoundSound
  <1>2. CASE ~Matches(rows)
    <2>1. Constrainable(layout, rows) /\ Lookup(rows) = Built(rows)
      BY <1>2 DEF Usable, Lookup
    <2>2. SoundFor(Built(rows), rows)
      BY <2>1, BuiltSound, PositionsNotZero
    <2>3. Built(rows).layout = layout /\ Built(rows).rows = rows /\ Built(rows).complete = TRUE
      BY DEF Built
    <2> QED
      BY <2>1, <2>2, <2>3
  <1> QED
    BY <1>1, <1>2

(* A call that keeps the layout and leaves a sound cache, or none that can *)
(* be used.                                                                *)
LEMMA SoundIInv ==
  ASSUME IInv, layout' = layout,
         \/ cache' = cache
         \/ /\ cache'.layout = layout /\ cache'.complete = TRUE
            /\ SoundFor(cache', cache'.rows)
         \/ /\ cache'.layout = layout /\ cache'.complete = FALSE
            /\ ~Constrainable(layout, cache'.rows)
  PROVE  IInv'
  <1>1. CASE cache' = cache
    BY <1>1 DEF IInv, CacheSound, CacheKey
  <1>2. CASE cache'.layout = layout /\ cache'.complete = TRUE /\ SoundFor(cache', cache'.rows)
    BY <1>2 DEF IInv, CacheSound, CacheKey, SoundFor
  <1>3. CASE cache'.layout = layout /\ cache'.complete = FALSE /\ ~Constrainable(layout, cache'.rows)
    BY <1>3 DEF IInv, CacheSound, CacheKey
  <1> QED
    BY <1>1, <1>2, <1>3

-----------------------------------------------------------------------------
(* A cache that is found is right, from the start and after every call.    *)
THEOREM InitIInv == Init => IInv
  <1> SUFFICES ASSUME Init PROVE IInv
    OBVIOUS
  <1>1. layout = Default /\ cache = NoCache
    BY DEF Init
  <1>2. RowsOf(Default) = {} /\ Positions(<<>>) = {}
    BY LayoutAssumption DEF RowsOf, Positions
  <1>3. Default \in Layouts /\ Constrainable(Default, <<>>)
    BY <1>2, LayoutAssumption DEF Constrainable
  <1>4. DOMAIN <<>> = {}
    OBVIOUS
  <1> QED
    BY <1>1, <1>2, <1>3, <1>4 DEF IInv, CacheSound, CacheKey, NoCache

(* No call breaks the invariant: a build, rejected or not, leaves a cache  *)
(* that cannot be found or is sound, and setup takes the cache away with   *)
(* its pattern.                                                            *)
THEOREM NextIInv == IInv /\ [Next]_vars => IInv'
  <1> SUFFICES ASSUME IInv, [Next]_vars PROVE IInv'
    OBVIOUS
  <1>1. CASE UNCHANGED vars
    BY <1>1, SoundIInv DEF vars
  <1>2. ASSUME NEW l \in Layouts \ {Default}, Setup(l)
        PROVE  IInv'
    <2>1. CASE l = layout
      BY <1>2, <2>1, SoundIInv DEF Setup
    <2>2. CASE l # layout
      <3>1. layout' = l /\ cache' = NoCache
        BY <1>2, <2>2 DEF Setup, CacheOf
      <3>2. cache'.layout = Default /\ cache'.complete = TRUE
        BY <3>1 DEF NoCache
      <3> QED
        BY <3>1, <3>2 DEF IInv, CacheSound, CacheKey
    <2> QED
      BY <2>1, <2>2
  <1>3. ASSUME NEW e \in Elements, AddElement(e)
        PROVE  IInv'
    BY <1>3, SoundIInv DEF AddElement
  <1>4. ASSUME NEW rows \in RowLists,
               \/ \E diag \in Diags : ReplaceRows(rows, diag)
               \/ \E bc \in Bcs, b \in Sides[layout] : EliminateColumns(rows, bc, b)
        PROVE  IInv'
    <2>1. Usable(rows) /\ cache' = Lookup(rows) /\ layout' = layout
      BY <1>4 DEF ReplaceRows, EliminateColumns
    <2>2. /\ SoundFor(Lookup(rows), rows)
          /\ Lookup(rows).layout = layout /\ Lookup(rows).rows = rows /\ Lookup(rows).complete = TRUE
      BY <2>1, LookupSound
    <2>3. SoundFor(cache', cache'.rows) /\ cache'.layout = layout /\ cache'.complete = TRUE
      BY <2>1, <2>2
    <2> QED
      BY <2>1, <2>3 DEF SoundFor, IInv, CacheSound, CacheKey
  <1>5. ASSUME NEW rows \in RowLists, Rejected(rows) \/ Unchecked(rows)
        PROVE  IInv'
    <2>1. layout' = layout
          /\ (cache' = cache \/ (cache' = Unfinished(rows) /\ ~Constrainable(layout, rows)))
      BY <1>5 DEF Rejected, Unchecked
    <2>2. Unfinished(rows).layout = layout /\ Unfinished(rows).rows = rows /\ Unfinished(rows).complete = FALSE
      BY DEF Unfinished
    <2>3. CASE cache' = cache
      BY <2>1, <2>3, SoundIInv
    <2>4. CASE cache' = Unfinished(rows) /\ ~Constrainable(layout, rows)
      BY <2>1, <2>2, <2>4 DEF IInv, CacheSound, CacheKey
    <2> QED
      BY <2>1, <2>3, <2>4
  <1> QED
    BY <1>1, <1>2, <1>3, <1>4, <1>5 DEF Next

(* So the invariant holds at all times.                                    *)
THEOREM AlwaysIInv == Spec => []IInv
  BY InitIInv, NextIInv, PTL DEF Spec

(* A cache that could be found is what a build of its key would give.      *)
THEOREM CacheSoundAlways == Spec => []CacheSound
  BY AlwaysIInv, PTL DEF IInv

-----------------------------------------------------------------------------
(* The matrix without a cache.  What the two modules call by one name.     *)
LEMMA SameNames ==
  /\ \A l : SM!Entries(l) = Entries(l) /\ SM!RowsOf(l) = RowsOf(l) /\ SM!Zeros(l) = Zeros(l)
  /\ \A l, k : SM!RowOf(l, k) = RowOf(l, k) /\ SM!ColOf(l, k) = ColOf(l, k)
  /\ \A rows : SM!Positions(rows) = Positions(rows)
  /\ \A l, rows : SM!Constrainable(l, rows) <=> Constrainable(l, rows)
  /\ SM!NoSystem = NoSystem
  BY DEF SM!Entries, SM!RowsOf, SM!Zeros, SM!RowOf, SM!ColOf, SM!Positions, SM!Constrainable, SM!NoSystem,
         Entries, RowsOf, Zeros, RowOf, ColOf, Positions, Constrainable, NoSystem

(* Both modules compute the same contribution of a column.                 *)
LEMMA SameContribution ==
  ASSUME NEW a, NEW bc, NEW moved
  PROVE  SM!Contribution(a, bc, moved) = Contribution(a, bc, moved)
  BY 
     DEF SM!Contribution, Contribution, SM!MapThenSumSet, MapThenSumSet, SM!MapThenFoldSet,
         MapThenFoldSet

(* The entries a sound cache names are the entries that were meant.        *)
LEMMA DiagonalRowsReplaced ==
  ASSUME NEW c, NEW rows, SoundFor(c, rows), NEW a, NEW diag
  PROVE  DiagonalRows(c, rows, a, diag) = SM!Replaced(layout, a, rows, diag)
  <1>1. ASSUME NEW k \in Entries(layout), NEW i \in Positions(rows)
        PROVE  k = c.diag[i] <=> Entry[layout][k] = <<rows[i], rows[i]>>
    <2>1. c.diag[i] \in Entries(layout) /\ Entry[layout][c.diag[i]] = <<rows[i], rows[i]>>
      BY DEF SoundFor
    <2>2. Constrainable(layout, rows)
      BY DEF SoundFor
    <2>3. \A n \in Entries(layout) : Entry[layout][k] = <<rows[i], rows[i]>> /\ Entry[layout][n] = Entry[layout][k] => k = n
      BY <2>2, Zenon DEF Constrainable
    <2> QED
      BY <2>1, <2>3
  <1> QED
    BY <1>1, SameNames DEF DiagonalRows, SM!Replaced

(* With a sound cache the entries eliminateColumns empties, and those      *)
(* whose contribution it moves, are the ones a search of the pattern       *)
(* finds.                                                                  *)
LEMMA ColumnsEliminated ==
  ASSUME NEW c, NEW rows, SoundFor(c, rows)
  PROVE  /\ DiagonalRows(c, rows,
                         [k \in Entries(layout) |->
                            IF \E i \in Positions(rows) : k \in c.cols[i] THEN 0 ELSE vals[k]],
                         1)
              = SM!EliminatedVals(layout, vals, rows)
         /\ \A row : ColumnEntries(c, rows, row) = SM!Moved(layout, rows, row)
  <1>1. \A i \in Positions(rows) : c.cols[i] = {k \in Entries(layout) : ColOf(layout, k) = rows[i]}
    BY DEF SoundFor
  <1>2. [k \in Entries(layout) |-> IF \E i \in Positions(rows) : k \in c.cols[i] THEN 0 ELSE vals[k]]
          = [k \in SM!Entries(layout) |->
               IF \E i \in SM!Positions(rows) : SM!ColOf(layout, k) = rows[i] THEN 0 ELSE vals[k]]
    BY <1>1, SameNames
  <1>3. \A row : ColumnEntries(c, rows, row) = SM!Moved(layout, rows, row)
    BY <1>1, SameNames DEF ColumnEntries, SM!Moved
  <1> QED
    BY <1>2, <1>3, DiagonalRowsReplaced DEF SM!EliminatedVals

(* A row is corrected when it is not one of the list.                      *)
LEMMA CorrectsFree ==
  ASSUME NEW c, NEW rows, SoundFor(c, rows), 0 \notin Positions(rows), NEW row \in RowsOf(layout),
         ~ \E i \in Positions(rows) : rows[i] = row
  PROVE  Corrects(c, row)
  BY DEF SoundFor, Corrects

-----------------------------------------------------------------------------
(* Every call is a call of the matrix without a cache.                     *)
LEMMA ReplaceRefines ==
  ASSUME IInv, NEW rows \in RowLists, NEW diag, ReplaceRows(rows, diag)
  PROVE  SM!ReplaceRows(rows, diag)
  <1>1. SoundFor(Lookup(rows), rows)
    BY LookupSound DEF ReplaceRows
  <1>2. Constrainable(layout, rows)
    BY <1>1 DEF SoundFor
  <1>3. vals' = SM!Replaced(layout, vals, rows, diag)
    BY <1>1, DiagonalRowsReplaced DEF ReplaceRows
  <1> QED
    BY <1>2, <1>3, SameNames DEF ReplaceRows, SM!ReplaceRows

(* eliminateColumns with its cache does what the matrix without one does,  *)
(* whether the cache was found or built.                                   *)
LEMMA EliminateRefines ==
  ASSUME IInv, NEW rows \in RowLists, NEW bc, NEW b, EliminateColumns(rows, bc, b)
  PROVE  SM!EliminateColumns(rows, bc, b)
  <1> DEFINE c == Lookup(rows)
  <1>1. SoundFor(c, rows)
    BY LookupSound DEF EliminateColumns
  <1>2. Constrainable(layout, rows)
    BY <1>1 DEF SoundFor
  <1>3. vals' = SM!EliminatedVals(layout, vals, rows)
    BY <1>1, ColumnsEliminated DEF EliminateColumns
  <1>4. ASSUME NEW row \in RowsOf(layout)
        PROVE  (IF Corrects(c, row) THEN b[row] - Contribution(vals, bc, ColumnEntries(c, rows, row)) ELSE b[row])
                 = b[row] - SM!Contribution(vals, bc, SM!Moved(layout, rows, row))
               \/ \E i \in Positions(rows) : rows[i] = row
    BY <1>1, ColumnsEliminated, CorrectsFree, PositionsNotZero, SameContribution
  <1>5. rhs' = SM!EliminatedRhs(layout, vals, rows, bc, b)
    BY <1>4, SameNames DEF EliminateColumns, SM!EliminatedRhs
  <1> QED
    BY <1>2, <1>3, <1>5, SameNames DEF EliminateColumns, SM!EliminateColumns

(* A call that throws, and one that repeats it.                            *)
LEMMA MisuseRefines ==
  ASSUME IInv, NEW rows, Rejected(rows) \/ Unchecked(rows)
  PROVE  SM!Misused(rows)
  <1>1. ~Constrainable(layout, rows)
    BY DEF Rejected, Unchecked, Matches, IInv, CacheKey
  <1> QED
    BY <1>1, SameNames DEF Rejected, Unchecked, SM!Misused

(* A new matrix has the default layout and its zeros in either module.     *)
THEOREM InitRefines == Init => SM!Init
  BY SameNames DEF Init, SM!Init

(* Every call of the Host matrix is that call of the matrix without a      *)
(* cache.                                                                  *)
THEOREM NextRefines == IInv /\ [Next]_vars => [SM!Next]_(SM!vars)
  <1> SUFFICES ASSUME IInv, [Next]_vars PROVE [SM!Next]_(SM!vars)
    OBVIOUS
  <1>1. CASE UNCHANGED vars
    BY <1>1 DEF vars, SM!vars
  <1>2. ASSUME NEW l \in Layouts \ {Default}, Setup(l)
        PROVE  SM!Next
    BY <1>2, SameNames DEF Setup, SM!Setup, SM!Next
  <1>3. ASSUME NEW e \in Elements, AddElement(e)
        PROVE  SM!Next
    <2>1. SM!AddElement(e)
      BY <1>3, SameNames DEF AddElement, SM!AddElement
    <2> QED
      BY <2>1 DEF SM!Next
  <1>4. ASSUME NEW rows \in RowLists, NEW diag \in Diags, ReplaceRows(rows, diag)
        PROVE  SM!Next
    BY <1>4, ReplaceRefines DEF SM!Next
  <1>5. ASSUME NEW rows \in RowLists, NEW bc \in Bcs, NEW b \in Sides[layout], EliminateColumns(rows, bc, b)
        PROVE  SM!Next
    BY <1>5, EliminateRefines DEF SM!Next
  <1>6. ASSUME NEW rows \in RowLists, Rejected(rows) \/ Unchecked(rows)
        PROVE  SM!Next
    BY <1>6, MisuseRefines DEF SM!Next
  <1> QED
    BY <1>1, <1>2, <1>3, <1>4, <1>5, <1>6 DEF Next

(* The cache of the host matrix is never seen: every behaviour of it is    *)
(* one of the matrix without a cache.                                      *)
THEOREM Implements == Spec => Contract
  BY AlwaysIInv, InitRefines, NextRefines, PTL DEF Spec, Contract, SM!Spec

-----------------------------------------------------------------------------
(* Sums over finite sets.                                                  *)
(* Induction over the numbers, of a set instead of a predicate.            *)
LEMMA NatSetInduction ==
  ASSUME NEW T, 0 \in T, \A n \in Nat : n \in T => n + 1 \in T
  PROVE  Nat \subseteq T
  <1> DEFINE R == OpToRel(<, Nat)
             F == Nat \ T
  <1>1. IsWellFoundedOn(R, Nat)
    BY NatLessThanWellFounded
  <1>2. \A x, y \in Nat : <<x, y>> \in R <=> x < y
    BY DEF OpToRel
  <1> HIDE DEF R
  <1>3. CASE F # {}
    <2>1. PICK x \in F : \A y \in F : <<y, x>> \notin R
      BY <1>1, <1>3, WFMin
    <2>2. x \in Nat /\ x # 0 /\ x - 1 \in Nat /\ x - 1 < x /\ (x - 1) + 1 = x
      BY <2>1
    <2>3. <<x - 1, x>> \in R
      BY <1>2, <2>2
    <2>4. x - 1 \in T
      BY <2>1, <2>2, <2>3
    <2> QED
      BY <2>1, <2>2, <2>4
  <1> QED
    BY <1>3

(* The sum over a finite set, of a function instead of an operator.        *)
AnyOf(s) == CHOOSE x \in s : TRUE
SumStep(F, h, s) == IF s = {} THEN 0 ELSE F[AnyOf(s)] + h[s \ {AnyOf(s)}]
IsSum(F, h, S) == \A s \in SUBSET S : h[s] = SumStep(F, h, s)
SumOver(F, S) == (CHOOSE h : IsSum(F, h, S))[S]

(* The subsets of at most k elements.                                      *)
UpTo(S, k) == {u \in SUBSET S : Cardinality(u) <= k}

(* Taking the chosen element leaves a smaller subset.                      *)
LEMMA OneLess ==
  ASSUME NEW S, IsFiniteSet(S), NEW s \in SUBSET S, s # {}
  PROVE  /\ AnyOf(s) \in s /\ s \ {AnyOf(s)} \in SUBSET S
         /\ Cardinality(s) \in Nat /\ Cardinality(s \ {AnyOf(s)}) = Cardinality(s) - 1
         /\ Cardinality(s) # 0
  <1>1. AnyOf(s) \in s
    BY DEF AnyOf
  <1>2. IsFiniteSet(s)
    BY FS_Subset
  <1>3. Cardinality(s) \in Nat /\ Cardinality(s) # 0
    BY <1>2, FS_CardinalityType, FS_EmptySet
  <1>4. Cardinality(s \ {AnyOf(s)}) = Cardinality(s) - 1
    BY <1>1, <1>2, FS_RemoveElement
  <1> QED
    BY <1>1, <1>3, <1>4

(* Taking any element leaves a smaller subset.                             *)
LEMMA WithoutOne ==
  ASSUME NEW S, IsFiniteSet(S), NEW s \in SUBSET S, NEW e \in s
  PROVE  s \ {e} \in SUBSET S /\ Cardinality(s) \in Nat /\ Cardinality(s \ {e}) = Cardinality(s) - 1
  <1>1. IsFiniteSet(s)
    BY FS_Subset
  <1>2. Cardinality(s) \in Nat /\ Cardinality(s \ {e}) = Cardinality(s) - 1
    BY <1>1, FS_CardinalityType, FS_RemoveElement
  <1> QED
    BY <1>2

(* A subset of no elements is empty.                                       *)
LEMMA NoneLeft ==
  ASSUME NEW S, IsFiniteSet(S), NEW s \in UpTo(S, 0)
  PROVE  s = {} /\ s \in SUBSET S
  <1>1. s \in SUBSET S /\ Cardinality(s) <= 0
    BY DEF UpTo
  <1>2. IsFiniteSet(s)
    BY <1>1, FS_Subset
  <1>3. Cardinality(s) = 0
    BY <1>1, <1>2, FS_CardinalityType
  <1> QED
    BY <1>1, <1>2, <1>3, FS_EmptySet

(* A function sums the subsets of a finite set, each from one that is      *)
(* smaller.                                                                *)
LEMMA SumExists ==
  ASSUME NEW F, NEW S, IsFiniteSet(S)
  PROVE  \E h : h = [s \in SUBSET S |-> SumStep(F, h, s)]
  <1> DEFINE T == {k \in Nat : \E h : \A s \in UpTo(S, k) : h[s] = SumStep(F, h, s)}
  <1>1. 0 \in T
    <2> DEFINE h == [s \in SUBSET S |-> 0]
    <2>1. ASSUME NEW s \in UpTo(S, 0) PROVE h[s] = SumStep(F, h, s)
      <3>1. s = {} /\ s \in SUBSET S
        BY NoneLeft
      <3> QED
        BY <3>1 DEF SumStep
    <2> QED
      BY <2>1
  <1>2. ASSUME NEW k \in Nat, k \in T PROVE k + 1 \in T
    <2>1. PICK h : \A s \in UpTo(S, k) : h[s] = SumStep(F, h, s)
      BY <1>2
    <2> DEFINE g == [s \in SUBSET S |-> IF s \in UpTo(S, k) THEN h[s] ELSE SumStep(F, h, s)]
    <2>2. \A s \in UpTo(S, k) : g[s] = h[s] /\ s \in SUBSET S
      BY DEF UpTo
    <2>3. \A s \in SUBSET S : s \notin UpTo(S, k) => g[s] = SumStep(F, h, s)
      OBVIOUS
    <2> HIDE DEF g
    <2>4. ASSUME NEW s \in UpTo(S, k + 1) PROVE g[s] = SumStep(F, g, s)
      <3>1. s \in SUBSET S /\ Cardinality(s) <= k + 1
        BY DEF UpTo
      <3>2. g[s] = SumStep(F, h, s)
        BY <2>1, <2>2, <2>3, <3>1
      <3>3. CASE s = {}
        BY <3>2, <3>3 DEF SumStep
      <3>4. CASE s # {}
        <4>1. s \ {AnyOf(s)} \in UpTo(S, k)
          BY <3>1, <3>4, OneLess DEF UpTo
        <4>2. g[s \ {AnyOf(s)}] = h[s \ {AnyOf(s)}]
          BY <2>2, <4>1
        <4> QED
          BY <3>2, <3>4, <4>2 DEF SumStep
      <3> QED
        BY <3>3, <3>4
    <2> QED
      BY <2>4
  <1> HIDE DEF T
  <1>3. Cardinality(S) \in T
    BY <1>1, <1>2, NatSetInduction, FS_CardinalityType
  <1>4. PICK h : \A s \in UpTo(S, Cardinality(S)) : h[s] = SumStep(F, h, s)
    BY <1>3 DEF T
  <1>5. \A s \in SUBSET S : s \in UpTo(S, Cardinality(S))
    BY FS_Subset DEF UpTo
  <1> DEFINE g == [s \in SUBSET S |-> h[s]]
  <1>6. ASSUME NEW s \in SUBSET S PROVE SumStep(F, g, s) = SumStep(F, h, s) /\ g[s] = h[s]
    BY OneLess DEF SumStep
  <1>7. g = [s \in SUBSET S |-> SumStep(F, g, s)]
    <2>1. \A s \in SUBSET S : h[s] = SumStep(F, g, s)
      BY <1>4, <1>5, <1>6
    <2> QED
      BY <2>1
  <1> QED
    BY <1>7

(* Two functions that sum the same numbers agree.                          *)
LEMMA SumUnique ==
  ASSUME NEW F, NEW G, NEW S, IsFiniteSet(S), \A x \in S : F[x] = G[x],
         NEW g, IsSum(F, g, S), NEW h, IsSum(G, h, S)
  PROVE  g[S] = h[S]
  <1> DEFINE T == {k \in Nat : \A s \in UpTo(S, k) : g[s] = h[s]}
  <1>0. ASSUME NEW s \in SUBSET S
        PROVE  g[s] = SumStep(F, g, s) /\ h[s] = SumStep(G, h, s)
    BY DEF IsSum
  <1>1. 0 \in T
    <2>1. ASSUME NEW s \in UpTo(S, 0) PROVE g[s] = h[s]
      <3>1. s = {} /\ s \in SUBSET S
        BY NoneLeft
      <3> QED
        BY <1>0, <3>1 DEF SumStep
    <2> QED
      BY <2>1
  <1>2. ASSUME NEW k \in Nat, k \in T PROVE k + 1 \in T
    <2>1. ASSUME NEW s \in UpTo(S, k + 1) PROVE g[s] = h[s]
      <3>1. s \in SUBSET S /\ Cardinality(s) <= k + 1
        BY DEF UpTo
      <3>2. CASE s = {}
        BY <1>0, <3>1, <3>2 DEF SumStep
      <3>3. CASE s # {}
        <4>1. s \ {AnyOf(s)} \in UpTo(S, k) /\ AnyOf(s) \in S
          BY <3>1, <3>3, OneLess DEF UpTo
        <4>2. g[s \ {AnyOf(s)}] = h[s \ {AnyOf(s)}] /\ F[AnyOf(s)] = G[AnyOf(s)]
          BY <1>2, <4>1
        <4> QED
          BY <1>0, <3>1, <3>3, <4>2 DEF SumStep
      <3> QED
        BY <3>2, <3>3
    <2> QED
      BY <2>1
  <1> HIDE DEF T
  <1>3. Cardinality(S) \in T
    BY <1>1, <1>2, NatSetInduction, FS_CardinalityType
  <1>4. S \in UpTo(S, Cardinality(S))
    BY FS_CardinalityType DEF UpTo
  <1> QED
    BY <1>3, <1>4 DEF T

(* The sum is that of any function that sums.                              *)
LEMMA SumChosen ==
  ASSUME NEW F, NEW S, IsFiniteSet(S)
  PROVE  \E h : IsSum(F, h, S) /\ SumOver(F, S) = h[S]
  <1>1. \E h : IsSum(F, h, S)
    <2>1. PICK h : h = [s \in SUBSET S |-> SumStep(F, h, s)]
      BY SumExists
    <2>2. IsSum(F, h, S)
      BY <2>1 DEF IsSum
    <2> QED
      BY <2>2
  <1>2. IsSum(F, CHOOSE h : IsSum(F, h, S), S)
    BY <1>1
  <1> QED
    BY <1>2 DEF SumOver

(* Any function that sums gives the sum, and functions that agree on a set *)
(* have one sum over it.                                                   *)
LEMMA SumOfAny ==
  ASSUME NEW F, NEW G, NEW S, IsFiniteSet(S), \A x \in S : F[x] = G[x], NEW g, IsSum(F, g, S)
  PROVE  g[S] = SumOver(G, S)
  BY SumChosen, SumUnique

(* Two functions that agree on a set have one sum over it.                 *)
LEMMA SumSame ==
  ASSUME NEW F, NEW G, NEW S, IsFiniteSet(S), \A x \in S : F[x] = G[x]
  PROVE  SumOver(F, S) = SumOver(G, S)
  BY SumChosen, SumOfAny

(* The sum over nothing is zero.                                           *)
LEMMA SumNone ==
  ASSUME NEW F
  PROVE  SumOver(F, {}) = 0
  <1>1. PICK h : IsSum(F, h, {}) /\ SumOver(F, {}) = h[{}]
    BY SumChosen, FS_EmptySet
  <1>2. h[{}] = SumStep(F, h, {})
    BY <1>1 DEF IsSum
  <1> QED
    BY <1>1, <1>2 DEF SumStep

(* The sum takes the chosen element and then the rest.                     *)
LEMMA SumFirst ==
  ASSUME NEW F, NEW S, IsFiniteSet(S), S # {}
  PROVE  AnyOf(S) \in S /\ SumOver(F, S) = F[AnyOf(S)] + SumOver(F, S \ {AnyOf(S)})
  <1>1. PICK h : IsSum(F, h, S) /\ SumOver(F, S) = h[S]
    BY SumChosen
  <1> DEFINE R == S \ {AnyOf(S)}
  <1>2. IsSum(F, h, R) /\ IsFiniteSet(R)
    BY <1>1, FS_Subset DEF IsSum
  <1>3. h[R] = SumOver(F, R)
    BY <1>2, SumOfAny
  <1>4. h[S] = SumStep(F, h, S)
    BY <1>1 DEF IsSum
  <1>5. AnyOf(S) \in S
    BY DEF AnyOf
  <1> QED
    BY <1>1, <1>3, <1>4, <1>5 DEF SumStep

(* A sum of integers is an integer.                                        *)
LEMMA SumIsInt ==
  ASSUME NEW F, NEW S, IsFiniteSet(S), \A x \in S : F[x] \in Int
  PROVE  SumOver(F, S) \in Int
  <1> DEFINE T == {k \in Nat : \A s \in SUBSET S : Cardinality(s) = k => SumOver(F, s) \in Int}
  <1>0. ASSUME NEW s \in SUBSET S PROVE IsFiniteSet(s) /\ Cardinality(s) \in Nat
    BY FS_Subset, FS_CardinalityType
  <1>1. 0 \in T
    <2>1. ASSUME NEW s \in SUBSET S, Cardinality(s) = 0 PROVE SumOver(F, s) \in Int
      BY <1>0, <2>1, SumNone, FS_EmptySet
    <2> QED
      BY <2>1
  <1>2. ASSUME NEW k \in Nat, k \in T PROVE k + 1 \in T
    <2>1. ASSUME NEW s \in SUBSET S, Cardinality(s) = k + 1 PROVE SumOver(F, s) \in Int
      <3>1. s # {}
        BY <2>1, FS_EmptySet
      <3>2. AnyOf(s) \in s /\ SumOver(F, s) = F[AnyOf(s)] + SumOver(F, s \ {AnyOf(s)})
        BY <1>0, <3>1, SumFirst
      <3>3. Cardinality(s \ {AnyOf(s)}) = k /\ s \ {AnyOf(s)} \in SUBSET S
        BY <1>0, <2>1, <3>1, OneLess
      <3>4. SumOver(F, s \ {AnyOf(s)}) \in Int
        BY <1>2, <3>3
      <3> QED
        BY <3>2, <3>4
    <2> QED
      BY <2>1
  <1> HIDE DEF T
  <1>3. Cardinality(S) \in T
    BY <1>1, <1>2, NatSetInduction, FS_CardinalityType
  <1> QED
    BY <1>3 DEF T

(* Any element may be taken first.                                         *)
LEMMA SumRemove ==
  ASSUME NEW F, NEW S, IsFiniteSet(S), \A x \in S : F[x] \in Int, NEW e \in S
  PROVE  SumOver(F, S) = F[e] + SumOver(F, S \ {e})
  <1> DEFINE Taken(s) == \A x \in s : SumOver(F, s) = F[x] + SumOver(F, s \ {x})
             T == {k \in Nat : \A s \in SUBSET S : Cardinality(s) = k => Taken(s)}
  <1>0. ASSUME NEW s \in SUBSET S PROVE IsFiniteSet(s) /\ Cardinality(s) \in Nat /\ SumOver(F, s) \in Int
    BY FS_Subset, FS_CardinalityType, SumIsInt
  <1>1. 0 \in T
    <2>1. ASSUME NEW s \in SUBSET S, Cardinality(s) = 0 PROVE Taken(s)
      BY <1>0, <2>1, FS_EmptySet
    <2> QED
      BY <2>1
  <1>2. ASSUME NEW k \in Nat, k \in T PROVE k + 1 \in T
    <2>1. ASSUME NEW s \in SUBSET S, Cardinality(s) = k + 1, NEW x \in s
          PROVE  SumOver(F, s) = F[x] + SumOver(F, s \ {x})
      <3> DEFINE a == AnyOf(s)
                 r == s \ {a}
                 q == s \ {x}
      <3>1. a \in s /\ SumOver(F, s) = F[a] + SumOver(F, r)
        BY <1>0, SumFirst
      <3>2. Cardinality(r) = k /\ r \in SUBSET S /\ Cardinality(q) = k /\ q \in SUBSET S
        <4>1. r \in SUBSET S /\ Cardinality(r) = Cardinality(s) - 1
          BY <3>1, WithoutOne
        <4>2. q \in SUBSET S /\ Cardinality(q) = Cardinality(s) - 1
          BY WithoutOne
        <4> QED
          BY <2>1, <4>1, <4>2
      <3>3. Taken(r) /\ Taken(q)
        BY <1>2, <3>2
      <3>4. CASE x = a
        BY <3>1, <3>4
      <3>5. CASE x # a
        <4>1. x \in r /\ a \in q /\ r \ {x} = q \ {a}
          BY <3>1, <3>5
        <4>2. SumOver(F, r) = F[x] + SumOver(F, r \ {x}) /\ SumOver(F, q) = F[a] + SumOver(F, q \ {a})
          BY <3>3, <4>1
        <4>3. F[x] \in Int /\ F[a] \in Int /\ q \ {a} \in SUBSET S
          BY <3>1
        <4>4. SumOver(F, q \ {a}) \in Int
          BY <1>0, <4>3
        <4> DEFINE rest == SumOver(F, q \ {a})
        <4>5. SumOver(F, s) = F[a] + (F[x] + rest) /\ SumOver(F, q) = F[a] + rest
          BY <3>1, <4>1, <4>2
        <4>6. F[x] \in Int /\ F[a] \in Int /\ rest \in Int
          BY <4>3, <4>4
        <4>7. \A u, v, w \in Int : u + (v + w) = v + (u + w)
          OBVIOUS
        <4>8. F[a] + (F[x] + rest) = F[x] + (F[a] + rest)
          BY <4>6, <4>7
        <4> QED
          BY <4>5, <4>8
      <3> QED
        BY <3>4, <3>5
    <2>2. ASSUME NEW s \in SUBSET S, Cardinality(s) = k + 1 PROVE Taken(s)
      BY <2>1, <2>2
    <2> QED
      BY <2>2
  <1> HIDE DEF T
  <1>3. Cardinality(S) \in T
    BY <1>1, <1>2, NatSetInduction, FS_CardinalityType
  <1>4. Taken(S)
    BY <1>3 DEF T
  <1> QED
    BY <1>4

(* Nothing but zeros.                                                      *)
LEMMA SumOfZeros ==
  ASSUME NEW F, NEW S, IsFiniteSet(S), \A x \in S : F[x] = 0
  PROVE  SumOver(F, S) = 0
  <1> DEFINE T == {k \in Nat : \A s \in SUBSET S : Cardinality(s) = k => SumOver(F, s) = 0}
  <1>0. ASSUME NEW s \in SUBSET S PROVE IsFiniteSet(s) /\ Cardinality(s) \in Nat
    BY FS_Subset, FS_CardinalityType
  <1>1. 0 \in T
    <2>1. ASSUME NEW s \in SUBSET S, Cardinality(s) = 0 PROVE SumOver(F, s) = 0
      BY <1>0, <2>1, SumNone, FS_EmptySet
    <2> QED
      BY <2>1
  <1>2. ASSUME NEW k \in Nat, k \in T PROVE k + 1 \in T
    <2>1. ASSUME NEW s \in SUBSET S, Cardinality(s) = k + 1 PROVE SumOver(F, s) = 0
      <3>1. s # {}
        BY <2>1, FS_EmptySet
      <3>2. AnyOf(s) \in s /\ SumOver(F, s) = F[AnyOf(s)] + SumOver(F, s \ {AnyOf(s)})
        BY <1>0, <3>1, SumFirst
      <3>3. Cardinality(s \ {AnyOf(s)}) = k /\ s \ {AnyOf(s)} \in SUBSET S
        BY <1>0, <2>1, <3>1, OneLess
      <3>4. SumOver(F, s \ {AnyOf(s)}) = 0
        BY <1>2, <3>3
      <3> QED
        BY <3>2, <3>4
    <2> QED
      BY <2>1
  <1> HIDE DEF T
  <1>3. Cardinality(S) \in T
    BY <1>1, <1>2, NatSetInduction, FS_CardinalityType
  <1> QED
    BY <1>3 DEF T

(* A sum by parts.                                                         *)
LEMMA SumSplit ==
  ASSUME NEW F, NEW S, IsFiniteSet(S), \A x \in S : F[x] \in Int, NEW P \in SUBSET S
  PROVE  SumOver(F, S) = SumOver(F, P) + SumOver(F, S \ P)
  <1> DEFINE Split(p) == SumOver(F, p \cup (S \ P)) = SumOver(F, p) + SumOver(F, S \ P)
             T == {k \in Nat : \A p \in SUBSET P : Cardinality(p) = k => Split(p)}
  <1>0. ASSUME NEW s \in SUBSET S PROVE IsFiniteSet(s) /\ Cardinality(s) \in Nat /\ SumOver(F, s) \in Int
    BY FS_Subset, FS_CardinalityType, SumIsInt
  <1>1. 0 \in T
    <2>1. ASSUME NEW p \in SUBSET P, Cardinality(p) = 0 PROVE Split(p)
      <3>1. p = {}
        BY <1>0, <2>1, FS_EmptySet
      <3>2. p \cup (S \ P) = S \ P /\ SumOver(F, p) = 0
        BY <3>1, SumNone
      <3>3. SumOver(F, S \ P) \in Int
        BY <1>0
      <3>4. SumOver(F, p \cup (S \ P)) = SumOver(F, S \ P)
        BY <3>2
      <3> QED
        BY <3>2, <3>3, <3>4
    <2> QED
      BY <2>1
  <1>2. ASSUME NEW k \in Nat, k \in T PROVE k + 1 \in T
    <2>1. ASSUME NEW p \in SUBSET P, Cardinality(p) = k + 1 PROVE Split(p)
      <3> DEFINE e == AnyOf(p)
                 q == p \ {e}
                 all == p \cup (S \ P)
      <3>1. p # {}
        BY <2>1, FS_EmptySet
      <3>2. e \in p /\ SumOver(F, p) = F[e] + SumOver(F, q)
        BY <1>0, <3>1, SumFirst
      <3>3. Cardinality(q) = k /\ q \in SUBSET P
        <4>1. q \in SUBSET S /\ Cardinality(q) = Cardinality(p) - 1
          BY <3>2, WithoutOne
        <4> QED
          BY <2>1, <4>1
      <3>4. SumOver(F, q \cup (S \ P)) = SumOver(F, q) + SumOver(F, S \ P)
        BY <1>2, <3>3
      <3>5. all \in SUBSET S /\ e \in all /\ all \ {e} = q \cup (S \ P) /\ F[e] \in Int
        BY <3>2
      <3>6. SumOver(F, all) = F[e] + SumOver(F, all \ {e})
        BY <1>0, <3>5, SumRemove
      <3>7. SumOver(F, q) \in Int /\ SumOver(F, S \ P) \in Int
        BY <1>0, <3>3
      <3>8. SumOver(F, all) = SumOver(F, p) + SumOver(F, S \ P)
        <4>1. SumOver(F, all) = F[e] + (SumOver(F, q) + SumOver(F, S \ P))
          BY <3>4, <3>5, <3>6
        <4>2. \A u, v, w \in Int : u + (v + w) = (u + v) + w
          OBVIOUS
        <4>3. F[e] + (SumOver(F, q) + SumOver(F, S \ P)) = (F[e] + SumOver(F, q)) + SumOver(F, S \ P)
          BY <3>5, <3>7, <4>2
        <4> QED
          BY <3>2, <4>1, <4>3
      <3> QED
        BY <3>8
    <2> QED
      BY <2>1
  <1> HIDE DEF T
  <1>3. IsFiniteSet(P) /\ Cardinality(P) \in T
    BY <1>1, <1>2, NatSetInduction, FS_CardinalityType, <1>0
  <1>4. Split(P)
    BY <1>3 DEF T
  <1>5. P \cup (S \ P) = S
    OBVIOUS
  <1> QED
    BY <1>4, <1>5

(* A sum over other names of the same things.                              *)
Renames(f, A, B) ==
  /\ \A x \in A : f[x] \in B
  /\ \A y \in B : \E x \in A : f[x] = y
  /\ \A x, y \in A : f[x] = f[y] => x = y

(* A one-to-one renaming keeps the sum: the moved pairs of a position and  *)
(* an entry against the entries themselves.                                *)
LEMMA SumRenamed ==
  ASSUME NEW F, NEW G, NEW f, NEW A, NEW B, IsFiniteSet(A), IsFiniteSet(B), Renames(f, A, B),
         \A x \in A : G[x] = F[f[x]], \A y \in B : F[y] \in Int
  PROVE  SumOver(G, A) = SumOver(F, B)
  <1> DEFINE Same(a) == \A b \in SUBSET B : Renames(f, a, b) => SumOver(G, a) = SumOver(F, b)
             T == {k \in Nat : \A a \in SUBSET A : Cardinality(a) = k => Same(a)}
  <1>0. ASSUME NEW a \in SUBSET A PROVE IsFiniteSet(a) /\ Cardinality(a) \in Nat
    BY FS_Subset, FS_CardinalityType
  <1>1. 0 \in T
    <2>1. ASSUME NEW a \in SUBSET A, Cardinality(a) = 0, NEW b \in SUBSET B, Renames(f, a, b)
          PROVE  SumOver(G, a) = SumOver(F, b)
      <3>1. a = {}
        BY <1>0, <2>1, FS_EmptySet
      <3>2. b = {}
        BY <2>1, <3>1 DEF Renames
      <3> QED
        BY <3>1, <3>2, SumNone
    <2>2. ASSUME NEW a \in SUBSET A, Cardinality(a) = 0 PROVE Same(a)
      BY <2>1, <2>2
    <2> QED
      BY <2>2
  <1>2. ASSUME NEW k \in Nat, k \in T PROVE k + 1 \in T
    <2>1. ASSUME NEW a \in SUBSET A, Cardinality(a) = k + 1, NEW b \in SUBSET B, Renames(f, a, b)
          PROVE  SumOver(G, a) = SumOver(F, b)
      <3> DEFINE e == AnyOf(a)
                 y == f[e]
      <3>1. a # {}
        <4>1. Cardinality(a) # 0
          BY <2>1
        <4> QED
          BY <4>1, FS_EmptySet
      <3>2. e \in a /\ SumOver(G, a) = G[e] + SumOver(G, a \ {e})
        BY <1>0, <3>1, SumFirst
      <3>3. Cardinality(a \ {e}) = k /\ a \ {e} \in SUBSET A
        BY <2>1, <3>2, WithoutOne
      <3> HIDE DEF e
      <3>4. y \in b /\ G[e] = F[y]
        BY <2>1, <3>2 DEF Renames
      <3>5. Renames(f, a \ {e}, b \ {y})
        BY <2>1, <3>2 DEF Renames
      <3>6. SumOver(G, a \ {e}) = SumOver(F, b \ {y})
        BY <1>2, <3>3, <3>5
      <3>7. IsFiniteSet(b) /\ \A z \in b : F[z] \in Int
        BY FS_Subset
      <3>8. SumOver(F, b) = F[y] + SumOver(F, b \ {y})
        BY <3>4, <3>7, SumRemove
      <3> QED
        BY <3>2, <3>4, <3>6, <3>8
    <2>2. ASSUME NEW a \in SUBSET A, Cardinality(a) = k + 1 PROVE Same(a)
      BY <2>1, <2>2
    <2> QED
      BY <2>2
  <1> HIDE DEF T
  <1>3. Cardinality(A) \in T
    BY <1>1, <1>2, NatSetInduction, FS_CardinalityType
  <1>4. Same(A)
    BY <1>3 DEF T
  <1> QED
    BY <1>4

-----------------------------------------------------------------------------
(* Eliminated columns.                                                     *)
(* The terms of a row's product with x, and the entries of a row.          *)
Terms(l, a, x) == [k \in Entries(l) |-> a[k] * x[ColOf(l, k)]]
RowEntries(l, row) == {k \in Entries(l) : RowOf(l, k) = row}

(* What a list takes from the right-hand side of a row.                    *)
MovedTerms(a, bc, moved) == [u \in moved |-> a[u[2]] * bc[u[1]]]
MovedOf(l, rows, row) ==
  {u \in Positions(rows) \X Entries(l) : RowOf(l, u[2]) = row /\ ColOf(l, u[2]) = rows[u[1]]}

Listed(rows, row) == \E i \in Positions(rows) : rows[i] = row

(* x takes the prescribed values.                                          *)
Prescribed(rows, bc, x) == \A i \in Positions(rows) : bc[i] \in Int /\ x[rows[i]] = bc[i]

(* The system after an elimination, entry by entry and row by row.         *)
IsEliminated(l, rows, bc, a, b, a2, b2) ==
  /\ \A k \in Entries(l) :
       a2[k] = IF \E i \in Positions(rows) : Entry[l][k] = <<rows[i], rows[i]>> THEN 1
               ELSE IF Listed(rows, RowOf(l, k)) \/ Listed(rows, ColOf(l, k)) THEN 0
               ELSE a[k]
  /\ \A row \in RowsOf(l) :
       IF Listed(rows, row)
       THEN \A i \in Positions(rows) : rows[i] = row => b2[row] = bc[i]
       ELSE b2[row] = b[row] - Contribution(a, bc, MovedOf(l, rows, row))

(* The entries of a pattern are finitely many, within its rows and columns.*)
LEMMA PatternType ==
  ASSUME NEW l \in Layouts
  PROVE  /\ IsFiniteSet(Entries(l))
         /\ \A k \in Entries(l) : /\ Entry[l][k] = <<RowOf(l, k), ColOf(l, k)>>
                                  /\ RowOf(l, k) \in RowsOf(l) /\ ColOf(l, k) \in 0 .. Width[l] - 1
  <1>1. Entry[l] \in Seq((0 .. Size[l] - 1) \X (0 .. Width[l] - 1))
    BY LayoutAssumption
  <1>2. Entries(l) = 1 .. Len(Entry[l]) /\ Len(Entry[l]) \in Nat
    BY <1>1 DEF Entries
  <1>3. IsFiniteSet(Entries(l))
    BY <1>2, FS_Interval
  <1>4. ASSUME NEW k \in Entries(l)
        PROVE  Entry[l][k] \in (0 .. Size[l] - 1) \X (0 .. Width[l] - 1)
    BY <1>1, <1>2
  <1> QED
    BY <1>3, <1>4 DEF RowOf, ColOf, RowsOf

(* A row's product, and a contribution, are sums of their terms.           *)
LEMMA RowTimesIsSum ==
  ASSUME NEW l \in Layouts, NEW a, NEW row, NEW x
  PROVE  RowTimes(l, a, row, x) = SumOver(Terms(l, a, x), RowEntries(l, row))
  <1> DEFINE S == RowEntries(l, row)
             F == Terms(l, a, x)
             Good(h) == h = [s \in SUBSET S |->
                               IF s = {} THEN 0 ELSE a[AnyOf(s)] * x[ColOf(l, AnyOf(s))] + h[s \ {AnyOf(s)}]]
  <1>1. IsFiniteSet(S) /\ S \subseteq Entries(l)
    BY PatternType, FS_Subset DEF RowEntries
  <1>2. RowTimes(l, a, row, x) = (CHOOSE h : Good(h))[S]
    BY DEF RowTimes, MapThenSumSet, MapThenFoldSet, AnyOf, RowEntries
  <1> HIDE DEF S
  <1>3. \A h, s : s \in SUBSET S =>
          SumStep(F, h, s) = IF s = {} THEN 0 ELSE a[AnyOf(s)] * x[ColOf(l, AnyOf(s))] + h[s \ {AnyOf(s)}]
    BY <1>1, OneLess DEF SumStep, Terms
  <1> HIDE DEF F
  <1>4. \E h : Good(h)
    <2>1. PICK h : h = [s \in SUBSET S |-> SumStep(F, h, s)]
      BY <1>1, SumExists
    <2>2. Good(h)
      BY <1>3, <2>1
    <2> QED
      BY <2>2
  <1> DEFINE h == CHOOSE f : Good(f)
  <1>5. Good(h)
    BY <1>4
  <1> HIDE DEF h
  <1>6. IsSum(F, h, S)
    BY <1>3, <1>5 DEF IsSum
  <1>7. h[S] = SumOver(F, S)
    BY <1>1, <1>6, SumOfAny
  <1> QED
    BY <1>2, <1>7 DEF h, S, F

(* What a list takes from the right-hand side is the sum of its terms.     *)
LEMMA ContributionIsSum ==
  ASSUME NEW a, NEW bc, NEW moved, IsFiniteSet(moved)
  PROVE  Contribution(a, bc, moved) = SumOver(MovedTerms(a, bc, moved), moved)
  <1> DEFINE F == MovedTerms(a, bc, moved)
             Good(h) == h = [s \in SUBSET moved |->
                               IF s = {} THEN 0 ELSE a[AnyOf(s)[2]] * bc[AnyOf(s)[1]] + h[s \ {AnyOf(s)}]]
  <1>2. Contribution(a, bc, moved) = (CHOOSE h : Good(h))[moved]
    BY DEF Contribution, MapThenSumSet, MapThenFoldSet, AnyOf
  <1>3. \A h, s : s \in SUBSET moved =>
          SumStep(F, h, s) = IF s = {} THEN 0 ELSE a[AnyOf(s)[2]] * bc[AnyOf(s)[1]] + h[s \ {AnyOf(s)}]
    BY OneLess DEF SumStep, MovedTerms
  <1> HIDE DEF F
  <1>4. \E h : Good(h)
    <2>1. PICK h : h = [s \in SUBSET moved |-> SumStep(F, h, s)]
      BY SumExists
    <2>2. Good(h)
      BY <1>3, <2>1
    <2> QED
      BY <2>2
  <1> DEFINE h == CHOOSE f : Good(f)
  <1>5. Good(h)
    BY <1>4
  <1> HIDE DEF h
  <1>6. IsSum(F, h, moved)
    BY <1>3, <1>5 DEF IsSum
  <1>7. h[moved] = SumOver(F, moved)
    BY <1>6, SumOfAny
  <1> QED
    BY <1>2, <1>7 DEF h, F

(* The product of a constrained row is the component of its row.           *)
LEMMA ConstrainedRow ==
  ASSUME NEW l \in Layouts, NEW rows, Constrainable(l, rows), NEW bc, NEW a, NEW b, NEW a2, NEW b2,
         IsEliminated(l, rows, bc, a, b, a2, b2), NEW i \in Positions(rows), NEW x \in [RowsOf(l) -> Int]
  PROVE  rows[i] \in RowsOf(l) /\ RowTimes(l, a2, rows[i], x) = x[rows[i]]
  <1> DEFINE row == rows[i]
             S == RowEntries(l, row)
             F == Terms(l, a2, x)
  <1>1. row \in RowsOf(l) /\ Size[l] = Width[l]
    BY DEF Constrainable
  <1>2. PICK d \in Entries(l) : Entry[l][d] = <<row, row>>
    BY DEF Constrainable
  <1>3. \A k \in Entries(l) : Entry[l][k] = <<row, row>> => k = d
    BY <1>2, Zenon DEF Constrainable
  <1>4. /\ IsFiniteSet(S) /\ S \subseteq Entries(l)
        /\ \A k \in Entries(l) : Entry[l][k] = <<RowOf(l, k), ColOf(l, k)>> /\ ColOf(l, k) \in RowsOf(l)
    BY <1>1, PatternType, FS_Subset DEF RowEntries, RowsOf
  <1>5. RowOf(l, d) = row /\ ColOf(l, d) = row
    BY <1>2 DEF RowOf, ColOf
  <1>6. d \in S
    BY <1>5 DEF RowEntries
  <1>7. a2[d] = 1
    BY <1>2 DEF IsEliminated
  <1>8. ASSUME NEW k \in S, k # d PROVE a2[k] = 0
    <2>1. k \in Entries(l) /\ RowOf(l, k) = row /\ Listed(rows, RowOf(l, k))
      BY DEF RowEntries, Listed
    <2>2. ~ \E j \in Positions(rows) : Entry[l][k] = <<rows[j], rows[j]>>
      <3> SUFFICES ASSUME NEW j \in Positions(rows), Entry[l][k] = <<rows[j], rows[j]>> PROVE FALSE
        OBVIOUS
      <3>1. RowOf(l, k) = rows[j]
        BY DEF RowOf
      <3>2. Entry[l][k] = <<row, row>>
        BY <2>1, <3>1
      <3> QED
        BY <1>3, <1>8, <2>1, <3>2
    <2> QED
      BY <2>1, <2>2 DEF IsEliminated
  <1>9. F[d] = x[row] /\ x[row] \in Int
    <2>1. F[d] = a2[d] * x[ColOf(l, d)]
      BY DEF Terms
    <2>2. x[row] \in Int
      BY <1>1
    <2> QED
      BY <1>5, <1>7, <2>1, <2>2
  <1>10. \A k \in S : k # d => F[k] = 0
    <2> SUFFICES ASSUME NEW k \in S, k # d PROVE F[k] = 0
      OBVIOUS
    <2>1. F[k] = a2[k] * x[ColOf(l, k)] /\ x[ColOf(l, k)] \in Int /\ a2[k] = 0
      BY <1>4, <1>8 DEF Terms
    <2> QED
      BY <2>1
  <1> HIDE DEF F, S
  <1>11. \A k \in S : F[k] \in Int
    BY <1>9, <1>10
  <1>12. SumOver(F, S) = F[d] + SumOver(F, S \ {d})
    BY <1>4, <1>6, <1>11, SumRemove
  <1>13. SumOver(F, S \ {d}) = 0
    <2>1. IsFiniteSet(S \ {d})
      BY <1>4, FS_Subset
    <2> QED
      BY <1>10, <2>1, SumOfZeros
  <1>14. RowTimes(l, a2, row, x) = SumOver(F, S)
    BY RowTimesIsSum DEF F, S
  <1> QED
    BY <1>1, <1>9, <1>12, <1>13, <1>14

(* Pairs agree when their parts do.                                        *)
LEMMA PairsAgree ==
  ASSUME NEW A, NEW B, NEW u \in A \X B, NEW v \in A \X B, u[1] = v[1], u[2] = v[2]
  PROVE  u = v
  OBVIOUS

(* A free row with its columns moved, when the constrained components have *)
(* their prescribed values.                                                *)
LEMMA FreeRow ==
  ASSUME NEW l \in Layouts, NEW rows \in Seq(Int), Constrainable(l, rows), NEW bc, NEW a \in [Entries(l) -> Int],
         NEW b, NEW a2, NEW b2, IsEliminated(l, rows, bc, a, b, a2, b2),
         NEW row \in RowsOf(l), ~Listed(rows, row), b[row] \in Int, NEW x \in [RowsOf(l) -> Int],
         Prescribed(rows, bc, x)
  PROVE  RowTimes(l, a2, row, x) = b2[row] <=> RowTimes(l, a, row, x) = b[row]
  <1> DEFINE S == RowEntries(l, row)
             C == {k \in S : Listed(rows, ColOf(l, k))}
             M == MovedOf(l, rows, row)
             F == Terms(l, a, x)
             F2 == Terms(l, a2, x)
             G == MovedTerms(a, bc, M)
             second == [u \in M |-> u[2]]
  <1>1. /\ IsFiniteSet(S) /\ S \subseteq Entries(l)
        /\ \A k \in Entries(l) : Entry[l][k] = <<RowOf(l, k), ColOf(l, k)>> /\ ColOf(l, k) \in RowsOf(l)
    <2>1. Size[l] = Width[l]
      BY DEF Constrainable
    <2> QED
      BY <2>1, PatternType, FS_Subset DEF RowEntries, RowsOf
  <1>2. IsFiniteSet(M)
    <2>1. Positions(rows) = 1 .. Len(rows) /\ Len(rows) \in Nat
      BY DEF Positions
    <2>2. IsFiniteSet(Positions(rows)) /\ IsFiniteSet(Entries(l))
      BY <2>1, PatternType, FS_Interval
    <2>3. IsFiniteSet(Positions(rows) \X Entries(l))
      BY <2>2, FS_Product
    <2> QED
      BY <2>3, FS_Subset DEF MovedOf
  <1>3. ASSUME NEW k \in S
        PROVE  /\ F[k] = a[k] * x[ColOf(l, k)] /\ F2[k] = a2[k] * x[ColOf(l, k)]
               /\ x[ColOf(l, k)] \in Int /\ a[k] \in Int
               /\ a2[k] = IF k \in C THEN 0 ELSE a[k]
    <2>1. k \in Entries(l) /\ RowOf(l, k) = row
      BY DEF RowEntries
    <2>2. ~ \E i \in Positions(rows) : Entry[l][k] = <<rows[i], rows[i]>>
      BY <2>1 DEF Listed, RowOf
    <2>3. ~Listed(rows, RowOf(l, k))
      BY <2>1
    <2>4. a2[k] = IF k \in C THEN 0 ELSE a[k]
      BY <2>1, <2>2, <2>3 DEF IsEliminated
    <2> QED
      BY <1>1, <2>1, <2>4 DEF Terms
  <1>4. \A k \in S : F[k] \in Int /\ F2[k] \in Int /\ (k \in C => F2[k] = 0) /\ (k \notin C => F2[k] = F[k])
    <2> SUFFICES ASSUME NEW k \in S
                 PROVE  F[k] \in Int /\ F2[k] \in Int /\ (k \in C => F2[k] = 0) /\ (k \notin C => F2[k] = F[k])
      OBVIOUS
    <2> HIDE DEF C, F, F2
    <2> QED
      BY <1>3
  <1>5. Renames(second, M, C)
    <2>1. ASSUME NEW u \in M PROVE second[u] \in C
      BY DEF MovedOf, RowEntries, Listed
    <2>2. ASSUME NEW k \in C PROVE \E u \in M : second[u] = k
      <3>1. PICK i \in Positions(rows) : rows[i] = ColOf(l, k)
        BY DEF Listed
      <3>2. <<i, k>> \in M
        BY <3>1 DEF MovedOf, RowEntries
      <3>3. second[<<i, k>>] = k
        BY <3>2
      <3> QED
        BY <3>2, <3>3
    <2>3. ASSUME NEW u \in M, NEW v \in M, second[u] = second[v] PROVE u = v
      <3>1. /\ u \in Positions(rows) \X Entries(l) /\ v \in Positions(rows) \X Entries(l)
            /\ u[2] = v[2] /\ rows[u[1]] = ColOf(l, u[2]) /\ rows[v[1]] = ColOf(l, v[2])
        BY <2>3 DEF MovedOf
      <3>2. u[1] = v[1]
        BY <3>1 DEF Constrainable
      <3> QED
        BY <3>1, <3>2, PairsAgree
    <2> QED
      BY <2>1, <2>2, <2>3 DEF Renames
  <1>6. ASSUME NEW u \in M PROVE G[u] = F[second[u]]
    <2>1. /\ u[1] \in Positions(rows) /\ u[2] \in Entries(l) /\ rows[u[1]] = ColOf(l, u[2])
          /\ G[u] = a[u[2]] * bc[u[1]] /\ second[u] = u[2]
      BY DEF MovedOf, MovedTerms
    <2>2. F[u[2]] = a[u[2]] * x[ColOf(l, u[2])]
      BY <2>1 DEF Terms
    <2>3. x[ColOf(l, u[2])] = bc[u[1]]
      BY <2>1 DEF Prescribed
    <2> QED
      BY <2>1, <2>2, <2>3
  <1>7. C \in SUBSET S /\ IsFiniteSet(C) /\ IsFiniteSet(S \ C)
    BY <1>1, FS_Subset
  <1>8. RowTimes(l, a, row, x) = SumOver(F, S) /\ RowTimes(l, a2, row, x) = SumOver(F2, S)
    BY RowTimesIsSum
  <1>9. b2[row] = b[row] - SumOver(G, M)
    BY <1>2, ContributionIsSum DEF IsEliminated
  <1> HIDE DEF F, F2, G, S, C, M, second
  <1>10. SumOver(F, S) = SumOver(F, C) + SumOver(F, S \ C) /\ SumOver(F2, S) = SumOver(F2, C) + SumOver(F2, S \ C)
    BY <1>1, <1>4, <1>7, SumSplit
  <1>11. SumOver(F2, C) = 0
    BY <1>4, <1>7, SumOfZeros
  <1>12. SumOver(F2, S \ C) = SumOver(F, S \ C)
    BY <1>4, <1>7, SumSame
  <1>13. SumOver(G, M) = SumOver(F, C)
    <2>1. \A k \in C : F[k] \in Int
      BY <1>4, <1>7
    <2> QED
      BY <1>2, <1>5, <1>6, <1>7, <2>1, SumRenamed
  <1>14. SumOver(F, C) \in Int /\ SumOver(F, S \ C) \in Int
    BY <1>4, <1>7, SumIsInt
  <1>15. \A p, q, r \in Int : 0 + q = r - p <=> p + q = r
    OBVIOUS
  <1>16. 0 + SumOver(F, S \ C) = b[row] - SumOver(F, C) <=> SumOver(F, C) + SumOver(F, S \ C) = b[row]
    BY <1>14, <1>15
  <1> QED
    BY <1>8, <1>9, <1>10, <1>11, <1>12, <1>13, <1>16

(* The eliminated system has the solutions of the system before that take  *)
(* the prescribed values.                                                  *)
LEMMA EliminationKeeps ==
  ASSUME NEW l \in Layouts, NEW rows \in Seq(Int), Constrainable(l, rows), NEW bc,
         \A i \in Positions(rows) : bc[i] \in Int,
         NEW a \in [Entries(l) -> Int], NEW b \in [RowsOf(l) -> Int], NEW a2, NEW b2,
         IsEliminated(l, rows, bc, a, b, a2, b2)
  PROVE  KeepsSolutions(l, a2, b2, [rows |-> rows, bc |-> bc, vals |-> a, rhs |-> b])
  <1> DEFINE before == [rows |-> rows, bc |-> bc, vals |-> a, rhs |-> b]
             Kept(x) == \A row \in RowsOf(l) : RowTimes(l, a2, row, x) = b2[row]
             Asked(x, row) ==
               IF \E i \in Positions(rows) : rows[i] = row
               THEN \E i \in Positions(rows) : rows[i] = row /\ x[row] = bc[i]
               ELSE RowTimes(l, a, row, x) = b[row]
  <1>1. ASSUME NEW x \in [RowsOf(l) -> Trial]
        PROVE  Kept(x) <=> \A row \in RowsOf(l) : Asked(x, row)
    <2>1. x \in [RowsOf(l) -> Int]
      BY NumbersAssumption
    <2>2. \A i \in Positions(rows) : rows[i] \in RowsOf(l) /\ RowTimes(l, a2, rows[i], x) = x[rows[i]]
                                     /\ b2[rows[i]] = bc[i]
      <3> SUFFICES ASSUME NEW i \in Positions(rows)
                   PROVE  rows[i] \in RowsOf(l) /\ RowTimes(l, a2, rows[i], x) = x[rows[i]] /\ b2[rows[i]] = bc[i]
        OBVIOUS
      <3>1. rows[i] \in RowsOf(l) /\ RowTimes(l, a2, rows[i], x) = x[rows[i]]
        BY <2>1, ConstrainedRow
      <3>2. Listed(rows, rows[i])
        BY DEF Listed
      <3>3. b2[rows[i]] = bc[i]
        BY <3>1, <3>2 DEF IsEliminated
      <3> QED
        BY <3>1, <3>3
    <2>3. ASSUME \A i \in Positions(rows) : x[rows[i]] = bc[i], NEW row \in RowsOf(l),
                 ~ \E i \in Positions(rows) : rows[i] = row
          PROVE  RowTimes(l, a2, row, x) = b2[row] <=> RowTimes(l, a, row, x) = b[row]
      <3>1. ~Listed(rows, row) /\ b[row] \in Int
        BY <2>3 DEF Listed
      <3>2. Prescribed(rows, bc, x)
        BY <2>3 DEF Prescribed
      <3> QED
        BY <2>1, <2>3, <3>1, <3>2, FreeRow
    <2>4. ASSUME Kept(x), NEW row \in RowsOf(l) PROVE Asked(x, row)
      <3>1. \A i \in Positions(rows) : x[rows[i]] = bc[i]
        BY <2>2, <2>4
      <3> QED
        BY <2>3, <2>4, <3>1
    <2>5. ASSUME \A row \in RowsOf(l) : Asked(x, row) PROVE Kept(x)
      <3>1. ASSUME NEW i \in Positions(rows) PROVE x[rows[i]] = bc[i]
        <4>1. PICK j \in Positions(rows) : rows[j] = rows[i] /\ x[rows[i]] = bc[j]
          BY <2>2, <2>5
        <4>2. i = j
          BY <4>1 DEF Constrainable
        <4> QED
          BY <4>1, <4>2
      <3>2. ASSUME NEW row \in RowsOf(l) PROVE RowTimes(l, a2, row, x) = b2[row]
        <4>1. CASE \E i \in Positions(rows) : rows[i] = row
          BY <2>2, <3>1, <4>1
        <4>2. CASE ~ \E i \in Positions(rows) : rows[i] = row
          BY <2>3, <2>5, <3>1, <4>2
        <4> QED
          BY <4>1, <4>2
      <3> QED
        BY <3>2
    <2> QED
      BY <2>4, <2>5
  <1> HIDE DEF Kept
  <1>2. \A x \in [RowsOf(l) -> Trial], row \in RowsOf(l) :
          Asked(x, row) <=>
            IF \E i \in Positions(before.rows) : before.rows[i] = row
            THEN \E i \in Positions(before.rows) : before.rows[i] = row /\ x[row] = before.bc[i]
            ELSE RowTimes(l, before.vals, row, x) = before.rhs[row]
    OBVIOUS
  <1> HIDE DEF Asked
  <1>3. KeepsSolutions(l, a2, b2, before)
    BY <1>1, <1>2 DEF KeepsSolutions, Kept
  <1> QED
    BY <1>3

-----------------------------------------------------------------------------
(* The system before a call and the one it leaves.                         *)

(* The values of the matrix are numbers, one for each entry.               *)
SolutionsIInv == IInv /\ vals \in [Entries(layout) -> Int] /\ SameSolutions

(* A matrix of a new layout holds numbers.                                 *)
LEMMA ZerosTyped == \A l : Zeros(l) \in [Entries(l) -> Int]
  BY DEF Zeros

(* Replacing rows, by any entries of the diagonal, leaves numbers.         *)
LEMMA DiagonalRowsTyped ==
  ASSUME NEW c, NEW rows, NEW a \in [Entries(layout) -> Int], NEW diag \in Int
  PROVE  DiagonalRows(c, rows, a, diag) \in [Entries(layout) -> Int]
  BY DEF DiagonalRows

(* What the abstract elimination computes is an elimination.               *)
LEMMA ComputesElimination ==
  ASSUME NEW l \in Layouts, NEW rows, Constrainable(l, rows), NEW bc, NEW a, NEW b
  PROVE  IsEliminated(l, rows, bc, a, b, SM!EliminatedVals(l, a, rows), SM!EliminatedRhs(l, a, rows, bc, b))
  <1> DEFINE a1 == [k \in Entries(l) |-> IF \E i \in Positions(rows) : ColOf(l, k) = rows[i] THEN 0 ELSE a[k]]
             a2 == SM!EliminatedVals(l, a, rows)
             b2 == SM!EliminatedRhs(l, a, rows, bc, b)
  <1>1. a2 = [k \in Entries(l) |->
                IF \E i \in Positions(rows) : Entry[l][k] = <<rows[i], rows[i]>> THEN 1
                ELSE IF \E i \in Positions(rows) : RowOf(l, k) = rows[i] THEN 0
                ELSE a1[k]]
    BY SameNames DEF SM!EliminatedVals, SM!Replaced
  <1>2. \A row : SM!Moved(l, rows, row) = MovedOf(l, rows, row)
    BY SameNames DEF SM!Moved, MovedOf
  <1>3. b2 = [row \in RowsOf(l) |->
                IF \E i \in Positions(rows) : rows[i] = row
                THEN bc[CHOOSE i \in Positions(rows) : rows[i] = row]
                ELSE b[row] - Contribution(a, bc, MovedOf(l, rows, row))]
    BY <1>2, SameNames, SameContribution DEF SM!EliminatedRhs
  <1> HIDE DEF a2, b2
  <1>4. ASSUME NEW k \in Entries(l)
        PROVE  a2[k] = IF \E i \in Positions(rows) : Entry[l][k] = <<rows[i], rows[i]>> THEN 1
                       ELSE IF Listed(rows, RowOf(l, k)) \/ Listed(rows, ColOf(l, k)) THEN 0
                       ELSE a[k]
    BY <1>1 DEF Listed
  <1>5. ASSUME NEW row \in RowsOf(l)
        PROVE  IF Listed(rows, row)
               THEN \A i \in Positions(rows) : rows[i] = row => b2[row] = bc[i]
               ELSE b2[row] = b[row] - Contribution(a, bc, MovedOf(l, rows, row))
    <2>1. \A i, j \in Positions(rows) : rows[i] = rows[j] => i = j
      BY DEF Constrainable
    <2>2. CASE Listed(rows, row)
      <3>1. b2[row] = bc[CHOOSE i \in Positions(rows) : rows[i] = row]
        BY <1>3, <2>2 DEF Listed
      <3>2. ASSUME NEW i \in Positions(rows), rows[i] = row
            PROVE  (CHOOSE j \in Positions(rows) : rows[j] = row) = i
        BY <2>1, <3>2
      <3> QED
        BY <2>2, <3>1, <3>2
    <2>3. CASE ~Listed(rows, row)
      BY <1>3, <2>3 DEF Listed
    <2> QED
      BY <2>2, <2>3
  <1> QED
    BY <1>4, <1>5 DEF IsEliminated, a2, b2

(* An elimination of the matrix without a cache keeps the solutions.       *)
LEMMA AbstractKeeps ==
  \A l \in Layouts, rows \in RowLists, bc \in Bcs : \A a \in [Entries(l) -> Int], b \in Sides[l] :
    Constrainable(l, rows) =>
      KeepsSolutions(l, SM!EliminatedVals(l, a, rows), SM!EliminatedRhs(l, a, rows, bc, b),
                     [rows |-> rows, bc |-> bc, vals |-> a, rhs |-> b])
  <1> SUFFICES ASSUME NEW l \in Layouts, NEW rows \in RowLists, NEW bc \in Bcs,
                      NEW a \in [Entries(l) -> Int], NEW b \in Sides[l], Constrainable(l, rows)
               PROVE  KeepsSolutions(l, SM!EliminatedVals(l, a, rows), SM!EliminatedRhs(l, a, rows, bc, b),
                                     [rows |-> rows, bc |-> bc, vals |-> a, rhs |-> b])
    OBVIOUS
  <1>1. rows \in Seq(Int) /\ b \in [RowsOf(l) -> Int]
    BY LayoutAssumption DEF RowsOf
  <1>2. \A i \in Positions(rows) : bc[i] \in Int
    BY NumbersAssumption
  <1>3. IsEliminated(l, rows, bc, a, b, SM!EliminatedVals(l, a, rows), SM!EliminatedRhs(l, a, rows, bc, b))
    BY ComputesElimination
  <1> QED
    BY <1>1, <1>2, <1>3, EliminationKeeps

(* A call of eliminateColumns leaves a system with the solutions of the    *)
(* one before it.                                                          *)
LEMMA EliminateKeeps ==
  ASSUME IInv, vals \in [Entries(layout) -> Int], NEW rows \in RowLists, NEW bc \in Bcs, NEW b \in Sides[layout],
         EliminateColumns(rows, bc, b)
  PROVE  SameSolutions'
  <1>1. layout \in Layouts
    BY DEF IInv, CacheKey
  <1>2. SM!EliminateColumns(rows, bc, b)
    BY EliminateRefines
  <1>3. /\ Constrainable(layout, rows) /\ layout' = layout
        /\ vals' = SM!EliminatedVals(layout, vals, rows) /\ rhs' = SM!EliminatedRhs(layout, vals, rows, bc, b)
        /\ pre' = [rows |-> rows, bc |-> bc, vals |-> vals, rhs |-> b]
    BY <1>2, SameNames DEF SM!EliminateColumns
  <1> QED
    BY <1>1, <1>3, AbstractKeeps DEF SameSolutions

(* The new matrix has no system before it.                                 *)
THEOREM InitSolutionsIInv == Init => SolutionsIInv
  BY InitIInv, ZerosTyped DEF Init, SolutionsIInv, SameSolutions

(* No call breaks it: only eliminateColumns leaves a system to compare.    *)
THEOREM NextSolutionsIInv == SolutionsIInv /\ [Next]_vars => SolutionsIInv'
  <1> SUFFICES ASSUME SolutionsIInv, [Next]_vars PROVE SolutionsIInv'
    OBVIOUS
  <1>1. IInv /\ vals \in [Entries(layout) -> Int] /\ SameSolutions /\ IInv'
    BY NextIInv DEF SolutionsIInv
  <1> SUFFICES vals' \in [Entries(layout') -> Int] /\ SameSolutions'
    BY <1>1 DEF SolutionsIInv
  <1>2. CASE UNCHANGED vars
    BY <1>1, <1>2 DEF vars, SameSolutions
  <1>3. ASSUME NEW l \in Layouts \ {Default}, Setup(l)
        PROVE  vals' \in [Entries(layout') -> Int] /\ SameSolutions'
    BY <1>3, ZerosTyped DEF Setup, SameSolutions
  <1>4. ASSUME NEW e \in Elements, AddElement(e)
        PROVE  vals' \in [Entries(layout') -> Int] /\ SameSolutions'
    <2>1. layout' = layout /\ pre' = NoSystem /\ vals' = [k \in Entries(layout) |-> vals[k] + e.vals[k]]
      BY <1>4 DEF AddElement
    <2>2. \A k \in Entries(layout) : e.vals[k] \in Int
      BY <1>4, NumbersAssumption DEF AddElement
    <2>3. \A k \in Entries(layout) : vals[k] + e.vals[k] \in Int
      BY <1>1, <2>2
    <2> QED
      BY <2>1, <2>3 DEF SameSolutions
  <1>5. ASSUME NEW rows \in RowLists, NEW diag \in Diags, ReplaceRows(rows, diag)
        PROVE  vals' \in [Entries(layout') -> Int] /\ SameSolutions'
    BY <1>1, <1>5, DiagonalRowsTyped, NumbersAssumption DEF ReplaceRows, SameSolutions
  <1>6. ASSUME NEW rows \in RowLists, NEW bc \in Bcs, NEW b \in Sides[layout], EliminateColumns(rows, bc, b)
        PROVE  vals' \in [Entries(layout') -> Int] /\ SameSolutions'
    <2> DEFINE c == Lookup(rows)
               emptied == [k \in Entries(layout) |->
                             IF \E i \in Positions(rows) : k \in c.cols[i] THEN 0 ELSE vals[k]]
    <2>1. emptied \in [Entries(layout) -> Int]
      BY <1>1
    <2>2. vals' = DiagonalRows(c, rows, emptied, 1) /\ layout' = layout
      BY <1>6 DEF EliminateColumns
    <2> HIDE DEF c, emptied
    <2>3. vals' \in [Entries(layout') -> Int]
      BY <2>1, <2>2, DiagonalRowsTyped
    <2>4. SameSolutions'
      BY <1>1, <1>6, EliminateKeeps
    <2> QED
      BY <2>3, <2>4
  <1>7. ASSUME NEW rows \in RowLists, Rejected(rows) \/ Unchecked(rows)
        PROVE  vals' \in [Entries(layout') -> Int] /\ SameSolutions'
    <2>1. layout' = layout /\ pre' = NoSystem
      BY <1>7 DEF Rejected, Unchecked
    <2>2. [k \in Entries(layout) |->
             IF \E i \in Positions(rows) : RowOf(layout, k) = rows[i] THEN 0 ELSE vals[k]]
            \in [Entries(layout) -> Int]
      BY <1>1
    <2>3. vals' \in [Entries(layout) -> Int]
      BY <1>1, <1>7, <2>2, ZerosTyped DEF Rejected, Unchecked
    <2> QED
      BY <2>1, <2>3 DEF SameSolutions
  <1> QED
    BY <1>2, <1>3, <1>4, <1>5, <1>6, <1>7 DEF Next

(* An eliminated system has the solutions of the system before the call    *)
(* that take the prescribed values, whatever cache the call found.         *)
THEOREM SameSolutionsAlways == Spec => []SameSolutions
  BY InitSolutionsIInv, NextSolutionsIInv, PTL DEF Spec, SolutionsIInv
=============================================================================
