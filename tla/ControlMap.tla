------------------------------ MODULE ControlMap ------------------------------
(***************************************************************************)
(* The controls of a transient problem: which boundary degrees of freedom  *)
(* a parameter vector prescribes, at which step, and the initial state it  *)
(* gives (femx::fem DirichletControl, ControlMap, InitialStateMap, and     *)
(* LinearInterpolation), with the transposes the adjoint adds.  A control  *)
(* is a record of its dofs by row, its number of columns and its matrix as *)
(* a set of entries; values at the boundary come by position in `dofs`.    *)
(***************************************************************************)
EXTENDS Integers, FiniteSetsExt

-----------------------------------------------------------------------------
(***************************************************************************)
(* Exact arithmetic for the numbers of a discrete adjoint (femx::Real): a  *)
(* field of P elements, P an odd prime.  Sums, products and solutions of   *)
(* regular systems are exact, and an identity between the code's formulas  *)
(* that holds for real numbers holds here.  Vectors and matrices count     *)
(* from 0 as the code does.                                                *)
(***************************************************************************)

CONSTANT P

ASSUME PrimeAssumption ==
  /\ P \in Nat /\ P > 2
  /\ \A n \in 2 .. P - 1 : P % n # 0

F == 0 .. P - 1
Half == (P + 1) \div 2
Inv(a) == CHOOSE b \in F : (a * b) % P = 1

Range0(n) == 0 .. n - 1
Zero(S) == [i \in S |-> 0]
Block(x, off, n) == [i \in Range0(n) |-> x[off + i]]

Sum(term(_), S) == MapThenSumSet(term, S) % P
Dot(x, y) == Sum(LAMBDA i : x[i] * y[i], DOMAIN x)
Axpy(a, x, y) == [i \in DOMAIN y |-> (a * x[i] + y[i]) % P]
Scaled(a, x) == [i \in DOMAIN x |-> (a * x[i]) % P]

(* A dense matrix is a function from rows to rows.                         *)
MatVec(A, x) == [i \in DOMAIN A |-> Dot(A[i], x)]
MatVecT(A, y, cols) == [j \in cols |-> Sum(LAMBDA i : A[i][j] * y[i], DOMAIN A)]

(* The solution of a square system; only for a regular matrix.             *)
Solutions(A, b) == {x \in [DOMAIN A -> F] : \A i \in DOMAIN A : Dot(A[i], x) = b[i]}
Regular(A) == Solutions(A, Zero(DOMAIN A)) = {Zero(DOMAIN A)}
Solve(A, b) == CHOOSE x \in Solutions(A, b) : TRUE
SolveT(A, b) == Solve([j \in DOMAIN A |-> [i \in DOMAIN A |-> A[i][j]]], b)

-----------------------------------------------------------------------------
(* A stencil interpolates between two levels; the weight is the upper's.   *)
LowerWeight(s) == (1 - s.wt) % P
HasUpper(s) == s.upper # s.lower /\ s.wt # 0
Weights(s) ==
  {[level |-> s.lower, wt |-> LowerWeight(s)]}
  \cup (IF HasUpper(s) THEN {[level |-> s.upper, wt |-> s.wt]} ELSE {})
StencilOK(s) == s.lower >= 0 /\ s.upper >= s.lower /\ (s.upper = s.lower => s.wt = 0)

SparseMatVec(ctr, x) ==
  [r \in DOMAIN ctr.dofs |-> Sum(LAMBDA e : e.wt * x[e.col], {e \in ctr.entries : e.row = r})]
SparseMatVecT(ctr, y) ==
  [c \in Range0(ctr.cols) |-> Sum(LAMBDA e : e.wt * y[e.row], {e \in ctr.entries : e.col = c})]

(* linearInterpolation: the first interval of the points that holds x, the *)
(* first or last point outside of them.                                    *)
LinearInterpolation(pts, x) ==
  LET last == Cardinality(DOMAIN pts) - 1
      at == Min({l \in Range0(last) : pts[l] <= x /\ x <= pts[l + 1]})
  IN  IF x <= pts[0] THEN [lower |-> 0, upper |-> 0, wt |-> 0]
      ELSE IF x >= pts[last] THEN [lower |-> last, upper |-> last, wt |-> 0]
      ELSE [lower |-> at, upper |-> at + 1,
            wt |-> ((x - pts[at]) * Inv((pts[at + 1] - pts[at]) % P)) % P]

(* The control without some of its dofs: the rows that stay and the        *)
(* columns these rows use move up to close the gaps.                       *)
Rank(S, i) == Cardinality({j \in S : j < i})
AtRank(S, r) == CHOOSE i \in S : Rank(S, i) = r
KeptRows(ctr, excluded) == {r \in DOMAIN ctr.dofs : ctr.dofs[r] \notin excluded}
(* Columns that only removed rows use stay.  (Mutant.)                     *)
EveryCol(ctr, excluded) == {e.col : e \in ctr.entries}

UsedCols(ctr, excluded) ==
  {e.col : e \in {e \in ctr.entries : e.row \in KeptRows(ctr, excluded)}}
WithoutStateDofs(ctr, excluded) ==
  LET rows == KeptRows(ctr, excluded)
      cols == UsedCols(ctr, excluded)
  IN  [dofs |-> [r \in Range0(Cardinality(rows)) |-> ctr.dofs[AtRank(rows, r)]],
       cols |-> Cardinality(cols),
       entries |-> {[row |-> Rank(rows, e.row), col |-> Rank(cols, e.col), wt |-> e.wt] :
                      e \in {e \in ctr.entries : e.row \in rows}}]

(* makeControlMap.  Without stencils every step has a level of its own;    *)
(* without fixed values these are zero; values for one step serve all.     *)
NumLevels(time) == Max({time[s].upper + 1 : s \in DOMAIN time})
MakeControlMap(num_steps, ctr, fixed_dofs, fixed_vals, time, off, num_prm) ==
  LET nf == Cardinality(DOMAIN fixed_dofs)
      nr == Cardinality(DOMAIN ctr.dofs)
      t == IF time = <<>> THEN [s \in Range0(num_steps) |-> [lower |-> s, upper |-> s, wt |-> 0]]
           ELSE time
      needed == off + NumLevels(t) * ctr.cols
  IN  [ctr |-> ctr,
       time |-> t,
       off |-> off,
       num_prm |-> IF num_prm < 0 THEN needed ELSE num_prm,
       needed |-> needed,
       num_fixed |-> nf,
       fixed_vals |-> IF fixed_vals = <<>> THEN Zero(Range0(nf)) ELSE fixed_vals,
       dofs |-> [i \in Range0(nr + nf) |-> IF i < nr THEN ctr.dofs[i] ELSE fixed_dofs[i - nr]]]

(* What makeControlMap requires.                                           *)
ControlMapOK(map, num_steps, states) ==
  /\ \A i, j \in DOMAIN map.dofs : map.dofs[i] = map.dofs[j] => i = j
  /\ \A i \in DOMAIN map.dofs : map.dofs[i] \in states
  /\ DOMAIN map.time = Range0(num_steps)
  /\ \A s \in DOMAIN map.time : StencilOK(map.time[s])
  /\ map.num_prm >= map.needed
  /\ DOMAIN map.fixed_vals \in {Range0(map.num_fixed), Range0(num_steps * map.num_fixed)}

LevelBlock(map, prm, level) == Block(prm, map.off + level * map.ctr.cols, map.ctr.cols)

(* The part of the boundary values at a step that the parameters give.     *)
Controlled(map, step, prm) ==
  LET s == map.time[step]
      lower == Scaled(LowerWeight(s), SparseMatVec(map.ctr, LevelBlock(map, prm, s.lower)))
  IN  IF HasUpper(s)
      THEN Axpy(s.wt, SparseMatVec(map.ctr, LevelBlock(map, prm, s.upper)), lower)
      ELSE lower

FixedStride(map) == IF DOMAIN map.fixed_vals = Range0(map.num_fixed) THEN 0 ELSE map.num_fixed

ControlVals(map, step, prm) ==
  LET c == Controlled(map, step, prm)
  IN  [i \in DOMAIN map.dofs |->
         IF i \in DOMAIN c THEN c[i]
         ELSE map.fixed_vals[step * FixedStride(map) + i - Cardinality(DOMAIN c)]]

ControlledRows(map) == DOMAIN map.ctr.dofs

(* The derivative of the residual's controlled rows, u - value.            *)
ControlJac(map, step, dir, states) ==
  LET c == Scaled(-1, Controlled(map, step, dir))
  IN  [d \in states |->
         IF \E r \in ControlledRows(map) : map.dofs[r] = d
         THEN c[CHOOSE r \in ControlledRows(map) : map.dofs[r] = d]
         ELSE 0]

(* The sign of the controlled rows is lost.  (Mutant.)                     *)
PlusLevelT(map, level, wt, compact, grad) ==
  LET g == SparseMatVecT(map.ctr, compact)
      first == map.off + level * map.ctr.cols
  IN  [p \in DOMAIN grad |->
         IF p - first \in DOMAIN g THEN (grad[p] + wt * g[p - first]) % P ELSE grad[p]]

(* grad plus -w times the transposed control matrix, for both levels.      *)
AddLevelT(map, level, wt, compact, grad) ==
  LET g == SparseMatVecT(map.ctr, compact)
      first == map.off + level * map.ctr.cols
  IN  [p \in DOMAIN grad |->
         IF p - first \in DOMAIN g THEN (grad[p] - wt * g[p - first]) % P ELSE grad[p]]

AddControlJacT(map, step, adj, grad) ==
  LET s == map.time[step]
      compact == [r \in ControlledRows(map) |-> adj[map.dofs[r]]]
      lower == AddLevelT(map, s.lower, LowerWeight(s), compact, grad)
  IN  IF HasUpper(s) THEN AddLevelT(map, s.upper, s.wt, compact, lower) ELSE lower

(* An initial state: the mean, modes with parameters from `init_off` on,   *)
(* and the controlled dofs as the first level of the control has them.     *)
InitialStateMapOK(map) ==
  /\ map.init_off + map.num_modes <= map.num_prm
  /\ map.ctr_off + map.ctr.cols <= map.num_prm
  /\ \A r \in DOMAIN map.ctr.dofs, m \in Range0(map.num_modes) : map.modes[map.ctr.dofs[r]][m] = 0

InitialState(map, prm) ==
  LET free == Axpy(1, MatVec(map.modes, Block(prm, map.init_off, map.num_modes)), map.mean)
      c == SparseMatVec(map.ctr, Block(prm, map.ctr_off, map.ctr.cols))
  IN  [d \in DOMAIN free |->
         IF \E r \in DOMAIN c : map.ctr.dofs[r] = d
         THEN c[CHOOSE r \in DOMAIN c : map.ctr.dofs[r] = d]
         ELSE free[d]]

(* The initial state's controlled dofs are forgotten.  (Mutant.)           *)
ModesOnly(map, adj, grad) ==
  LET m == MatVecT(map.modes, adj, Range0(map.num_modes))
  IN  [p \in DOMAIN grad |->
         (grad[p] + (IF p - map.init_off \in DOMAIN m THEN m[p - map.init_off] ELSE 0)) % P]

AddInitialJacT(map, adj, grad) ==
  LET m == MatVecT(map.modes, adj, Range0(map.num_modes))
      c == SparseMatVecT(map.ctr, [r \in DOMAIN map.ctr.dofs |-> adj[map.ctr.dofs[r]]])
  IN  [p \in DOMAIN grad |->
         (grad[p] + (IF p - map.init_off \in DOMAIN m THEN m[p - map.init_off] ELSE 0)
                  + (IF p - map.ctr_off \in DOMAIN c THEN c[p - map.ctr_off] ELSE 0)) % P]
=============================================================================
