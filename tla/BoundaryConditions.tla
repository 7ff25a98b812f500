--------------------------- MODULE BoundaryConditions --------------------------
(***************************************************************************)
(* The boundary values of the Navier-Stokes application: velocities given  *)
(* as samples in time and a profile in space, the ordered list of          *)
(* conditions, and the constrained dofs with their values at every level.  *)
(* Values are integers in a unit small enough for every quotient taken.    *)
(***************************************************************************)
EXTENDS GmshReader, NavierSpaces

VARIABLES
  bc,     \* the conditions of a time as they are listed, and the ordered ones of all times
  data    \* the boundary data of the problem, or NoData

NoData == <<>>
NoList == <<>>
NoConditions == [list |-> NoList, ordered |-> <<>>]

-----------------------------------------------------------------------------
(* lowerInterval: the last sample that is not after t.                     *)
LowerInterval(time, t) == CHOOSE i \in DOMAIN time : time[i] <= t /\ (i < Len(time) => t < time[i + 1])

(* periodicTime; TLA+'s remainder is never negative.                       *)
PeriodicTime(v, t) == IF v.per <= 0 THEN t ELSE v.time[1] + ((t - v.time[1]) % v.per)

(* The samples' ends hold beyond them.                                     *)
Outside(v, t) == Len(v.time) = 1 \/ t <= v.time[1] \/ t >= v.time[Len(v.time)]
AtEnds(v, t) == IF Len(v.time) = 1 \/ t <= v.time[1] THEN v.vals[1] ELSE v.vals[Len(v.vals)]

SampleConstant(v, t) == v.vals[LowerInterval(v.time, t)]

SampleNearest(v, t) ==
  LET i == LowerInterval(v.time, t) IN
  IF t - v.time[i] <= v.time[i + 1] - t THEN v.vals[i] ELSE v.vals[i + 1]

SampleLinear(v, t) ==
  LET i == LowerInterval(v.time, t) IN
  v.vals[i] + ((t - v.time[i]) * (v.vals[i + 1] - v.vals[i])) \div (v.time[i + 1] - v.time[i])

(* n / d of the way from y1 to y2.                                         *)
CatmullRom(y0, y1, y2, y3, n, d) ==
  ((2 * y1) * d * d * d + (-y0 + y2) * n * d * d
   + (2 * y0 - 5 * y1 + 4 * y2 - y3) * n * n * d
   + (-y0 + 3 * y1 - 3 * y2 + y3) * n * n * n) \div (2 * d * d * d)

(* The neighbour after the last sample is the second of the next period.   *)
SampleCubic(v, t) ==
  LET i == LowerInterval(v.time, t)
      size == Len(v.vals)
      i0 == IF i > 1 THEN i - 1 ELSE i
      i3 == IF i + 2 <= size THEN i + 2 ELSE IF v.per > 0 THEN i + 2 - (size - 1) ELSE size
  IN CatmullRom(v.vals[i0], v.vals[i], v.vals[i + 1], v.vals[i3], t - v.time[i], v.time[i + 1] - v.time[i])

SampleVelocityValue(v, time) ==
  LET t == PeriodicTime(v, time) IN
  IF Outside(v, t) THEN AtEnds(v, t)
  ELSE CASE v.interp = "constant" -> SampleConstant(v, t)
         [] v.interp = "nearest" -> SampleNearest(v, t)
         [] v.interp = "linear" \/ Len(v.time) < 4 -> SampleLinear(v, t)
         [] OTHER -> SampleCubic(v, t)

-----------------------------------------------------------------------------
(* Points of space, in coordinates that make the lengths below integers.   *)
Dot(a, b) == a[1] * b[1] + a[2] * b[2] + a[3] * b[3]
Difference(a, b) == [i \in 1 .. 3 |-> a[i] - b[i]]
Root(n) == CHOOSE k \in 0 .. n : k * k <= n /\ n < (k + 1) * (k + 1)
Cross(a, b) == <<a[2] * b[3] - a[3] * b[2], a[3] * b[1] - a[1] * b[3], a[1] * b[2] - a[2] * b[1]>>

FacetsOf(m, tag) == {i \in DOMAIN m.facets : m.facets[i].ptag = tag}

(* facetWeight: a length, or twice an area; a factor they share cancels.   *)
FacetWeight(m, facet) ==
  LET P(k) == NodeOf(m, facet.nids[k]) IN
  CASE Len(facet.nids) = 2 -> Root(Dot(Difference(P(1), P(2)), Difference(P(1), P(2))))
    [] Len(facet.nids) = 3 ->
         Root(Dot(Cross(Difference(P(2), P(1)), Difference(P(3), P(1))),
                  Cross(Difference(P(2), P(1)), Difference(P(3), P(1)))))
    [] OTHER -> 1

FacetSum(m, facet, id) == SumFunction([k \in DOMAIN facet.nids |-> NodeOf(m, facet.nids[k])[id]])

(* boundaryCenter: the weighted mean of the facets' centres.               *)
BoundaryCenter(m, tag) ==
  LET facets == FacetsOf(m, tag)
      total == SumFunction([i \in facets |-> FacetWeight(m, m.facets[i])])
  IN [id \in 1 .. 3 |->
        SumFunction([i \in facets |->
          (FacetWeight(m, m.facets[i]) * FacetSum(m, m.facets[i], id)) \div Len(m.facets[i].nids)]) \div total]

(* peakSpeed.                                                              *)
MeanToPeak == 2
PeakSpeed(v, val) ==
  LET shape == IF v.prof.type = "poiseuille" /\ v.qty # "max_velocity" THEN MeanToPeak ELSE 1 IN
  IF v.qty = "flowrate" THEN (shape * val) \div v.area ELSE shape * val

(* The squared distance to the axis, times the squared length of nrm.      *)
DistanceToAxis(m, v, tag, point) ==
  LET cen == IF v.prof.cen = Absent THEN BoundaryCenter(m, tag) ELSE v.prof.cen
      delta == Difference(point, cen)
  IN Dot(delta, delta) * Dot(v.nrm, v.nrm) - Dot(delta, v.nrm) * Dot(delta, v.nrm)

(* velocityComponent over profileFactor.                                   *)
VelocityComponent(m, v, tag, point, time, comp) ==
  LET peak == PeakSpeed(v, SampleVelocityValue(v, time))
      axial == (peak * v.nrm[comp + 1]) \div Root(Dot(v.nrm, v.nrm))
      radius2 == v.prof.rad * v.prof.rad * Dot(v.nrm, v.nrm)
      inside == radius2 - DistanceToAxis(m, v, tag, point)
  IN IF v.prof.type = "uniform" THEN axial
     ELSE IF inside <= 0 THEN 0 ELSE (axial * inside) \div radius2

-----------------------------------------------------------------------------
(* DirichletBC::addBoundary: the nodes of the tag's facets, in order.      *)
BoundaryNodes(m, tag) == SetToSortSeq(UNION {ToSet(m.facets[i].nids) : i \in FacetsOf(m, tag)}, <)
Constant(value) == [is |-> "constant", value |-> value]
Profile(v, comp) == [is |-> "velocity", v |-> v, comp |-> comp]

AddBoundary(m, field, tag, value, time, comp) ==
  LET nodes == BoundaryNodes(m, tag) IN
  [i \in DOMAIN nodes |->
     [dof |-> GlobalDof(m, field, nodes[i], comp),
      val |-> IF value.is = "constant" THEN value.value
              ELSE VelocityComponent(m, value.v, tag, NodeOf(m, nodes[i]), time, comp)]]

(* What one condition of the script adds, in the order of the code.        *)
AddCondition(m, cond, time) ==
  LET Optional(field, val, comp) ==
        IF val = Absent THEN <<>> ELSE AddBoundary(m, field, cond.tag, Constant(val), time, comp)
      velocity == IF cond.velocity = Absent THEN <<>>
                  ELSE FlattenSeq([ic \in 1 .. m.dim |->
                         AddBoundary(m, "u", cond.tag, Profile(cond.velocity, ic - 1), time, ic - 1)])
  IN velocity \o Optional("u", cond.ux, 0) \o Optional("u", cond.uy, 1) \o Optional("u", cond.uz, 2)
     \o Optional("p", cond.p, 0)

ConditionThrows(m, cond) ==
  \/ FacetsOf(m, cond.tag) = {}
  \/ cond.uz # Absent /\ m.dim < 3
  \/ cond.velocity # Absent /\ m.dim < 3 /\ cond.velocity.nrm[3] # 0

(* Without a pressure condition, the pressure is fixed at the first node.  *)
Pin(m, bcs) ==
  IF \E i \in DOMAIN bcs : bcs[i].p # Absent THEN <<>> ELSE <<[dof |-> GlobalDof(m, "p", 0, 0), val |-> 0]>>

(* orderedBC, with the first value of a dof kept.  (Mutant.)               *)
FirstOfDof(m, list) ==
  [d \in {list[i].dof : i \in DOMAIN list} |->
     list[CHOOSE i \in DOMAIN list : list[i].dof = d /\ \A j \in 1 .. i - 1 : list[j].dof # d].val]

(* orderedBC: one value for a dof, the last, in the order of the dofs.     *)
OrderedBC(m, list) ==
  [d \in {list[i].dof : i \in DOMAIN list} |->
     list[CHOOSE i \in DOMAIN list : list[i].dof = d /\ \A j \in i + 1 .. Len(list) : list[j].dof # d].val]

-----------------------------------------------------------------------------
(* makeDirichletBoundaryConditions, called for time zero and for the end   *)
(* of every step: all conditions are listed, and then ordered.             *)
ListConditions(m, prm) ==
  /\ bc.list = NoList /\ Len(bc.ordered) <= prm.time.steps
  /\ \A i \in DOMAIN prm.bcs : ~ConditionThrows(m, prm.bcs[i])
  /\ bc' = [bc EXCEPT !.list =
       FlattenSeq([i \in DOMAIN prm.bcs |-> AddCondition(m, prm.bcs[i], Len(bc.ordered) * prm.time.dt)]) \o Pin(m, prm.bcs)]
  /\ UNCHANGED data

OrderConditions(m) ==
  /\ bc.list # NoList
  /\ bc' = [list |-> NoList, ordered |-> Append(bc.ordered, OrderedBC(m, bc.list))]
  /\ UNCHANGED data

(* makeTimeDirichletData: the dofs of time zero, their values at the start *)
(* and at the end of every step.  The set may not change; here it cannot.  *)
MakeTimeDirichletData(m, prm) ==
  /\ Len(bc.ordered) = prm.time.steps + 1
  /\ data' = [dofs |-> DOMAIN bc.ordered[1],
              vals |-> [k \in 0 .. prm.time.steps - 1 |-> bc.ordered[k + 2]],
              init_state |-> [d \in Dofs(m) |-> IF d \in DOMAIN bc.ordered[1] THEN bc.ordered[1][d] ELSE 0]]
  /\ bc' = NoConditions
=============================================================================
