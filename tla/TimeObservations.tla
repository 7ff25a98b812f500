--------------------------- MODULE TimeObservations ---------------------------
(***************************************************************************)
(* Observations of a velocity at points and times: where a point lies in   *)
(* the mesh and what a state has there (fem::TimePointInterpolator), the   *)
(* Python operator and its Gaussian misfit over the levels around a time   *)
(* (femx.observation), the C++ objective made of the same data, and the    *)
(* data with their text file (inverse::TimeObservationData); and the fixed *)
(* and controlled problems of a mesh.  A session is one client, of Python  *)
(* or of the library.  Coordinates are integers, of  *)
(* which no determinant is a multiple of P; a point lies in an element or  *)
(* outside by more than the code's tolerance.                              *)
(***************************************************************************)
EXTENDS DiscreteAdjoint

CONSTANTS
  Sessions,         \* client, mesh, points, components (or NoComponents), times;
                    \* of a problem: mesh, conditions, control
  Field(_, _, _),   \* the velocity at a level, by component and point: affine in the point
  LevelLists, TimeLists   \* what a client of the library sets as levels or times of its rows

VARIABLES
  session,    \* what the client has
  stage,      \* where it is
  op,         \* its operator, or its problem
  flow,       \* its trajectory
  evaluated,  \* what a Python client got of a misfit
  data,       \* its TimeObservationData
  refused,    \* history: a setter has thrown since the data had their size
  file,       \* the words of its file, and history: the data written
  back        \* what was read from it: the data, or no element

obsVars == <<session, stage, op, flow, evaluated, data, refused, file, back>>

NoComponents == <<>>
None == <<>>
Counted(list) == [i \in Range0(Len(list)) |-> list[i + 1]]
Increasing(list) == \A i \in DOMAIN list : i > 1 => list[i - 1] < list[i]

-----------------------------------------------------------------------------
(* Where a point is.  A vector has its three components.                   *)
Place(m, ie, in) == m.nodes[Fem!Conn(m, ie, in) + 1]
Corners(m) == 0 .. Fem!NumShapes(m) - 1
Diff(a, b) == [id \in 1 .. 3 |-> a[id] - b[id]]
Det(a, b) == a[1] * b[2] - a[2] * b[1]
Cross(a, b) == <<a[2] * b[3] - a[3] * b[2], a[3] * b[1] - a[1] * b[3], Det(a, b)>>
Scalar(a, b) == a[1] * b[1] + a[2] * b[2] + a[3] * b[3]

InsideBox(m, ie, point) ==
  \A id \in 1 .. m.dim :
    LET xs == {Place(m, ie, in)[id] : in \in Corners(m)} IN Min(xs) <= point[id] /\ point[id] <= Max(xs)

(* The place in the reference element, in parts of a determinant; that of  *)
(* a parallelogram, on which Newton's first step is the last.              *)
Reference(m, ie, point) ==
  LET a == Place(m, ie, 0)
      e1 == Diff(Place(m, ie, 1), a)
      e2 == Diff(Place(m, ie, IF Fem!ElemOf(m, ie).shape = "quad" THEN 3 ELSE 2), a)
      e3 == Diff(Place(m, ie, 3), a)
      rhs == Diff(point, a)
  IN IF m.dim = 2 THEN [det |-> Det(e1, e2), at |-> <<Det(rhs, e2), Det(e1, rhs)>>]
     ELSE [det |-> Scalar(e1, Cross(e2, e3)),
           at |-> <<Scalar(rhs, Cross(e2, e3)), Scalar(e1, Cross(rhs, e3)), Scalar(e1, Cross(e2, rhs))>>]

(* shapeWeights, over Whole of the parts.                                  *)
Parts(shape, ref) ==
  LET r == ref.at[1]  s == ref.at[2]  det == ref.det
  IN CASE shape = "triangle" -> <<det - r - s, r, s>>
       [] shape = "quad" -> <<(det - r) * (det - s), r * (det - s), r * s, (det - r) * s>>
       [] OTHER -> <<det - r - s - ref.at[3], r, s, ref.at[3]>>
Whole(shape, ref) == IF shape = "quad" THEN ref.det * ref.det ELSE ref.det

Between(part, det) == 0 <= part * det /\ part * det <= det * det
Inside(shape, ref) ==
  /\ ref.det # 0
  /\ \A i \in DOMAIN ref.at : Between(ref.at[i], ref.det)
  /\ shape # "quad" => \A i \in DOMAIN Parts(shape, ref) : Between(Parts(shape, ref)[i], ref.det)

Holds(m, ie, point) == InsideBox(m, ie, point) /\ Inside(Fem!ElemOf(m, ie).shape, Reference(m, ie, point))
ContainsPoint(m, point) == \E ie \in Fem!Elems(m) : Holds(m, ie, point)
FilterPointsInside(m, points) ==
  LET In(point) == ContainsPoint(m, point) IN SelectSeq(points, In)

(* The stencil of the first element that has the point.                    *)
Stencil(m, point) ==
  LET ie == Min({e \in Fem!Elems(m) : Holds(m, e, point)})
      shape == Fem!ElemOf(m, ie).shape
      ref == Reference(m, ie, point)
  IN [in \in Corners(m) |-> [nid |-> Fem!Conn(m, ie, in),
                             wt |-> (Parts(shape, ref)[in + 1] * Inv(Whole(shape, ref) % P)) % P]]

(* The components come one after another at every point.                   *)
PointOfRow(comps, q) == 1 + (q \div Len(comps))
CompOfRow(comps, q) == comps[1 + (q % Len(comps))]

BuildData(m, points, comps) ==
  [q \in Range0(Len(points) * Len(comps)) |->
     LET stencil == Stencil(m, points[PointOfRow(comps, q)])
         row == {[dof |-> Fem!GlobalDof(m, "u", stencil[in].nid, CompOfRow(comps, q)), wt |-> stencil[in].wt] :
                   in \in Corners(m)}
     IN [d \in Fem!Dofs(m) |-> Sum(LAMBDA e : e.wt, {e \in row : e.dof = d})]]

(* TimePointInterpolator, or no element where it throws.                   *)
AllComponents(m) == [c \in 1 .. m.dim |-> c - 1]
Interpolators(m, points, given) ==
  LET comps == IF given = NoComponents THEN AllComponents(m) ELSE given
  IN {[pts |-> points, comps |-> comps, matrix |-> BuildData(m, points, comps)] :
        ok \in {TRUE} \cap {/\ \A i \in DOMAIN comps : 0 <= comps[i] /\ comps[i] < m.dim
                            /\ \A i \in DOMAIN points : ContainsPoint(m, points[i])}}

NumObservations(o) == Cardinality(DOMAIN o.matrix)
ObserveLevel(o, state) == MatVec(o.matrix, state)

-----------------------------------------------------------------------------
(* VelocityObservationOperator.                                            *)
Padded(point) == [id \in 1 .. 3 |-> IF id <= Len(point) THEN point[id] ELSE 0]
PointsOK(s) == Len(s.points) > 0 /\ \A i \in DOMAIN s.points : Len(s.points[i]) \in {s.mesh.dim, 3}
TimesOK(s) ==
  /\ Len(s.times) > 0 /\ Increasing(s.times)
  /\ \A i \in DOMAIN s.times : 0 <= s.times[i] /\ s.times[i] <= NumSteps * Ticks
ComponentsOK(s) == \A i, j \in DOMAIN s.components : s.components[i] = s.components[j] => i = j

(* searchsorted, and the level below.                                      *)
UpperLevel(time) == Min({k \in Levels : time <= k * Ticks} \cup {NumSteps})
LowerLevel(time) == Max({UpperLevel(time) - 1, 0})
UpperWeight(time) ==
  IF UpperLevel(time) = LowerLevel(time) THEN 0
  ELSE ((time - LowerLevel(time) * Ticks) * Inv(((UpperLevel(time) - LowerLevel(time)) * Ticks) % P)) % P

Operators(s) ==
  {[o EXCEPT !.times = Counted(s.times)] :
     o \in {[pts |-> i.pts, comps |-> i.comps, matrix |-> i.matrix, times |-> None] :
              i \in IF PointsOK(s) /\ TimesOK(s) /\ ComponentsOK(s)
                    THEN Interpolators(s.mesh, [q \in DOMAIN s.points |-> Padded(s.points[q])], s.components)
                    ELSE {}}}

(* sample, and predict: a row of values for every time.                    *)
Sample(o, traj_) == [k \in Levels |-> ObserveLevel(o, traj_[k])]
Predict(o, traj_) ==
  LET solve == Sample(o, traj_)
  IN [t \in DOMAIN o.times |->
        LET wt == UpperWeight(o.times[t])
        IN Axpy(1 - wt, solve[LowerLevel(o.times[t])], Scaled(wt, solve[UpperLevel(o.times[t])]))]

(* An indexed += keeps the last time of a level.  (Mutant.)                *)
LastAt(rows, o) ==
  [k \in Levels |->
     [q \in DOMAIN o.matrix |->
        LET Latest(times) == {t \in times : \A s \in times : s <= t}
            lower == Latest({t \in DOMAIN o.times : LowerLevel(o.times[t]) = k})
            upper == Latest({t \in DOMAIN o.times : UpperLevel(o.times[t]) = k})
        IN ( Sum(LAMBDA t : (1 - UpperWeight(o.times[t])) * rows[t][q], lower)
           + Sum(LAMBDA t : UpperWeight(o.times[t]) * rows[t][q], upper)) % P]]

(* apply_transpose adds every time to its two levels (np.add.at).          *)
AddAt(rows, o) ==
  [k \in Levels |->
     [q \in DOMAIN o.matrix |->
        ( Sum(LAMBDA t : (1 - UpperWeight(o.times[t])) * rows[t][q], {t \in DOMAIN o.times : LowerLevel(o.times[t]) = k})
        + Sum(LAMBDA t : UpperWeight(o.times[t]) * rows[t][q], {t \in DOMAIN o.times : UpperLevel(o.times[t]) = k})) % P]]

ApplyTranspose(o, rows, dofs) == [k \in Levels |-> MatVecT(o.matrix, AddAt(rows, o)[k], dofs)]

-----------------------------------------------------------------------------
(* GaussianObservation.                                                    *)
Residual(pred, values) == [t \in DOMAIN values |-> Axpy(-1, values[t], pred[t])]
Whitened(pred, values, std) ==
  [t \in DOMAIN values |-> [q \in DOMAIN values[t] |-> (Residual(pred, values)[t][q] * Inv(std[t][q])) % P]]
GaussianMisfit(pred, values, std) ==
  LET white == Whitened(pred, values, std)
  IN (Half * Sum(LAMBDA t : Dot(white[t], white[t]), DOMAIN white)) % P

(* objective: of the same operator, with the weights of the deviations.    *)
Precision(std) == [t \in DOMAIN std |-> [q \in DOMAIN std[t] |-> (Inv(std[t][q]) * Inv(std[t][q])) % P]]
Objective(o, values, std, level_wts) ==
  [kind |-> "misfit", points |-> o.matrix, time_vals |-> o.times, time_levels |-> None, offset |-> 0,
   data |-> values, wts |-> level_wts, entry_wts |-> Precision(std)]

Uniform == [k \in Levels |-> 1]
NotEvaluated == None
Evaluation(o, values, std) ==
  LET obj == Objective(o, values, std, Uniform)
      pred == Predict(o, flow)
  IN [pred |-> pred, values |-> values, std |-> std, misfit |-> GaussianMisfit(pred, values, std),
      value |-> Misfit(obj, flow), grad |-> [k \in Levels |-> MisfitStateGrad(obj, k, flow)]]

-----------------------------------------------------------------------------
(* TimeObservationData.  The setters assign, and check then.               *)
Data(num_levels, num_obs, rows) ==
  [num_levels |-> num_levels, num_obs |-> num_obs, rows |-> rows,
   sampler |-> "", pts |-> <<>>, comps |-> <<>>, time_levels |-> <<>>, time_vals |-> <<>>]
NoData == None
Zeros(num_levels, num_obs) == [l \in Range0(num_levels) |-> Zero(Range0(num_obs))]

Resized(d, num_levels, num_obs) == Data(num_levels, num_obs, Zeros(num_levels, num_obs))
WithLayout(d, sampler, pts, comps) == [d EXCEPT !.sampler = sampler, !.pts = pts, !.comps = comps]
WithTimeLevels(d, levels) == [d EXCEPT !.time_levels = levels, !.time_vals = <<>>]
WithTimeValues(d, vals) == [d EXCEPT !.time_vals = vals, !.time_levels = <<>>]

LayoutOK(d) ==
  d.sampler # "" => Len(d.pts) > 0 /\ Len(d.comps) > 0 /\ Len(d.pts) * Len(d.comps) = d.num_obs
ListOK(d, list) == list # <<>> => Len(list) = d.num_levels /\ list[1] >= 0 /\ Increasing(list)
Consistent(d) == LayoutOK(d) /\ ListOK(d, d.time_levels) /\ ListOK(d, d.time_vals)

(* sampleTimeObs.                                                          *)
SampleTimeObs(o, traj_) == Data(NumSteps + 1, NumObservations(o), Sample(o, traj_))

-----------------------------------------------------------------------------
(* writeTimeObsData.  A value past the end of a row is anything.           *)
Word(w) == << [is |-> "word", v |-> w] >>
Number(n) == << [is |-> "number", v |-> n] >>
Numbers(list) == [i \in DOMAIN list |-> [is |-> "number", v |-> list[i]]]
Garbage == P
ValueIn(row, q) == IF q \in DOMAIN row THEN row[q] ELSE Garbage

LevelWords(d, level) ==
  Word("level") \o Number(level)
  \o Numbers([i \in 1 .. Len(d.pts) * Len(d.comps) |-> ValueIn(d.rows[level], i - 1)])
TimeWords(d) ==
  IF d.time_vals # <<>> THEN Word("time_values") \o Numbers(d.time_vals)
  ELSE IF d.time_levels # <<>> THEN Word("time_levels") \o Numbers(d.time_levels) ELSE <<>>

Words(d) ==
  Word("femx_time_obs_data") \o Word("num_levels") \o Number(d.num_levels) \o TimeWords(d)
  \o Word("num_points") \o Number(Len(d.pts)) \o Word("points") \o Lists!FlattenSeq([i \in DOMAIN d.pts |-> Numbers(d.pts[i])])
  \o Word("num_comp") \o Number(Len(d.comps)) \o Word("components") \o Numbers(d.comps)
  \o Word("values") \o Lists!FlattenSeq([i \in 1 .. d.num_levels |-> LevelWords(d, i - 1)])

(* What can be in the file after it was closed unnoticed, the disk full:   *)
(* as many words as fit, a number at the end perhaps cut to another or to  *)
(* what is none.                                                           *)
CutTo(words, n) ==
  LET kept == SubSeq(words, 1, n)
      Ending(w) == [kept EXCEPT ![n] = w]
  IN {kept} \cup (IF n > 0 /\ words[n].is = "number"
                  THEN {Ending([words[n] EXCEPT !.v = (@ + 1) % P]), Ending([is |-> "word", v |-> "-"])} ELSE {})

(* A stream: after an extraction that failed every other one fails, and    *)
(* leaves the key as it was and a number 0.                                *)
Stream == [at |-> 1, good |-> TRUE, key |-> ""]
GetKey(words, s) ==
  IF s.good /\ s.at <= Len(words)
  THEN [s EXCEPT !.at = @ + 1, !.key = IF words[s.at].is = "word" THEN words[s.at].v ELSE "number"]
  ELSE [s EXCEPT !.good = FALSE]

Extracted(words, s, n) ==
  Max({k \in 0 .. n : \A i \in 0 .. k - 1 : s.good /\ s.at + i <= Len(words) /\ words[s.at + i].is = "number"})
GetNumbers(words, s, n) == [s EXCEPT !.at = @ + Extracted(words, s, n), !.good = @ /\ Extracted(words, s, n) = n]
TheNumbers(words, s, n) == [i \in 1 .. n |-> IF i <= Extracted(words, s, n) THEN words[s.at + i - 1].v ELSE 0]
TheNumber(words, s) == TheNumbers(words, s, 1)[1]

(* readTimeObsData up to the levels, and its levels one by one.            *)
ReadHead(words) ==
  LET top == GetKey(words, Stream)
      count == GetKey(words, top)
      levels == TheNumber(words, count)
      list == GetKey(words, GetNumbers(words, count, 1))
      listed == list.key \in {"time_values", "time_levels"}
      points == IF listed THEN GetKey(words, GetNumbers(words, list, levels)) ELSE list
      num == TheNumber(words, points)
      coords == GetKey(words, GetNumbers(words, points, 1))
      comps == GetKey(words, GetNumbers(words, coords, 3 * num))
      num_comp == TheNumber(words, comps)
      comp_list == GetKey(words, GetNumbers(words, comps, 1))
      values == GetKey(words, GetNumbers(words, comp_list, num_comp))
      coord == TheNumbers(words, coords, 3 * num)
      Listed(key) == IF list.key = key THEN TheNumbers(words, list, levels) ELSE <<>>
  IN [ok |-> /\ top.key = "femx_time_obs_data" /\ count.key = "num_levels" /\ points.key = "num_points"
             /\ coords.key = "points" /\ comps.key = "num_comp" /\ comp_list.key = "components" /\ values.key = "values",
      stream |-> values,
      data |-> [Data(levels, num * num_comp, <<>>) EXCEPT
                  !.sampler = "point", !.pts = [i \in 1 .. num |-> SubSeq(coord, 3 * i - 2, 3 * i)],
                  !.comps = TheNumbers(words, comp_list, num_comp),
                  !.time_vals = Listed("time_values"), !.time_levels = Listed("time_levels")]]

(* Whether the numbers were there is not asked.  (Mutant.)                 *)
ReadUnchecked(words, d, s, level) ==
  LET label == GetKey(words, s)
      row == GetNumbers(words, label, 1)
  IN [ok |-> label.key = "level" /\ TheNumber(words, label) = level,
      stream |-> GetNumbers(words, row, d.num_obs), row |-> Counted(TheNumbers(words, row, d.num_obs))]

ReadLevel(words, d, s, level) ==
  LET label == GetKey(words, s)
      row == GetNumbers(words, label, 1)
  IN [ok |-> label.key = "level" /\ TheNumber(words, label) = level /\ Extracted(words, row, d.num_obs) = d.num_obs,
      stream |-> GetNumbers(words, row, d.num_obs), row |-> Counted(TheNumbers(words, row, d.num_obs))]

ReadTimeObsData(words) ==
  LET head == ReadHead(words)
      read[level \in 0 .. head.data.num_levels] ==
        IF level = 0 THEN ReadLevel(words, head.data, head.stream, 0)
        ELSE ReadLevel(words, head.data, read[level - 1].stream, level)
      rows == Range0(head.data.num_levels)
  IN IF head.ok /\ Consistent(head.data) /\ \A level \in rows : read[level].ok
     THEN {[head.data EXCEPT !.rows = [level \in rows |-> read[level].row]]} ELSE {}

-----------------------------------------------------------------------------
(* The clients.                                                            *)
NoSession == None
NoFile == [words |-> None, of |-> NoData]
Blank ==
  /\ op = None /\ flow = NoLevels /\ evaluated = NotEvaluated /\ data = NoData /\ refused = FALSE
  /\ file = NoFile /\ back = {}
Absent == session = NoSession /\ stage = "absent" /\ Blank
SessionInit == session \in Sessions /\ stage = "new" /\ Blank

(* A trajectory with the field in its velocity.                            *)
FlowOf(m) ==
  LET unknown == Fem!UnknownOf(m)
  IN [k \in Levels |-> [d \in Fem!Dofs(m) |->
        IF unknown[d][2] = "u" THEN Field(k, unknown[d][3], m.nodes[unknown[d][1] + 1]) ELSE k + 1]]

MakeOperator ==
  /\ stage = "new" /\ session.client # "problem"
  /\ LET made == IF session.client = "python" THEN Operators(session)
                 ELSE Interpolators(session.mesh, FilterPointsInside(session.mesh, session.points), session.components)
     IN \/ made = {} /\ stage' = "refused" /\ UNCHANGED <<op, flow>>
        \/ /\ op' \in made /\ flow' = FlowOf(session.mesh)
           /\ stage' = IF session.client = "python" THEN "operator" ELSE "interpolator"
  /\ UNCHANGED <<session, evaluated, data, refused, file, back>>

(* NavierProblem.build, and what the problem built says of itself.         *)
MakeProblem ==
  /\ stage = "new" /\ session.client = "problem"
  /\ LET made == CompiledProblems(session.mesh, session.conds, session.ctr)
     IN \/ made = {} /\ stage' = "refused" /\ UNCHANGED op
        \/ /\ \E p \in made :
                op' = [map |-> p.map, ctr |-> p.ctr, fixed_values |-> FixedValues(p.script),
                       init_state |-> InitState(session.mesh, p.script),
                       nodes |-> ControlMeshNodeIds(session.mesh, p.ctr)]
           /\ stage' = "problem"
  /\ UNCHANGED <<session, flow, evaluated, data, refused, file, back>>

(* A misfit of values off the prediction, with deviations of their own.    *)
Evaluate(values, std) ==
  /\ stage = "operator"
  /\ evaluated' = Evaluation(op, values, std)
  /\ UNCHANGED <<session, stage, op, flow, data, refused, file, back>>

TakeSamples ==
  /\ stage = "interpolator"
  /\ data' = SampleTimeObs(op, flow)
  /\ stage' = "data"
  /\ UNCHANGED <<session, op, flow, evaluated, refused, file, back>>

Resize(num_levels) ==
  /\ stage = "data"
  /\ data' = Resized(data, num_levels, data.num_obs) /\ refused' = FALSE
  /\ UNCHANGED <<session, stage, op, flow, evaluated, file, back>>

(* What is assigned stays when the check throws.                           *)
Assign(d, ok) ==
  /\ stage = "data"
  /\ data' = d /\ refused' = (refused \/ ~ok)
  /\ UNCHANGED <<session, stage, op, flow, evaluated, file, back>>

SetLayout(sampler, pts) ==
  LET d == WithLayout(data, sampler, pts, op.comps) IN Assign(d, LayoutOK(d))
SetTimeLevels(levels) ==
  LET d == WithTimeLevels(data, levels) IN Assign(d, ListOK(d, d.time_levels))
SetTimeValues(vals) ==
  LET d == WithTimeValues(data, vals) IN Assign(d, ListOK(d, d.time_vals))

(* writeTimeObsData throws without a layout.                               *)
WriteData ==
  /\ stage = "data" /\ data.sampler # ""
  /\ \E n \in 0 .. Len(Words(data)) : \E words \in CutTo(Words(data), n) : file' = [words |-> words, of |-> data]
  /\ stage' = "file"
  /\ UNCHANGED <<session, op, flow, evaluated, data, refused, back>>

ReadData ==
  /\ stage = "file"
  /\ back' = ReadTimeObsData(file.words)
  /\ stage' = "read"
  /\ UNCHANGED <<session, op, flow, evaluated, data, refused, file>>

(* The client has done; another one comes.                                 *)
Close ==
  /\ stage \in {"refused", "operator", "problem", "read"}
  /\ session' \in Sessions /\ stage' = "new"
  /\ op' = None /\ flow' = NoLevels /\ evaluated' = NotEvaluated /\ data' = NoData /\ refused' = FALSE
  /\ file' = NoFile /\ back' = {}

SessionNext ==
  \/ MakeOperator \/ MakeProblem \/ TakeSamples \/ WriteData \/ ReadData \/ Close
  \/ \E a \in 1 .. 2, b \in 0 .. 1 :
       Evaluate([t \in DOMAIN op.times |-> [q \in DOMAIN op.matrix |-> (a * t + q) % P]],
                [t \in DOMAIN op.times |-> [q \in DOMAIN op.matrix |-> 1 + ((b * t + q) % 3)]])
  \/ \E num_levels \in {1, NumSteps + 1} : Resize(num_levels)
  \/ \E sampler \in {"", "point"}, n \in 0 .. 1 : SetLayout(sampler, SubSeq(op.pts, 1, Len(op.pts) - n))
  \/ \E levels \in LevelLists : SetTimeLevels(levels)
  \/ \E vals \in TimeLists : SetTimeValues(vals)

ProblemsInit == (Init /\ Absent) \/ (StartAt("absent") /\ script = (CHOOSE s \in Scripts : TRUE) /\ SessionInit)
ProblemsNext == (Next /\ UNCHANGED obsVars) \/ (SessionNext /\ UNCHANGED vars)
Problems == ProblemsInit /\ [][ProblemsNext]_<<vars, obsVars>>

-----------------------------------------------------------------------------
(* A prediction has the field's values at its times, points and            *)
(* components, on the line between the levels around a time, and samples   *)
(* those of every level.  The C++ objective of the same data, which finds  *)
(* its levels otherwise, has the value of the Gaussian misfit, and its     *)
(* gradient at every level is the operator's transpose of the weighted     *)
(* residual: also for a time on a level, at either end, and for several    *)
(* times around one level.  (VelocityObservationOperator,                  *)
(* GaussianObservation, TimePointInterpolator, TimeLeastSquaresObjective.) *)
AtRow(k, q) == Field(k, CompOfRow(op.comps, q), op.pts[1 + (q \div Len(op.comps))]) % P
BetweenLevels(time, q) ==
  LET k == time \div Ticks  rest == time % Ticks
  IN ((Ticks - rest) * AtRow(k, q) + (IF rest = 0 THEN 0 ELSE rest * AtRow(k + 1, q))) % P

ObservationOfField ==
  /\ stage = "interpolator" => \A k \in Levels, q \in DOMAIN op.matrix : ObserveLevel(op, flow[k])[q] = AtRow(k, q)
  /\ evaluated # NotEvaluated =>
       LET e == evaluated
           weighted == [t \in DOMAIN e.values |-> [q \in DOMAIN op.matrix |->
                          ((e.pred[t][q] - e.values[t][q]) * Precision(e.std)[t][q]) % P]]
       IN /\ \A t \in DOMAIN op.times, q \in DOMAIN op.matrix : (Ticks * e.pred[t][q]) % P = BetweenLevels(op.times[t], q)
          /\ e.value = e.misfit
          /\ e.grad = ApplyTranspose(op, weighted, Fem!Dofs(session.mesh))

(* Data whose setters have not thrown since they were given their size     *)
(* have a layout and times that fit it; and the data read from a file      *)
(* written of such are those written, wherever the file was cut, or only   *)
(* the very last number differs.  (TimeObservationData, its setters,       *)
(* writeTimeObsData, readTimeObsData.)                                     *)
LastOf(d) == <<d.num_levels - 1, d.num_obs - 1>>
DataReadBack ==
  /\ data # NoData => Consistent(data) \/ refused
  /\ back # {} /\ Consistent(file.of) =>
       \A d \in back :
         /\ [d EXCEPT !.rows = None] = [file.of EXCEPT !.rows = None]
         /\ DOMAIN d.rows = DOMAIN file.of.rows
         /\ \A level \in DOMAIN d.rows, q \in Range0(d.num_obs) :
              d.rows[level][q] = file.of.rows[level][q] \/ <<level, q>> = LastOf(d)

(* The problem of a mesh constrains exactly the dofs its script names: one *)
(* of a condition has that condition's value at the end of every step, and *)
(* at time zero in the initial state; any other velocity dof of the        *)
(* control's boundary moves with a parameter: its own, or that of its node *)
(* times the unit normal's component, joined in time.  Columns and nodes   *)
(* that can move are one to one, and the node ids name them: no parameter  *)
(* is idle.  (preparePythonDirichletData, makeVelocityControl,             *)
(* makeNormalVelocityControl, withoutStateDofs, controlMeshNodeIds.)       *)
On(x, boundary) == x[1] \in BoundaryNodes(session.mesh, boundary)
ConditionsOn(x) ==
  {c \in {session.conds[i] : i \in DOMAIN session.conds} : FieldId[c.field] = x[2] /\ On(x, c.boundary)}
Given(x) ==
  ConditionsOn(x) # {} \/ (x = <<0, "p", 0>> /\ \A i \in DOMAIN session.conds : session.conds[i].field # "pressure")
GivenAt(x, t) == IF ConditionsOn(x) = {} THEN 0 ELSE (CHOOSE c \in ConditionsOn(x) : TRUE).vals[t][x[1]][x[3] + 1]
Steered(x) == session.ctr.kind # "none" /\ x[2] = "u" /\ On(x, session.ctr.boundary) /\ ~Given(x)
Moves(x) == Steered(x) /\ (session.ctr.kind = "normal" => session.ctr.normal[x[3] + 1] # 0)
UnitParts ==
  IF session.ctr.kind # "normal" THEN 1
  ELSE CHOOSE r \in 1 .. 100 : r * r = MapThenSumSet(LAMBDA i : session.ctr.normal[i] * session.ctr.normal[i],
                                                     DOMAIN session.ctr.normal)

ControlOfBoundary ==
  stage = "problem" =>
    LET m == session.mesh
        unknown == Fem!UnknownOf(m)
        cols == Range0(op.ctr.cols)
        Prm(a) == [i \in Range0(op.map.num_prm) |-> (a + i * i) % P]
        ColsOf(d) == {col \in cols : IF session.ctr.kind = "vector" THEN op.ctr.dofs[col] = d
                                     ELSE \A nodes \in op.nodes : nodes[col] = unknown[d][1]}
        RowsOf(d) == {i \in DOMAIN op.map.dofs : op.map.dofs[i] = d}
        PartOf(x) == IF session.ctr.kind = "normal" THEN session.ctr.normal[x[3] + 1] ELSE 1
        moving == {d \in Fem!Dofs(m) : Moves(unknown[d])}
        given == {d \in Fem!Dofs(m) : Given(unknown[d])}
    IN /\ \E nodes \in op.nodes : {nodes[col] : col \in cols} = {unknown[d][1] : d \in moving}
       /\ \A d \in Fem!Dofs(m) :
            LET x == unknown[d]
            IN /\ RowsOf(d) # {} <=> Given(x) \/ Steered(x)
               /\ op.init_state[d] = IF Given(x) THEN GivenAt(x, 0) ELSE 0
               /\ Moves(x) => Cardinality(ColsOf(d)) = 1
               /\ \A i \in RowsOf(d), s \in Range0(NumSteps), a \in 0 .. 2 :
                    LET val == ControlVals(op.map, s, Prm(a))[i]
                    IN IF Given(x) THEN val = GivenAt(x, EndOf(s)) % P
                       ELSE IF ~Moves(x) THEN val = 0
                       ELSE \A col \in ColsOf(d) :
                              (UnitParts * val) % P
                              = (PartOf(x) * StatedAt(session.ctr, op.ctr.cols, Prm(a), s, col)) % P
       /\ \A s \in Range0(NumSteps) :
            op.fixed_values[s] = [j \in Range0(Cardinality(given)) |-> GivenAt(unknown[AtRank(given, j)], EndOf(s))]
=============================================================================
