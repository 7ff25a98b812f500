------------------------- MODULE InverseDriversProofs --------------------------
(***************************************************************************)
(* The bounds of a minimisation hold at every point the functional is      *)
(* asked for, whatever the scales, the bounds and the grid of TAO, and     *)
(* whatever a monitor does.  A solver of a NavierProblem that runs is one  *)
(* of the problem as it is declared.  No call touches data that a stream   *)
(* may still be using.  An evaluation returns the value and the gradient   *)
(* of the parameters it was asked for, and a result that is reported holds *)
(* a point with the value and the gradient of that point.                  *)
(***************************************************************************)
EXTENDS InverseDrivers, SequenceTheorems, FiniteSetTheorems, WellFoundedInduction, TLAPS

-----------------------------------------------------------------------------
(* A positive scale keeps the order of two values.  (toPhysical.)          *)
LEMMA ScaleKeepsOrder ==
  ASSUME NEW s \in Int, s > 0, NEW a \in Int, NEW b \in Int, a <= b
  PROVE  s * a <= s * b
  <1>1. s * (b - a) >= 0
    OBVIOUS
  <1>2. s * (b - a) = s * b - s * a
    OBVIOUS
  <1> QED
    BY <1>1, <1>2

(* A value that a scale divides comes back from the coordinates of TAO.    *)
(* (toOptimizer, toPhysical.)                                              *)
LEMMA ExactQuotient ==
  ASSUME NEW s \in Int, s > 0, NEW a \in Int, a % s = 0
  PROVE  a \div s \in Int /\ s * (a \div s) = a
  OBVIOUS

(* Bounds keep their order in the coordinates of TAO.  (setupBounds.)      *)
LEMMA QuotientKeepsOrder ==
  ASSUME NEW s \in Int, s > 0, NEW a \in Int, NEW b \in Int,
         a % s = 0, b % s = 0, a <= b
  PROVE  a \div s <= b \div s
  <1> DEFINE m == a \div s
             n == b \div s
  <1>1. m \in Int /\ n \in Int /\ s * m = a /\ s * n = b
    BY ExactQuotient
  <1> HIDE DEF m, n
  <1>2. CASE m > n
    <2>1. s * (m - n) > 0
      BY <1>1, <1>2
    <2>2. s * (m - n) = s * m - s * n
      BY <1>1
    <2> QED
      BY <1>1, <2>1, <2>2
  <1> QED
    BY <1>1, <1>2 DEF m, n

(* The settings a solve begins with.                                       *)
Begins(s, b) == b \in Boxes /\ b # NoBounds /\ BoundsValid(b) /\ s \in Scales /\ Positive(s)

(* Valid bounds are two ordered pairs of numbers.  (validateBounds.)       *)
LEMMA ValidBounds ==
  ASSUME NEW b \in Boxes, b # NoBounds, BoundsValid(b)
  PROVE  /\ Len(b.lower) = 2 /\ b.lower # <<>>
         /\ \A i \in 1 .. 2 : b.lower[i] \in Int /\ b.upper[i] \in Int /\ b.lower[i] <= b.upper[i]
  <1>1. b.lower \in Seq(Int) /\ b.upper \in Seq(Int) /\ Len(b.lower) = Len(b.upper)
    BY BoxesAssumption
  <1>2. Len(b.lower) = 2 /\ \A i \in 1 .. 2 : b.lower[i] <= b.upper[i]
    BY DEF BoundsValid
  <1>3. \A v \in Seq(Int) : Len(v) = 2 => v # <<>> /\ \A i \in 1 .. 2 : v[i] \in Int
    OBVIOUS
  <1> QED
    BY <1>1, <1>2, <1>3

(* A valid scale that is set has two positive components.                  *)
(* (validateScale.)                                                        *)
LEMMA ValidScale ==
  ASSUME NEW s \in Scales, Positive(s), s # NotScaled
  PROVE  \A i \in 1 .. 2 : s[i] \in Int /\ s[i] > 0
  <1>1. s \in Seq(Int) /\ Len(s) = 2 /\ \A i \in 1 .. 2 : s[i] > 0
    BY BoxesAssumption DEF Positive
  <1>2. \A v \in Seq(Int) : Len(v) = 2 => \A i \in 1 .. 2 : v[i] \in Int
    OBVIOUS
  <1> QED
    BY <1>1, <1>2

(* A bound in TAO's coordinates, component by component.  (setupBounds.)   *)
LEMMA BoundInCoordinates ==
  ASSUME NEW s, NEW b, Begins(s, b), s # NotScaled, NEW i \in 1 .. 2
  PROVE  /\ s[i] \in Int /\ s[i] > 0
         /\ ScaledBox(s, b).lower[i] = b.lower[i] \div s[i]
         /\ ScaledBox(s, b).upper[i] = b.upper[i] \div s[i]
         /\ b.lower[i] % s[i] = 0 /\ b.upper[i] % s[i] = 0
  <1>1. s[i] \in Int /\ s[i] > 0 /\ Len(s) = 2 /\ Len(b.lower) = 2
    BY ValidScale, ValidBounds DEF Begins, Positive
  <1>2. b.lower[i] % s[i] = 0 /\ b.upper[i] % s[i] = 0
    BY <1>1, ExactAssumption DEF Begins
  <1>3. s[i] # 0
    BY <1>1
  <1>4. /\ ScaledBox(s, b).lower[i] = b.lower[i] \div s[i]
        /\ ScaledBox(s, b).upper[i] = b.upper[i] \div s[i]
    BY <1>3 DEF ScaledBox, ToOptimizer, Over
  <1> QED
    BY <1>1, <1>2, <1>4

(* The bounds TAO is given make a box.  (setupBounds.)                     *)
LEMMA BoxOfBounds ==
  ASSUME NEW s, NEW b, Begins(s, b)
  PROVE  LET box == ScaledBox(s, b) IN
         /\ box.lower # <<>>
         /\ \A i \in 1 .. 2 : box.lower[i] \in Int /\ box.upper[i] \in Int /\ box.lower[i] <= box.upper[i]
  <1>1. CASE s = NotScaled
    <2>1. ScaledBox(s, b).lower = b.lower /\ ScaledBox(s, b).upper = b.upper
      BY <1>1 DEF ScaledBox, ToOptimizer
    <2> QED
      BY <2>1, ValidBounds DEF Begins
  <1>2. CASE s # NotScaled
    <2>1. ASSUME NEW i \in 1 .. 2
          PROVE  LET box == ScaledBox(s, b) IN
                 box.lower[i] \in Int /\ box.upper[i] \in Int /\ box.lower[i] <= box.upper[i]
      <3>1. b.lower[i] \in Int /\ b.upper[i] \in Int /\ b.lower[i] <= b.upper[i]
        BY ValidBounds DEF Begins
      <3> QED
        BY <1>2, <3>1, BoundInCoordinates, ExactQuotient, QuotientKeepsOrder
    <2>2. 1 \in DOMAIN ScaledBox(s, b).lower
      BY <1>2 DEF ScaledBox, ToOptimizer
    <2>3. ScaledBox(s, b).lower # <<>>
      BY <2>2
    <2> QED
      BY <2>1, <2>3
  <1> QED
    BY <1>1, <1>2

(* A point in TAO's box is within the bounds in the caller's coordinates.  *)
(* (toPhysical.)                                                           *)
LEMMA PhysicalInBounds ==
  ASSUME NEW s, NEW b, Begins(s, b), NEW q \in [1 .. 2 -> Int], InBox(q, ScaledBox(s, b)),
         NEW i \in 1 .. 2
  PROVE  b.lower[i] <= ToPhysical(s, q)[i] /\ ToPhysical(s, q)[i] <= b.upper[i]
  <1>1. CASE s = NotScaled
    BY <1>1 DEF ScaledBox, ToOptimizer, ToPhysical, InBox
  <1>2. CASE s # NotScaled
    <2>1. b.lower[i] \in Int /\ b.upper[i] \in Int /\ q[i] \in Int
      BY ValidBounds DEF Begins
    <2>2. /\ s[i] \in Int /\ s[i] > 0
          /\ b.lower[i] % s[i] = 0 /\ b.upper[i] % s[i] = 0
          /\ b.lower[i] \div s[i] <= q[i] /\ q[i] <= b.upper[i] \div s[i]
      BY <1>2, BoundInCoordinates DEF InBox
    <2>3. /\ b.lower[i] \div s[i] \in Int /\ s[i] * (b.lower[i] \div s[i]) = b.lower[i]
          /\ b.upper[i] \div s[i] \in Int /\ s[i] * (b.upper[i] \div s[i]) = b.upper[i]
      BY <2>1, <2>2, ExactQuotient
    <2>4. /\ s[i] * (b.lower[i] \div s[i]) <= s[i] * q[i]
          /\ s[i] * q[i] <= s[i] * (b.upper[i] \div s[i])
      BY <2>1, <2>2, <2>3, ScaleKeepsOrder
    <2>5. ToPhysical(s, q)[i] = s[i] * q[i]
      BY <1>2 DEF ToPhysical
    <2> QED
      BY <2>3, <2>4, <2>5
  <1> QED
    BY <1>1, <1>2

-----------------------------------------------------------------------------
(* What a solve began with stays.                                          *)
SameSolve == UNCHANGED <<client, begun, scale, bounds>>

(* The client, its monitor and the functional leave TAO alone, and a scale *)
(* is only set when no evaluation is under way.  (setVariableScale.)       *)
LEMMA TaoLeftAlone ==
  ASSUME BoundsIInv, UNCHANGED <<client, tao>>, begun' = begun \/ tao.pc = "idle",
         bounds' \in Boxes, scale' \in Scales,
         client = "tao_solve" => scale' = scale,
         tao.pc \in {"waits", "ends"} => scale' = scale /\ ask' = ask
  PROVE  BoundsIInv'
  <1> USE DEF BoundsIInv
  <1>1. Settings'
    BY DEF Settings
  <1>2. Underway'
    BY DEF Underway
  <1>3. PointsInBox'
    BY DEF PointsInBox, KeptInBox, Point
  <1>4. Asked'
    BY DEF Asked
  <1> QED
    BY <1>1, <1>2, <1>3, <1>4

(* TAO is destroyed when a solve ends.                                     *)
LEMMA TaoDestroyed ==
  ASSUME BoundsIInv, SameSolve, tao' = IdleTao
  PROVE  BoundsIInv'
  <1>1. tao'.pc = "idle"
    BY DEF IdleTao
  <1>2. Settings'
    BY DEF BoundsIInv, Settings, SameSolve
  <1> QED
    BY <1>1, <1>2 DEF BoundsIInv, Underway, PointsInBox, KeptInBox, Asked

(* A step of TAO keeps its type, its box and the settings.                 *)
LEMMA TaoGoesOn ==
  ASSUME BoundsIInv, SameSolve, tao.pc # "idle",
         DOMAIN tao' = DOMAIN tao, tao'.type = tao.type, tao'.box = tao.box
  PROVE  Settings' /\ Underway' /\ (KeptInBox' => KeptInBox)
  <1>1. Settings'
    BY DEF BoundsIInv, Settings, SameSolve
  <1>2. Underway'
    BY DEF BoundsIInv, Underway, SameSolve
  <1>3. KeptInBox' => KeptInBox
    BY DEF KeptInBox, SameSolve
  <1> QED
    BY <1>1, <1>2, <1>3

(* formValueGrad asks for TAO's trial point.                               *)
LEMMA FormValueGradKeeps ==
  ASSUME BoundsIInv, SameSolve, FormValueGrad
  PROVE  BoundsIInv'
  <1>1. /\ tao.pc = "evaluate" /\ DOMAIN tao' = DOMAIN tao /\ tao'.pc = "waits"
        /\ tao'.type = tao.type /\ tao'.box = tao.box /\ tao'.trial = tao.trial /\ tao'.at = tao.at
    BY DEF FormValueGrad, BoundsIInv, Settings, IdleTao
  <1>2. ask'.prm = ToPhysical(scale, tao.trial)
    BY DEF FormValueGrad, Ask
  <1>3. Settings' /\ Underway' /\ (KeptInBox' => KeptInBox)
    BY <1>1, TaoGoesOn
  <1>4. PointsInBox'
    BY <1>1, <1>3 DEF BoundsIInv, PointsInBox, Point, InBox
  <1>5. Asked'
    BY <1>1, <1>2 DEF Asked, SameSolve, ToPhysical
  <1> QED
    BY <1>3, <1>4, <1>5 DEF BoundsIInv

(* The answer makes the trial point TAO's iterate, or leaves it.           *)
LEMMA AnsweredKeeps ==
  ASSUME BoundsIInv, SameSolve, Answered
  PROVE  BoundsIInv'
  <1>1. CASE tao' = IdleTao
    BY <1>1, TaoDestroyed
  <1>2. CASE tao' # IdleTao
    <2>1. /\ tao.pc = "waits" /\ DOMAIN tao' = DOMAIN tao
          /\ tao'.pc \in {"tells", "iterates"}
          /\ tao'.type = tao.type /\ tao'.box = tao.box
          /\ (tao'.at = tao.trial \/ (tao'.at = tao.at /\ tao.at # NoPoint))
      BY <1>2 DEF Answered, Fails, BoundsIInv, Settings, IdleTao
    <2>2. Settings' /\ Underway' /\ (KeptInBox' => KeptInBox)
      BY <2>1, TaoGoesOn
    <2>3. ASSUME KeptInBox
          PROVE  tao'.at # NoPoint /\ Point(tao'.at)
      <3>1. Point(tao.trial) /\ (tao.at # NoPoint => Point(tao.at))
        BY <2>1, <2>3 DEF BoundsIInv, PointsInBox
      <3>2. 1 \notin DOMAIN NoPoint
        BY DEF NoPoint
      <3>3. \A q : Point(q) => q # NoPoint
        BY <3>2 DEF Point
      <3> QED
        BY <2>1, <3>1, <3>3
    <2>4. PointsInBox'
      BY <2>1, <2>2, <2>3 DEF PointsInBox, Point, InBox
    <2>5. Asked'
      BY <2>1 DEF Asked
    <2> QED
      BY <2>2, <2>4, <2>5 DEF BoundsIInv
  <1> QED
    BY <1>1, <1>2

(* monitorCallback, and its return.                                        *)
LEMMA MonitorKeeps ==
  ASSUME BoundsIInv, SameSolve, MonitorCallback \/ MonitorReturns
  PROVE  BoundsIInv'
  <1>1. /\ tao.pc \in {"tells", "monitor"} /\ DOMAIN tao' = DOMAIN tao
        /\ tao'.pc \in {"monitor", "iterates"}
        /\ tao'.type = tao.type /\ tao'.box = tao.box /\ tao'.at = tao.at
    BY DEF MonitorCallback, MonitorReturns, BoundsIInv, Settings, IdleTao
  <1>2. Settings' /\ Underway' /\ (KeptInBox' => KeptInBox)
    BY <1>1, TaoGoesOn
  <1>3. PointsInBox'
    BY <1>1, <1>2 DEF BoundsIInv, PointsInBox, Point, InBox
  <1>4. Asked'
    BY <1>1 DEF Asked
  <1> QED
    BY <1>2, <1>3, <1>4 DEF BoundsIInv

(* Where TAO may evaluate when it keeps a box.                             *)
LEMMA AllowedInBox ==
  ASSUME BoundsIInv, KeptInBox, NEW q \in Allowed
  PROVE  Point(q)
  <1>1. /\ Begins(begun.scale, begun.bounds)
        /\ tao.type = "blmvm" /\ tao.box = ScaledBox(begun.scale, begun.bounds)
    BY DEF BoundsIInv, Underway, KeptInBox, TaoType, Begins
  <1>2. tao.box.lower # <<>>
    BY <1>1, BoxOfBounds
  <1>3. q \in Box(tao.box.lower, tao.box.upper)
    BY <1>1, <1>2 DEF Allowed, Keeps
  <1> QED
    BY <1>3, GridAssumption DEF Box, Point, InBox

(* TAO tries another point, stops or fails.                                *)
LEMMA IteratesKeeps ==
  ASSUME BoundsIInv, SameSolve, Iterates
  PROVE  BoundsIInv'
  <1>1. CASE tao' = IdleTao
    BY <1>1, TaoDestroyed
  <1>2. CASE tao' # IdleTao
    <2>1. /\ tao.pc = "iterates" /\ DOMAIN tao' = DOMAIN tao
          /\ tao'.type = tao.type /\ tao'.box = tao.box /\ tao'.at = tao.at
          /\ (tao'.pc = "final" \/ (tao'.pc = "evaluate" /\ tao'.trial \in Allowed))
      BY <1>2 DEF Iterates, Fails, BoundsIInv, Settings, IdleTao
    <2>2. Settings' /\ Underway' /\ (KeptInBox' => KeptInBox)
      BY <2>1, TaoGoesOn
    <2>3. KeptInBox /\ tao'.pc = "evaluate" => Point(tao'.trial)
      BY <2>1, AllowedInBox
    <2>4. PointsInBox'
      BY <2>1, <2>2, <2>3 DEF BoundsIInv, PointsInBox, Point, InBox
    <2>5. Asked'
      BY <2>1 DEF Asked
    <2> QED
      BY <2>2, <2>4, <2>5 DEF BoundsIInv
  <1> QED
    BY <1>1, <1>2

(* The last evaluation is asked for at TAO's solution.                     *)
LEMMA FinalEvaluationKeeps ==
  ASSUME BoundsIInv, SameSolve, FinalEvaluation
  PROVE  BoundsIInv'
  <1>1. /\ tao.pc = "final" /\ DOMAIN tao' = DOMAIN tao /\ tao'.pc = "ends"
        /\ tao'.type = tao.type /\ tao'.box = tao.box /\ tao'.at = tao.at
    BY DEF FinalEvaluation, BoundsIInv, Settings, IdleTao
  <1>2. ask'.prm = ToPhysical(scale, tao.at)
    BY DEF FinalEvaluation, Ask, Solved
  <1>3. Settings' /\ Underway' /\ (KeptInBox' => KeptInBox)
    BY <1>1, TaoGoesOn
  <1>4. PointsInBox'
    BY <1>1, <1>3 DEF BoundsIInv, PointsInBox, Point, InBox
  <1>5. Asked'
    BY <1>1, <1>2 DEF Asked, SameSolve, ToPhysical
  <1> QED
    BY <1>3, <1>4, <1>5 DEF BoundsIInv

(* Every step of TAO.                                                      *)
LEMMA TaoStepsKeep ==
  ASSUME BoundsIInv, UNCHANGED <<client, begun>>, TaoSteps \/ MonitorThrows
  PROVE  BoundsIInv'
  <1>1. SameSolve
    BY DEF SameSolve, TaoSteps, FormValueGrad, Answered, MonitorCallback, MonitorReturns, Iterates,
           FinalEvaluation, Ends, MonitorThrows
  <1>2. CASE Ends \/ MonitorThrows
    BY <1>1, <1>2, TaoDestroyed DEF Ends, MonitorThrows, Fails
  <1> QED
    BY <1>1, <1>2, FormValueGradKeeps, AnsweredKeeps, MonitorKeeps, IteratesKeeps,
       FinalEvaluationKeeps DEF TaoSteps

-----------------------------------------------------------------------------
(* A starting point is projected into the box.  (setupBounds, solve.)      *)
LEMMA StartInBox ==
  ASSUME NEW q \in [1 .. 2 -> Int], NEW box,
         \A i \in 1 .. 2 : box.lower[i] \in Int /\ box.upper[i] \in Int /\ box.lower[i] <= box.upper[i]
  PROVE  Projected(q, box) \in [1 .. 2 -> Int] /\ InBox(Projected(q, box), box)
  BY DEF Projected, InBox

(* A start in TAO's coordinates.                                           *)
LEMMA StartInCoordinates ==
  ASSUME NEW s, NEW p \in Starts, s \in Scales, Positive(s)
  PROVE  ToOptimizer(s, p) \in [1 .. 2 -> Int]
  <1>1. p \in [1 .. 2 -> Int]
    BY BoxesAssumption
  <1>2. CASE s = NotScaled
    BY <1>1, <1>2 DEF ToOptimizer
  <1>3. CASE s # NotScaled
    <2>1. \A i \in 1 .. 2 : s[i] \in Int /\ s[i] > 0
      BY <1>3, ValidScale
    <2>2. ASSUME NEW i \in 1 .. 2
          PROVE  Over(p[i], s[i]) \in Int
      <3>1. s[i] # 0 /\ s[i] \in Int /\ s[i] > 0 /\ p[i] \in Int
        BY <1>1, <2>1
      <3>2. Over(p[i], s[i]) = p[i] \div s[i]
        BY <3>1 DEF Over
      <3> QED
        BY <3>1, <3>2
    <2> QED
      BY <1>3, <2>2 DEF ToOptimizer
  <1> QED
    BY <1>2, <1>3

(* A solve begins with the settings of the moment.                         *)
LEMMA SolveBegins ==
  ASSUME BoundsIInv, UNCHANGED <<client, scale>>, NEW p \in Starts, NEW b \in Boxes, NEW told,
         BoundsValid(b), Positive(scale), tao' = NewTao(b, told, p), bounds' \in Boxes,
         begun' = [scale |-> scale, bounds |-> b, type |-> type]
  PROVE  BoundsIInv'
  <1> DEFINE box == IF b = NoBounds THEN NoBounds ELSE ScaledBox(scale, b)
             q == ToOptimizer(scale, p)
  <1>0. scale \in Scales
    BY DEF BoundsIInv, Settings
  <1>1. /\ DOMAIN tao' = DOMAIN IdleTao /\ tao'.pc = "evaluate" /\ tao'.type = TaoType(type, b)
        /\ tao'.box = box /\ tao'.at = NoPoint
        /\ tao'.trial = IF b # NoBounds /\ Keeps(TaoType(type, b)) THEN Projected(q, box) ELSE q
    BY DEF NewTao, IdleTao, ScaledBox
  <1>2. begun'.scale = scale /\ begun'.bounds = b /\ begun'.type = type
    OBVIOUS
  <1>3. Settings'
    BY <1>1 DEF BoundsIInv, Settings, IdleTao
  <1>4. Underway'
    BY <1>0, <1>1, <1>2 DEF Underway, ScaledBox, Positive, BoundsValid, TaoType
  <1>5. PointsInBox'
    <2>1. ASSUME type = "lmvm", b # NoBounds
          PROVE  tao'.trial \in [1 .. 2 -> Int] /\ InBox(tao'.trial, tao'.box)
      <3>1. Begins(scale, b)
        BY <1>0, <2>1 DEF Begins
      <3>2. \A i \in 1 .. 2 : box.lower[i] \in Int /\ box.upper[i] \in Int /\ box.lower[i] <= box.upper[i]
        BY <2>1, <3>1, BoxOfBounds
      <3>3. q \in [1 .. 2 -> Int]
        BY <1>0, StartInCoordinates
      <3>4. tao'.trial = Projected(q, box)
        BY <1>1, <2>1 DEF Keeps, TaoType
      <3> HIDE DEF box, q
      <3> QED
        BY <1>1, <3>2, <3>3, <3>4, StartInBox
    <2> QED
      BY <1>1, <1>2, <2>1 DEF PointsInBox, KeptInBox, Point, InBox
  <1>6. Asked'
    BY <1>1 DEF Asked
  <1> QED
    BY <1>3, <1>4, <1>5, <1>6 DEF BoundsIInv

(* A C++ client calls solve, which may refuse.                             *)
LEMMA CppSolveKeeps ==
  ASSUME BoundsIInv, UNCHANGED client, CppSolve
  PROVE  BoundsIInv'
  <1>1. PICK p \in Starts : Start(p)
    BY DEF CppSolve
  <1>2. /\ begun' = [scale |-> scale, bounds |-> bounds, type |-> type]
        /\ UNCHANGED <<scale, bounds>> /\ tao.pc = "idle" /\ bounds \in Boxes /\ scale \in Scales
    BY <1>1 DEF CppSolve, Start, BoundsIInv, Settings
  <1>3. CASE BoundsValid(bounds) /\ ScaleValid
    <2>1. tao' = NewTao(bounds, monitor, p) /\ Positive(scale)
      BY <1>1, <1>3 DEF Start, ScaleValid, Positive
    <2> QED
      BY <1>2, <1>3, <2>1, SolveBegins
  <1>4. CASE ~(BoundsValid(bounds) /\ ScaleValid)
    <2>1. tao' = tao
      BY <1>1, <1>4 DEF Start
    <2> QED
      BY <1>2, <2>1, TaoLeftAlone
  <1> QED
    BY <1>3, <1>4

(* taoSolve gives the bounds it is called with, and no scale.              *)
LEMMA PyStartKeeps ==
  ASSUME BoundsIInv, client = "tao_solve", UNCHANGED client, PyStart
  PROVE  BoundsIInv'
  <1>1. PICK b \in {c \in Boxes : Len(c.lower) \in {0, 2}} :
          \E p \in Starts :
            /\ bounds' = b
            /\ IF BoundsValid(b) THEN tao' = NewTao(b, TRUE, p) ELSE tao' = tao
            /\ begun' = [scale |-> scale, bounds |-> b, type |-> type]
    BY DEF PyStart
  <1>2. PICK p \in Starts :
            /\ bounds' = b
            /\ IF BoundsValid(b) THEN tao' = NewTao(b, TRUE, p) ELSE tao' = tao
            /\ begun' = [scale |-> scale, bounds |-> b, type |-> type]
    BY <1>1
  <1>3. UNCHANGED scale /\ tao.pc = "idle" /\ b \in Boxes /\ Positive(scale) /\ scale \in Scales
    BY DEF PyStart, BoundsIInv, Settings, Positive
  <1>4. CASE BoundsValid(b)
    BY <1>2, <1>3, <1>4, SolveBegins
  <1>5. CASE ~BoundsValid(b)
    BY <1>2, <1>3, <1>5, TaoLeftAlone
  <1> QED
    BY <1>4, <1>5

(* What else a C++ client does, between two solves or from its monitor.    *)
LEMMA CppSetupKeeps ==
  ASSUME BoundsIInv, client = "cpp", UNCHANGED <<client, begun>>, CppSetup \/ CppAsks \/ CppTakes
  PROVE  BoundsIInv'
  <1>1. UNCHANGED tao /\ bounds' \in Boxes /\ scale' \in Scales
    BY DEF CppSetup, CppAsks, CppTakes, SetBounds, SetVariableScale, SetMonitor, taoVars,
           BoundsIInv, Settings
  <1>2. tao.pc \in {"waits", "ends"} => scale' = scale /\ ask' = ask
    BY DEF CppSetup, CppAsks, CppTakes, SetBounds, SetVariableScale, SetMonitor, ClientRuns
  <1> QED
    BY <1>1, <1>2, TaoLeftAlone

(* An evaluation answers what it was asked for.                            *)
LEMMA EvaluationKeepsAsk ==
  ASSUME Evaluate \/ PyEvaluates
  PROVE  ask' = ask
  BY DEF Evaluate, functionalVars, ObjectiveValue, ObjectiveThrows, GradAtState, PyEvaluates

(* The invariant is inductive.                                             *)
LEMMA BoundsInit == Init => BoundsIInv
  <1> SUFFICES ASSUME Init
               PROVE  BoundsIInv
    OBVIOUS
  <1>1. tao = IdleTao /\ tao.pc = "idle"
    BY DEF Init, TaoInit, IdleTao
  <1>2. Settings
    BY <1>1, BoxesAssumption DEF Init, Settings
  <1> QED
    BY <1>1, <1>2 DEF BoundsIInv, Underway, PointsInBox, KeptInBox, Asked, IdleTao, NoPoint

(* Every step keeps the invariant of the minimisations.                    *)
LEMMA BoundsNext == BoundsIInv /\ [Next]_vars => BoundsIInv'
  <1> SUFFICES ASSUME BoundsIInv, [Next]_vars
               PROVE  BoundsIInv'
    OBVIOUS
  <1>0. bounds \in Boxes /\ scale \in Scales
    BY DEF BoundsIInv, Settings
  <1>1. CASE CppNext
    <2>1. client = "cpp" /\ UNCHANGED client
      BY <1>1 DEF CppNext
    <2>2. CASE Evaluate /\ UNCHANGED taoVars /\ UNCHANGED <<calls, begun>>
      BY <1>0, <2>1, <2>2, EvaluationKeepsAsk, TaoLeftAlone DEF taoVars
    <2> QED
      BY <1>1, <2>1, <2>2, CppSolveKeeps, CppSetupKeeps, TaoStepsKeep DEF CppNext
  <1>2. CASE PyNext
    <2>1. client = "tao_solve" /\ UNCHANGED client
      BY <1>2 DEF PyNext
    <2>2. CASE PyEvaluates
      BY <1>0, <2>1, <2>2, EvaluationKeepsAsk, TaoLeftAlone DEF PyEvaluates, taoVars
    <2>3. CASE PyObserves \/ PyReturns
      BY <1>0, <2>1, <2>3, TaoLeftAlone
         DEF PyObserves, PyReturns, taoVars, evalVars, functionalVars
    <2> QED
      BY <1>2, <2>1, <2>2, <2>3, PyStartKeeps, TaoStepsKeep DEF PyNext
  <1>3. CASE ProblemClient
    BY <1>0, <1>3, TaoLeftAlone DEF ProblemClient, taoVars, driverVars, evalVars, functionalVars
  <1>4. CASE UNCHANGED vars
    BY <1>0, <1>4, TaoLeftAlone DEF vars, taoVars, driverVars, evalVars, functionalVars
  <1> QED
    BY <1>1, <1>2, <1>3, <1>4 DEF Next

(* The strengthened invariant of the minimisations holds.                  *)
THEOREM BoundsInvariant == Spec => []BoundsIInv
  BY BoundsInit, BoundsNext, PTL DEF Spec

(* With bounds and the type the options start with, the functional is      *)
(* never asked for a point outside of them, whatever a monitor sets in the *)
(* meantime but the scale.  (TaoOptimizer::solve, taoType, setupBounds.)   *)
THEOREM PointsWithinBoundsAlways == Spec => []PointsWithinBounds
  <1>1. ASSUME BoundsIInv
        PROVE  PointsWithinBounds
    <2> SUFFICES ASSUME tao.pc \in {"waits", "ends"}, begun.type = "lmvm", begun.bounds # NoBounds,
                        scale = begun.scale, NEW i \in 1 .. 2
                 PROVE  begun.bounds.lower[i] <= ask.prm[i] /\ ask.prm[i] <= begun.bounds.upper[i]
      BY DEF PointsWithinBounds
    <2>1. /\ Begins(begun.scale, begun.bounds)
          /\ tao.box = ScaledBox(begun.scale, begun.bounds)
      BY <1>1 DEF BoundsIInv, Underway, Begins
    <2>2. \E q \in [1 .. 2 -> Int] : InBox(q, tao.box) /\ ask.prm = ToPhysical(scale, q)
      <3>1. CASE tao.pc = "waits"
        BY <1>1, <3>1 DEF BoundsIInv, PointsInBox, KeptInBox, Point, Asked
      <3>2. CASE tao.pc = "ends"
        BY <1>1, <3>2 DEF BoundsIInv, PointsInBox, KeptInBox, Point, Asked
      <3> QED
        BY <3>1, <3>2
    <2>3. PICK q \in [1 .. 2 -> Int] : InBox(q, tao.box) /\ ask.prm = ToPhysical(scale, q)
      BY <2>2
    <2> QED
      BY <2>1, <2>3, PhysicalInBounds
  <1> QED
    BY <1>1, BoundsInvariant, PTL

-----------------------------------------------------------------------------
(* A declaration discards what was compiled: no solver can run before the  *)
(* next build.                                                             *)
LEMMA DeclarationKeeps ==
  ASSUME ProblemIInv, NEW d, Declares(d)
  PROVE  ProblemIInv'
  <1>1. /\ compiled' = NotCompiled /\ kept' = NoSolverYet
        /\ UNCHANGED <<start, modes, map, held, builds, ran>>
    BY DEF Declares, Reset
  <1>2. BuildsNumbered' /\ OfBuild' /\ SolverOfBuild(kept)'
    BY <1>1 DEF ProblemIInv, BuildsNumbered, OfBuild, SolverOfBuild
  <1>3. SolverOfBuild(held)'
    BY <1>1 DEF ProblemIInv, BuildsNumbered, SolverOfBuild, NotCompiled
  <1> QED
    BY <1>2, <1>3 DEF ProblemIInv

(* A build makes solvers of earlier builds unusable, and leaves the        *)
(* declared start unless it raises.                                        *)
LEMMA BuildKeeps ==
  ASSUME ProblemIInv, Build
  PROVE  ProblemIInv'
  <1>1. kept' = NoSolverYet /\ UNCHANGED <<decl, held, ran>>
    BY DEF Build
  <1>2. CASE compiled' = NotCompiled /\ builds' = builds
    <2>1. BuildsNumbered' /\ OfBuild' /\ SolverOfBuild(kept)'
      BY <1>1, <1>2 DEF ProblemIInv, BuildsNumbered, OfBuild, SolverOfBuild
    <2>2. SolverOfBuild(held)'
      BY <1>1, <1>2 DEF ProblemIInv, BuildsNumbered, SolverOfBuild, NotCompiled
    <2> QED
      BY <2>1, <2>2 DEF ProblemIInv
  <1>3. CASE builds' = builds + 1 /\ compiled' = [id |-> builds', bcs |-> decl.bcs] /\ Assigns(builds')
    <2>1. builds \in Nat /\ builds' = builds + 1 /\ compiled'.id = builds + 1 /\ compiled'.bcs = decl.bcs
      BY <1>3 DEF ProblemIInv, BuildsNumbered
    <2>2. BuildsNumbered'
      BY <2>1 DEF BuildsNumbered
    <2>3. failed' = TRUE \/ (start' = Declared /\ (map' = NoMap \/ map' = builds'))
      BY <1>3 DEF Assigns, Built, Declared
    <2>4. Declared' = Declared
      BY <1>1 DEF Declared, HasInitCtr, Mean, Fixed
    <2>5. OfBuild'
      BY <1>1, <2>1, <2>3, <2>4 DEF OfBuild
    <2>6. SolverOfBuild(kept)' /\ SolverOfBuild(held)'
      BY <1>1, <2>1 DEF ProblemIInv, SolverOfBuild
    <2> QED
      BY <2>2, <2>5, <2>6 DEF ProblemIInv
  <1> QED
    BY <1>2, <1>3 DEF Build

(* A solver is made of what the last build left.                           *)
LEMMA SolverKeeps ==
  ASSUME ProblemIInv, UNCHANGED <<decl, compiled, start, map, builds, failed>>,
         kept' \in {kept, NewSolver}, held' \in {held, NewSolver}, compiled # NotCompiled
  PROVE  ProblemIInv'
  <1>1. BuildsNumbered' /\ OfBuild' /\ NewSolver' = NewSolver
    BY DEF ProblemIInv, BuildsNumbered, OfBuild, NewSolver, Declared, HasInitCtr, Mean, Fixed
  <1>2. NewSolver.of = compiled /\ compiled.id \in 1 .. builds
    BY DEF NewSolver, ProblemIInv, BuildsNumbered
  <1>3. SolverOfBuild(kept)'
    BY <1>1, <1>2 DEF ProblemIInv, SolverOfBuild
  <1>4. SolverOfBuild(held)'
    BY <1>1, <1>2 DEF ProblemIInv, SolverOfBuild
  <1> QED
    BY <1>1, <1>3, <1>4 DEF ProblemIInv

(* The invariant of a problem is inductive.                                *)
LEMMA ProblemStep ==
  ASSUME ProblemIInv, ProblemNext
  PROVE  ProblemIInv'
  <1>1. CASE \E d : Declares(d)
    BY <1>1, DeclarationKeeps
  <1>2. CASE CreateSolver \/ ProblemSolve
    BY <1>2, SolverKeeps DEF CreateSolver, ProblemSolve
  <1>3. CASE SolverSolve
    <2>1. UNCHANGED <<decl, compiled, start, modes, map, kept, held, builds, failed>>
      BY <1>3 DEF SolverSolve
    <2> QED
      BY <2>1 DEF ProblemIInv, BuildsNumbered, OfBuild, SolverOfBuild, NewSolver, Declared,
                  HasInitCtr, Mean, Fixed
  <1> QED
    BY <1>1, <1>2, <1>3, BuildKeeps DEF ProblemNext, AddBc, AddCtr, AddInitCtr, SetInitialValue

(* The invariant of a problem holds at first.                              *)
LEMMA ProblemInitHolds == Init => ProblemIInv
  BY 
     DEF Init, ProblemInit, ProblemIInv, BuildsNumbered, OfBuild, SolverOfBuild, NotCompiled,
         NoSolverYet

(* Every step keeps the invariant of a problem.                            *)
LEMMA ProblemNextKeeps == ProblemIInv /\ [Next]_vars => ProblemIInv'
  <1> SUFFICES ASSUME ProblemIInv, [Next]_vars
               PROVE  ProblemIInv'
    OBVIOUS
  <1>1. CASE UNCHANGED problemVars
    BY <1>1 DEF problemVars, ProblemIInv, BuildsNumbered, OfBuild, SolverOfBuild, NewSolver, Declared,
                HasInitCtr, Mean, Fixed
  <1>2. CASE ProblemNext
    BY <1>2, ProblemStep
  <1> QED
    BY <1>1, <1>2 DEF Next, CppNext, PyNext, ProblemClient, vars

(* The strengthened invariant of a problem and its solvers holds.          *)
THEOREM ProblemInvariant == Spec => []ProblemIInv
  BY ProblemInitHolds, ProblemNextKeeps, PTL DEF Spec

(* A solver that runs has the conditions and the start of the declaration. *)
LEMMA RunOfDeclaration ==
  ASSUME ProblemIInv, NEW s, s # NoSolverYet, s.of = compiled, s = NewSolver, ~failed,
         compiled # NotCompiled, Runs(s)
  PROVE  ran'.bcs = decl.bcs /\ ran'.start = Declared
  <1>1. compiled.bcs = decl.bcs /\ start = Declared /\ (map = NoMap \/ map = compiled.id)
    BY DEF ProblemIInv, OfBuild
  <1>2. s.start = start /\ s.of = compiled /\ s.fixed = (map = NoMap)
    BY DEF NewSolver
  <1>3. StartOf(s) = Declared
    <2>1. CASE map = NoMap
      <3>1. s.fixed = TRUE
        BY <1>2, <2>1, Zenon
      <3> QED
        BY <1>1, <1>2, <3>1 DEF StartOf
    <2>2. CASE map # NoMap
      <3>1. s.fixed = FALSE
        BY <1>2, <2>2, Zenon
      <3> QED
        BY <1>1, <1>2, <2>2, <3>1 DEF StartOf
    <2> QED
      BY <2>1, <2>2
  <1> QED
    BY <1>1, <1>3 DEF Runs

(* A solve that is not refused is one of the problem as it is declared     *)
(* now, whichever solver was kept from before, unless the last build had   *)
(* raised.  (NavierProblem.solve, NavierSolver.solve, _check_current.)     *)
THEOREM SolverOfThisProblemAlways == Spec => SolverOfThisProblem
  <1>1. ASSUME ProblemIInv, ~failed, SolverSolve \/ ProblemSolve
        PROVE  ran'.bcs = decl.bcs /\ ran'.start = Declared
    <2>1. CASE SolverSolve
      <3>1. Current(held) /\ Runs(held)
        BY <2>1 DEF SolverSolve
      <3>2. held = NewSolver /\ compiled # NotCompiled
        BY <1>1, <3>1 DEF ProblemIInv, SolverOfBuild, Current, NotCompiled
      <3> QED
        BY <1>1, <3>1, <3>2, RunOfDeclaration DEF Current
    <2>2. CASE ProblemSolve
      <3>1. compiled # NotCompiled /\ Current(kept') /\ Runs(kept') /\ kept' \in {kept, NewSolver}
            /\ UNCHANGED compiled
        BY <2>2 DEF ProblemSolve
      <3>2. kept' # NoSolverYet /\ kept'.of = compiled
        BY <3>1 DEF Current
      <3>3. kept' = NewSolver
        BY <1>1, <3>1, <3>2 DEF ProblemIInv, SolverOfBuild
      <3> QED
        BY <1>1, <3>1, <3>2, <3>3, RunOfDeclaration
    <2> QED
      BY <1>1, <2>1, <2>2
  <1>2. ASSUME ProblemIInv
        PROVE  [(SolverSolve \/ ProblemSolve) /\ ~failed
                  => ran'.bcs = decl.bcs /\ ran'.start = Declared]_problemVars
    BY <1>1, <1>2
  <1> QED
    BY <1>2, ProblemInvariant, PTL DEF SolverOfThisProblem

-----------------------------------------------------------------------------
(* Induction over the numbers, of a set instead of a predicate.            *)
LEMMA NatSetInduction ==
  ASSUME NEW T, 0 \in T, \A n \in Nat : n \in T => n + 1 \in T
  PROVE  Nat \subseteq T
  <1> DEFINE R == OpToRel(<, Nat)
             F == Nat \ T
  <1>1. IsWellFoundedOn(R, Nat)
    BY NatLessThanWellFounded
  <1>2. \A x, y \in Nat : <<x, y>> \in R <=> x < y
    BY DEF OpToRel
  <1> HIDE DEF R
  <1>3. CASE F # {}
    <2>1. PICK x \in F : \A y \in F : <<y, x>> \notin R
      BY <1>1, <1>3, WFMin
    <2>2. x \in Nat /\ x # 0 /\ x - 1 \in Nat /\ x - 1 < x /\ (x - 1) + 1 = x
      BY <2>1
    <2>3. <<x - 1, x>> \in R
      BY <1>2, <2>2
    <2>4. x - 1 \in T
      BY <2>1, <2>2, <2>3
    <2> QED
      BY <2>1, <2>2, <2>4
  <1> QED
    BY <1>3

(* The fold of After: what a call does to the streams, and the function of *)
(* sets of positions that FoldLeft is made of.                             *)
StreamStep(s, op) == IF op.on = "sync" THEN Waited(s, op.stream) ELSE Submitted(s, op)
Folding(q, ops, h, n) ==
  h = [s \in SUBSET (1 .. n) |-> IF s = {} THEN q ELSE StreamStep(h[s \ {Max(s)}], ops[Max(s)])]

(* What the calls leave of the streams, by the function that folds them.   *)
LEMMA AfterDef ==
  ASSUME NEW q, NEW ops, NEW n \in Nat, DOMAIN ops = 1 .. n
  PROVE  After(q, ops) = (CHOOSE h : Folding(q, ops, h, n))[1 .. n]
  <1>1. After(q, ops)
          = (CHOOSE iter : iter = [s \in SUBSET DOMAIN ops |->
               IF s = {} THEN q ELSE StreamStep(iter[s \ {Max(s)}], ops[Max(s)])])[DOMAIN ops]
    BY DEF After, FoldLeft, MapThenFoldSet, StreamStep
  <1> QED
    BY <1>1 DEF Folding

(* The last of the first n + 1 numbers is their maximum.                   *)
LEMMA LastIsMax ==
  ASSUME NEW n \in Nat, NEW s \in SUBSET (1 .. n + 1), n + 1 \in s
  PROVE  Max(s) = n + 1 /\ s \ {n + 1} \in SUBSET (1 .. n)
  <1>1. \A y \in s : n + 1 >= y
    OBVIOUS
  <1>2. \A x \in s : (\A y \in s : x >= y) => x = n + 1
    OBVIOUS
  <1>3. Max(s) = n + 1
    BY <1>1, <1>2 DEF Max
  <1> QED
    BY <1>3

(* The first n + 1 numbers, without the last.                              *)
LEMMA FirstNumbers ==
  ASSUME NEW n \in Nat, NEW s, s = 1 .. n + 1
  PROVE  s \in SUBSET (1 .. n + 1) /\ s # {} /\ n + 1 \in s /\ s \ {n + 1} = 1 .. n /\ Max(s) = n + 1
  <1>1. s \in SUBSET (1 .. n + 1) /\ s # {} /\ n + 1 \in s /\ s \ {n + 1} = 1 .. n
    OBVIOUS
  <1> QED
    BY <1>1, LastIsMax

(* Such a function exists for every number of calls, so that it is the one *)
(* the definition chooses.                                                 *)
LEMMA FoldingExists ==
  ASSUME NEW q, NEW ops, NEW n \in Nat
  PROVE  \E h : Folding(q, ops, h, n)
  <1> DEFINE T == {k \in Nat : \E h : Folding(q, ops, h, k)}
  <1>1. 0 \in T
    <2> DEFINE g == [s \in SUBSET (1 .. 0) |-> q]
    <2>1. \A s \in SUBSET (1 .. 0) : s = {}
      OBVIOUS
    <2>2. g = [s \in SUBSET (1 .. 0) |-> IF s = {} THEN q ELSE StreamStep(g[s \ {Max(s)}], ops[Max(s)])]
      BY <2>1
    <2> QED
      BY <2>2 DEF Folding
  <1>2. ASSUME NEW k \in Nat, k \in T PROVE k + 1 \in T
    <2>1. PICK h : Folding(q, ops, h, k)
      BY <1>2
    <2> DEFINE g == [s \in SUBSET (1 .. k + 1) |->
                       IF k + 1 \in s THEN StreamStep(h[s \ {k + 1}], ops[k + 1]) ELSE h[s]]
    <2>2. \A s \in SUBSET (1 .. k) : h[s] = IF s = {} THEN q ELSE StreamStep(h[s \ {Max(s)}], ops[Max(s)])
      BY <2>1 DEF Folding
    <2>3. \A s \in SUBSET (1 .. k) : g[s] = h[s]
      OBVIOUS
    <2>4. ASSUME NEW s \in SUBSET (1 .. k + 1)
          PROVE  g[s] = IF s = {} THEN q ELSE StreamStep(g[s \ {Max(s)}], ops[Max(s)])
      <3>1. CASE k + 1 \in s
        <4>1. Max(s) = k + 1 /\ s \ {k + 1} \in SUBSET (1 .. k)
          BY <3>1, LastIsMax
        <4>2. g[s] = StreamStep(h[s \ {k + 1}], ops[k + 1])
          BY <3>1
        <4> HIDE DEF g
        <4> QED
          BY <3>1, <4>1, <4>2, <2>3
      <3>2. CASE k + 1 \notin s
        <4>1. s \in SUBSET (1 .. k)
          BY <3>2
        <4>2. s \ {Max(s)} \in SUBSET (1 .. k)
          BY <4>1
        <4> HIDE DEF g
        <4> QED
          BY <4>1, <4>2, <2>2, <2>3
      <3> QED
        BY <3>1, <3>2
    <2>5. g = [s \in SUBSET (1 .. k + 1) |-> g[s]]
      OBVIOUS
    <2> HIDE DEF g
    <2>6. Folding(q, ops, g, k + 1)
      BY <2>4, <2>5 DEF Folding
    <2> QED
      BY <2>6
  <1> HIDE DEF T
  <1>3. n \in T
    BY <1>1, <1>2, NatSetInduction
  <1> QED
    BY <1>3 DEF T

(* The function for one call more.                                         *)
FoldingMore(q, ops, h, n) == Folding(q, ops, h, n + 1)

(* Two such functions agree on the calls that both fold.                   *)
LEMMA FoldingUnique ==
  ASSUME NEW q, NEW ops, NEW more, NEW g, NEW h, NEW n \in Nat,
         Folding(q, ops, g, n), FoldingMore(q, more, h, n), \A i \in 1 .. n : ops[i] = more[i]
  PROVE  g[1 .. n] = h[1 .. n]
  <1> DEFINE T == {k \in Nat : k <= n => g[1 .. k] = h[1 .. k]}
  <1>1. 0 \in T
    <2>1. 1 .. 0 = {}
      OBVIOUS
    <2>2. {} \in SUBSET (1 .. n) /\ {} \in SUBSET (1 .. n + 1)
      OBVIOUS
    <2>3. g[{}] = q /\ h[{}] = q
      BY <2>2 DEF Folding, FoldingMore
    <2> QED
      BY <2>1, <2>3
  <1>2. ASSUME NEW k \in Nat, k \in T PROVE k + 1 \in T
    <2> SUFFICES ASSUME k + 1 <= n PROVE g[1 .. k + 1] = h[1 .. k + 1]
      OBVIOUS
    <2> DEFINE s == 1 .. k + 1
    <2>1. s \in SUBSET (1 .. n) /\ s \in SUBSET (1 .. n + 1) /\ s # {} /\ k + 1 \in s /\ k + 1 \in 1 .. n
      OBVIOUS
    <2>2. Max(s) = k + 1
      BY <2>1, LastIsMax
    <2>3. s \ {k + 1} = 1 .. k
      OBVIOUS
    <2> HIDE DEF s
    <2>4. g[s] = StreamStep(g[s \ {Max(s)}], ops[Max(s)]) /\ h[s] = StreamStep(h[s \ {Max(s)}], more[Max(s)])
      BY <2>1 DEF Folding, FoldingMore
    <2>5. g[1 .. k] = h[1 .. k]
      BY <1>2
    <2>6. g[s] = h[s]
      BY <2>1, <2>2, <2>3, <2>4, <2>5
    <2> QED
      BY <2>6 DEF s
  <1> HIDE DEF T
  <1>3. n \in T
    BY <1>1, <1>2, NatSetInduction
  <1> QED
    BY <1>3 DEF T

(* No call.                                                                *)
LEMMA AfterNone ==
  ASSUME NEW q
  PROVE  After(q, <<>>) = q
  <1> DEFINE h == CHOOSE f : Folding(q, <<>>, f, 0)
  <1>1. After(q, <<>>) = h[1 .. 0]
    BY AfterDef
  <1>2. Folding(q, <<>>, h, 0)
    BY FoldingExists
  <1> HIDE DEF h
  <1>3. 1 .. 0 = {} /\ {} \in SUBSET (1 .. 0)
    OBVIOUS
  <1>4. h[{}] = q
    BY <1>2, <1>3 DEF Folding
  <1> QED
    BY <1>1, <1>3, <1>4

(* The same calls and one more.                                            *)
LongerByOne(more, ops, op) ==
  \E n \in Nat :
    /\ DOMAIN ops = 1 .. n /\ DOMAIN more = 1 .. n + 1
    /\ \A i \in 1 .. n : ops[i] = more[i]
    /\ more[n + 1] = op

(* One call more, after calls that are the same.                           *)
LEMMA OneMore ==
  ASSUME NEW q, NEW ops, NEW more, NEW op, LongerByOne(more, ops, op)
  PROVE  After(q, more) = StreamStep(After(q, ops), op)
  <1>0. PICK n \in Nat : /\ DOMAIN ops = 1 .. n /\ DOMAIN more = 1 .. n + 1
                         /\ \A i \in 1 .. n : ops[i] = more[i]
                         /\ more[n + 1] = op
    BY DEF LongerByOne
  <1> DEFINE g == CHOOSE f : Folding(q, ops, f, n)
             h == CHOOSE f : Folding(q, more, f, n + 1)
             s == 1 .. n + 1
  <1>1. n + 1 \in Nat /\ n <= n + 1
    OBVIOUS
  <1>2. After(q, ops) = g[1 .. n]
    BY <1>0, AfterDef
  <1>3. After(q, more) = h[s]
    <2>1. \A m \in Nat : DOMAIN more = 1 .. m
            => After(q, more) = (CHOOSE f : Folding(q, more, f, m))[1 .. m]
      BY AfterDef
    <2> QED
      BY <1>0, <1>1, <2>1
  <1>4. Folding(q, ops, g, n)
    BY FoldingExists
  <1>5. Folding(q, more, h, n + 1)
    BY <1>1, FoldingExists
  <1> HIDE DEF g, h
  <1>6. g[1 .. n] = h[1 .. n]
    <2>1. FoldingMore(q, more, h, n)
      BY <1>5 DEF FoldingMore
    <2> QED
      BY <1>0, <1>4, <2>1, FoldingUnique
  <1>7. s = 1 .. n + 1
    OBVIOUS
  <1> HIDE DEF s
  <1>8. s \in SUBSET (1 .. n + 1) /\ s # {} /\ s \ {n + 1} = 1 .. n /\ Max(s) = n + 1
    BY <1>7, FirstNumbers
  <1>9. h[s] = StreamStep(h[s \ {Max(s)}], more[Max(s)])
    BY <1>5, <1>8 DEF Folding
  <1> QED
    BY <1>0, <1>2, <1>3, <1>6, <1>8, <1>9

(* Calls on streams.                                                       *)
Owners == {"fwd", "adj", "host", "default"}
Contents == {"prm", "zero", "res", "minus", "rhs", "step", "state", "mat", "trans", "adj", "state_grad",
             "prm_grad", "product", "out", "other", "otherx"}
Buffers == Owners \X Contents
Launches == [on : Owners, reads : SUBSET Buffers, writes : SUBSET Buffers]
AllCalls == Launches \cup [on : {"sync"}, stream : Owners]

(* One call more.                                                          *)
LEMMA AfterOneMore ==
  ASSUME NEW q, NEW ops \in Seq(AllCalls), NEW op \in AllCalls
  PROVE  After(q, Append(ops, op)) = StreamStep(After(q, ops), op)
  <1> DEFINE more == Append(ops, op)
             n == Len(ops)
  <1>1. n \in Nat /\ DOMAIN ops = 1 .. n /\ DOMAIN more = 1 .. n + 1 /\ more[n + 1] = op
    OBVIOUS
  <1>2. \A i \in 1 .. n : ops[i] = more[i]
    OBVIOUS
  <1> HIDE DEF n, more
  <1>3. LongerByOne(more, ops, op)
    BY <1>1, <1>2 DEF LongerByOne
  <1>4. After(q, more) = StreamStep(After(q, ops), op)
    BY <1>3, OneMore
  <1> QED
    BY <1>4 DEF more

-----------------------------------------------------------------------------
(* A sequence of calls that is not empty is one call after others.         *)
LEMMA LastCall ==
  ASSUME NEW ops \in Seq(AllCalls), NEW k \in Nat, Len(ops) = k + 1
  PROVE  \E f \in Seq(AllCalls) : Len(f) = k /\ ops = Append(f, ops[k + 1]) /\ ops[k + 1] \in AllCalls
                                  /\ \A i \in 1 .. k : f[i] = ops[i]
  <1> DEFINE f == [i \in 1 .. k |-> ops[i]]
  <1>1. f \in Seq(AllCalls) /\ Len(f) = k
    OBVIOUS
  <1>2. ops = Append(f, ops[k + 1]) /\ ops[k + 1] \in AllCalls
    OBVIOUS
  <1> QED
    BY <1>1, <1>2

(* Calls after calls.                                                      *)
LEMMA AfterBoth ==
  ASSUME NEW q, NEW a \in Seq(AllCalls), NEW b \in Seq(AllCalls)
  PROVE  After(q, a \o b) = After(After(q, a), b)
  <1> DEFINE T == {k \in Nat : \A c \in Seq(AllCalls) : Len(c) = k => After(q, a \o c) = After(After(q, a), c)}
  <1>1. 0 \in T
    <2>1. \A c \in Seq(AllCalls) : Len(c) = 0 => c = <<>> /\ a \o c = a
      OBVIOUS
    <2> QED
      BY <2>1, AfterNone
  <1>2. ASSUME NEW k \in Nat, k \in T PROVE k + 1 \in T
    <2> SUFFICES ASSUME NEW c \in Seq(AllCalls), Len(c) = k + 1
                 PROVE  After(q, a \o c) = After(After(q, a), c)
      OBVIOUS
    <2>1. PICK f \in Seq(AllCalls) : Len(f) = k /\ c = Append(f, c[k + 1]) /\ c[k + 1] \in AllCalls
      BY LastCall
    <2> DEFINE op == c[k + 1]
    <2> HIDE DEF op
    <2>20. f \in Seq(AllCalls) /\ op \in AllCalls /\ c = Append(f, op)
      BY <2>1 DEF op
    <2>21. a \o Append(f, op) = Append(a \o f, op) /\ a \o f \in Seq(AllCalls)
      BY <2>20
    <2>2. a \o c = Append(a \o f, op) /\ a \o f \in Seq(AllCalls)
      BY <2>20, <2>21
    <2>23. \A e \in Seq(AllCalls) : After(q, Append(e, op)) = StreamStep(After(q, e), op)
      BY <2>20, AfterOneMore
    <2>3. After(q, a \o c) = StreamStep(After(q, a \o f), op)
      BY <2>2, <2>23
    <2>4. After(After(q, a), c) = StreamStep(After(After(q, a), f), op)
      BY <2>20, AfterOneMore
    <2>5. After(q, a \o f) = After(After(q, a), f)
      BY <1>2, <2>1
    <2> QED
      BY <2>3, <2>4, <2>5
  <1> HIDE DEF T
  <1>3. Len(b) \in T
    BY <1>1, <1>2, NatSetInduction
  <1> QED
    BY <1>3 DEF T

(* One call alone.                                                         *)
LEMMA AfterOne ==
  ASSUME NEW q, NEW op \in AllCalls
  PROVE  After(q, <<op>>) = StreamStep(q, op)
  <1>1. <<op>> = Append(<<>>, op) /\ <<>> \in Seq(AllCalls)
    OBVIOUS
  <1>2. After(q, Append(<<>>, op)) = StreamStep(After(q, <<>>), op)
    BY <1>1, AfterOneMore
  <1> QED
    BY ONLY <1>1, <1>2, AfterNone

(* What one call does where only one stream has work.                      *)
OfStream(op, c) == op.on = c \/ (op.on = "sync" /\ op.stream = c)

(* Waiting for the one stream with work leaves none.                       *)
LEMMA WaitForStream ==
  ASSUME NEW q, NEW stream, OnlyOn(q, stream), NEW op, op.on = "sync", op.stream = stream
  PROVE  AtRest(StreamStep(q, op))
  BY DEF OnlyOn, AtRest, Quiet, StreamStep, Waited, NoWork

(* No work at all is work on one stream, and either is without a race.     *)
LEMMA RestOnStream ==
  ASSUME NEW q, NEW c
  PROVE  (AtRest(q) => OnlyOn(q, c)) /\ (OnlyOn(q, c) => Quiet(q)) /\ (AtRest(q) => Quiet(q))
  BY DEF AtRest, OnlyOn

(* A launch on the one stream with work, or a wait for it, races with      *)
(* nothing.                                                                *)
LEMMA CallOnStream ==
  ASSUME NEW q, NEW stream, OnlyOn(q, stream), NEW op, OfStream(op, stream), stream \notin {"host", "sync"}
  PROVE  OnlyOn(StreamStep(q, op), stream)
  <1>1. CASE op.on = stream
    <2>1. ~Conflicts(q, op)
      BY <1>1 DEF OnlyOn, Conflicts
    <2>2. DOMAIN StreamStep(q, op) = DOMAIN NoWork /\ ~StreamStep(q, op).race
      BY <1>1, <2>1 DEF StreamStep, Submitted, OnlyOn, Quiet, NoWork
    <2>3. \A a \in StreamStep(q, op).open : a.on = stream
      BY <1>1 DEF StreamStep, Submitted, OnlyOn
    <2> QED
      BY <2>2, <2>3 DEF OnlyOn, Quiet
  <1>2. CASE op.on = "sync" /\ op.stream = stream
    BY <1>2, WaitForStream, RestOnStream
  <1> QED
    BY <1>1, <1>2 DEF OfStream

(* The host races with nothing when no stream has work.                    *)
LEMMA HostAtRest ==
  ASSUME NEW q, AtRest(q), NEW op, op.on = "host"
  PROVE  AtRest(StreamStep(q, op))
  <1>1. ~Conflicts(q, op)
    BY DEF AtRest, Conflicts
  <1> QED
    BY <1>1 DEF AtRest, Quiet, StreamStep, Submitted, NoWork

(* Work on a stream stays on it.                                           *)
LEMMA CallsOnStream ==
  ASSUME NEW q, NEW stream, OnlyOn(q, stream), stream \notin {"host", "sync"},
         NEW ops \in Seq(AllCalls), \A i \in 1 .. Len(ops) : OfStream(ops[i], stream)
  PROVE  OnlyOn(After(q, ops), stream)
  <1> DEFINE OfIt(s) == \A i \in 1 .. Len(s) : OfStream(s[i], stream)
             T == {k \in Nat : \A s \in Seq(AllCalls) : Len(s) = k /\ OfIt(s) => OnlyOn(After(q, s), stream)}
  <1>1. 0 \in T
    <2>1. \A s \in Seq(AllCalls) : Len(s) = 0 => s = <<>>
      OBVIOUS
    <2> QED
      BY <2>1, AfterNone
  <1>2. ASSUME NEW k \in Nat, k \in T PROVE k + 1 \in T
    <2> SUFFICES ASSUME NEW s \in Seq(AllCalls), Len(s) = k + 1, OfIt(s)
                 PROVE  OnlyOn(After(q, s), stream)
      OBVIOUS
    <2>1. PICK f \in Seq(AllCalls) : Len(f) = k /\ s = Append(f, s[k + 1]) /\ s[k + 1] \in AllCalls
                                     /\ \A i \in 1 .. k : f[i] = s[i]
      BY LastCall
    <2>2. OnlyOn(After(q, f), stream)
      BY <1>2, <2>1
    <2> DEFINE op == s[k + 1]
    <2>3. OfStream(op, stream)
      OBVIOUS
    <2>4. f \in Seq(AllCalls) /\ op \in AllCalls /\ s = Append(f, op)
      BY <2>1
    <2> HIDE DEF op
    <2>5. After(q, s) = StreamStep(After(q, f), op)
      BY <2>4, AfterOneMore
    <2> QED
      BY <2>2, <2>3, <2>5, CallOnStream
  <1> HIDE DEF T
  <1>3. Len(ops) \in T
    BY <1>1, <1>2, NatSetInduction
  <1> QED
    BY <1>3 DEF T

(* The host first, when no stream has work.                                *)
LEMMA HostThenCalls ==
  ASSUME NEW q, NEW stream, AtRest(q), stream \notin {"host", "sync"},
         NEW ops \in Seq(AllCalls), ops # <<>>, ops[1].on = "host",
         \A i \in 2 .. Len(ops) : OfStream(ops[i], stream)
  PROVE  OnlyOn(After(q, ops), stream)
  <1> DEFINE OfIt(s) == s[1].on = "host" /\ \A i \in 2 .. Len(s) : OfStream(s[i], stream)
             T == {k \in Nat : \A s \in Seq(AllCalls) : Len(s) = k + 1 /\ OfIt(s) => OnlyOn(After(q, s), stream)}
  <1>1. 0 \in T
    <2> SUFFICES ASSUME NEW s \in Seq(AllCalls), Len(s) = 1, OfIt(s)
                 PROVE  OnlyOn(After(q, s), stream)
      OBVIOUS
    <2> DEFINE op == s[1]
    <2>1. op.on = "host" /\ DOMAIN s = 1 .. 0 + 1 /\ s[0 + 1] = op /\ DOMAIN <<>> = 1 .. 0
      OBVIOUS
    <2> HIDE DEF op
    <2>3. LongerByOne(s, <<>>, op)
      <3>1. 0 \in Nat /\ \A i \in 1 .. 0 : <<>>[i] = s[i]
        OBVIOUS
      <3> QED
        BY <2>1, <3>1 DEF LongerByOne
    <2>2. After(q, s) = StreamStep(q, op)
      BY <2>3, OneMore, AfterNone
    <2> QED
      BY <2>1, <2>2, HostAtRest, RestOnStream
  <1>2. ASSUME NEW k \in Nat, k \in T PROVE k + 1 \in T
    <2> SUFFICES ASSUME NEW s \in Seq(AllCalls), Len(s) = k + 1 + 1, OfIt(s)
                 PROVE  OnlyOn(After(q, s), stream)
      OBVIOUS
    <2> DEFINE n == k + 1
               op == s[n + 1]
    <2>1. n \in Nat /\ Len(s) = n + 1 /\ OfStream(op, stream)
      OBVIOUS
    <2> HIDE DEF n
    <2>2. PICK f \in Seq(AllCalls) : Len(f) = n /\ s = Append(f, s[n + 1]) /\ s[n + 1] \in AllCalls
                                     /\ \A i \in 1 .. n : f[i] = s[i]
      BY <2>1, LastCall
    <2>3. OnlyOn(After(q, f), stream)
      BY <1>2, <2>1, <2>2 DEF n
    <2>4. f \in Seq(AllCalls) /\ op \in AllCalls /\ s = Append(f, op)
      BY <2>2
    <2> HIDE DEF op
    <2>5. After(q, s) = StreamStep(After(q, f), op)
      BY <2>4, AfterOneMore
    <2> QED
      BY <2>1, <2>3, <2>5, CallOnStream
  <1> HIDE DEF T
  <1>3. Len(ops) - 1 \in Nat /\ (Len(ops) - 1) + 1 = Len(ops)
    OBVIOUS
  <1>4. Len(ops) - 1 \in T
    BY <1>1, <1>2, <1>3, NatSetInduction
  <1> QED
    BY <1>3, <1>4 DEF T

(* The last call waits for the stream.                                     *)
LEMMA ThenWait ==
  ASSUME NEW q, NEW stream, NEW ops \in Seq(AllCalls), NEW n \in Nat, Len(ops) = n + 1,
         ops[n + 1].on = "sync", ops[n + 1].stream = stream, OnlyOn(After(q, SubSeq(ops, 1, n)), stream)
  PROVE  AtRest(After(q, ops))
  <1> DEFINE f == SubSeq(ops, 1, n)
  <1>1. f \in Seq(AllCalls) /\ Len(f) = n /\ \A i \in 1 .. n : f[i] = ops[i]
    BY SubSeqProperties
  <1> HIDE DEF f
  <1>2. DOMAIN f = 1 .. n /\ DOMAIN ops = 1 .. n + 1
    BY <1>1
  <1>3. LongerByOne(ops, f, ops[n + 1])
    BY <1>1, <1>2 DEF LongerByOne
  <1>4. After(q, ops) = StreamStep(After(q, f), ops[n + 1])
    BY <1>3, OneMore
  <1>5. OnlyOn(After(q, f), stream)
    BY DEF f
  <1> QED
    BY <1>4, <1>5, WaitForStream

(* Calls on one stream that end with a wait for it leave no work.          *)
LEMMA CallsThenWait ==
  ASSUME NEW q, NEW stream, OnlyOn(q, stream), stream \notin {"host", "sync"},
         NEW ops \in Seq(AllCalls), NEW n \in Nat, Len(ops) = n + 1,
         ops[n + 1].on = "sync", ops[n + 1].stream = stream, \A i \in 1 .. n : OfStream(ops[i], stream)
  PROVE  AtRest(After(q, ops))
  <1>1. SubSeq(ops, 1, n) \in Seq(AllCalls) /\ Len(SubSeq(ops, 1, n)) = n
        /\ \A i \in 1 .. n : SubSeq(ops, 1, n)[i] = ops[i]
    BY SubSeqProperties
  <1>2. OnlyOn(After(q, SubSeq(ops, 1, n)), stream)
    BY <1>1, CallsOnStream
  <1> QED
    BY <1>2, ThenWait

(* The same, when the host comes first and no stream had work.             *)
LEMMA HostThenCallsThenWait ==
  ASSUME NEW q, NEW stream, AtRest(q), stream \notin {"host", "sync"},
         NEW ops \in Seq(AllCalls), NEW n \in Nat, n >= 1, Len(ops) = n + 1, ops[1].on = "host",
         ops[n + 1].on = "sync", ops[n + 1].stream = stream, \A i \in 2 .. n : OfStream(ops[i], stream)
  PROVE  AtRest(After(q, ops))
  <1> DEFINE f == SubSeq(ops, 1, n)
  <1>1. f \in Seq(AllCalls) /\ Len(f) = n /\ \A i \in 1 .. n : f[i] = ops[i]
    BY SubSeqProperties
  <1>2. f # <<>> /\ f[1].on = "host" /\ \A i \in 2 .. Len(f) : OfStream(f[i], stream)
    BY <1>1
  <1> HIDE DEF f
  <1>3. OnlyOn(After(q, f), stream)
    BY <1>1, <1>2, HostThenCalls
  <1> QED
    BY <1>3, ThenWait DEF f

-----------------------------------------------------------------------------
(* Without the wait that ends them, calls race no more.                    *)
LEMMA WithoutLastWait ==
  ASSUME NEW q, NEW s \in Seq(AllCalls), NEW n \in Nat, Len(s) = n + 1, s[n + 1].on = "sync",
         Quiet(After(q, s))
  PROVE  Front(s) \in Seq(AllCalls) /\ Quiet(After(q, Front(s)))
  <1>1. Front(s) \in Seq(AllCalls) /\ Len(Front(s)) = n /\ \A i \in 1 .. n : Front(s)[i] = s[i]
    BY SubSeqProperties DEF Front
  <1> DEFINE f == Front(s)
  <1> HIDE DEF f
  <1>2. DOMAIN f = 1 .. n /\ DOMAIN s = 1 .. n + 1
    BY <1>1 DEF f
  <1>3. LongerByOne(s, f, s[n + 1])
    BY <1>1, <1>2 DEF LongerByOne, f
  <1>4. After(q, s) = StreamStep(After(q, f), s[n + 1])
    BY <1>3, OneMore
  <1>5. DOMAIN After(q, f) = DOMAIN NoWork /\ ~After(q, f).race
    BY <1>4 DEF Quiet, StreamStep, Waited, NoWork
  <1> QED
    BY <1>1, <1>5 DEF f, Quiet

(* What a sequence of calls does to streams of which one alone has work.   *)
Stays(ops, c) == ops \in Seq(AllCalls) /\ \A q : OnlyOn(q, c) => OnlyOn(After(q, ops), c)
Finishes(ops, c) == ops \in Seq(AllCalls) /\ \A q : OnlyOn(q, c) => AtRest(After(q, ops))
Submits(ops, c) == ops \in Seq(AllCalls) /\ \A q : OnlyOn(q, c) => Quiet(After(q, ops))
Context(c) == c \in {"fwd", "adj"}

(* Calls that leave no work stay on their stream, and those race with      *)
(* nothing.                                                                *)
LEMMA Weaker ==
  ASSUME NEW ops, NEW c
  PROVE  (Finishes(ops, c) => Stays(ops, c)) /\ (Stays(ops, c) => Submits(ops, c))
  BY RestOnStream DEF Finishes, Stays, Submits

(* Sequences with the same calls are the same.                             *)
LEMMA SameCalls ==
  ASSUME NEW s \in Seq(AllCalls), NEW t \in Seq(AllCalls), Len(s) = Len(t),
         \A i \in 1 .. Len(s) : s[i] = t[i]
  PROVE  s = t
  OBVIOUS

(* The calls of two sequences, one after the other.                        *)
LEMMA Concatenated ==
  ASSUME NEW a \in Seq(AllCalls), NEW b \in Seq(AllCalls)
  PROVE  /\ a \o b \in Seq(AllCalls) /\ Len(a \o b) = Len(a) + Len(b)
         /\ \A i \in 1 .. Len(a) + Len(b) : (a \o b)[i] = IF i <= Len(a) THEN a[i] ELSE b[i - Len(a)]
  OBVIOUS

(* solveCuda leaves no work behind, and ends with a wait.                  *)
LEMMA SolveEnds ==
  ASSUME NEW c, Context(c), NEW mat \in Buffers, NEW rhs \in Buffers, NEW x \in Buffers
  PROVE  LET ops == CudaSolves(c, mat, rhs, x) IN
         Finishes(ops, c) /\ Len(ops) = 3 + 1 /\ ops[3 + 1].on = "sync"
  <1> DEFINE a == On(c, {}, {x})
             b == Sync(c)
             d == On(DefaultStream, {mat, rhs}, {x})
             e == Sync(DefaultStream)
  <1>1. a \in AllCalls /\ b \in AllCalls /\ d \in AllCalls /\ e \in AllCalls /\ e.on = "sync"
    BY DEF On, Sync, AllCalls, Launches, Owners, Context, DefaultStream
  <1>2. OfStream(a, c) /\ b.on = "sync" /\ b.stream = c
    BY DEF On, Sync, OfStream
  <1>3. OfStream(d, "default") /\ e.stream = "default"
    BY DEF On, Sync, OfStream, DefaultStream
  <1>4. CudaSolves(c, mat, rhs, x) = <<a, b, d, e>>
    BY DEF CudaSolves
  <1> HIDE DEF a, b, d, e
  <1> DEFINE ab == <<a, b>>
             de == <<d, e>>
             s == <<a, b, d, e>>
  <1>5. /\ ab \in Seq(AllCalls) /\ Len(ab) = 1 + 1 /\ ab[1 + 1] = b /\ ab[1] = a /\ ab[2] = b
        /\ de \in Seq(AllCalls) /\ Len(de) = 1 + 1 /\ de[1 + 1] = e /\ de[1] = d /\ de[2] = e
    BY <1>1
  <1>6. s \in Seq(AllCalls) /\ Len(s) = 3 + 1 /\ s[3 + 1] = e /\ s[1] = a /\ s[2] = b /\ s[3] = d /\ s[4] = e
    BY <1>1
  <1> HIDE DEF ab, de, s
  <1>7. s = ab \o de
    <2>0. ab \in Seq(AllCalls) /\ de \in Seq(AllCalls)
      BY <1>5
    <2> DEFINE abde == ab \o de
    <2>1. abde \in Seq(AllCalls) /\ Len(abde) = Len(ab) + Len(de)
          /\ \A i \in 1 .. Len(ab) + Len(de) : abde[i] = IF i <= Len(ab) THEN ab[i] ELSE de[i - Len(ab)]
      BY <2>0, Concatenated
    <2>10. abde \in Seq(AllCalls)
      BY <2>0, Concatenated
    <2> HIDE DEF abde
    <2>2. Len(abde) = 4 /\ \A i \in 1 .. 4 : abde[i] = IF i <= 2 THEN ab[i] ELSE de[i - 2]
      BY <1>5, <2>1
    <2>3. abde[1] = ab[1] /\ abde[2] = ab[2] /\ abde[3] = de[1] /\ abde[4] = de[2]
      BY <2>2
    <2>4. \A i \in 1 .. 4 : abde[i] = s[i]
      BY <1>5, <1>6, <2>3
    <2>5. s = abde
      <3>1. Len(s) = Len(abde) /\ Len(s) = 4
        BY <1>6, <2>2
      <3>2. \A i \in 1 .. Len(s) : s[i] = abde[i]
        BY <3>1, <2>4
      <3> QED
        BY <1>6, <2>10, <3>1, <3>2, SameCalls
    <2> QED
      BY <2>5 DEF abde
  <1>8. ASSUME NEW q, OnlyOn(q, c) PROVE AtRest(After(q, s))
    <2>1. \A i \in 1 .. 1 : OfStream(ab[i], c) /\ OfStream(de[i], "default")
      BY <1>2, <1>3, <1>5
    <2>2. 1 \in Nat
      OBVIOUS
    <2>3. AtRest(After(q, ab))
      BY <1>2, <1>5, <1>8, <2>1, <2>2, CallsThenWait DEF Context
    <2>4. OnlyOn(After(q, ab), "default")
      BY <2>3, RestOnStream
    <2>5. AtRest(After(After(q, ab), de))
      BY <1>1, <1>3, <1>5, <2>1, <2>2, <2>4, CallsThenWait
    <2> QED
      BY <1>5, <1>7, <2>5, AfterBoth
  <1> QED
    BY <1>1, <1>4, <1>6, <1>8 DEF Finishes, s

(* What two sequences of calls do, one after the other.                    *)
LEMMA BothCalls ==
  ASSUME NEW a \in Seq(AllCalls), NEW b \in Seq(AllCalls)
  PROVE  a \o b \in Seq(AllCalls) /\ \A q : After(q, a \o b) = After(After(q, a), b)
  BY AfterBoth

(* Calls that stay on a stream, after calls that stay on it.               *)
LEMMA StayStay ==
  ASSUME NEW a, NEW b, NEW c, Stays(a, c), Stays(b, c)
  PROVE  Stays(a \o b, c)
  BY BothCalls DEF Stays

(* Calls that finish a stream, after calls that stay on it.                *)
LEMMA StayFinish ==
  ASSUME NEW a, NEW b, NEW c, Stays(a, c), Finishes(b, c)
  PROVE  Finishes(a \o b, c)
  BY BothCalls DEF Stays, Finishes

(* Calls that race with nothing on a stream, after calls that stay on it.  *)
LEMMA StaySubmit ==
  ASSUME NEW a, NEW b, NEW c, Stays(a, c), Submits(b, c)
  PROVE  Submits(a \o b, c)
  BY BothCalls DEF Stays, Submits

(* One launch stays on its stream.                                         *)
LEMMA OneLaunch ==
  ASSUME NEW c, Context(c), NEW reads \in SUBSET Buffers, NEW writes \in SUBSET Buffers
  PROVE  Stays(<<On(c, reads, writes)>>, c)
  <1> DEFINE op == On(c, reads, writes)
  <1>1. op \in AllCalls /\ OfStream(op, c)
    BY DEF On, AllCalls, Launches, Owners, Context, OfStream
  <1> HIDE DEF op
  <1> DEFINE s == <<op>>
  <1>2. s \in Seq(AllCalls) /\ Len(s) = 1 /\ s[1] = op
    BY <1>1
  <1> HIDE DEF s
  <1>3. \A i \in 1 .. Len(s) : OfStream(s[i], c)
    BY <1>1, <1>2
  <1>4. Stays(s, c)
    BY <1>2, <1>3, CallsOnStream DEF Stays, Context
  <1> QED
    BY <1>4 DEF s, op

(* The buffers of a system are those of its context.                       *)
LEMMA OwnBuffer ==
  ASSUME NEW sys, NEW c, Context(c), sys.ctx = c, NEW name \in Contents
  PROVE  Buf(sys, name) \in Buffers
  BY DEF Buf, Buffers, Owners, Context

(* The front of calls that end with those of solveCuda.                    *)
LEMMA FrontSubmits ==
  ASSUME NEW a, NEW b, NEW c, Stays(a, c), Finishes(b, c), Len(b) = 3 + 1, b[3 + 1].on = "sync"
  PROVE  Submits(Front(a \o b), c)
  <1> DEFINE s == a \o b
             n == Len(a) + 3
  <1>1. a \in Seq(AllCalls) /\ b \in Seq(AllCalls)
    BY DEF Stays, Finishes
  <1>10. s \in Seq(AllCalls) /\ Len(s) = Len(a) + Len(b)
    BY <1>1, Concatenated
  <1>2. s \in Seq(AllCalls) /\ n \in Nat /\ Len(s) = n + 1
    BY <1>1, <1>10
  <1>3. s[n + 1] = b[3 + 1]
    <2>1. \A i \in 1 .. Len(a) + Len(b) : s[i] = IF i <= Len(a) THEN a[i] ELSE b[i - Len(a)]
      BY <1>1, Concatenated
    <2>2. n + 1 \in 1 .. Len(a) + Len(b) /\ ~(n + 1 <= Len(a)) /\ (n + 1) - Len(a) = 3 + 1
      BY <1>1
    <2> HIDE DEF n
    <2>3. s[n + 1] = b[(n + 1) - Len(a)]
      BY <2>1, <2>2
    <2> QED
      BY <2>2, <2>3, Zenon
  <1>4. Finishes(s, c)
    BY StayFinish
  <1> HIDE DEF s, n
  <1>5. \A q : OnlyOn(q, c) => Quiet(After(q, s))
    BY <1>4, RestOnStream DEF Finishes
  <1>6. \A q : Quiet(After(q, s)) => Front(s) \in Seq(AllCalls) /\ Quiet(After(q, Front(s)))
    BY <1>2, <1>3, WithoutLastWait
  <1>7. OnlyOn(NoWork, c)
    BY DEF OnlyOn, Quiet, NoWork
  <1>8. Submits(Front(s), c)
    BY <1>5, <1>6, <1>7 DEF Submits
  <1> QED
    BY <1>8 DEF s

(* A system of one context, and the result of a solve with it, whose calls *)
(* leave no work when it succeeds and race with nothing when it fails.     *)
HasContext(sys, c) == "ctx" \in DOMAIN sys /\ sys.ctx = c /\ "map" \in DOMAIN sys
EndsInOrder(r, c) == HasContext(r.sys, c) /\ (r.ok => Finishes(r.ops, c)) /\ (~r.ok => Submits(r.ops, c))

(* solveCuda with a matrix, whether it is solved, fails or is not run.     *)
LEMMA SolvesWithRuns ==
  ASSUME NEW sys, NEW c, Context(c), HasContext(sys, c), NEW field \in {"fwd", "trans"}, NEW A, NEW rhs,
         NEW mat \in Buffers, NEW rhs_buf \in Buffers, NEW x_buf \in Buffers,
         NEW r \in CudaSolvesWith(sys, field, mat, A, rhs, rhs_buf, x_buf)
  PROVE  EndsInOrder(r, c)
  <1> DEFINE copied == <<On(sys.ctx, {rhs_buf}, {Buf(sys, "rhs")})>>
             taken == <<On(sys.ctx, {Buf(sys, "mat")}, {mat})>>
             moved == copied \o IF field = "trans" THEN taken ELSE <<>>
             solve == CudaSolves(sys.ctx, mat, Buf(sys, "rhs"), x_buf)
             solving == moved \o solve
  <1>1. Buf(sys, "rhs") \in Buffers /\ Buf(sys, "mat") \in Buffers /\ sys.ctx = c
    BY OwnBuffer DEF HasContext, Contents
  <1>2. Stays(copied, c) /\ Stays(taken, c)
    BY <1>1, OneLaunch
  <1>3. Stays(<<>>, c)
    BY AfterNone DEF Stays
  <1>4. Finishes(solve, c) /\ Len(solve) = 3 + 1 /\ solve[3 + 1].on = "sync"
    BY <1>1, SolveEnds
  <1> HIDE DEF copied, taken, solve
  <1>5. Stays(moved, c)
    BY <1>2, <1>3, StayStay
  <1> HIDE DEF moved
  <1>6. Finishes(solving, c) /\ Submits(Front(solving), c) /\ Submits(moved, c)
    BY <1>4, <1>5, StayFinish, FrontSubmits, Weaker
  <1> HIDE DEF solving
  <1>7. PICK s \in CudaSet(sys[field], A) :
          r \in {Failed([sys EXCEPT ![field] = s.st], IF s.ok THEN Front(solving) ELSE moved)}
              \cup IF s.ok /\ s.st.ready
                   THEN {Outcome([sys EXCEPT ![field] = s.st], TRUE,
                                 IF field = "trans" /\ sys.map = "half" THEN Anything ELSE Solution(A.vals, rhs),
                                 solving)}
                   ELSE {}
    BY DEF CudaSolvesWith, solving, moved, copied, taken, solve
  <1> DEFINE after == [sys EXCEPT ![field] = s.st]
  <1>8. HasContext(after, c)
    BY DEF HasContext
  <1> HIDE DEF after
  <1>9. \/ r = Failed(after, Front(solving)) \/ r = Failed(after, moved)
        \/ \E x : r = Outcome(after, TRUE, x, solving)
    BY <1>7 DEF after
  <1> QED
    BY <1>6, <1>8, <1>9 DEF EndsInOrder, Failed, Outcome

(* solve and solveT on the device, with all that they call before          *)
(* solveCuda.                                                              *)
LEMMA CudaRuns ==
  ASSUME NEW kind, kind = "cuda", NEW sys, NEW c, Context(c), HasContext(sys, c), NEW field \in {"fwd", "trans"},
         NEW rhs, NEW rhs_buf \in Buffers, NEW x_buf \in Buffers,
         NEW r \in SystemSolves(kind, sys, field, rhs, rhs_buf, x_buf)
  PROVE  EndsInOrder(r, c)
  <1> DEFINE A == IF field = "trans" THEN TransposedOf(sys) ELSE sys.mat
  <1>1. r \in DeviceSolves(sys, field, A, rhs, rhs_buf, x_buf)
    BY DEF SystemSolves
  <1> HIDE DEF A
  <1>2. \A b \in {"mat", "trans", "rhs"} : Buf(sys, b) \in Buffers
    BY OwnBuffer DEF HasContext, Contents
  <1>3. CASE field = "fwd"
    <2>1. r \in CudaSolvesWith(sys, field, Buf(sys, "mat"), A, rhs, rhs_buf, x_buf)
      BY <1>1, <1>3 DEF DeviceSolves
    <2> QED
      BY <1>2, <2>1, SolvesWithRuns
  <1>4. CASE field # "fwd"
    <2>1. PICK m : LET s == [sys EXCEPT !.map = m] IN
            r \in IF sys.map = "none" /\ s.map = "half"
                  THEN {Failed(s, <<On(sys.ctx, {rhs_buf}, {Buf(sys, "rhs")})>>)}
                  ELSE CudaSolvesWith(s, field, Buf(sys, "trans"), A, rhs, rhs_buf, x_buf)
      BY <1>1, <1>4 DEF DeviceSolves, CudaTransposes
    <2> DEFINE s == [sys EXCEPT !.map = m]
               copied == <<On(sys.ctx, {rhs_buf}, {Buf(sys, "rhs")})>>
    <2>2. HasContext(s, c)
      BY DEF HasContext
    <2>3. Submits(copied, c)
      BY <1>2, OneLaunch, Weaker DEF HasContext
    <2> HIDE DEF s, copied
    <2>4. CASE r = Failed(s, copied)
      BY <2>2, <2>3, <2>4 DEF Failed, Outcome, EndsInOrder
    <2>5. CASE r \in CudaSolvesWith(s, field, Buf(sys, "trans"), A, rhs, rhs_buf, x_buf)
      BY <1>2, <2>2, <2>5, SolvesWithRuns
    <2> QED
      BY <2>1, <2>4, <2>5 DEF s, copied
  <1> QED
    BY <1>3, <1>4

(* The assembly of the linear state solver is on the forward stream.       *)
(* (assembleHostState, solve.)                                             *)
LEMMA LinearAssemblyStays == Stays(LinearAssembly, "fwd")
  <1> DEFINE a == On("fwd", {}, {FwdBuf("mat")})
             b == On("fwd", {FwdBuf("zero"), FwdBuf("prm")}, {FwdBuf("res")})
             d == On("fwd", {FwdBuf("res")}, {FwdBuf("minus")})
             e == On("fwd", {FwdBuf("zero"), FwdBuf("prm")}, {FwdBuf("mat")})
  <1>1. a \in AllCalls /\ b \in AllCalls /\ d \in AllCalls /\ e \in AllCalls
    BY DEF On, AllCalls, Launches, Owners, Contents, Buffers, FwdBuf
  <1>2. OfStream(a, "fwd") /\ OfStream(b, "fwd") /\ OfStream(d, "fwd") /\ OfStream(e, "fwd")
    BY DEF On, OfStream
  <1>3. LinearAssembly = <<a, b, d, e>>
    BY DEF LinearAssembly
  <1> HIDE DEF a, b, d, e
  <1> DEFINE s == <<a, b, d, e>>
  <1>4. s \in Seq(AllCalls) /\ Len(s) = 4 /\ s[1] = a /\ s[2] = b /\ s[3] = d /\ s[4] = e
    BY <1>1
  <1> HIDE DEF s
  <1>5. \A i \in 1 .. Len(s) : OfStream(s[i], "fwd")
    BY <1>2, <1>4
  <1>6. Stays(s, "fwd")
    BY <1>4, <1>5, CallsOnStream DEF Stays
  <1> QED
    BY <1>3, <1>6 DEF s

(* A wait for the forward stream. (sync.)                                  *)
LEMMA SyncFinishes == Finishes(<<Sync("fwd")>>, "fwd")
  <1> DEFINE a == Sync("fwd")
             s == <<a>>
  <1>1. a \in AllCalls /\ a.on = "sync" /\ a.stream = "fwd"
    BY DEF Sync, AllCalls, Owners
  <1> HIDE DEF a
  <1>2. s \in Seq(AllCalls) /\ Len(s) = 0 + 1 /\ s[0 + 1] = a
    BY <1>1
  <1> HIDE DEF s
  <1>3. 0 \in Nat /\ \A i \in 1 .. 0 : OfStream(s[i], "fwd")
    OBVIOUS
  <1>4. Finishes(s, "fwd")
    BY <1>1, <1>2, <1>3, CallsThenWait DEF Finishes
  <1> QED
    BY <1>4 DEF s, a

(* The copy of the state to the host ends with a wait. (copyState.)        *)
LEMMA CopyStateFinishes == Finishes(CopyState, "fwd")
  <1> DEFINE a == On("fwd", {FwdBuf("state")}, {HostBuf("state")})
             b == Sync("fwd")
             s == <<a, b>>
  <1>1. a \in AllCalls /\ b \in AllCalls /\ OfStream(a, "fwd") /\ b.on = "sync" /\ b.stream = "fwd"
    BY DEF On, Sync, AllCalls, Launches, Owners, Contents, Buffers, FwdBuf, HostBuf, OfStream
  <1>2. CopyState = s
    BY DEF CopyState
  <1> HIDE DEF a, b
  <1>3. s \in Seq(AllCalls) /\ Len(s) = 1 + 1 /\ s[1 + 1] = b /\ s[1] = a
    BY <1>1
  <1> HIDE DEF s
  <1>4. 1 \in Nat /\ \A i \in 1 .. 1 : OfStream(s[i], "fwd")
    BY <1>1, <1>3
  <1>5. Finishes(s, "fwd")
    BY <1>1, <1>3, <1>4, CallsThenWait DEF Finishes
  <1> QED
    BY <1>2, <1>5

(* The host reads when no stream has work.                                 *)
LEMMA HostReads ==
  ASSUME NEW reads \in SUBSET Buffers
  PROVE  <<ByHost(reads, {})>> \in Seq(AllCalls)
         /\ \A q : AtRest(q) => AtRest(After(q, <<ByHost(reads, {})>>))
  <1> DEFINE a == ByHost(reads, {})
  <1>1. a \in AllCalls /\ a.on = "host"
    BY DEF ByHost, On, AllCalls, Launches, Owners
  <1> HIDE DEF a
  <1>2. <<a>> \in Seq(AllCalls)
    BY <1>1
  <1>3. ASSUME NEW q, AtRest(q) PROVE AtRest(After(q, <<a>>))
    <2>1. After(q, <<a>>) = StreamStep(q, a)
      BY <1>1, AfterOne
    <2> QED
      BY <1>1, <1>3, <2>1, HostAtRest
  <1> QED
    BY <1>2, <1>3 DEF a

(* The objective is evaluated by the host when the copies have ended.      *)
(* (value.)                                                                *)
LEMMA ValueCalls ==
  Finishes(CopyState \o <<ByHost({HostBuf("state"), HostBuf("prm")}, {})>>, "fwd")
  <1> DEFINE h == <<ByHost({HostBuf("state"), HostBuf("prm")}, {})>>
  <1>1. {HostBuf("state"), HostBuf("prm")} \in SUBSET Buffers
    BY DEF HostBuf, Buffers, Owners, Contents
  <1>2. h \in Seq(AllCalls) /\ \A q : AtRest(q) => AtRest(After(q, h))
    BY <1>1, HostReads
  <1>3. CopyState \in Seq(AllCalls) /\ \A q : OnlyOn(q, "fwd") => AtRest(After(q, CopyState))
    BY CopyStateFinishes DEF Finishes
  <1> HIDE DEF h
  <1>4. Finishes(CopyState \o h, "fwd")
    BY <1>2, <1>3, BothCalls DEF Finishes
  <1> QED
    BY <1>4 DEF h

(* setParam writes on the host and copies on the forward stream.           *)
LEMMA AskCalls ==
  ASSUME NEW q, AtRest(q)
  PROVE  OnlyOn(After(q, <<ByHost({}, {HostBuf("prm")}), On("fwd", {HostBuf("prm")}, {FwdBuf("prm")})>>), "fwd")
  <1> DEFINE a == ByHost({}, {HostBuf("prm")})
             b == On("fwd", {HostBuf("prm")}, {FwdBuf("prm")})
             s == <<a, b>>
  <1>1. a \in AllCalls /\ b \in AllCalls /\ a.on = "host" /\ OfStream(b, "fwd")
    BY DEF On, ByHost, AllCalls, Launches, Owners, Contents, Buffers, FwdBuf, HostBuf, OfStream
  <1> HIDE DEF a, b
  <1>2. s \in Seq(AllCalls) /\ Len(s) = 2 /\ s[1] = a /\ s[2] = b /\ s # <<>>
    BY <1>1
  <1> HIDE DEF s
  <1>3. \A i \in 2 .. Len(s) : OfStream(s[i], "fwd")
    BY <1>1, <1>2
  <1>4. OnlyOn(After(q, s), "fwd")
    BY <1>1, <1>2, <1>3, HostThenCalls
  <1> QED
    BY <1>4 DEF s, a, b

(* The adjoint's system is assembled on the adjoint stream alone.          *)
LEMMA AdjointAssemblyCalls ==
  AdjointAssembly \in Seq(AllCalls) /\ \A q : AtRest(q) => OnlyOn(After(q, AdjointAssembly), "adj")
  <1> DEFINE a == ByHost({HostBuf("state")}, {HostBuf("state_grad")})
             b == On("adj", {HostBuf("state_grad")}, {AdjBuf("state_grad")})
             d == On("adj", {FwdBuf("state"), FwdBuf("prm")}, {AdjBuf("mat")})
             s == <<a, b, d>>
  <1>1. a \in AllCalls /\ b \in AllCalls /\ d \in AllCalls
    BY DEF On, ByHost, AllCalls, Launches, Owners, Contents, Buffers, FwdBuf, HostBuf, AdjBuf
  <1>2. a.on = "host" /\ OfStream(b, "adj") /\ OfStream(d, "adj")
    BY DEF On, ByHost, OfStream
  <1>3. AdjointAssembly = s
    BY DEF AdjointAssembly
  <1> HIDE DEF a, b, d
  <1>4. s \in Seq(AllCalls) /\ Len(s) = 3 /\ s[1] = a /\ s[2] = b /\ s[3] = d /\ s # <<>>
    BY <1>1
  <1> HIDE DEF s
  <1>5. \A i \in 2 .. Len(s) : OfStream(s[i], "adj")
    BY <1>2, <1>4
  <1>6. \A q : AtRest(q) => OnlyOn(After(q, s), "adj")
    BY <1>2, <1>4, <1>5, HostThenCalls
  <1> QED
    BY <1>3, <1>4, <1>6

(* The gradient's calls begin and end with no work on any stream.          *)
(* (gradAtState.)                                                          *)
LEMMA GradientCallsEnd ==
  GradientCalls \in Seq(AllCalls) /\ \A q : AtRest(q) => AtRest(After(q, GradientCalls))
  <1> DEFINE a == ByHost({HostBuf("state")}, {HostBuf("prm_grad")})
             b == On("adj", {HostBuf("prm_grad")}, {AdjBuf("prm_grad")})
             d == On("adj", {FwdBuf("state"), FwdBuf("prm"), AdjBuf("adj")}, {AdjBuf("product")})
             e == On("adj", {AdjBuf("product"), AdjBuf("prm_grad")}, {AdjBuf("prm_grad")})
             f == On("adj", {AdjBuf("prm_grad")}, {HostBuf("out")})
             g == Sync("adj")
             s == <<a, b, d, e, f, g>>
  <1>1. a \in AllCalls /\ b \in AllCalls /\ d \in AllCalls /\ e \in AllCalls /\ f \in AllCalls /\ g \in AllCalls
    BY 
       DEF On, ByHost, Sync, AllCalls, Launches, Owners, Contents, Buffers, FwdBuf, HostBuf,
           AdjBuf
  <1>2. /\ a.on = "host" /\ OfStream(b, "adj") /\ OfStream(d, "adj") /\ OfStream(e, "adj") /\ OfStream(f, "adj")
        /\ g.on = "sync" /\ g.stream = "adj"
    BY DEF On, ByHost, Sync, OfStream
  <1>3. GradientCalls = s
    BY DEF GradientCalls
  <1> HIDE DEF a, b, d, e, f, g
  <1>4. /\ s \in Seq(AllCalls) /\ Len(s) = 5 + 1
        /\ s[1] = a /\ s[2] = b /\ s[3] = d /\ s[4] = e /\ s[5] = f /\ s[5 + 1] = g
    BY <1>1
  <1> HIDE DEF s
  <1>5. 5 \in Nat /\ 5 >= 1 /\ \A i \in 2 .. 5 : OfStream(s[i], "adj")
    BY <1>2, <1>4
  <1>6. \A q : AtRest(q) => AtRest(After(q, s))
    BY <1>2, <1>4, <1>5, HostThenCallsThenWait
  <1> QED
    BY <1>3, <1>4, <1>6

-----------------------------------------------------------------------------
(* Steps that leave the streams and the systems' contexts alone.           *)
LEMMA RaceLeftAlone ==
  ASSUME RaceIInv, UNCHANGED <<client, config, phase, work, fwd, adj, abandoned>>
  PROVE  RaceIInv'
  BY DEF RaceIInv, OwnContexts, Streams, OnlyOn, AtRest, Quiet

(* Where solvers have no streams, no work is ever submitted.               *)
LEMMA NoStreams ==
  ASSUME config.kind # "cuda"
  PROVE  \A ops : Calls(ops) = work
  BY DEF Calls

(* An evaluation without streams keeps the invariant.                      *)
LEMMA RaceOnHost ==
  ASSUME RaceIInv, config.kind # "cuda", UNCHANGED <<client, config>>,
         work' = work \/ \E ops : work' = Calls(ops)
  PROVE  RaceIInv'
  BY NoStreams DEF RaceIInv

(* A step on streams.                                                      *)
CudaInv == OwnContexts /\ (~abandoned => Streams)

(* An evaluation with streams keeps the invariant when it keeps the part   *)
(* on streams.                                                             *)
LEMMA RaceOnDevice ==
  ASSUME RaceIInv, config.kind = "cuda", UNCHANGED <<client, config>>, CudaInv'
  PROVE  RaceIInv'
  BY DEF RaceIInv, CudaInv

(* The start of an evaluation.                                             *)
LEMMA AskRaces ==
  ASSUME CudaInv, config.kind = "cuda", NEW what, NEW p, Ask(what, p)
  PROVE  CudaInv'
  <1>1. phase = "idle" /\ phase' = "solve" /\ UNCHANGED <<fwd, adj, abandoned>>
    BY DEF Ask
  <1>2. work' = After(work, <<ByHost({}, {HostBuf("prm")}), On("fwd", {HostBuf("prm")}, {FwdBuf("prm")})>>)
    BY DEF Ask, Calls
  <1>3. CASE ~abandoned
    <2>1. AtRest(work)
      BY <1>1, <1>3 DEF CudaInv, Streams
    <2>2. OnlyOn(work', "fwd")
      BY <1>2, <2>1, AskCalls
    <2>3. Streams'
      BY <1>1, <2>2 DEF Streams
    <2> QED
      BY <1>1, <2>3 DEF CudaInv, OwnContexts
  <1> QED
    BY <1>1, <1>3 DEF CudaInv, OwnContexts

(* Whoever solves with the forward system while it alone has work.         *)
LEMMA SystemContext ==
  ASSUME NEW sys, NEW c, HasContext(sys, c), NEW x, NEW p, NEW A
  PROVE  HasContext(Assembled(sys, x, p), c) /\ HasContext([sys EXCEPT !.mat = A], c)
  BY DEF Assembled, HasContext

(* The buffers that the functional's calls name.                           *)
LEMMA ForwardBuffers ==
  \A name \in Contents : FwdBuf(name) \in Buffers /\ AdjBuf(name) \in Buffers /\ HostBuf(name) \in Buffers
  BY DEF FwdBuf, AdjBuf, HostBuf, Buffers, Owners

(* The linear state solver. (LinearStateSolver::solve.)                    *)
LEMMA LinearSolveRaces ==
  ASSUME CudaInv, config.kind = "cuda", LinearSolve, UNCHANGED functionalVars
  PROVE  CudaInv' /\ UNCHANGED config
  <1> DEFINE sys == Assembled(fwd, ZeroVec, prm)
             rhs == Minus(Residual(ZeroVec, prm))
  <1>1. phase = "solve" /\ UNCHANGED <<adj, abandoned, config>>
    BY DEF LinearSolve, functionalVars
  <1>2. PICK r \in SystemSolves(config.kind, sys, "fwd", rhs, FwdBuf("minus"), FwdBuf("state")) :
          /\ fwd' = r.sys
          /\ work' = Calls(LinearAssembly \o IF r.ok THEN LinearCalls(r.ops) ELSE r.ops)
          /\ IF r.ok THEN phase' = "solved" ELSE phase' = "threw"
    BY DEF LinearSolve, Throws
  <1>3. OwnContexts
    BY DEF CudaInv
  <1>4. HasContext(sys, "fwd")
    BY <1>3, SystemContext DEF OwnContexts, HasContext
  <1>5. FwdBuf("minus") \in Buffers /\ FwdBuf("state") \in Buffers /\ Context("fwd")
    BY ForwardBuffers DEF Contents, Context
  <1> HIDE DEF sys, rhs
  <1>6. EndsInOrder(r, "fwd")
    BY <1>2, <1>4, <1>5, CudaRuns
  <1>7. OwnContexts'
    BY <1>1, <1>2, <1>3, <1>6 DEF OwnContexts, EndsInOrder, HasContext
  <1>8. ASSUME ~abandoned PROVE Streams'
    <2>1. OnlyOn(work, "fwd")
      BY <1>1, <1>8 DEF CudaInv, Streams
    <2>2. CASE r.ok
      <3>1. work' = After(work, LinearAssembly \o (r.ops \o <<Sync("fwd")>>)) /\ phase' = "solved"
        BY <1>2, <2>2 DEF Calls, LinearCalls
      <3>2. Stays(r.ops, "fwd")
        BY <1>6, <2>2, Weaker DEF EndsInOrder
      <3>3. Stays(r.ops \o <<Sync("fwd")>>, "fwd")
        BY <3>2, SyncFinishes, Weaker, StayStay
      <3>4. Stays(LinearAssembly \o (r.ops \o <<Sync("fwd")>>), "fwd")
        BY <3>3, LinearAssemblyStays, StayStay
      <3>5. OnlyOn(work', "fwd")
        BY <2>1, <3>1, <3>4 DEF Stays
      <3> QED
        BY <3>1, <3>5 DEF Streams
    <2>3. CASE ~r.ok
      <3>1. work' = After(work, LinearAssembly \o r.ops) /\ phase' = "threw"
        BY <1>2, <2>3 DEF Calls
      <3>2. Submits(LinearAssembly \o r.ops, "fwd")
        BY <1>6, <2>3, LinearAssemblyStays, StaySubmit DEF EndsInOrder
      <3>3. Quiet(work')
        BY <2>1, <3>1, <3>2 DEF Submits
      <3> QED
        BY <3>1, <3>3 DEF Streams
    <2> QED
      BY <2>2, <2>3
  <1> QED
    BY <1>1, <1>7, <1>8 DEF CudaInv

(* Either state solver; Newton's method has no streams.                    *)
LEMMA StateSolveRaces ==
  ASSUME CudaInv, config.kind = "cuda", StateSolve, UNCHANGED functionalVars
  PROVE  CudaInv' /\ UNCHANGED config
  <1>1. CASE LinearSolve
    BY <1>1, LinearSolveRaces
  <1>2. CASE NewtonStep
    <2> DEFINE sys == Assembled(fwd, state, prm)
               rhs == Minus(Residual(state, prm))
    <2>1. phase = "newton" /\ phase' \in {"newton", "threw"} /\ UNCHANGED <<adj, abandoned, config, work>>
      BY <1>2 DEF NewtonStep, functionalVars, Throws
    <2>2. PICK r \in SystemSolves(config.kind, sys, "fwd", rhs, FwdBuf("rhs"), FwdBuf("step")) : fwd' = r.sys
      BY <1>2 DEF NewtonStep
    <2>3. HasContext(sys, "fwd")
      BY SystemContext DEF CudaInv, OwnContexts, HasContext
    <2>4. FwdBuf("rhs") \in Buffers /\ FwdBuf("step") \in Buffers /\ Context("fwd")
      BY ForwardBuffers DEF Contents, Context
    <2> HIDE DEF sys, rhs
    <2>5. EndsInOrder(r, "fwd")
      BY <2>2, <2>3, <2>4, CudaRuns
    <2>6. OwnContexts'
      BY <2>1, <2>2, <2>5 DEF CudaInv, OwnContexts, EndsInOrder, HasContext
    <2>7. ~abandoned => Streams'
      BY <2>1, RestOnStream DEF CudaInv, Streams
    <2> QED
      BY <2>1, <2>6, <2>7 DEF CudaInv
  <1>3. CASE AssemblyThrows \/ NewtonStart \/ NewtonReturns \/ NewtonFails
    <2>1. /\ phase \in {"solve", "newton"} /\ phase' \in {"newton", "solved", "threw"}
          /\ UNCHANGED <<fwd, adj, abandoned, config, work>>
      BY <1>3 DEF AssemblyThrows, NewtonStart, NewtonReturns, NewtonFails, Throws, functionalVars
    <2>2. ~abandoned => Streams'
      BY <2>1, RestOnStream DEF CudaInv, Streams
    <2> QED
      BY <2>1, <2>2 DEF CudaInv, OwnContexts
  <1> QED
    BY <1>1, <1>2, <1>3 DEF StateSolve

(* The value of the objective, or its exception.                           *)
LEMMA ObjectiveRaces ==
  ASSUME CudaInv, config.kind = "cuda", ObjectiveValue \/ ObjectiveThrows
  PROVE  CudaInv' /\ UNCHANGED config
  <1>1. CASE ObjectiveValue
    <2>1. phase = "solved" /\ phase' \in {"done", "grad"} /\ UNCHANGED <<fwd, adj, abandoned, config>>
      BY <1>1 DEF ObjectiveValue
    <2>2. work' = After(work, CopyState \o <<ByHost({HostBuf("state"), HostBuf("prm")}, {})>>)
      BY <1>1 DEF ObjectiveValue, Calls
    <2>3. CASE ~abandoned
      <3>1. OnlyOn(work, "fwd")
        BY <2>1, <2>3 DEF CudaInv, Streams
      <3>2. AtRest(work')
        BY <2>2, <3>1, ValueCalls DEF Finishes
      <3> QED
        BY <2>1, <3>2 DEF CudaInv, Streams, OwnContexts
    <2> QED
      BY <2>1, <2>3 DEF CudaInv, OwnContexts
  <1>2. CASE ObjectiveThrows
    <2>1. phase' = "threw" /\ UNCHANGED <<fwd, adj, abandoned, config>>
      BY <1>2 DEF ObjectiveThrows, Throws, functionalVars
    <2>2. \/ phase = "solved" /\ work' = After(work, CopyState)
          \/ phase = "grad" /\ work' = work
      BY <1>2 DEF ObjectiveThrows, Calls
    <2>3. CASE ~abandoned
      <3>1. CASE phase = "solved" /\ work' = After(work, CopyState)
        <4>1. OnlyOn(work, "fwd")
          BY <2>3, <3>1 DEF CudaInv, Streams
        <4>2. Quiet(work')
          BY <3>1, <4>1, CopyStateFinishes, RestOnStream DEF Finishes
        <4> QED
          BY <2>1, <4>2 DEF CudaInv, Streams, OwnContexts
      <3>2. CASE phase = "grad" /\ work' = work
        <4>1. AtRest(work)
          BY <2>3, <3>2 DEF CudaInv, Streams
        <4>2. Quiet(work')
          BY <3>2, <4>1, RestOnStream
        <4> QED
          BY <2>1, <4>2 DEF CudaInv, Streams, OwnContexts
      <3> QED
        BY <2>2, <3>1, <3>2
    <2> QED
      BY <2>1, <2>3 DEF CudaInv, OwnContexts
  <1> QED
    BY <1>1, <1>2

(* The adjoint and the gradient, and what fails in them. (gradAtState.)    *)
LEMMA GradAtStateRaces ==
  ASSUME CudaInv, config.kind = "cuda", GradAtState
  PROVE  CudaInv' /\ UNCHANGED config
  <1> DEFINE sys == Assembled(adj, state, prm)
             rhs == StateGrad(obj, state)
  <1>1. phase = "grad" /\ UNCHANGED <<fwd, abandoned, config>>
    BY DEF GradAtState
  <1>2. PICK r \in SystemSolves(config.kind, sys, "trans", rhs, AdjBuf("state_grad"), AdjBuf("adj")) :
          /\ adj' = r.sys
          /\ \/ r.ok /\ phase' = "done" /\ work' = Calls(AdjointAssembly \o r.ops \o GradientCalls)
             \/ phase' = "threw" /\ work' = Calls(AdjointAssembly \o r.ops)
    BY DEF GradAtState, Throws
  <1>3. HasContext(sys, "adj")
    BY SystemContext DEF CudaInv, OwnContexts, HasContext
  <1>4. AdjBuf("state_grad") \in Buffers /\ AdjBuf("adj") \in Buffers /\ Context("adj")
    BY ForwardBuffers DEF Contents, Context
  <1> HIDE DEF sys, rhs
  <1>5. EndsInOrder(r, "adj")
    BY <1>2, <1>3, <1>4, CudaRuns
  <1>6. OwnContexts'
    BY <1>1, <1>2, <1>5 DEF CudaInv, OwnContexts, EndsInOrder, HasContext
  <1>7. ASSUME ~abandoned PROVE Streams'
    <2>1. AtRest(work)
      BY <1>1, <1>7 DEF CudaInv, Streams
    <2>2. AdjointAssembly \in Seq(AllCalls) /\ OnlyOn(After(work, AdjointAssembly), "adj")
      BY <2>1, AdjointAssemblyCalls
    <2>3. r.ops \in Seq(AllCalls)
      BY <1>5 DEF EndsInOrder, Finishes, Submits
    <2>4. AdjointAssembly \o r.ops \in Seq(AllCalls)
          /\ After(work, AdjointAssembly \o r.ops) = After(After(work, AdjointAssembly), r.ops)
      BY <2>2, <2>3, BothCalls
    <2>5. CASE r.ok /\ phase' = "done" /\ work' = Calls(AdjointAssembly \o r.ops \o GradientCalls)
      <3>1. AtRest(After(work, AdjointAssembly \o r.ops))
        BY <1>5, <2>2, <2>4, <2>5 DEF EndsInOrder, Finishes
      <3>2. work' = After(work, (AdjointAssembly \o r.ops) \o GradientCalls)
        BY <2>5 DEF Calls
      <3>3. work' = After(After(work, AdjointAssembly \o r.ops), GradientCalls)
        BY <2>4, <3>2, GradientCallsEnd, BothCalls
      <3>4. AtRest(work')
        BY <3>1, <3>3, GradientCallsEnd
      <3> QED
        BY <2>5, <3>4 DEF Streams
    <2>6. CASE phase' = "threw" /\ work' = Calls(AdjointAssembly \o r.ops)
      <3>1. work' = After(After(work, AdjointAssembly), r.ops)
        BY <2>4, <2>6 DEF Calls
      <3>2. Quiet(work')
        BY <1>5, <2>2, <3>1, RestOnStream DEF EndsInOrder, Finishes, Submits
      <3> QED
        BY <2>6, <3>2 DEF Streams
    <2> QED
      BY <1>2, <2>5, <2>6
  <1> QED
    BY <1>1, <1>6, <1>7 DEF CudaInv

(* The caller has the result or the exception: what is left on a stream is *)
(* abandoned.                                                              *)
LEMMA ReturnedRaces ==
  ASSUME CudaInv, Returned, phase \in {"done", "threw"}, UNCHANGED <<work, fwd, adj>>
  PROVE  CudaInv'
  <1>1. phase' = "idle" /\ (~abandoned' => ~abandoned /\ ~(phase = "threw" /\ work.open # {}))
    BY DEF Returned
  <1>2. CASE ~abandoned'
    <2>1. phase = "threw" => Quiet(work) /\ work.open = {}
      BY <1>1, <1>2 DEF CudaInv, Streams
    <2>2. phase = "done" => AtRest(work)
      BY <1>1, <1>2 DEF CudaInv, Streams
    <2>3. AtRest(work')
      BY <2>1, <2>2 DEF AtRest
    <2> QED
      BY <1>1, <2>3 DEF CudaInv, Streams, OwnContexts
  <1> QED
    BY <1>2 DEF CudaInv, OwnContexts

(* A solve of the same system by another client.                           *)
LEMMA OtherSolveRaces ==
  ASSUME CudaInv, config.kind = "cuda", NEW A, OtherSolve(A), UNCHANGED adj
  PROVE  CudaInv' /\ UNCHANGED config
  <1> DEFINE sys == [fwd EXCEPT !.mat = A]
             first == <<On("fwd", {}, {FwdBuf("mat")})>>
  <1>1. phase = "idle" /\ phase' = "idle" /\ UNCHANGED config
    BY DEF OtherSolve
  <1>2. PICK r \in SystemSolves(config.kind, sys, "fwd", <<1, 1>>, FwdBuf("other"), FwdBuf("otherx")) :
          /\ fwd' = r.sys
          /\ work' = Calls(first \o r.ops)
          /\ abandoned' = (abandoned \/ (~r.ok /\ work'.open # {}))
    BY DEF OtherSolve
  <1>3. HasContext(sys, "fwd")
    BY SystemContext DEF CudaInv, OwnContexts, HasContext
  <1>4. FwdBuf("other") \in Buffers /\ FwdBuf("otherx") \in Buffers /\ FwdBuf("mat") \in Buffers /\ Context("fwd")
    BY ForwardBuffers DEF Contents, Context
  <1>5. Stays(first, "fwd")
    BY <1>4, OneLaunch
  <1> HIDE DEF sys, first
  <1>6. EndsInOrder(r, "fwd")
    BY <1>2, <1>3, <1>4, CudaRuns
  <1>7. OwnContexts'
    BY <1>2, <1>6 DEF CudaInv, OwnContexts, EndsInOrder, HasContext
  <1>8. CASE ~abandoned'
    <2>1. ~abandoned /\ (~r.ok => work'.open = {})
      BY <1>2, <1>8
    <2>2. OnlyOn(work, "fwd")
      BY <1>1, <2>1, RestOnStream DEF CudaInv, Streams
    <2>3. work' = After(work, first \o r.ops)
      BY <1>2 DEF Calls
    <2>4. r.ok => AtRest(work')
      BY <1>5, <1>6, <2>2, <2>3, StayFinish DEF EndsInOrder, Finishes
    <2>5. ~r.ok => Quiet(work')
      BY <1>5, <1>6, <2>2, <2>3, StaySubmit DEF EndsInOrder, Submits
    <2>6. AtRest(work')
      BY <2>1, <2>4, <2>5 DEF AtRest
    <2> QED
      BY <1>1, <1>7, <2>6 DEF CudaInv, Streams
  <1> QED
    BY <1>1, <1>7, <1>8 DEF CudaInv

(* The functional over time is evaluated on the host.                      *)
LEMMA PyEvaluatesRaces ==
  ASSUME RaceIInv, client = "tao_solve", PyEvaluates, UNCHANGED client
  PROVE  RaceIInv'
  <1>1. config = OverTime /\ config.kind # "cuda" /\ UNCHANGED <<config, work>>
    BY DEF RaceIInv, PyEvaluates, OverTime
  <1> QED
    BY <1>1 DEF RaceIInv

(* Any step of an evaluation.                                              *)
EvaluationStep ==
  \/ \E what, p : Ask(what, p)
  \/ Evaluate
  \/ Returned /\ phase \in {"done", "threw"} /\ UNCHANGED <<config, work, fwd, adj>>
  \/ \E A : OtherSolve(A) /\ UNCHANGED functionalVars

(* A step of an evaluation submits calls, or leaves the streams as they    *)
(* are.                                                                    *)
LEMMA EvaluationCalls ==
  ASSUME EvaluationStep
  PROVE  UNCHANGED config /\ (work' = work \/ \E ops : work' = Calls(ops))
  <1>1. CASE \E what, p : Ask(what, p)
    BY <1>1 DEF Ask
  <1>2. CASE Evaluate
    <2>1. CASE LinearSolve
      BY <2>1 DEF LinearSolve
    <2>2. CASE AssemblyThrows \/ NewtonStart \/ NewtonReturns \/ NewtonStep \/ NewtonFails
      BY <2>2 DEF AssemblyThrows, NewtonStart, NewtonReturns, NewtonStep, NewtonFails
    <2>3. CASE ObjectiveThrows \/ ObjectiveValue
      BY <2>3 DEF ObjectiveThrows, ObjectiveValue
    <2>4. CASE GradAtState
      BY <2>4 DEF GradAtState
    <2> QED
      BY <1>2, <2>1, <2>2, <2>3, <2>4 DEF Evaluate, StateSolve
  <1>3. CASE Returned /\ phase \in {"done", "threw"} /\ UNCHANGED <<config, work, fwd, adj>>
    BY <1>3
  <1>4. CASE \E A : OtherSolve(A) /\ UNCHANGED functionalVars
    BY <1>4 DEF OtherSolve
  <1> QED
    BY <1>1, <1>2, <1>3, <1>4 DEF EvaluationStep

(* A step of an evaluation keeps the invariant.                            *)
LEMMA EvaluationRaces ==
  ASSUME RaceIInv, EvaluationStep, UNCHANGED client
  PROVE  RaceIInv'
  <1>1. UNCHANGED config /\ (work' = work \/ \E ops : work' = Calls(ops))
    BY EvaluationCalls
  <1>2. CASE config.kind = "cuda"
    <2>1. CudaInv
      BY <1>2 DEF RaceIInv, CudaInv
    <2>2. ASSUME \E what, p : Ask(what, p) PROVE CudaInv'
      BY <1>2, <2>1, <2>2, AskRaces
    <2>3. ASSUME Evaluate PROVE CudaInv'
      BY <1>2, <2>1, <2>3, StateSolveRaces, ObjectiveRaces, GradAtStateRaces DEF Evaluate
    <2>4. ASSUME Returned /\ phase \in {"done", "threw"} /\ UNCHANGED <<config, work, fwd, adj>> PROVE CudaInv'
      BY <2>1, <2>4, ReturnedRaces
    <2>5. ASSUME \E A : OtherSolve(A) /\ UNCHANGED functionalVars PROVE CudaInv'
      BY <1>2, <2>1, <2>5, OtherSolveRaces DEF functionalVars
    <2>6. CudaInv'
      BY <2>2, <2>3, <2>4, <2>5 DEF EvaluationStep
    <2> QED
      BY <1>1, <1>2, <2>6, RaceOnDevice
  <1>3. CASE config.kind # "cuda"
    BY <1>1, <1>3, RaceOnHost
  <1> QED
    BY <1>2, <1>3

(* The invariant of the streams holds at first.                            *)
LEMMA RaceInit == Init => RaceIInv
  <1> SUFFICES ASSUME Init PROVE RaceIInv
    OBVIOUS
  <1>1. work = NoWork /\ phase = "idle" /\ fwd = NewSystem("fwd") /\ adj = NewSystem("adj")
    BY DEF Init, FunctionalInit
  <1>2. client = "tao_solve" => config = OverTime
    BY DEF Init
  <1>3. AtRest(NoWork)
    BY DEF AtRest, Quiet, NoWork
  <1>4. Streams
    BY <1>1, <1>3 DEF Streams
  <1>5. OwnContexts
    BY <1>1 DEF OwnContexts, NewSystem
  <1> QED
    BY <1>1, <1>2, <1>4, <1>5 DEF RaceIInv

(* What the steps of the programs do to the solvers and the streams.       *)
LEMMA StepsOfEvaluation ==
  ASSUME [Next]_vars
  PROVE  \/ UNCHANGED <<config, phase, work, fwd, adj, abandoned>>
         \/ EvaluationStep
         \/ client = "tao_solve" /\ PyEvaluates
  <1>1. CASE UNCHANGED vars
    BY <1>1 DEF vars, evalVars, solverVars, functionalVars
  <1>2. CASE TaoSteps
    <2>1. CASE FormValueGrad \/ FinalEvaluation
      BY <2>1 DEF FormValueGrad, FinalEvaluation, EvaluationStep
    <2>2. CASE Answered \/ Ends
      BY <2>2 DEF Answered, Ends, EvaluationStep
    <2>3. CASE MonitorCallback \/ MonitorReturns \/ Iterates
      BY <2>3 DEF MonitorCallback, MonitorReturns, Iterates, evalVars, solverVars, functionalVars
    <2> QED
      BY <1>2, <2>1, <2>2, <2>3 DEF TaoSteps
  <1>3. CASE CppNext
    <2>1. CASE CppSetup
      <3>1. CASE \E b \in Boxes : SetBounds(b)
        BY <3>1 DEF SetBounds, evalVars, solverVars, functionalVars
      <3>2. CASE \E s \in Scales : SetVariableScale(s)
        BY <3>2 DEF SetVariableScale, evalVars, solverVars, functionalVars
      <3>3. CASE SetMonitor(~monitor)
        BY <3>3 DEF SetMonitor, evalVars, solverVars, functionalVars
      <3>4. CASE \E t \in DOMAIN obj, kind \in DOMAIN Terms : \E term \in Terms[kind] : SetTerm(t, kind, term)
        BY <3>4 DEF SetTerm, solverVars
      <3>5. CASE \E p \in Starts : SetInitialState(p) /\ UNCHANGED functionalVars
        BY <3>5 DEF SetInitialState, functionalVars
      <3>6. CASE \E A \in Others : OtherSolve(A) /\ UNCHANGED functionalVars
        BY <3>6 DEF EvaluationStep
      <3> QED
        BY <2>1, <3>1, <3>2, <3>3, <3>4, <3>5, <3>6 DEF CppSetup
    <2>2. CASE CppSolve
      BY <2>2 DEF CppSolve, Start, evalVars, solverVars, functionalVars
    <2>3. CASE CppAsks
      BY <2>3 DEF CppAsks, EvaluationStep
    <2>4. CASE CppTakes
      BY <2>4 DEF CppTakes, EvaluationStep
    <2>5. CASE MonitorThrows
      BY <2>5 DEF MonitorThrows, evalVars, solverVars, functionalVars
    <2>6. CASE Evaluate
      BY <2>6 DEF EvaluationStep
    <2> QED
      BY <1>2, <1>3, <2>1, <2>2, <2>3, <2>4, <2>5, <2>6 DEF CppNext
  <1>4. CASE PyNext
    <2>1. CASE PyStart \/ PyObserves \/ PyReturns
      BY <2>1 DEF PyStart, PyObserves, PyReturns, evalVars, solverVars, functionalVars
    <2> QED
      BY <1>2, <1>4, <2>1 DEF PyNext
  <1>5. CASE ProblemClient
    BY <1>5 DEF ProblemClient, evalVars, solverVars, functionalVars
  <1> QED
    BY <1>1, <1>3, <1>4, <1>5 DEF Next

(* A program stays the program it is.                                      *)
LEMMA ClientStays ==
  ASSUME [Next]_vars
  PROVE  UNCHANGED client
  BY DEF Next, CppNext, PyNext, ProblemClient, vars, driverVars

(* Every step keeps the invariant of the streams.                          *)
LEMMA RaceNext == RaceIInv /\ [Next]_vars => RaceIInv'
  <1> SUFFICES ASSUME RaceIInv, [Next]_vars PROVE RaceIInv'
    OBVIOUS
  <1>1. UNCHANGED client
    BY ClientStays
  <1> QED
    BY <1>1, StepsOfEvaluation, RaceLeftAlone, EvaluationRaces, PyEvaluatesRaces

(* Outside of what an exception abandoned, one stream at most has work,    *)
(* and nothing has raced: the strengthened invariant of the streams holds. *)
THEOREM RaceInvariant == Spec => []RaceIInv
  BY RaceInit, RaceNext, PTL DEF Spec

(* No call reads or writes data that work on another stream may be using,  *)
(* whatever solvers, scales and bounds a program has and whichever of its  *)
(* calls fail. (LinearStateSolver, StateReducedFunctional, the CUDA        *)
(* contexts.)                                                              *)
THEOREM RaceFreeAlways == Spec => []RaceFree
  <1>1. RaceIInv => RaceFree
    <2> SUFFICES ASSUME RaceIInv, ~abandoned PROVE ~work.race
      BY DEF RaceFree
    <2>1. CASE config.kind = "cuda"
      <3>1. Streams
        BY <2>1 DEF RaceIInv
      <3>2. Quiet(work)
        BY <3>1 DEF Streams, OnlyOn, AtRest
      <3> QED
        BY <3>2 DEF Quiet
    <2>2. CASE config.kind # "cuda"
      BY <2>2 DEF RaceIInv, NoWork
    <2> QED
      BY <2>1, <2>2
  <1> QED
    BY <1>1, RaceInvariant, PTL

-----------------------------------------------------------------------------
(* The sum over a finite set, of a function instead of an operator.        *)
AnyOf(s) == CHOOSE x \in s : TRUE
SumStep(F, h, s) == IF s = {} THEN 0 ELSE F[AnyOf(s)] + h[s \ {AnyOf(s)}]
UpTo(S, k) == {u \in SUBSET S : Cardinality(u) <= k}

(* A set without one of its elements.                                      *)
LEMMA OneLess ==
  ASSUME NEW S, IsFiniteSet(S), NEW s \in SUBSET S, s # {}
  PROVE  /\ AnyOf(s) \in s /\ s \ {AnyOf(s)} \in SUBSET S
         /\ Cardinality(s) \in Nat /\ Cardinality(s \ {AnyOf(s)}) = Cardinality(s) - 1
         /\ Cardinality(s) # 0
  <1>1. AnyOf(s) \in s
    BY DEF AnyOf
  <1>2. IsFiniteSet(s)
    BY FS_Subset
  <1>3. Cardinality(s) \in Nat /\ Cardinality(s) # 0
    BY <1>2, FS_CardinalityType, FS_EmptySet
  <1>4. Cardinality(s \ {AnyOf(s)}) = Cardinality(s) - 1
    BY <1>1, <1>2, FS_RemoveElement
  <1> QED
    BY <1>1, <1>3, <1>4

(* A set of no more than no elements.                                      *)
LEMMA NoneLeft ==
  ASSUME NEW S, IsFiniteSet(S), NEW s \in UpTo(S, 0)
  PROVE  s = {} /\ s \in SUBSET S
  <1>1. s \in SUBSET S /\ Cardinality(s) <= 0
    BY DEF UpTo
  <1>2. IsFiniteSet(s)
    BY <1>1, FS_Subset
  <1>3. Cardinality(s) = 0
    BY <1>1, <1>2, FS_CardinalityType
  <1> QED
    BY <1>1, <1>2, <1>3, FS_EmptySet

(* The function by which the sum over a finite set is defined exists.      *)
LEMMA SumExists ==
  ASSUME NEW F, NEW S, IsFiniteSet(S)
  PROVE  \E h : h = [s \in SUBSET S |-> SumStep(F, h, s)]
  <1> DEFINE T == {k \in Nat : \E h : \A s \in UpTo(S, k) : h[s] = SumStep(F, h, s)}
  <1>1. 0 \in T
    <2> DEFINE h == [s \in SUBSET S |-> 0]
    <2>1. ASSUME NEW s \in UpTo(S, 0) PROVE h[s] = SumStep(F, h, s)
      <3>1. s = {} /\ s \in SUBSET S
        BY NoneLeft
      <3> QED
        BY <3>1 DEF SumStep
    <2> QED
      BY <2>1
  <1>2. ASSUME NEW k \in Nat, k \in T PROVE k + 1 \in T
    <2>1. PICK h : \A s \in UpTo(S, k) : h[s] = SumStep(F, h, s)
      BY <1>2
    <2> DEFINE g == [s \in SUBSET S |-> IF s \in UpTo(S, k) THEN h[s] ELSE SumStep(F, h, s)]
    <2>2. \A s \in UpTo(S, k) : g[s] = h[s] /\ s \in SUBSET S
      BY DEF UpTo
    <2>3. \A s \in SUBSET S : s \notin UpTo(S, k) => g[s] = SumStep(F, h, s)
      OBVIOUS
    <2> HIDE DEF g
    <2>4. ASSUME NEW s \in UpTo(S, k + 1) PROVE g[s] = SumStep(F, g, s)
      <3>1. s \in SUBSET S /\ Cardinality(s) <= k + 1
        BY DEF UpTo
      <3>2. g[s] = SumStep(F, h, s)
        BY <2>1, <2>2, <2>3, <3>1
      <3>3. CASE s = {}
        BY <3>2, <3>3 DEF SumStep
      <3>4. CASE s # {}
        <4>1. s \ {AnyOf(s)} \in UpTo(S, k)
          BY <3>1, <3>4, OneLess DEF UpTo
        <4>2. g[s \ {AnyOf(s)}] = h[s \ {AnyOf(s)}]
          BY <2>2, <4>1
        <4> QED
          BY <3>2, <3>4, <4>2 DEF SumStep
      <3> QED
        BY <3>3, <3>4
    <2> QED
      BY <2>4
  <1> HIDE DEF T
  <1>3. Cardinality(S) \in T
    BY <1>1, <1>2, NatSetInduction, FS_CardinalityType
  <1>4. PICK h : \A s \in UpTo(S, Cardinality(S)) : h[s] = SumStep(F, h, s)
    BY <1>3 DEF T
  <1>5. \A s \in SUBSET S : s \in UpTo(S, Cardinality(S))
    BY FS_Subset DEF UpTo
  <1> DEFINE g == [s \in SUBSET S |-> h[s]]
  <1>6. ASSUME NEW s \in SUBSET S PROVE SumStep(F, g, s) = SumStep(F, h, s) /\ g[s] = h[s]
    BY OneLess DEF SumStep
  <1>7. g = [s \in SUBSET S |-> SumStep(F, g, s)]
    <2>1. \A s \in SUBSET S : h[s] = SumStep(F, g, s)
      BY <1>4, <1>5, <1>6
    <2> QED
      BY <2>1
  <1> QED
    BY <1>7

(* The sum of numbers over a finite set is a number, by induction on the   *)
(* number of elements.                                                     *)
LEMMA SumIsInt ==
  ASSUME NEW F, NEW S, IsFiniteSet(S), \A x \in S : F[x] \in Int,
         NEW h, \A s \in SUBSET S : h[s] = SumStep(F, h, s)
  PROVE  h[S] \in Int
  <1> DEFINE T == {k \in Nat : \A s \in UpTo(S, k) : h[s] \in Int}
  <1>1. 0 \in T
    <2>1. ASSUME NEW s \in UpTo(S, 0) PROVE h[s] \in Int
      <3>1. s = {} /\ s \in SUBSET S
        BY NoneLeft
      <3>2. h[s] = SumStep(F, h, s)
        BY <3>1
      <3> QED
        BY <3>1, <3>2 DEF SumStep
    <2> QED
      BY <2>1
  <1>2. ASSUME NEW k \in Nat, k \in T PROVE k + 1 \in T
    <2>1. ASSUME NEW s \in UpTo(S, k + 1) PROVE h[s] \in Int
      <3>1. s \in SUBSET S /\ Cardinality(s) <= k + 1
        BY DEF UpTo
      <3>2. CASE s = {}
        <4>1. h[s] = SumStep(F, h, s)
          BY <3>1
        <4> QED
          BY <3>2, <4>1 DEF SumStep
      <3>3. CASE s # {}
        <4>1. s \ {AnyOf(s)} \in UpTo(S, k) /\ AnyOf(s) \in S
          BY <3>1, <3>3, OneLess DEF UpTo
        <4>2. h[s \ {AnyOf(s)}] \in Int /\ F[AnyOf(s)] \in Int
          BY <1>2, <4>1
        <4>3. h[s] = SumStep(F, h, s)
          BY <3>1
        <4>4. h[s] = F[AnyOf(s)] + h[s \ {AnyOf(s)}]
          BY <3>3, <4>3 DEF SumStep
        <4> QED
          BY <4>2, <4>4
      <3> QED
        BY <3>2, <3>3
    <2> QED
      BY <2>1
  <1> HIDE DEF T
  <1>3. Cardinality(S) \in T
    BY <1>1, <1>2, NatSetInduction, FS_CardinalityType
  <1>4. S \in UpTo(S, Cardinality(S))
    BY FS_CardinalityType DEF UpTo
  <1> QED
    BY <1>3, <1>4 DEF T

(* The gradient of an objective, component by component, is a number.      *)
ProperTerm(term) == term = NotSet \/ \A i \in 1 .. 2 : term.target[i] \in Int /\ term.weights[i] \in Int

(* The gradient of one term is a number.                                   *)
LEMMA TermGradIsNumber ==
  ASSUME NEW x \in Pairs, NEW term, ProperTerm(term), NEW i \in 1 .. 2
  PROVE  TermGrad(x, term)[i] \in Int
  <1>1. DOMAIN x = 1 .. 2 /\ x[i] \in Int
    BY DEF Pairs
  <1>2. TermGrad(x, term)[i] = IF term.target = <<>> THEN 0 ELSE term.weights[i] * (x[i] - term.target[i])
    BY <1>1 DEF TermGrad
  <1>3. CASE term = NotSet
    <2>1. term.target = <<>>
      BY <1>3 DEF NotSet
    <2> QED
      BY <1>2, <2>1
  <1>4. CASE term # NotSet
    <2>1. term.target[i] \in Int /\ term.weights[i] \in Int
      BY <1>4 DEF ProperTerm
    <2>2. term.weights[i] * (x[i] - term.target[i]) \in Int
      BY <1>1, <2>1
    <2> QED
      BY <1>2, <2>2
  <1> QED
    BY <1>3, <1>4

(* The gradient with respect to the state, summed over all terms.          *)
LEMMA StateGradIsNumber ==
  ASSUME NEW o, NEW x \in Pairs, IsFiniteSet(DOMAIN o), \A t \in DOMAIN o : ProperTerm(o[t].state)
  PROVE  StateGrad(o, x) \in Pairs
  <1> DEFINE S == DOMAIN o
  <1>1. ASSUME NEW i \in 1 .. 2 PROVE SumOver(LAMBDA t : TermGrad(x, o[t].state)[i], S) \in Int
    <2> DEFINE F == [t \in S |-> TermGrad(x, o[t].state)[i]]
               Good(h) == h = [s \in SUBSET S |-> IF s = {} THEN 0 ELSE TermGrad(x, o[AnyOf(s)].state)[i] + h[s \ {AnyOf(s)}]]
    <2>1. \A t \in S : F[t] \in Int
      <3> SUFFICES ASSUME NEW t \in S PROVE TermGrad(x, o[t].state)[i] \in Int
        OBVIOUS
      <3> QED
        BY TermGradIsNumber
    <2>2. SumOver(LAMBDA t : TermGrad(x, o[t].state)[i], S) = (CHOOSE h : Good(h))[S]
      BY DEF SumOver, MapThenSumSet, MapThenFoldSet, AnyOf
    <2>3. \A h, s : s \in SUBSET S => SumStep(F, h, s) = IF s = {} THEN 0 ELSE TermGrad(x, o[AnyOf(s)].state)[i] + h[s \ {AnyOf(s)}]
      BY OneLess DEF SumStep
    <2> DEFINE h == CHOOSE f : Good(f)
    <2>4. \E f : Good(f)
      <3> HIDE DEF F
      <3>1. PICK f : f = [s \in SUBSET S |-> SumStep(F, f, s)]
        BY SumExists
      <3>2. Good(f)
        BY <2>3, <3>1
      <3> QED
        BY <3>2
    <2>5. Good(h)
      BY <2>4
    <2> HIDE DEF h
    <2>6. \A s \in SUBSET S : h[s] = SumStep(F, h, s)
      BY <2>3, <2>5
    <2> HIDE DEF F
    <2>7. h[S] \in Int
      BY <2>1, <2>6, SumIsInt
    <2> QED
      BY <2>2, <2>7 DEF h
  <1> QED
    BY <1>1 DEF StateGrad, Pairs
(* The gradient with respect to the parameters, summed over all terms.     *)
LEMMA ParamGradIsNumber ==
  ASSUME NEW o, NEW x \in Pairs, IsFiniteSet(DOMAIN o), \A t \in DOMAIN o : ProperTerm(o[t].prm)
  PROVE  ParamGrad(o, x) \in Pairs
  <1> DEFINE S == DOMAIN o
  <1>1. ASSUME NEW i \in 1 .. 2 PROVE SumOver(LAMBDA t : TermGrad(x, o[t].prm)[i], S) \in Int
    <2> DEFINE F == [t \in S |-> TermGrad(x, o[t].prm)[i]]
               Good(h) == h = [s \in SUBSET S |-> IF s = {} THEN 0 ELSE TermGrad(x, o[AnyOf(s)].prm)[i] + h[s \ {AnyOf(s)}]]
    <2>1. \A t \in S : F[t] \in Int
      <3> SUFFICES ASSUME NEW t \in S PROVE TermGrad(x, o[t].prm)[i] \in Int
        OBVIOUS
      <3> QED
        BY TermGradIsNumber
    <2>2. SumOver(LAMBDA t : TermGrad(x, o[t].prm)[i], S) = (CHOOSE h : Good(h))[S]
      BY DEF SumOver, MapThenSumSet, MapThenFoldSet, AnyOf
    <2>3. \A h, s : s \in SUBSET S => SumStep(F, h, s) = IF s = {} THEN 0 ELSE TermGrad(x, o[AnyOf(s)].prm)[i] + h[s \ {AnyOf(s)}]
      BY OneLess DEF SumStep
    <2> DEFINE h == CHOOSE f : Good(f)
    <2>4. \E f : Good(f)
      <3> HIDE DEF F
      <3>1. PICK f : f = [s \in SUBSET S |-> SumStep(F, f, s)]
        BY SumExists
      <3>2. Good(f)
        BY <2>3, <3>1
      <3> QED
        BY <3>2
    <2>5. Good(h)
      BY <2>4
    <2> HIDE DEF h
    <2>6. \A s \in SUBSET S : h[s] = SumStep(F, h, s)
      BY <2>3, <2>5
    <2> HIDE DEF F
    <2>7. h[S] \in Int
      BY <2>1, <2>6, SumIsInt
    <2> QED
      BY <2>2, <2>7 DEF h
  <1> QED
    BY <1>1 DEF ParamGrad, Pairs

-----------------------------------------------------------------------------
(* What a solver behind a system may leave of it: all its parts, and       *)
(* nothing else of it changed but the solver's own.                        *)
SolverParts(st) == DOMAIN st = DOMAIN NoSolver
Matrix(A) == A.vals[1][1] \in Int /\ A.vals[1][2] \in Int /\ A.vals[2][1] \in Int /\ A.vals[2][2] \in Int

(* Solves are exact: the solution is that of the matrix that was set now.  *)
Solves(r, A, rhs) == r.ok /\ Matrix(A) => r.x = Solution(A.vals, rhs)

(* A solver that was just made has the matrix it was made with.            *)
LEMMA MadeParts ==
  ASSUME NEW A
  PROVE  SolverParts(Made(A)) /\ Made(A).csr = A
  BY DEF SolverParts, Made, NoSolver

(* Setting a solver up leaves its matrix, and the dense one factors it.    *)
LEMMA SetUpParts ==
  ASSUME NEW kind, NEW st, SolverParts(st)
  PROVE  /\ SolverParts(SetUp(kind, st)) /\ SetUp(kind, st).csr = st.csr
         /\ kind = "direct" => SetUp(kind, st).factors = st.csr
  BY DEF SolverParts, SetUp, NoSolver

(* A solver with other values has the matrix of those values.              *)
LEMMA WithValuesParts ==
  ASSUME NEW A, NEW st, SolverParts(st)
  PROVE  SolverParts(WithValues(st, A)) /\ WithValues(st, A).csr = A
  BY DEF SolverParts, WithValues, NoSolver

(* setOperator, setTransposeOperator: what is set up is set up with the    *)
(* matrix that was given, whether the solver is new or not.                *)
LEMMA HostSetUp ==
  ASSUME NEW kind, NEW st, SolverParts(st), NEW A, NEW s \in HostSet(kind, st, A)
  PROVE  /\ SolverParts(s.st)
         /\ s.ok => s.st.csr = A /\ (kind = "direct" => s.st.factors = A)
  <1>1. CASE Reuse(kind, st, A)
    <2>1. \/ s = [st |-> st, ok |-> FALSE]
          \/ s = [st |-> WithValues(st, A), ok |-> FALSE]
          \/ s = [st |-> WithValues(st, A), ok |-> TRUE]
      BY <1>1 DEF HostSet
    <2>2. kind # "direct"
      BY <1>1 DEF Reuse
    <2> QED
      BY <2>1, <2>2, WithValuesParts
  <1>2. CASE ~Reuse(kind, st, A)
    <2> DEFINE unmade == [Made(Csr(A.shape, <<>>)) EXCEPT !.shape = st.shape]
    <2>1. \/ s = [st |-> unmade, ok |-> FALSE]
          \/ s = [st |-> Made(A), ok |-> FALSE]
          \/ s = [st |-> SetUp(kind, Made(A)), ok |-> TRUE]
      BY <1>2 DEF HostSet
    <2>2. SolverParts(unmade)
      BY DEF SolverParts, Made, NoSolver
    <2> HIDE DEF unmade
    <2>3. CASE s = [st |-> unmade, ok |-> FALSE]
      BY <2>2, <2>3
    <2>4. CASE s = [st |-> Made(A), ok |-> FALSE]
      BY <2>4, MadeParts
    <2>5. CASE s = [st |-> SetUp(kind, Made(A)), ok |-> TRUE]
      BY <2>5, MadeParts, SetUpParts
    <2> QED
      BY <2>1, <2>3, <2>4, <2>5
  <1> QED
    BY <1>1, <1>2

(* setCudaMatrix keeps the storage, whose values are the matrix's.         *)
LEMMA CudaSetUp ==
  ASSUME NEW st, SolverParts(st), NEW A, NEW s \in CudaSet(st, A)
  PROVE  SolverParts(s.st)
  <1> DEFINE without == [Made(A) EXCEPT !.csr = NoCsr]
             ready == [Made(A) EXCEPT !.ready = TRUE]
  <1>1. \/ s = [st |-> st, ok |-> TRUE]
        \/ s = [st |-> without, ok |-> FALSE]
        \/ s = [st |-> Made(A), ok |-> FALSE]
        \/ s = [st |-> ready, ok |-> TRUE]
    BY DEF CudaSet
  <1>2. SolverParts(without) /\ SolverParts(ready)
    BY DEF SolverParts, Made, NoSolver
  <1> HIDE DEF without, ready
  <1> QED
    BY <1>1, <1>2, MadeParts

-----------------------------------------------------------------------------
Fields == {"fwd", "trans"}

(* A solver in its place.                                                  *)
LEMMA PlacedSolver ==
  ASSUME NEW sys, Whole(sys), NEW field \in Fields, NEW st, SolverParts(st)
  PROVE  LET after == [sys EXCEPT ![field] = st] IN
         Whole(after) /\ after.map = sys.map /\ after.ctx = sys.ctx
  BY DEF Whole, SolverParts, Fields, NewSystem

(* The solvers of a system have all their parts.                           *)
LEMMA SystemParts ==
  ASSUME NEW sys, Whole(sys), NEW field \in Fields
  PROVE  SolverParts(sys[field])
  BY DEF Whole, SolverParts, Fields

(* With a right-hand side of zeros the solution is zero.                   *)
LEMMA ZeroSolution ==
  ASSUME NEW A, Matrix(A)
  PROVE  Solution(A.vals, ZeroVec) = ZeroVec
  <1>1. \A m, n \in Int : m * 0 - n * 0 = 0
    OBVIOUS
  <1> QED
    BY <1>1 DEF Matrix, Solution, ZeroVec

(* The result of a solve: a whole system with its map, and an exact        *)
(* solution if there is one.                                               *)
Result(r, sys, A, rhs) == Whole(r.sys) /\ r.sys.map = sys.map /\ Solves(r, A, rhs)

(* A solve that fails has no solution to be exact.                         *)
LEMMA FailedResult ==
  ASSUME NEW sys, NEW after, Whole(after), after.map = sys.map, NEW A, NEW rhs, NEW ops
  PROVE  Result(Failed(after, ops), sys, A, rhs)
  BY DEF Result, Solves, Failed, Outcome

(* A solve with a solution.                                                *)
LEMMA SolvedResult ==
  ASSUME NEW sys, NEW after, Whole(after), after.map = sys.map, NEW A, NEW rhs, NEW ops, NEW x, Matrix(A) => x = Solution(A.vals, rhs)
  PROVE  Result(Outcome(after, TRUE, x, ops), sys, A, rhs)
  BY DEF Result, Solves, Outcome

(* The dense solver solves with the matrix of the call.                    *)
LEMMA DenseExact ==
  ASSUME NEW sys, Whole(sys), NEW A, NEW rhs, NEW r \in DenseSolves(sys, A, rhs)
  PROVE  Result(r, sys, A, rhs)
  <1>1. r = Outcome(sys, TRUE, Solution(A.vals, rhs), <<>>)
    BY DEF DenseSolves
  <1> QED
    BY <1>1, SolvedResult

(* The solvers on the host solve with the matrix set last.                 *)
(* (HostLinearSolver.)                                                     *)
LEMMA HostExact ==
  ASSUME NEW kind, NEW sys, Whole(sys), NEW field \in Fields, NEW A, NEW rhs,
         NEW r \in HostSolves(kind, sys, field, A, rhs)
  PROVE  Result(r, sys, A, rhs)
  <1>1. CASE field = "trans" /\ rhs = ZeroVec
    <2>1. r = Outcome(sys, TRUE, ZeroVec, <<>>)
      BY <1>1 DEF HostSolves
    <2> QED
      BY <1>1, <2>1, ZeroSolution, SolvedResult
  <1>2. CASE ~(field = "trans" /\ rhs = ZeroVec)
    <2>1. PICK s \in HostSet(kind, sys[field], A) :
            LET after == [sys EXCEPT ![field] = s.st] IN
            r \in IF ~s.ok THEN {Failed(after, <<>>)}
                  ELSE IF rhs = ZeroVec THEN {Outcome(after, TRUE, ZeroVec, <<>>)}
                  ELSE {Outcome(after, h.ok, h.x, <<>>) : h \in HostSolve(kind, s.st, rhs)}
      BY <1>2 DEF HostSolves
    <2> DEFINE after == [sys EXCEPT ![field] = s.st]
    <2>2. SolverParts(s.st) /\ (s.ok => s.st.csr = A /\ (kind = "direct" => s.st.factors = A))
      BY SystemParts, HostSetUp
    <2>3. Whole(after) /\ after.map = sys.map
      BY <2>2, PlacedSolver
    <2> HIDE DEF after
    <2>4. CASE ~s.ok
      <3>1. r = Failed(after, <<>>)
        BY <2>1, <2>4 DEF after
      <3> QED
        BY <3>1, <2>3, FailedResult
    <2>5. CASE s.ok /\ rhs = ZeroVec
      <3>1. r = Outcome(after, TRUE, ZeroVec, <<>>)
        BY <2>1, <2>5 DEF after
      <3> QED
        BY <3>1, <2>3, <2>5, ZeroSolution, SolvedResult
    <2>6. CASE s.ok /\ rhs # ZeroVec
      <3>1. PICK h \in HostSolve(kind, s.st, rhs) : r = Outcome(after, h.ok, h.x, <<>>)
        BY <2>1, <2>6 DEF after
      <3>2. h.ok => h.x = Solution(A.vals, rhs)
        BY <2>2, <2>6 DEF HostSolve
      <3> QED
        BY <3>1, <3>2, <2>3 DEF Result, Solves, Outcome
    <2> QED
      BY <2>4, <2>5, <2>6
  <1> QED
    BY <1>1, <1>2

(* On the device, the transpose is that of a map that is complete.         *)
LEMMA DeviceSolvesWith ==
  ASSUME NEW sys, Whole(sys), NEW field \in Fields, NEW mat, NEW A, NEW rhs, NEW rhs_buf, NEW x_buf,
         NEW r \in CudaSolvesWith(sys, field, mat, A, rhs, rhs_buf, x_buf)
  PROVE  Whole(r.sys) /\ r.sys.map = sys.map /\ (~(field = "trans" /\ sys.map = "half") => Solves(r, A, rhs))
  <1>1. PICK s \in CudaSet(sys[field], A) :
          LET after == [sys EXCEPT ![field] = s.st] IN
          \/ \E ops : r = Failed(after, ops)
          \/ \E ops : r = Outcome(after, TRUE,
                                  IF field = "trans" /\ sys.map = "half" THEN Anything ELSE Solution(A.vals, rhs), ops)
    BY DEF CudaSolvesWith
  <1> DEFINE after == [sys EXCEPT ![field] = s.st]
  <1>2. Whole(after) /\ after.map = sys.map
    BY SystemParts, CudaSetUp, PlacedSolver
  <1> HIDE DEF after
  <1>3. ASSUME NEW ops, r = Failed(after, ops)
        PROVE  Result(r, sys, A, rhs)
    BY <1>2, <1>3, FailedResult
  <1>4. ASSUME NEW ops, r = Outcome(after, TRUE, IF field = "trans" /\ sys.map = "half" THEN Anything ELSE Solution(A.vals, rhs), ops)
        PROVE  Whole(r.sys) /\ r.sys.map = sys.map /\ (~(field = "trans" /\ sys.map = "half") => Solves(r, A, rhs))
    BY <1>2, <1>4 DEF Outcome, Solves
  <1> QED
    BY <1>1, <1>3, <1>4 DEF Result, after

(* transpose completes the map, or fails; solveT with a map that an        *)
(* earlier failure left incomplete is not exact.                           *)
ExactWithMap(r, field, A, rhs) == Whole(r.sys) /\ (field = "fwd" \/ r.sys.map # "half" => Solves(r, A, rhs))

(* The solver on the device solves with the values of the call, unless its *)
(* map of the transpose is incomplete. (CudaSystemMatrix,                  *)
(* ReSolveLinearSolver.)                                                   *)
LEMMA DeviceExact ==
  ASSUME NEW sys, Whole(sys), NEW field \in Fields, NEW A, NEW rhs, NEW rhs_buf, NEW x_buf,
         NEW r \in DeviceSolves(sys, field, A, rhs, rhs_buf, x_buf)
  PROVE  ExactWithMap(r, field, A, rhs)
  <1>1. CASE field = "fwd"
    <2>1. r \in CudaSolvesWith(sys, field, Buf(sys, "mat"), A, rhs, rhs_buf, x_buf)
      BY <1>1 DEF DeviceSolves
    <2> QED
      BY <1>1, <2>1, DeviceSolvesWith DEF ExactWithMap
  <1>2. CASE field # "fwd"
    <2>1. PICK m \in Maps(sys.map) :
            LET s == [sys EXCEPT !.map = m] IN
            r \in IF sys.map = "none" /\ s.map = "half"
                  THEN {Failed(s, <<On(sys.ctx, {rhs_buf}, {Buf(sys, "rhs")})>>)}
                  ELSE CudaSolvesWith(s, field, Buf(sys, "trans"), A, rhs, rhs_buf, x_buf)
      BY <1>2 DEF DeviceSolves, CudaTransposes
    <2> DEFINE s == [sys EXCEPT !.map = m]
    <2>2. Whole(s)
      BY DEF Whole, NewSystem
    <2> HIDE DEF s
    <2>3. CASE sys.map = "none" /\ s.map = "half"
      <3>1. r = Failed(s, <<On(sys.ctx, {rhs_buf}, {Buf(sys, "rhs")})>>)
        BY <2>1, <2>3 DEF s
      <3> QED
        BY <2>2, <3>1, FailedResult DEF Result, ExactWithMap
    <2>4. CASE ~(sys.map = "none" /\ s.map = "half")
      <3>1. r \in CudaSolvesWith(s, field, Buf(sys, "trans"), A, rhs, rhs_buf, x_buf)
        BY <2>1, <2>4 DEF s
      <3>2. Whole(r.sys) /\ r.sys.map = s.map /\ (~(field = "trans" /\ s.map = "half") => Solves(r, A, rhs))
        BY <2>2, <3>1, DeviceSolvesWith
      <3> QED
        BY <1>2, <3>2 DEF ExactWithMap
    <2> QED
      BY <2>3, <2>4
  <1> QED
    BY <1>1, <1>2

(* Every solve, by whichever solver and after whatever calls before.       *)
LEMMA SystemExact ==
  ASSUME NEW kind, NEW sys, Whole(sys), NEW field \in Fields, NEW rhs, NEW rhs_buf, NEW x_buf,
         NEW r \in SystemSolves(kind, sys, field, rhs, rhs_buf, x_buf)
  PROVE  ExactWithMap(r, field, IF field = "trans" THEN TransposedOf(sys) ELSE sys.mat, rhs)
  <1> DEFINE A == IF field = "trans" THEN TransposedOf(sys) ELSE sys.mat
  <1>1. r \in CASE kind = "dense" -> DenseSolves(sys, A, rhs)
                [] kind = "cuda" -> DeviceSolves(sys, field, A, rhs, rhs_buf, x_buf)
                [] OTHER -> HostSolves(kind, sys, field, A, rhs)
    BY DEF SystemSolves
  <1> HIDE DEF A
  <1>2. CASE kind = "dense"
    <2>1. r \in DenseSolves(sys, A, rhs)
      BY <1>1, <1>2
    <2> QED
      BY <2>1, DenseExact DEF Result, ExactWithMap, A
  <1>3. CASE kind = "cuda"
    <2>1. r \in DeviceSolves(sys, field, A, rhs, rhs_buf, x_buf)
      BY <1>1, <1>3
    <2> QED
      BY <2>1, DeviceExact DEF A
  <1>4. CASE kind # "dense" /\ kind # "cuda"
    <2>1. r \in HostSolves(kind, sys, field, A, rhs)
      BY <1>1, <1>4
    <2> QED
      BY <2>1, HostExact DEF Result, ExactWithMap, A
  <1> QED
    BY <1>2, <1>3, <1>4

-----------------------------------------------------------------------------
(* The numbers of the residual's system.                                   *)
LEMMA TwoParts ==
  ASSUME NEW x \in Pairs
  PROVE  x[1] \in Int /\ x[2] \in Int /\ DOMAIN x = 1 .. 2 /\ 1 \in 1 .. 2 /\ 2 \in 1 .. 2
  BY DEF Pairs

(* Two numbers are a pair.                                                 *)
LEMMA PairOf ==
  ASSUME NEW a \in Int, NEW b \in Int
  PROVE  <<a, b>> \in Pairs /\ <<a, b>>[1] = a /\ <<a, b>>[2] = b
  BY DEF Pairs

(* Pairs with the same parts are the same.                                 *)
LEMMA SamePair ==
  ASSUME NEW x \in Pairs, NEW y \in Pairs, x[1] = y[1], x[2] = y[2]
  PROVE  x = y
  BY DEF Pairs

(* The zero vector.                                                        *)
LEMMA ZeroPair == ZeroVec \in Pairs /\ ZeroVec[1] = 0 /\ ZeroVec[2] = 0
  BY DEF ZeroVec, Pairs

(* The negative of a pair, by parts.                                       *)
LEMMA MinusPair ==
  ASSUME NEW x \in Pairs
  PROVE  Minus(x) \in Pairs /\ Minus(x)[1] = -x[1] /\ Minus(x)[2] = -x[2]
  BY TwoParts DEF Minus, Pairs

(* The sum of two pairs, by parts.                                         *)
LEMMA PlusPair ==
  ASSUME NEW x \in Pairs, NEW y \in Pairs
  PROVE  Plus(x, y) \in Pairs /\ Plus(x, y)[1] = x[1] + y[1] /\ Plus(x, y)[2] = x[2] + y[2]
  BY TwoParts DEF Plus, Pairs

(* The residual, by parts.                                                 *)
LEMMA ResidualPair ==
  ASSUME NEW x \in Pairs, NEW p \in Pairs, config.curv \in Int
  PROVE  /\ Residual(x, p) \in Pairs
         /\ Residual(x, p)[1] = x[1] + p[1] * x[2] + config.curv * x[2] * x[2] - p[2]
         /\ Residual(x, p)[2] = x[2] - p[1]
  <1>1. x[1] + p[1] * x[2] + config.curv * x[2] * x[2] - p[2] \in Int /\ x[2] - p[1] \in Int
    BY TwoParts
  <1> QED
    BY <1>1, PairOf DEF Residual

(* The state that has no residual, by parts.                               *)
LEMMA StateAtPair ==
  ASSUME NEW p \in Pairs, config.curv \in Int
  PROVE  /\ StateAt(p) \in Pairs
         /\ StateAt(p)[1] = p[2] - p[1] * p[1] - config.curv * p[1] * p[1] /\ StateAt(p)[2] = p[1]
  <1>1. p[2] - p[1] * p[1] - config.curv * p[1] * p[1] \in Int /\ p[1] \in Int
    BY TwoParts
  <1> QED
    BY <1>1, PairOf DEF StateAt

(* The assembled matrix, by rows, and what solves with it and with its     *)
(* transpose return.                                                       *)
Slope(x, p) == p[1] + 2 * config.curv * x[2]

(* The matrix of an assembled system and its transpose.                    *)
LEMMA AssembledMatrix ==
  ASSUME NEW sys, Whole(sys), NEW x \in Pairs, NEW p \in Pairs, config.curv \in Int
  PROVE  /\ Whole(Assembled(sys, x, p)) /\ Slope(x, p) \in Int
         /\ Assembled(sys, x, p).mat.vals = <<<<1, Slope(x, p)>>, <<0, 1>>>>
         /\ TransposedOf(Assembled(sys, x, p)).vals = <<<<1, 0>>, <<Slope(x, p), 1>>>>
  <1>1. Slope(x, p) \in Int
    BY TwoParts DEF Slope
  <1>2. Whole(Assembled(sys, x, p)) /\ Assembled(sys, x, p).mat = Csr("square", StateJac(x, p))
    BY DEF Assembled, Whole, NewSystem
  <1>3. StateJac(x, p) = <<<<1, Slope(x, p)>>, <<0, 1>>>>
    BY DEF StateJac, Slope
  <1>4. Assembled(sys, x, p).mat.vals = <<<<1, Slope(x, p)>>, <<0, 1>>>>
    BY <1>2, <1>3 DEF Csr
  <1> QED
    BY <1>1, <1>2, <1>4 DEF TransposedOf, Transposed, Csr

(* The solutions with a matrix of that form and with its transpose.        *)
LEMMA SolvedWithMatrix ==
  ASSUME NEW k \in Int, NEW b \in Pairs
  PROVE  /\ Solution(<<<<1, k>>, <<0, 1>>>>, b) \in Pairs
         /\ Solution(<<<<1, k>>, <<0, 1>>>>, b)[1] = b[1] - k * b[2]
         /\ Solution(<<<<1, k>>, <<0, 1>>>>, b)[2] = b[2]
         /\ Solution(<<<<1, 0>>, <<k, 1>>>>, b) \in Pairs
         /\ Solution(<<<<1, 0>>, <<k, 1>>>>, b)[1] = b[1]
         /\ Solution(<<<<1, 0>>, <<k, 1>>>>, b)[2] = b[2] - k * b[1]
  <1>1. b[1] \in Int /\ b[2] \in Int
    BY TwoParts
  <1>2. 1 * b[1] - k * b[2] = b[1] - k * b[2] /\ 1 * b[2] - 0 * b[1] = b[2]
    BY <1>1
  <1>3. 1 * b[1] - 0 * b[2] = b[1] /\ 1 * b[2] - k * b[1] = b[2] - k * b[1]
    BY <1>1
  <1>4. b[1] - k * b[2] \in Int /\ b[2] - k * b[1] \in Int
    BY <1>1
  <1>5. Solution(<<<<1, k>>, <<0, 1>>>>, b) = <<b[1] - k * b[2], b[2]>>
    BY <1>2 DEF Solution
  <1>6. Solution(<<<<1, 0>>, <<k, 1>>>>, b) = <<b[1], b[2] - k * b[1]>>
    BY <1>3 DEF Solution
  <1> QED
    BY <1>1, <1>4, <1>5, <1>6, PairOf

(* What solve and solveT return with an assembled matrix.                  *)
LEMMA SolveOfAssembled ==
  ASSUME NEW kind, NEW sys, Whole(sys), NEW x \in Pairs, NEW p \in Pairs, config.curv \in Int,
         NEW b \in Pairs, NEW rhs_buf, NEW x_buf,
         NEW r \in SystemSolves(kind, Assembled(sys, x, p), "fwd", b, rhs_buf, x_buf)
  PROVE  Whole(r.sys) /\ (r.ok => /\ r.x \in Pairs
                                  /\ r.x[1] = b[1] - Slope(x, p) * b[2] /\ r.x[2] = b[2])
  <1> DEFINE M == Assembled(sys, x, p)
  <1>1. Whole(M) /\ Slope(x, p) \in Int /\ M.mat.vals = <<<<1, Slope(x, p)>>, <<0, 1>>>>
    BY AssembledMatrix
  <1> HIDE DEF M
  <1>2. ExactWithMap(r, "fwd", M.mat, b)
    BY <1>1, SystemExact DEF Fields, M
  <1>3. Matrix(M.mat)
    BY <1>1 DEF Matrix
  <1>4. Whole(r.sys) /\ (r.ok => r.x = Solution(M.mat.vals, b))
    BY <1>2, <1>3 DEF ExactWithMap, Solves
  <1> DEFINE k == Slope(x, p)
             y == Solution(<<<<1, k>>, <<0, 1>>>>, b)
  <1>5. y \in Pairs /\ y[1] = b[1] - k * b[2] /\ y[2] = b[2]
    BY <1>1, SolvedWithMatrix
  <1>6. Solution(M.mat.vals, b) = y
    BY <1>1
  <1> HIDE DEF y
  <1> QED
    BY <1>4, <1>5, <1>6

(* What solveT returns with an assembled matrix.                           *)
LEMMA TransposedSolveOfAssembled ==
  ASSUME NEW kind, NEW sys, Whole(sys), NEW x \in Pairs, NEW p \in Pairs, config.curv \in Int,
         NEW b \in Pairs, NEW rhs_buf, NEW x_buf,
         NEW r \in SystemSolves(kind, Assembled(sys, x, p), "trans", b, rhs_buf, x_buf)
  PROVE  Whole(r.sys) /\ (r.ok /\ r.sys.map # "half" => /\ r.x \in Pairs
                                  /\ r.x[1] = b[1] /\ r.x[2] = b[2] - Slope(x, p) * b[1])
  <1> DEFINE M == Assembled(sys, x, p)
  <1>1. Whole(M) /\ Slope(x, p) \in Int /\ TransposedOf(M).vals = <<<<1, 0>>, <<Slope(x, p), 1>>>>
    BY AssembledMatrix
  <1> HIDE DEF M
  <1>2. ExactWithMap(r, "trans", TransposedOf(M), b)
    BY <1>1, SystemExact DEF Fields, M
  <1>3. Matrix(TransposedOf(M))
    BY <1>1 DEF Matrix
  <1>4. Whole(r.sys) /\ (r.ok /\ r.sys.map # "half" => r.x = Solution(TransposedOf(M).vals, b))
    BY <1>2, <1>3 DEF ExactWithMap, Solves
  <1> DEFINE k == Slope(x, p)
             y == Solution(<<<<1, 0>>, <<k, 1>>>>, b)
  <1>5. y \in Pairs /\ y[1] = b[1] /\ y[2] = b[2] - k * b[1]
    BY <1>1, SolvedWithMatrix
  <1>6. Solution(TransposedOf(M).vals, b) = y
    BY <1>1
  <1> HIDE DEF y
  <1> QED
    BY <1>4, <1>5, <1>6

-----------------------------------------------------------------------------
(* The state of LinearStateSolver: one solve from zero.                    *)
LEMMA LinearState ==
  ASSUME NEW p \in Pairs, config.curv = 0, NEW x \in Pairs,
         x[1] = Minus(Residual(ZeroVec, p))[1] - Slope(ZeroVec, p) * Minus(Residual(ZeroVec, p))[2],
         x[2] = Minus(Residual(ZeroVec, p))[2]
  PROVE  x = StateAt(p)
  <1>1. p[1] \in Int /\ p[2] \in Int /\ 0 \in Int
    BY TwoParts
  <1>2. Residual(ZeroVec, p) \in Pairs /\ Residual(ZeroVec, p)[1] = -p[2] /\ Residual(ZeroVec, p)[2] = -p[1]
    BY <1>1, ZeroPair, ResidualPair
  <1>3. Minus(Residual(ZeroVec, p))[1] = p[2] /\ Minus(Residual(ZeroVec, p))[2] = p[1]
    BY <1>1, <1>2, MinusPair
  <1>4. Slope(ZeroVec, p) = p[1]
    BY <1>1, ZeroPair DEF Slope
  <1>5. StateAt(p) \in Pairs /\ StateAt(p)[1] = p[2] - p[1] * p[1] /\ StateAt(p)[2] = p[1]
    <2>1. StateAt(p) \in Pairs /\ StateAt(p)[1] = p[2] - p[1] * p[1] - 0 * p[1] * p[1] /\ StateAt(p)[2] = p[1]
      BY StateAtPair
    <2>2. p[2] - p[1] * p[1] - 0 * p[1] * p[1] = p[2] - p[1] * p[1]
      BY <1>1
    <2> QED
      BY <2>1, <2>2
  <1> QED
    BY <1>3, <1>4, <1>5, SamePair

(* A state that Newton's method returns has no residual.                   *)
LEMMA ConvergedState ==
  ASSUME NEW p \in Pairs, config.curv \in Int, NEW x \in Pairs, Residual(x, p) = ZeroVec
  PROVE  x = StateAt(p)
  <1>1. p[1] \in Int /\ p[2] \in Int /\ x[1] \in Int /\ x[2] \in Int
    BY TwoParts
  <1>2. x[1] + p[1] * x[2] + config.curv * x[2] * x[2] - p[2] = 0 /\ x[2] - p[1] = 0
    <2>1. /\ Residual(x, p)[1] = x[1] + p[1] * x[2] + config.curv * x[2] * x[2] - p[2]
          /\ Residual(x, p)[2] = x[2] - p[1]
      BY ResidualPair
    <2>2. Residual(x, p)[1] = 0 /\ Residual(x, p)[2] = 0
      BY ZeroPair
    <2> QED
      BY <2>1, <2>2
  <1>3. x[2] = p[1]
    <2>1. x[2] - p[1] = 0
      BY <1>2
    <2> QED
      BY <1>1, <2>1
  <1>4. x[1] + p[1] * p[1] + config.curv * p[1] * p[1] - p[2] = 0
    BY <1>2, <1>3
  <1>5. \A m, n \in Int : x[1] + m + n - p[2] = 0 => x[1] = p[2] - m - n
    BY <1>1
  <1>6. p[1] * p[1] \in Int /\ config.curv * p[1] * p[1] \in Int
    BY <1>1
  <1>7. x[1] = p[2] - p[1] * p[1] - config.curv * p[1] * p[1]
    BY <1>4, <1>5, <1>6
  <1> QED
    BY <1>3, <1>7, StateAtPair, SamePair

(* The gradient that the adjoint gives is that of the state's              *)
(* sensitivities.  (gradAtState.)                                          *)
LEMMA AdjointAlgebra ==
  ASSUME NEW h \in Int, NEW g1 \in Int, NEW g2 \in Int, NEW q \in Int, NEW c \in Int,
         NEW k \in Int, k = q + 2 * c * q
  PROVE  h + -(q * g1 - (g2 - k * g1)) = h + g1 * ((-2) * q - 2 * c * q) + g2 * 1
  <1> DEFINE m == q * g1
             n == c * q * g1
  <1>1. m \in Int /\ n \in Int
    OBVIOUS
  <1>2. k * g1 = m + 2 * n
    OBVIOUS
  <1>3. g1 * ((-2) * q - 2 * c * q) = -2 * m - 2 * n
    OBVIOUS
  <1>4. -2 * m \in Int /\ 2 * n \in Int
    BY <1>1
  <1> HIDE DEF m, n
  <1>5. h + -(m - (g2 - (m + 2 * n))) = h + (-2 * m - 2 * n) + g2 * 1
    BY <1>1
  <1> QED
    BY <1>2, <1>3, <1>5 DEF m

(* The gradient of an exact adjoint at an exact state is that of the       *)
(* reduced functional. (gradAtState.)                                      *)
LEMMA AdjointGradient ==
  ASSUME NEW p \in Pairs, config.curv \in Int, NEW x \in Pairs, x = StateAt(p), NEW a \in Pairs,
         StateGrad(obj, x) \in Pairs, ParamGrad(obj, p) \in Pairs, prm = p, state = x,
         a[1] = StateGrad(obj, x)[1], a[2] = StateGrad(obj, x)[2] - Slope(x, p) * StateGrad(obj, x)[1]
  PROVE  GradientOf(a) = ReducedGrad(p)
  <1> DEFINE g == StateGrad(obj, x)
             h == ParamGrad(obj, p)
             q == p[1]
             c == config.curv
             k == Slope(x, p)
  <1>1. q \in Int /\ c \in Int /\ g[1] \in Int /\ g[2] \in Int /\ h[1] \in Int /\ h[2] \in Int
    BY TwoParts
  <1>2. x[2] = q
    BY StateAtPair
  <1>3. k = q + 2 * c * q /\ k \in Int
    BY <1>1, <1>2 DEF Slope
  <1>4. ParamJacT(x, p, a) \in Pairs /\ ParamJacT(x, p, a)[1] = q * g[1] - (g[2] - k * g[1]) /\ ParamJacT(x, p, a)[2] = -g[1]
    <2>1. q * g[1] - (g[2] - k * g[1]) \in Int /\ -g[1] \in Int
      BY <1>1, <1>3
    <2>2. ParamJacT(x, p, a) = <<q * g[1] - (g[2] - k * g[1]), -g[1]>>
      BY <1>2 DEF ParamJacT
    <2> QED
      BY <2>1, <2>2, PairOf
  <1>5. /\ GradientOf(a) \in Pairs
        /\ GradientOf(a)[1] = h[1] + -(q * g[1] - (g[2] - k * g[1])) /\ GradientOf(a)[2] = h[2] + -(-g[1])
    <2>1. GradientOf(a) = Plus(h, Minus(ParamJacT(x, p, a)))
      BY DEF GradientOf
    <2> HIDE DEF h, g, q, k
    <2>2. h \in Pairs
      BY DEF h
    <2> QED
      BY <1>4, <2>1, <2>2, PlusPair, MinusPair
  <1>6. ReducedGrad(p)
          = [i \in 1 .. 2 |-> h[i] + g[1] * Sensitivity(p, i)[1] + g[2] * Sensitivity(p, i)[2]]
    BY DEF ReducedGrad
  <1>7. /\ Sensitivity(p, 1)[1] = (-2) * q - 2 * c * q /\ Sensitivity(p, 1)[2] = 1
        /\ Sensitivity(p, 2)[1] = 1 /\ Sensitivity(p, 2)[2] = 0
    BY DEF Sensitivity
  <1> HIDE DEF h, g, q, c, k
  <1>8. /\ ReducedGrad(p)[1] = h[1] + g[1] * ((-2) * q - 2 * c * q) + g[2] * 1
        /\ ReducedGrad(p)[2] = h[2] + g[1] * 1 + g[2] * 0
    BY <1>6, <1>7
  <1>9. h[1] + -(q * g[1] - (g[2] - k * g[1])) = h[1] + g[1] * ((-2) * q - 2 * c * q) + g[2] * 1
    BY <1>1, <1>3, AdjointAlgebra
  <1>10. h[2] + -(-g[1]) = h[2] + g[1] * 1 + g[2] * 0
    BY <1>1
  <1>11. ReducedGrad(p) \in Pairs
    <2>1. ReducedGrad(p)[1] \in Int /\ ReducedGrad(p)[2] \in Int
      BY <1>1, <1>3, <1>5, <1>8, <1>9, <1>10, TwoParts
    <2> QED
      BY <1>6, <2>1 DEF Pairs
  <1> QED
    BY <1>5, <1>8, <1>9, <1>10, <1>11, SamePair

-----------------------------------------------------------------------------
(* The part of the invariant that evaluations change.                      *)
Evaluated == Numbers /\ Configured /\ SolvedAt

(* The residual's curvature is a number, which is zero for the linear      *)
(* solver.                                                                 *)
LEMMA CurvIsInt ==
  ASSUME Configured
  PROVE  config.curv \in Int /\ (config.solver = "linear" => config.curv = 0)
  BY SolversAssumption DEF Configured, OverTime

(* The functional is the same when the residual and the objective are.     *)
LEMMA SameFunctional ==
  ASSUME UNCHANGED <<config, obj>>, NEW p
  PROVE  UNCHANGED <<StateAt(p), ReducedValue(p), ReducedGrad(p)>>
  BY DEF StateAt, ReducedValue, ReducedGrad, Sensitivity

(* The two gradients of an objective are pairs of numbers.                 *)
LEMMA ProperTerms ==
  ASSUME NEW term, Proper(term)
  PROVE  ProperTerm(term)
  <1>1. CASE term = NotSet
    BY <1>1 DEF ProperTerm
  <1>2. CASE Valid(term, 2) /\ term \in TermValues
    <2>1. term.target \in Seq(Int) /\ term.weights \in Seq(Int) /\ Len(term.target) = 2 /\ Len(term.weights) = 2
      BY <1>2 DEF Valid, TermValues
    <2> QED
      BY <2>1 DEF ProperTerm
  <1> QED
    BY <1>1, <1>2 DEF Proper

(* The two gradients of the objective that is set.                         *)
LEMMA GradientsAreNumbers ==
  ASSUME Numbers, NEW x \in Pairs, NEW p \in Pairs
  PROVE  StateGrad(obj, x) \in Pairs /\ ParamGrad(obj, p) \in Pairs
  <1>1. obj \in Seq([state : TermValues, prm : TermValues])
    BY DEF Numbers
  <1>2. DOMAIN obj = 1 .. Len(obj) /\ Len(obj) \in Nat
    BY <1>1
  <1>3. IsFiniteSet(DOMAIN obj)
    BY <1>2, FS_Interval
  <1>4. \A t \in DOMAIN obj : Proper(obj[t].state) /\ Proper(obj[t].prm)
    BY DEF Numbers
  <1>5. \A t \in DOMAIN obj : ProperTerm(obj[t].state)
    BY <1>4, ProperTerms
  <1>6. \A t \in DOMAIN obj : ProperTerm(obj[t].prm)
    BY <1>4, ProperTerms
  <1> QED
    BY <1>3, <1>5, <1>6, StateGradIsNumber, ParamGradIsNumber

-----------------------------------------------------------------------------
SameEvaluation == UNCHANGED <<client, config, phase, fwd, init, prm, state, adj, obj, ask, out>>

(* Steps that leave an evaluation as it is.                                *)
LEMMA EvaluationLeftAlone ==
  ASSUME Evaluated, SameEvaluation
  PROVE  Evaluated'
  <1>1. Numbers'
    BY DEF Evaluated, Numbers, SameEvaluation, Whole, NewSystem
  <1>2. Configured'
    BY DEF Evaluated, Configured, SameEvaluation
  <1>3. UNCHANGED <<StateAt(prm), ReducedValue(prm), ReducedGrad(prm)>>
    BY SameFunctional DEF SameEvaluation
  <1>4. SolvedAt'
    BY <1>3 DEF Evaluated, SolvedAt, SameEvaluation
  <1> QED
    BY <1>1, <1>2, <1>4 DEF Evaluated

(* A step after which the evaluation has nothing to show yet.              *)
LEMMA NothingToShow ==
  ASSUME Evaluated, UNCHANGED <<client, config>>, Numbers', prm' = ask'.prm, phase' \notin {"solved", "grad", "done"}
  PROVE  Evaluated'
  BY DEF Evaluated, Configured, SolvedAt

(* The start of an evaluation.                                             *)
LEMMA AskEvaluates ==
  ASSUME Evaluated, UNCHANGED client, NEW what, NEW p \in Pairs, Ask(what, p)
  PROVE  Evaluated'
  <1>1. /\ ask' = [what |-> what, prm |-> p] /\ prm' = p /\ phase' = "solve"
        /\ UNCHANGED <<config, fwd, init, state, it, adj, obj, out>>
    BY DEF Ask
  <1>2. Numbers'
    BY <1>1 DEF Evaluated, Numbers, Whole, NewSystem
  <1> QED
    BY <1>1, <1>2, NothingToShow

(* The caller has the result.                                              *)
LEMMA ReturnedEvaluates ==
  ASSUME Evaluated, Returned, UNCHANGED <<client, config, fwd, init, prm, state, adj, obj, ask, out>>
  PROVE  Evaluated'
  <1>1. phase' = "idle"
    BY DEF Returned
  <1>2. Numbers'
    BY DEF Evaluated, Numbers, Whole, NewSystem
  <1>3. prm' = ask'.prm
    BY DEF Evaluated, SolvedAt
  <1> QED
    BY <1>1, <1>2, <1>3, NothingToShow

(* Exceptions.                                                             *)
LEMMA ThrowsEvaluates ==
  ASSUME Evaluated, phase' = "threw", Whole(fwd'), Whole(adj'), UNCHANGED <<client, config, init, prm, state, obj, ask, out>>
  PROVE  Evaluated'
  <1>1. Numbers'
    BY DEF Evaluated, Numbers, Whole, NewSystem
  <1>2. prm' = ask'.prm
    BY DEF Evaluated, SolvedAt
  <1> QED
    BY <1>1, <1>2, NothingToShow

(* The linear solver's state has no residual. (LinearStateSolver::solve.)  *)
LEMMA LinearSolveEvaluates ==
  ASSUME Evaluated, LinearSolve, UNCHANGED client, UNCHANGED functionalVars
  PROVE  Evaluated'
  <1> DEFINE b == Minus(Residual(ZeroVec, prm))
  <1>1. PICK r \in SystemSolves(config.kind, Assembled(fwd, ZeroVec, prm), "fwd", b, FwdBuf("minus"), FwdBuf("state")) :
          /\ fwd' = r.sys
          /\ IF r.ok THEN phase' = "solved" /\ state' = r.x ELSE Throws /\ UNCHANGED state
    BY DEF LinearSolve
  <1>2. config.solver = "linear" /\ UNCHANGED <<config, init, prm, obj, adj, ask, out>>
    BY DEF LinearSolve, functionalVars
  <1>3. config.curv = 0 /\ config.curv \in Int /\ prm \in Pairs /\ Whole(fwd) /\ Whole(adj)
    BY <1>2, CurvIsInt DEF Evaluated, Numbers
  <1>4. b \in Pairs
    BY <1>3, ZeroPair, ResidualPair, MinusPair
  <1> HIDE DEF b
  <1>5. Whole(r.sys) /\ (r.ok => r.x \in Pairs /\ r.x[1] = b[1] - Slope(ZeroVec, prm) * b[2] /\ r.x[2] = b[2])
    BY <1>3, <1>4, ZeroPair, SolveOfAssembled
  <1>6. CASE r.ok
    <2>1. r.x = StateAt(prm) /\ r.x \in Pairs
      BY <1>3, <1>5, <1>6, LinearState DEF b
    <2>2. UNCHANGED <<StateAt(prm)>>
      BY <1>2, SameFunctional
    <2>3. Numbers'
      BY <1>1, <1>2, <1>5, <1>6, <2>1 DEF Evaluated, Numbers, Whole, NewSystem
    <2>4. SolvedAt'
      BY <1>1, <1>2, <1>6, <2>1, <2>2 DEF Evaluated, SolvedAt
    <2> QED
      BY <1>2, <2>3, <2>4 DEF Evaluated, Configured
  <1>7. CASE ~r.ok
    <2>1. phase' = "threw" /\ UNCHANGED state /\ Whole(fwd') /\ Whole(adj')
      BY <1>1, <1>2, <1>3, <1>5, <1>7 DEF Throws, Whole, NewSystem
    <2> QED
      BY <1>2, <2>1, ThrowsEvaluates
  <1> QED
    BY <1>6, <1>7

(* A step of Newton's method keeps the parameters and the numbers.         *)
(* (NewtonStateSolver::solve.)                                             *)
LEMMA NewtonStepEvaluates ==
  ASSUME Evaluated, NewtonStep, UNCHANGED client, UNCHANGED functionalVars
  PROVE  Evaluated'
  <1> DEFINE b == Minus(Residual(state, prm))
  <1>1. PICK r \in SystemSolves(config.kind, Assembled(fwd, state, prm), "fwd", b, FwdBuf("rhs"), FwdBuf("step")) :
          /\ fwd' = r.sys
          /\ IF r.ok THEN state' = Plus(state, r.x) /\ UNCHANGED phase ELSE Throws /\ UNCHANGED state
    BY DEF NewtonStep
  <1>2. phase = "newton" /\ UNCHANGED <<config, init, prm, obj, adj, ask, out>>
    BY DEF NewtonStep, functionalVars
  <1>3. config.curv \in Int /\ prm \in Pairs /\ state \in Pairs /\ Whole(fwd) /\ Whole(adj)
    BY CurvIsInt DEF Evaluated, Numbers
  <1>4. b \in Pairs
    BY <1>3, ResidualPair, MinusPair
  <1> HIDE DEF b
  <1>5. Whole(r.sys) /\ (r.ok => r.x \in Pairs)
    BY <1>3, <1>4, SolveOfAssembled
  <1>6. CASE r.ok
    <2>1. state' \in Pairs
      BY <1>1, <1>3, <1>5, <1>6, PlusPair
    <2>2. Numbers'
      BY <1>1, <1>2, <1>5, <2>1 DEF Evaluated, Numbers, Whole, NewSystem
    <2>3. prm' = ask'.prm
      BY <1>2 DEF Evaluated, SolvedAt
    <2> QED
      BY <1>1, <1>2, <1>6, <2>2, <2>3, NothingToShow
  <1>7. CASE ~r.ok
    <2>1. phase' = "threw" /\ UNCHANGED state /\ Whole(fwd') /\ Whole(adj')
      BY <1>1, <1>2, <1>3, <1>5, <1>7 DEF Throws, Whole, NewSystem
    <2> QED
      BY <1>2, <2>1, ThrowsEvaluates
  <1> QED
    BY <1>6, <1>7

(* Newton's method: where it starts, and what it returns.                  *)
LEMMA NewtonEvaluates ==
  ASSUME Evaluated, NewtonStart \/ NewtonReturns, UNCHANGED client, UNCHANGED functionalVars
  PROVE  Evaluated'
  <1>1. UNCHANGED <<config, fwd, init, prm, obj, adj, ask, out>>
    BY DEF NewtonStart, NewtonReturns, functionalVars
  <1>2. CASE NewtonStart
    <2>1. state' \in Pairs
      BY <1>2, ZeroPair DEF NewtonStart, NewtonFrom, Evaluated, Numbers
    <2>2. Numbers'
      BY <1>1, <2>1 DEF Evaluated, Numbers, Whole, NewSystem
    <2>3. prm' = ask'.prm /\ phase' = "newton"
      BY <1>1, <1>2 DEF Evaluated, SolvedAt, NewtonStart
    <2> QED
      BY <1>1, <2>2, <2>3, NothingToShow
  <1>3. CASE NewtonReturns
    <2>1. state = StateAt(prm)
      <3>1. Residual(state, prm) = ZeroVec
        BY <1>3 DEF NewtonReturns, Converged
      <3>2. config.curv \in Int /\ prm \in Pairs /\ state \in Pairs
        BY CurvIsInt DEF Evaluated, Numbers
      <3> QED
        BY <3>1, <3>2, ConvergedState
    <2>2. state' = state /\ phase' = "solved"
      BY <1>3 DEF NewtonReturns
    <2>3. UNCHANGED <<StateAt(prm)>>
      BY <1>1, SameFunctional
    <2>4. Numbers'
      BY <1>1, <2>2 DEF Evaluated, Numbers, Whole, NewSystem
    <2>5. SolvedAt'
      BY <1>1, <2>1, <2>2, <2>3 DEF Evaluated, SolvedAt
    <2> QED
      BY <1>1, <2>4, <2>5 DEF Evaluated, Configured
  <1> QED
    BY <1>2, <1>3

(* Either state solver returns a state without residual, or throws.        *)
LEMMA StateSolveEvaluates ==
  ASSUME Evaluated, StateSolve, UNCHANGED client, UNCHANGED functionalVars
  PROVE  Evaluated'
  <1>1. CASE AssemblyThrows \/ NewtonFails
    <2>1. phase' = "threw" /\ UNCHANGED <<config, fwd, init, prm, state, adj, obj, ask, out>>
      BY <1>1 DEF AssemblyThrows, NewtonFails, Throws, functionalVars
    <2>2. Whole(fwd') /\ Whole(adj')
      BY <2>1 DEF Evaluated, Numbers, Whole, NewSystem
    <2> QED
      BY <2>1, <2>2, ThrowsEvaluates
  <1> QED
    BY <1>1, LinearSolveEvaluates, NewtonStepEvaluates, NewtonEvaluates DEF StateSolve

(* The objective's value.                                                  *)
LEMMA ObjectiveEvaluates ==
  ASSUME Evaluated, ObjectiveThrows \/ ObjectiveValue, UNCHANGED client
  PROVE  Evaluated'
  <1>1. CASE ObjectiveThrows
    <2>1. phase' = "threw" /\ UNCHANGED <<config, fwd, init, prm, state, adj, obj, ask, out>>
      BY <1>1 DEF ObjectiveThrows, Throws, functionalVars
    <2>2. Whole(fwd') /\ Whole(adj')
      BY <2>1 DEF Evaluated, Numbers, Whole, NewSystem
    <2> QED
      BY <2>1, <2>2, ThrowsEvaluates
  <1>2. CASE ObjectiveValue
    <2>1. /\ phase = "solved" /\ UNCHANGED <<config, fwd, init, prm, state, it, adj, obj, ask>>
          /\ out' = IF ask.what = "grad" THEN out ELSE [out EXCEPT !.val = Value(obj, state, prm)]
          /\ phase' = IF ask.what = "value" THEN "done" ELSE "grad"
      BY <1>2 DEF ObjectiveValue
    <2>2. DOMAIN out' = DOMAIN NoOut /\ (ask.what # "grad" => out'.val = Value(obj, state, prm))
      BY <2>1 DEF Evaluated, Numbers, NoOut
    <2>3. Numbers'
      BY <2>1, <2>2 DEF Evaluated, Numbers, Whole, NewSystem
    <2>4. UNCHANGED <<StateAt(prm), ReducedValue(prm), ReducedGrad(prm)>>
      BY <2>1, SameFunctional
    <2>5. config.solver # "time" => state = StateAt(prm)
      BY <2>1 DEF Evaluated, SolvedAt
    <2>6. config.solver # "time" /\ ask.what # "grad" => out'.val = ReducedValue(prm)
      BY <2>2, <2>5 DEF ReducedValue
    <2>7. SolvedAt'
      <3>1. prm' = ask'.prm
        BY <2>1 DEF Evaluated, SolvedAt
      <3>2. ASSUME config'.solver # "time" PROVE phase' \in {"solved", "grad"} => state' = StateAt(prm)'
        BY <2>1, <2>4, <2>5, <3>2
      <3>3. ASSUME config'.solver # "time" PROVE ask'.what # "grad" => out'.val = ReducedValue(prm)'
        BY <2>1, <2>4, <2>6, <3>3
      <3>4. phase' = "done" => ask'.what = "value"
        BY <2>1
      <3> QED
        BY <3>1, <3>2, <3>3, <3>4 DEF SolvedAt
    <2> QED
      BY <2>1, <2>3, <2>7 DEF Evaluated, Configured
  <1> QED
    BY <1>1, <1>2

(* The adjoint, and its gradient.                                          *)
LEMMA GradAtStateEvaluates ==
  ASSUME Evaluated, GradAtState, UNCHANGED client
  PROVE  Evaluated'
  <1> DEFINE g == StateGrad(obj, state)
  <1>1. PICK r \in SystemSolves(config.kind, Assembled(adj, state, prm), "trans", g, AdjBuf("state_grad"), AdjBuf("adj")),
             later \in {TRUE, FALSE} :
          /\ adj' = r.sys
          /\ IF r.ok /\ later
             THEN phase' = "done" /\ out' = [out EXCEPT !.grad = GradientOf(r.x)]
             ELSE Throws /\ UNCHANGED out
    BY DEF GradAtState
  <1>2. phase = "grad" /\ UNCHANGED <<config, fwd, init, prm, state, obj, ask>>
    BY DEF GradAtState
  <1>3. config.curv \in Int /\ prm \in Pairs /\ state \in Pairs /\ Whole(fwd) /\ Whole(adj)
    BY CurvIsInt DEF Evaluated, Numbers
  <1>4. g \in Pairs /\ ParamGrad(obj, prm) \in Pairs
    BY <1>3, GradientsAreNumbers DEF Evaluated
  <1>5. Whole(r.sys)
        /\ (r.ok /\ r.sys.map # "half" => r.x \in Pairs /\ r.x[1] = g[1] /\ r.x[2] = g[2] - Slope(state, prm) * g[1])
    BY <1>3, <1>4, TransposedSolveOfAssembled
  <1>6. CASE r.ok /\ later
    <2>1. phase' = "done" /\ out' = [out EXCEPT !.grad = GradientOf(r.x)] /\ adj' = r.sys
      BY <1>1, <1>6
    <2>2. DOMAIN out' = DOMAIN NoOut /\ out'.val = out.val /\ out'.grad = GradientOf(r.x)
      BY <2>1 DEF Evaluated, Numbers, NoOut
    <2>3. Numbers'
      BY <1>2, <1>5, <2>1, <2>2 DEF Evaluated, Numbers, Whole, NewSystem
    <2>4. UNCHANGED <<StateAt(prm), ReducedValue(prm), ReducedGrad(prm)>>
      BY <1>2, SameFunctional
    <2>5. ASSUME config.solver # "time", adj'.map # "half" PROVE out'.grad = ReducedGrad(prm)
      <3>1. state = StateAt(prm)
        BY <1>2, <2>5 DEF Evaluated, SolvedAt
      <3>2. r.x \in Pairs /\ r.x[1] = g[1] /\ r.x[2] = g[2] - Slope(state, prm) * g[1]
        BY <1>5, <1>6, <2>1, <2>5
      <3>3. GradientOf(r.x) = ReducedGrad(prm)
        BY <1>3, <1>4, <3>1, <3>2, AdjointGradient
      <3> QED
        BY <2>2, <3>3
    <2>6. config.solver # "time" /\ ask.what # "grad" => out'.val = ReducedValue(prm)
      BY <1>2, <2>2 DEF Evaluated, SolvedAt
    <2>7. SolvedAt'
      <3>1. prm' = ask'.prm
        BY <1>2 DEF Evaluated, SolvedAt
      <3>2. ASSUME config'.solver # "time" PROVE ask'.what # "grad" => out'.val = ReducedValue(prm)'
        BY <1>2, <2>4, <2>6, <3>2
      <3>3. ASSUME config'.solver # "time", adj'.map # "half" PROVE out'.grad = ReducedGrad(prm)'
        BY <1>2, <2>4, <2>5, <3>3
      <3> QED
        BY <2>1, <3>1, <3>2, <3>3 DEF SolvedAt
    <2> QED
      BY <1>2, <2>3, <2>7 DEF Evaluated, Configured
  <1>7. CASE ~(r.ok /\ later)
    <2>1. phase' = "threw" /\ UNCHANGED out /\ Whole(fwd') /\ Whole(adj')
      BY <1>1, <1>2, <1>3, <1>5, <1>7 DEF Throws, Whole, NewSystem
    <2> QED
      BY <1>2, <2>1, ThrowsEvaluates
  <1> QED
    BY <1>6, <1>7

(* Every step of an evaluation.                                            *)
LEMMA EvaluateEvaluates ==
  ASSUME Evaluated, Evaluate, UNCHANGED client
  PROVE  Evaluated'
  BY StateSolveEvaluates, ObjectiveEvaluates, GradAtStateEvaluates DEF Evaluate

-----------------------------------------------------------------------------
(* The steps of a client between evaluations.                              *)
LEMMA OtherSolveEvaluates ==
  ASSUME Evaluated, NEW A, OtherSolve(A), UNCHANGED client, UNCHANGED functionalVars
  PROVE  Evaluated'
  <1> DEFINE other == [fwd EXCEPT !.mat = A]
  <1>1. PICK r \in SystemSolves(config.kind, other, "fwd", <<1, 1>>, FwdBuf("other"), FwdBuf("otherx")) : fwd' = r.sys
    BY DEF OtherSolve
  <1>2. phase = "idle" /\ UNCHANGED <<config, phase, init, prm, state, it, adj, obj, ask, out>>
    BY DEF OtherSolve, functionalVars
  <1>3. Whole(other)
    BY DEF Evaluated, Numbers, Whole, NewSystem
  <1> HIDE DEF other
  <1>4. Whole(r.sys)
    BY <1>3, SystemExact DEF Fields, ExactWithMap
  <1>5. Numbers'
    BY <1>1, <1>2, <1>4 DEF Evaluated, Numbers, Whole, NewSystem
  <1>6. prm' = ask'.prm
    BY <1>2 DEF Evaluated, SolvedAt
  <1> QED
    BY <1>2, <1>5, <1>6, NothingToShow

(* Another start of Newton's method. (setInitialState.)                    *)
LEMMA SetInitialStateEvaluates ==
  ASSUME Evaluated, NEW x \in Starts, SetInitialState(x), UNCHANGED client, UNCHANGED functionalVars
  PROVE  Evaluated'
  <1>1. phase = "idle" /\ init' \in {x, NoState} /\ UNCHANGED <<config, phase, fwd, prm, state, adj, obj, ask, out>>
    BY DEF SetInitialState, functionalVars
  <1>2. x \in Pairs
    BY BoxesAssumption DEF Pairs
  <1>3. Numbers'
    BY <1>1, <1>2 DEF Evaluated, Numbers, Whole, NewSystem
  <1>4. prm' = ask'.prm
    BY <1>1 DEF Evaluated, SolvedAt
  <1> QED
    BY <1>1, <1>3, <1>4, NothingToShow

(* A term that is set is valid, or none.                                   *)
LEMMA SetTermEvaluates ==
  ASSUME Evaluated, phase = "idle", NEW t \in DOMAIN obj, NEW kind \in DOMAIN Terms, NEW term \in Terms[kind],
         SetTerm(t, kind, term), UNCHANGED client
  PROVE  Evaluated'
  <1>1. obj' = [obj EXCEPT ![t][kind] = term] /\ (Valid(term, 2) \/ term = NotSet)
    BY DEF SetTerm
  <1>2. UNCHANGED <<config, phase, fwd, init, prm, state, adj, ask, out>>
    BY DEF SetTerm, solverVars
  <1>3. Proper(term) /\ term \in TermValues /\ kind \in {"state", "prm"}
    BY <1>1, SizesAssumption DEF Proper
  <1>4. obj \in Seq([state : TermValues, prm : TermValues]) /\ \A s \in DOMAIN obj : Proper(obj[s].state) /\ Proper(obj[s].prm)
    BY DEF Evaluated, Numbers
  <1>5. obj[t] \in [state : TermValues, prm : TermValues]
    <2> DEFINE Both == [state : TermValues, prm : TermValues]
    <2>1. obj \in Seq(Both)
      BY <1>4
    <2> HIDE DEF Both
    <2>2. obj[t] \in Both
      BY <2>1
    <2> QED
      BY <2>2 DEF Both
  <1> DEFINE new == [obj[t] EXCEPT ![kind] = term]
  <1>6. new \in [state : TermValues, prm : TermValues] /\ Proper(new.state) /\ Proper(new.prm)
    <2>1. CASE kind = "state"
      BY <1>3, <1>4, <1>5, <2>1
    <2>2. CASE kind = "prm"
      BY <1>3, <1>4, <1>5, <2>2
    <2> QED
      BY <1>3, <2>1, <2>2
  <1>7. obj' = [obj EXCEPT ![t] = new]
    BY <1>1
  <1> HIDE DEF new
  <1>8. obj' \in Seq([state : TermValues, prm : TermValues]) /\ DOMAIN obj' = DOMAIN obj
    BY <1>4, <1>6, <1>7
  <1>9. \A s \in DOMAIN obj' : Proper(obj'[s].state) /\ Proper(obj'[s].prm)
    BY <1>4, <1>6, <1>7, <1>8
  <1>10. Numbers'
    BY <1>2, <1>8, <1>9 DEF Evaluated, Numbers, Whole, NewSystem
  <1>11. prm' = ask'.prm
    BY <1>2 DEF Evaluated, SolvedAt
  <1> QED
    BY <1>2, <1>10, <1>11, NothingToShow

(* The functional over time answers with numbers of its own.               *)
LEMMA PyEvaluatesEvaluates ==
  ASSUME Evaluated, client = "tao_solve", PyEvaluates, UNCHANGED client
  PROVE  Evaluated'
  <1>1. UNCHANGED <<config, fwd, init, prm, state, adj, obj, ask>>
    BY DEF PyEvaluates
  <1>2. config.solver = "time"
    BY DEF Evaluated, Configured, OverTime
  <1>3. DOMAIN out' = DOMAIN NoOut
    BY DEF PyEvaluates, NoOut, Evaluated, Numbers
  <1>4. Numbers'
    BY <1>1, <1>3 DEF Evaluated, Numbers, Whole, NewSystem
  <1>5. SolvedAt'
    BY <1>1, <1>2 DEF Evaluated, SolvedAt
  <1> QED
    BY <1>1, <1>4, <1>5 DEF Evaluated, Configured

-----------------------------------------------------------------------------
(* TAO's points are numbers.  Steps of others leave them.                  *)
LEMMA TaoNumbersLeftAlone ==
  ASSUME TaoNumbers, UNCHANGED tao
  PROVE  TaoNumbers'
  BY DEF TaoNumbers

(* A step of TAO to another trial point, or to its trial point.            *)
LEMMA TaoNumbersGoOn ==
  ASSUME TaoNumbers,
         tao'.pc \in {"evaluate", "waits"} => tao'.trial \in Pairs,
         tao'.at = tao.at \/ tao'.at \in Pairs,
         tao'.pc \in {"tells", "monitor", "iterates", "final", "ends"} => tao'.at # NoPoint
  PROVE  TaoNumbers'
  BY DEF TaoNumbers

(* A pair of numbers is a point.                                           *)
LEMMA PairIsPoint ==
  ASSUME NEW q \in Pairs
  PROVE  q # NoPoint
  <1>1. 1 \in DOMAIN q /\ 1 \notin DOMAIN NoPoint
    BY TwoParts DEF NoPoint
  <1> QED
    BY <1>1

(* TAO starts at the numbers it is given, scaled and put into the bounds.  *)
LEMMA NewTaoNumbers ==
  ASSUME TaoNumbers, NEW p \in Starts, NEW b \in Boxes, NEW told, BoundsValid(b), scale \in Scales, Positive(scale),
         tao' = NewTao(b, told, p)
  PROVE  TaoNumbers'
  <1> DEFINE box == IF b = NoBounds THEN NoBounds ELSE ScaledBox(scale, b)
             q == ToOptimizer(scale, p)
  <1>1. /\ tao'.pc = "evaluate" /\ tao'.at = NoPoint
        /\ tao'.trial = IF b # NoBounds /\ Keeps(TaoType(type, b)) THEN Projected(q, box) ELSE q
    BY DEF NewTao, IdleTao, ScaledBox
  <1>2. q \in Pairs
    BY StartInCoordinates DEF Pairs
  <1>3. CASE b = NoBounds
    BY <1>1, <1>2, <1>3 DEF TaoNumbers
  <1>4. CASE b # NoBounds
    <2>1. Begins(scale, b)
      BY <1>4 DEF Begins
    <2>2. \A i \in 1 .. 2 : box.lower[i] \in Int /\ box.upper[i] \in Int /\ box.lower[i] <= box.upper[i]
      BY <1>4, <2>1, BoxOfBounds
    <2> HIDE DEF box, q
    <2>3. Projected(q, box) \in Pairs
      BY <1>2, <2>2, StartInBox DEF Pairs
    <2> QED
      BY <1>1, <1>2, <2>3 DEF TaoNumbers
  <1> QED
    BY <1>3, <1>4

(* No minimisation, no points.                                             *)
LEMMA IdleTaoNumbers ==
  ASSUME tao' = IdleTao
  PROVE  TaoNumbers'
  BY DEF TaoNumbers, IdleTao

(* The steps of a minimisation.                                            *)
LEMMA TaoStepsNumbers ==
  ASSUME TaoNumbers, DOMAIN tao = DOMAIN IdleTao, TaoSteps
  PROVE  TaoNumbers'
  <1>1. CASE FormValueGrad
    <2>1. tao'.pc = "waits" /\ tao'.trial = tao.trial /\ tao'.at = tao.at /\ tao.pc = "evaluate"
      BY <1>1 DEF FormValueGrad, IdleTao
    <2> QED
      BY <2>1, TaoNumbersGoOn DEF TaoNumbers
  <1>2. CASE Answered
    <2>1. CASE tao' = IdleTao
      BY <2>1, IdleTaoNumbers
    <2>2. CASE tao' # IdleTao
      <3>1. /\ tao'.pc \in {"tells", "iterates"} /\ tao.pc = "waits"
            /\ tao'.at = tao.trial \/ (tao'.at = tao.at /\ tao.at # NoPoint)
        BY <1>2, <2>2 DEF Answered, Fails, IdleTao
      <3>2. tao.trial \in Pairs
        BY <3>1 DEF TaoNumbers
      <3> QED
        BY <3>1, <3>2, PairIsPoint, TaoNumbersGoOn
    <2> QED
      BY <2>1, <2>2
  <1>3. CASE MonitorCallback \/ MonitorReturns
    <2>1. tao'.pc \in {"monitor", "iterates"} /\ tao'.at = tao.at /\ tao.pc \in {"tells", "monitor"}
      BY <1>3 DEF MonitorCallback, MonitorReturns, IdleTao
    <2> QED
      BY <2>1, TaoNumbersGoOn DEF TaoNumbers
  <1>4. CASE Iterates
    <2>1. CASE tao' = IdleTao
      BY <2>1, IdleTaoNumbers
    <2>2. CASE tao' # IdleTao
      <3>1. /\ tao.pc = "iterates" /\ tao'.at = tao.at
            /\ tao'.pc = "final" \/ (tao'.pc = "evaluate" /\ tao'.trial \in Allowed)
        BY <1>4, <2>2 DEF Iterates, Fails, IdleTao
      <3>2. Allowed \subseteq Pairs
        BY GridAssumption DEF Allowed, Box, Pairs
      <3> QED
        BY <3>1, <3>2, TaoNumbersGoOn DEF TaoNumbers
    <2> QED
      BY <2>1, <2>2
  <1>5. CASE FinalEvaluation
    <2>1. tao'.pc = "ends" /\ tao'.at = tao.at /\ tao.pc = "final"
      BY <1>5 DEF FinalEvaluation, IdleTao
    <2> QED
      BY <2>1, TaoNumbersGoOn DEF TaoNumbers
  <1>6. CASE Ends
    BY <1>6, IdleTaoNumbers DEF Ends
  <1> QED
    BY <1>1, <1>2, <1>3, <1>4, <1>5, <1>6 DEF TaoSteps

(* Every step keeps TAO's points numbers.                                  *)
LEMMA TaoNumbersNext ==
  ASSUME BoundsIInv, TaoNumbers, [Next]_vars
  PROVE  TaoNumbers'
  <1>0. scale \in Scales /\ DOMAIN tao = DOMAIN IdleTao /\ bounds \in Boxes
    BY DEF BoundsIInv, Settings
  <1>1. CASE UNCHANGED vars \/ ProblemClient
    BY <1>1, TaoNumbersLeftAlone DEF vars, taoVars, ProblemClient
  <1>2. CASE CppNext
    <2>1. CASE TaoSteps
      BY <1>0, <2>1, TaoStepsNumbers
    <2>2. CASE MonitorThrows
      BY <2>2, IdleTaoNumbers DEF MonitorThrows, Fails
    <2>3. CASE CppSolve
      <3>1. PICK p \in Starts : Start(p)
        BY <2>3 DEF CppSolve
      <3>2. CASE BoundsValid(bounds) /\ ScaleValid
        <4>1. tao' = NewTao(bounds, monitor, p) /\ Positive(scale)
          BY <3>1, <3>2 DEF Start, ScaleValid, Positive
        <4> QED
          BY <1>0, <3>2, <4>1, NewTaoNumbers
      <3>3. CASE ~(BoundsValid(bounds) /\ ScaleValid)
        BY <3>1, <3>3, TaoNumbersLeftAlone DEF Start
      <3> QED
        BY <3>2, <3>3
    <2>4. CASE CppSetup \/ CppAsks \/ CppTakes \/ (Evaluate /\ UNCHANGED taoVars)
      <3>1. UNCHANGED tao
        BY <2>4 DEF CppSetup, CppAsks, CppTakes, SetBounds, SetVariableScale, SetMonitor, taoVars
      <3> QED
        BY <3>1, TaoNumbersLeftAlone
    <2> QED
      BY <1>2, <2>1, <2>2, <2>3, <2>4 DEF CppNext
  <1>3. CASE PyNext
    <2>1. CASE TaoSteps
      BY <1>0, <2>1, TaoStepsNumbers
    <2>2. CASE PyStart
      <3>1. PICK b \in Boxes, p \in Starts : IF BoundsValid(b) THEN tao' = NewTao(b, TRUE, p) ELSE tao' = tao
        BY <2>2 DEF PyStart
      <3>2. scale = NotScaled
        BY <1>3 DEF PyNext, BoundsIInv, Settings
      <3>3. CASE BoundsValid(b)
        BY <1>0, <3>1, <3>2, <3>3, NewTaoNumbers DEF Positive
      <3>4. CASE ~BoundsValid(b)
        BY <3>1, <3>4, TaoNumbersLeftAlone
      <3> QED
        BY <3>3, <3>4
    <2>3. CASE PyEvaluates \/ PyObserves \/ PyReturns
      <3>1. UNCHANGED tao
        BY <2>3 DEF PyEvaluates, PyObserves, PyReturns, taoVars
      <3> QED
        BY <3>1, TaoNumbersLeftAlone
    <2> QED
      BY <1>3, <2>1, <2>2, <2>3 DEF PyNext
  <1> QED
    BY <1>1, <1>2, <1>3 DEF Next

-----------------------------------------------------------------------------
(* The points the functional is asked for are numbers.                     *)
LEMMA TwoNumbers ==
  ASSUME NEW v \in Seq(Int), Len(v) = 2, NEW i \in 1 .. 2
  PROVE  v[i] \in Int
  OBVIOUS

(* The parameters of a pair that TAO has. (toPhysical.)                    *)
LEMMA PhysicalPair ==
  ASSUME NEW s \in Scales, NEW q \in Pairs
  PROVE  ToPhysical(s, q) \in Pairs
  <1>1. CASE s = NotScaled
    BY <1>1 DEF ToPhysical
  <1>2. CASE s # NotScaled
    <2>1. s \in Seq(Int) /\ Len(s) = 2
      BY <1>2, BoxesAssumption, SizesAssumption
    <2>2. \A i \in 1 .. 2 : s[i] \in Int
      BY <2>1, TwoNumbers
    <2>3. \A i \in 1 .. 2 : s[i] \in Int /\ q[i] \in Int
      BY <2>2 DEF Pairs
    <2>4. \A i \in 1 .. 2 : s[i] * q[i] \in Int
      BY <2>3
    <2> QED
      BY <1>2, <2>4 DEF ToPhysical, Pairs
  <1> QED
    BY <1>1, <1>2

(* TAO asks for numbers, and what it asks for is set.                      *)
LEMMA TaoAsks ==
  ASSUME Evaluated, BoundsIInv, TaoNumbers, TaoSteps, UNCHANGED client
  PROVE  Evaluated'
  <1>0. scale \in Scales
    BY DEF BoundsIInv, Settings
  <1>1. CASE FormValueGrad
    <2>1. ToPhysical(scale, tao.trial) \in Pairs /\ Ask("valueGrad", ToPhysical(scale, tao.trial))
      BY <1>0, <1>1, PhysicalPair DEF FormValueGrad, TaoNumbers
    <2> QED
      BY <2>1, AskEvaluates
  <1>2. CASE FinalEvaluation
    <2>1. tao.pc = "final"
      BY <1>2 DEF FinalEvaluation
    <2>2. tao.at \in Pairs
      BY <2>1 DEF TaoNumbers
    <2>3. ToPhysical(scale, tao.at) \in Pairs /\ Ask("valueGrad", ToPhysical(scale, tao.at))
      BY <1>0, <1>2, <2>2, PhysicalPair DEF FinalEvaluation, Solved
    <2> QED
      BY <2>3, AskEvaluates
  <1>3. CASE Answered \/ Ends
    <2>1. Returned /\ UNCHANGED <<config, fwd, init, prm, state, adj, obj, ask, out>>
      BY <1>3 DEF Answered, Ends
    <2> QED
      BY <2>1, ReturnedEvaluates
  <1>4. CASE MonitorCallback \/ MonitorReturns \/ Iterates
    <2>1. UNCHANGED evalVars
      BY <1>4 DEF MonitorCallback, MonitorReturns, Iterates
    <2> QED
      BY <2>1, EvaluationLeftAlone DEF SameEvaluation, evalVars, solverVars, functionalVars
  <1> QED
    BY <1>1, <1>2, <1>3, <1>4 DEF TaoSteps

(* Every step keeps what evaluations keep.                                 *)
LEMMA EvaluatedNext ==
  ASSUME Evaluated, BoundsIInv, TaoNumbers, [Next]_vars
  PROVE  Evaluated'
  <1>0. UNCHANGED client
    BY ClientStays
  <1>1. CASE UNCHANGED vars \/ ProblemClient
    BY <1>0, <1>1, EvaluationLeftAlone
       DEF vars, ProblemClient, SameEvaluation, evalVars, solverVars, functionalVars
  <1>2. CASE CppNext
    <2>1. CASE TaoSteps
      BY <1>0, <2>1, TaoAsks
    <2>2. CASE MonitorThrows \/ CppSolve
      <3>1. UNCHANGED evalVars
        BY <2>2 DEF MonitorThrows, CppSolve, Start
      <3> QED
        BY <1>0, <3>1, EvaluationLeftAlone
           DEF SameEvaluation, evalVars, solverVars, functionalVars
    <2>3. CASE CppSetup
      <3>1. CASE \E t \in DOMAIN obj, kind \in DOMAIN Terms : \E term \in Terms[kind] : SetTerm(t, kind, term) /\ phase = "idle"
        BY <1>0, <3>1, SetTermEvaluates
      <3>2. CASE \E p \in Starts : SetInitialState(p) /\ UNCHANGED functionalVars
        BY <1>0, <3>2, SetInitialStateEvaluates
      <3>3. CASE \E A \in Others : OtherSolve(A) /\ UNCHANGED functionalVars
        BY <1>0, <3>3, OtherSolveEvaluates
      <3>4. CASE UNCHANGED evalVars
        BY <1>0, <3>4, EvaluationLeftAlone
           DEF SameEvaluation, evalVars, solverVars, functionalVars
      <3> QED
        BY <2>3, <3>1, <3>2, <3>3, <3>4
           DEF CppSetup, SetBounds, SetVariableScale, SetMonitor, ClientRuns
    <2>4. CASE CppAsks
      <3>1. PICK what \in Wants, p \in Starts : Ask(what, p)
        BY <2>4 DEF CppAsks
      <3>2. p \in Pairs
        BY BoxesAssumption DEF Pairs
      <3> QED
        BY <1>0, <3>1, <3>2, AskEvaluates
    <2>5. CASE CppTakes
      <3>1. Returned /\ UNCHANGED <<config, fwd, init, prm, state, adj, obj, ask, out>>
        BY <2>5 DEF CppTakes
      <3> QED
        BY <1>0, <3>1, ReturnedEvaluates
    <2>6. CASE Evaluate
      BY <1>0, <2>6, EvaluateEvaluates
    <2> QED
      BY <1>2, <2>1, <2>2, <2>3, <2>4, <2>5, <2>6 DEF CppNext
  <1>3. CASE PyNext
    <2>1. CASE TaoSteps
      BY <1>0, <2>1, TaoAsks
    <2>2. CASE PyEvaluates
      BY <1>0, <1>3, <2>2, PyEvaluatesEvaluates DEF PyNext
    <2>3. CASE PyStart \/ PyObserves \/ PyReturns
      <3>1. UNCHANGED evalVars
        BY <2>3 DEF PyStart, PyObserves, PyReturns
      <3> QED
        BY <1>0, <3>1, EvaluationLeftAlone
           DEF SameEvaluation, evalVars, solverVars, functionalVars
    <2> QED
      BY <1>3, <2>1, <2>2, <2>3 DEF PyNext
  <1> QED
    BY <1>1, <1>2, <1>3 DEF Next

(* The invariant of evaluations holds at first.                            *)
LEMMA EvaluationInit == Init => EvaluationIInv
  <1> SUFFICES ASSUME Init PROVE EvaluationIInv
    OBVIOUS
  <1>1. /\ phase = "idle" /\ init = NoState /\ fwd = NewSystem("fwd") /\ adj = NewSystem("adj")
        /\ prm = ZeroVec /\ state = ZeroVec /\ ask = [what |-> "value", prm |-> ZeroVec] /\ out = NoOut
    BY DEF Init, FunctionalInit
  <1>2. obj \in Objectives /\ tao = IdleTao
    BY DEF Init, TaoInit
  <1>3. Whole(fwd) /\ Whole(adj)
    BY <1>1 DEF Whole, NewSystem
  <1>4. Numbers
    BY <1>1, <1>2, <1>3, ZeroPair, SizesAssumption DEF Numbers
  <1>5. TaoNumbers
    BY <1>2 DEF TaoNumbers, IdleTao
  <1>6. Configured
    BY DEF Init, Configured
  <1>7. SolvedAt
    BY <1>1 DEF SolvedAt
  <1>8. BoundsIInv
    BY BoundsInit
  <1> QED
    BY <1>4, <1>5, <1>6, <1>7, <1>8 DEF EvaluationIInv

(* Every step keeps the invariant of evaluations.                          *)
LEMMA EvaluationNext == EvaluationIInv /\ [Next]_vars => EvaluationIInv'
  BY BoundsNext, TaoNumbersNext, EvaluatedNext DEF EvaluationIInv, Evaluated

(* After the state solve the state is the one without residual, with the   *)
(* parameters the caller asked for, and the value and the gradient that    *)
(* follow are theirs: the strengthened invariant of evaluations holds.     *)
THEOREM EvaluationInvariant == Spec => []EvaluationIInv
  BY EvaluationInit, EvaluationNext, PTL DEF Spec

(* An evaluation that returns has the value and the gradient of the        *)
(* functional at the parameters it was asked for, whatever was evaluated,  *)
(* solved or thrown before, by every solver but the one on the device      *)
(* whose map an earlier exception left incomplete. (valueGrad, solveState, *)
(* gradAtState.)                                                           *)
THEOREM EvaluationExactAlways == Spec => []EvaluationExact
  <1>1. EvaluationIInv => EvaluationExact
    BY DEF EvaluationIInv, SolvedAt, EvaluationExact
  <1> QED
    BY <1>1, EvaluationInvariant, PTL

-----------------------------------------------------------------------------
(* A gradient that a positive scale went to TAO with comes back as it was. *)
LEMMA ScaledBack ==
  ASSUME NEW s \in Int, s > 0, NEW a \in Int
  PROVE  (s * a) \div s = a
  OBVIOUS

(* The gradient in TAO's coordinates is the functional's when it comes     *)
(* back. (toOptimizerGrad, toPhysicalGrad.)                                *)
LEMMA GradientComesBack ==
  ASSUME NEW s \in Scales, Positive(s), NEW g \in Pairs
  PROVE  ToPhysicalGrad(s, ToOptimizerGrad(s, g)) = g
  <1>1. CASE s = NotScaled
    BY <1>1 DEF ToPhysicalGrad, ToOptimizerGrad, ToPhysical, ToOptimizer
  <1>2. CASE s # NotScaled
    <2>1. \A i \in 1 .. 2 : s[i] \in Int /\ s[i] > 0 /\ g[i] \in Int
      BY <1>2, ValidScale DEF Pairs
    <2>2. ASSUME NEW i \in 1 .. 2 PROVE Over(s[i] * g[i], s[i]) = g[i]
      <3>1. s[i] \in Int /\ s[i] > 0 /\ g[i] \in Int
        BY <2>1
      <3>2. (s[i] * g[i]) \div s[i] = g[i]
        BY <3>1, ScaledBack
      <3> QED
        BY <3>1, <3>2 DEF Over
    <2> DEFINE q == ToPhysical(s, g)
    <2>3. \A i \in 1 .. 2 : q[i] = s[i] * g[i]
      BY <1>2 DEF ToPhysical
    <2> HIDE DEF q
    <2>4. ToOptimizer(s, q) = [i \in 1 .. 2 |-> Over(q[i], s[i])]
      BY <1>2 DEF ToOptimizer
    <2>5. ToOptimizer(s, q) = [i \in 1 .. 2 |-> g[i]]
      BY <2>2, <2>3, <2>4
    <2> QED
      BY <2>5 DEF q, ToPhysicalGrad, ToOptimizerGrad, Pairs
  <1> QED
    BY <1>1, <1>2

(* The gradient of the reduced functional is a pair of numbers.            *)
LEMMA ReducedGradIsPair ==
  ASSUME Numbers, Configured, NEW p \in Pairs
  PROVE  ReducedGrad(p) \in Pairs
  <1> DEFINE x == StateGrad(obj, StateAt(p))
             h == ParamGrad(obj, p)
  <1>1. config.curv \in Int /\ StateAt(p) \in Pairs
    BY CurvIsInt, StateAtPair
  <1>2. x \in Pairs /\ h \in Pairs
    BY <1>1, GradientsAreNumbers
  <1>3. ReducedGrad(p) = [i \in 1 .. 2 |-> h[i] + x[1] * Sensitivity(p, i)[1] + x[2] * Sensitivity(p, i)[2]]
    BY DEF ReducedGrad
  <1> HIDE DEF x, h
  <1>4. x[1] \in Int /\ x[2] \in Int /\ p[1] \in Int
    BY <1>2, TwoParts
  <1>5. ASSUME NEW i \in 1 .. 2 PROVE Sensitivity(p, i)[1] \in Int /\ Sensitivity(p, i)[2] \in Int
    <2>1. (-2) * p[1] - 2 * config.curv * p[1] \in Int
      BY <1>1, <1>4
    <2> QED
      BY <2>1 DEF Sensitivity
  <1>6. ASSUME NEW i \in 1 .. 2 PROVE h[i] + x[1] * Sensitivity(p, i)[1] + x[2] * Sensitivity(p, i)[2] \in Int
    <2>1. h[i] \in Int
      BY <1>2 DEF Pairs
    <2>2. x[1] * Sensitivity(p, i)[1] \in Int /\ x[2] * Sensitivity(p, i)[2] \in Int
      BY <1>4, <1>5
    <2> QED
      BY <2>1, <2>2
  <1> QED
    BY <1>3, <1>6 DEF Pairs

-----------------------------------------------------------------------------
(* The client, between evaluations and in its monitor.                     *)
LEMMA AnswersBetween ==
  ASSUME Answers, tao.pc \in {"idle", "monitor"}, UNCHANGED <<client, tao, phase, code, result>>
  PROVE  Answers'
  BY DEF Answers

(* Steps that leave what TAO was told as it is.                            *)
LEMMA AnswersLeftAlone ==
  ASSUME Answers, UNCHANGED <<client, tao, phase, code, result, ask, interrupted, adj, scale, obj, config>>
  PROVE  Answers'
  <1>1. Told => Told'
    <2>1. UNCHANGED <<tao, scale, obj, config>>
      OBVIOUS
    <2>2. tao.value' = tao.value /\ tao.grad' = tao.grad /\ ToPhysical(scale, tao.at)' = ToPhysical(scale, tao.at)
      BY <2>1 DEF ToPhysical
    <2>3. ASSUME NEW p PROVE ReducedValue(p)' = ReducedValue(p) /\ ReducedGrad(p)' = ReducedGrad(p)
      BY <2>1 DEF ReducedValue, ReducedGrad, StateAt, Sensitivity
    <2> QED
      BY <2>1, <2>2, <2>3 DEF Told, ToPhysical, ToOptimizerGrad
  <1> QED
    BY <1>1 DEF Answers

(* An evaluation runs only for the point that TAO waits for.               *)
LEMMA AnswersEvaluation ==
  ASSUME Answers, phase # "idle", UNCHANGED <<client, tao, code, result, ask>>, phase' # "idle"
  PROVE  Answers'
  BY DEF Answers

(* An evaluation under way changes neither the question nor the            *)
(* functional.                                                             *)
LEMMA EvaluateRuns ==
  ASSUME Evaluate \/ PyEvaluates
  PROVE  phase # "idle" /\ phase' # "idle" /\ UNCHANGED <<ask, obj, config, prm>>
  <1>1. CASE StateSolve /\ UNCHANGED functionalVars
    BY <1>1
       DEF StateSolve, AssemblyThrows, LinearSolve, NewtonStart, NewtonReturns, NewtonStep,
           NewtonFails, Throws, functionalVars
  <1>2. CASE ObjectiveThrows \/ ObjectiveValue
    BY <1>2 DEF ObjectiveThrows, ObjectiveValue, Throws, functionalVars
  <1>3. CASE GradAtState
    BY <1>3 DEF GradAtState, Throws
  <1>4. CASE PyEvaluates
    BY <1>4 DEF PyEvaluates, Throws
  <1> QED
    BY <1>1, <1>2, <1>3, <1>4 DEF Evaluate

(* What is answered is exact.                                              *)
LEMMA ExactAnswer ==
  ASSUME EvaluationIInv, Answers, TaoSolved, client \in {"cpp", "tao_solve"}, tao.pc \in {"waits", "ends"}, phase = "done",
         client = "tao_solve" => ~interrupted, client = "cpp" => adj.map # "half"
  PROVE  out.val = ReducedValue(ask.prm) /\ out.grad = ReducedGrad(ask.prm)
  <1>1. ask.what = "valueGrad" /\ prm = ask.prm
    BY DEF Answers, EvaluationIInv, SolvedAt
  <1>2. CASE client = "cpp"
    <2>1. config.solver # "time"
      BY <1>2, SolversAssumption DEF EvaluationIInv, Configured
    <2> QED
      BY <1>1, <1>2, <2>1 DEF EvaluationIInv, SolvedAt
  <1>3. CASE client = "tao_solve"
    BY <1>1, <1>3 DEF TaoSolved
  <1> QED
    BY <1>2, <1>3

(* What TAO is told of an exact answer is exact.                           *)
LEMMA ToldWhenAnswered ==
  ASSUME UNCHANGED <<config, obj, scale>>, tao'.at = tao.trial, ask.prm = ToPhysical(scale, tao.trial),
         tao'.value = out.val, tao'.grad = ToOptimizerGrad(scale, out.grad),
         out.val = ReducedValue(ask.prm), out.grad = ReducedGrad(ask.prm)
  PROVE  Told'
  <1>1. PICK q : q = ToPhysical(scale, tao.trial)
    OBVIOUS
  <1>2. ToPhysical(scale', tao'.at) = q
    BY <1>1
  <1>3. UNCHANGED <<ReducedValue(q), ReducedGrad(q)>>
    BY SameFunctional
  <1>4. tao'.value = ReducedValue(q)' /\ tao'.grad = ToOptimizerGrad(scale', ReducedGrad(q)')
    BY <1>1, <1>3
  <1>5. ToPhysical(scale, tao.at)' = q
    BY <1>2 DEF ToPhysical
  <1>6. ReducedValue(q)' = ReducedValue(ToPhysical(scale, tao.at))' /\ ReducedGrad(q)' = ReducedGrad(ToPhysical(scale, tao.at))'
    BY <1>5 DEF ReducedValue, ReducedGrad, StateAt, Sensitivity
  <1> QED
    BY <1>4, <1>6 DEF Told

(* TAO gets the answer to the point it asked for. (formFunctionGradient.)  *)
LEMMA AnsweredAnswers ==
  ASSUME EvaluationIInv, Answers, TaoSolved, client \in {"cpp", "tao_solve"}, UNCHANGED <<client, interrupted>>, Answered
  PROVE  Answers'
  <1>0. /\ DOMAIN tao = DOMAIN IdleTao /\ tao.pc = "waits" /\ phase' = "idle" /\ code = "none"
        /\ UNCHANGED <<config, adj, obj, ask, scale, result>>
    BY DEF EvaluationIInv, BoundsIInv, Settings, Answered, Returned, Answers
  <1>1. CASE phase # "done"
    <2>1. tao'.pc = "idle"
      BY <1>1 DEF Answered, Fails, IdleTao
    <2> QED
      BY <1>0, <2>1 DEF Answers
  <1>2. CASE phase = "done"
    <2>1. /\ code' = "none" /\ tao'.pc \in {"tells", "iterates"}
          /\ tao'.pc = "tells" => /\ tao'.at = tao.trial /\ tao'.value = out.val
                                  /\ tao'.grad = ToOptimizerGrad(scale, out.grad)
      BY <1>0, <1>2 DEF Answered, IdleTao
    <2>2. ask.prm = ToPhysical(scale, tao.trial)
      BY <1>0 DEF EvaluationIInv, BoundsIInv, Asked
    <2>4. ASSUME tao'.pc = "tells", ~interrupted', adj'.map # "half" PROVE Told'
      <3>1. out.val = ReducedValue(ask.prm) /\ out.grad = ReducedGrad(ask.prm)
        BY <1>0, <1>2, <2>4, ExactAnswer
      <3> QED
        BY <1>0, <2>1, <2>2, <2>4, <3>1, ToldWhenAnswered
    <2> QED
      BY <1>0, <2>1, <2>4 DEF Answers
  <1> QED
    BY <1>1, <1>2

(* The steps of a minimisation keep what TAO was told exact.               *)
LEMMA TaoStepsAnswer ==
  ASSUME EvaluationIInv, Answers, TaoSolved, client \in {"cpp", "tao_solve"}, UNCHANGED <<client, interrupted>>, TaoSteps
  PROVE  Answers'
  <1>0. DOMAIN tao = DOMAIN IdleTao
    BY DEF EvaluationIInv, BoundsIInv, Settings
  <1>1. CASE FormValueGrad
    <2>1. tao'.pc = "waits" /\ tao.pc = "evaluate" /\ ask'.what = "valueGrad" /\ UNCHANGED <<code, result>>
      BY <1>0, <1>1 DEF FormValueGrad, Ask, IdleTao
    <2> QED
      BY <2>1 DEF Answers
  <1>2. CASE Answered
    BY <1>2, AnsweredAnswers
  <1>3. CASE MonitorCallback \/ MonitorReturns
    <2>1. /\ tao'.pc \in {"monitor", "iterates"} /\ tao.pc \in {"tells", "monitor"}
          /\ UNCHANGED <<code, result, phase>>
      BY <1>0, <1>3 DEF MonitorCallback, MonitorReturns, IdleTao, evalVars, solverVars
    <2> QED
      BY <2>1 DEF Answers
  <1>4. CASE Iterates
    <2>1. tao.pc = "iterates" /\ UNCHANGED <<result, phase>>
      BY <1>4 DEF Iterates, evalVars, solverVars
    <2>2. CASE tao' = IdleTao
      <3>1. tao'.pc = "idle"
        BY <2>2 DEF IdleTao
      <3> QED
        BY <2>1, <3>1 DEF Answers
    <2>3. CASE tao' # IdleTao
      <3>1. tao'.pc \in {"evaluate", "final"} /\ UNCHANGED code
        BY <1>0, <1>4, <2>3 DEF Iterates, Fails, IdleTao
      <3> QED
        BY <2>1, <3>1 DEF Answers
    <2> QED
      BY <2>2, <2>3
  <1>5. CASE FinalEvaluation
    <2>1. /\ tao'.pc = "ends" /\ tao.pc = "final" /\ ask' = [what |-> "valueGrad", prm |-> ToPhysical(scale, Solved)]
          /\ result' = [result EXCEPT !.prm = ToPhysical(scale, Solved)] /\ UNCHANGED code
      BY <1>0, <1>5 DEF FinalEvaluation, Ask, IdleTao
    <2>2. DOMAIN result' = DOMAIN NoResult /\ result'.prm = ToPhysical(scale, Solved)
      BY <2>1 DEF Answers, NoResult
    <2> QED
      BY <2>1, <2>2 DEF Answers
  <1>6. CASE Ends
    <2>1. tao'.pc = "idle" /\ phase' = "idle" /\ DOMAIN result' = DOMAIN result
      BY <1>6 DEF Ends, Returned, IdleTao
    <2> QED
      BY <2>1 DEF Answers
  <1> QED
    BY <1>1, <1>2, <1>3, <1>4, <1>5, <1>6 DEF TaoSteps

(* A minimisation starts with nothing told.                                *)
LEMMA StartAnswers ==
  ASSUME Answers, phase = "idle", UNCHANGED <<client, phase, result>>, NEW b, NEW told, NEW p,
         tao' = NewTao(b, told, p), code' = "none"
  PROVE  Answers'
  <1>1. tao'.pc = "evaluate"
    BY DEF NewTao, IdleTao
  <1> QED
    BY <1>1 DEF Answers

(* Every step keeps what TAO was told exact.                               *)
LEMMA AnswersNext ==
  ASSUME EvaluationIInv, Answers, TaoSolved, [Next]_vars
  PROVE  Answers'
  <1>0. UNCHANGED client
    BY ClientStays
  <1>1. CASE UNCHANGED vars \/ ProblemClient
    BY <1>0, <1>1, AnswersLeftAlone
       DEF vars, ProblemClient, evalVars, solverVars, functionalVars, taoVars, driverVars
  <1>2. CASE CppNext
    <2>0. client = "cpp" /\ UNCHANGED interrupted
      BY <1>2 DEF CppNext
    <2>1. CASE TaoSteps
      BY <1>0, <2>0, <2>1, TaoStepsAnswer
    <2>2. CASE MonitorThrows
      <3>1. tao'.pc = "idle" /\ UNCHANGED <<phase, result>>
        BY <2>2 DEF MonitorThrows, Fails, IdleTao, evalVars, solverVars
      <3> QED
        BY <1>0, <2>0, <3>1 DEF Answers
    <2>3. CASE CppSolve
      <3>1. PICK p \in Starts : Start(p)
        BY <2>3 DEF CppSolve
      <3>2. tao.pc = "idle" /\ phase = "idle" /\ UNCHANGED <<phase, result>>
        BY <3>1 DEF Start, evalVars, solverVars
      <3>3. CASE BoundsValid(bounds) /\ ScaleValid
        <4>1. tao' = NewTao(bounds, monitor, p) /\ code' = "none"
          BY <3>1, <3>3 DEF Start
        <4> QED
          BY <1>0, <3>2, <4>1, StartAnswers
      <3>4. CASE ~(BoundsValid(bounds) /\ ScaleValid)
        <4>1. tao' = tao
          BY <3>1, <3>4 DEF Start
        <4> QED
          BY <1>0, <3>2, <4>1 DEF Answers
      <3> QED
        BY <3>3, <3>4
    <2>4. CASE CppSetup
      <3>1. tao.pc \in {"idle", "monitor"} /\ UNCHANGED <<tao, code, result>>
        BY <2>4 DEF CppSetup, SetBounds, SetVariableScale, SetMonitor, ClientRuns, taoVars
      <3>2. UNCHANGED phase
        BY <2>4
           DEF CppSetup, SetBounds, SetVariableScale, SetMonitor, SetTerm, SetInitialState,
               OtherSolve, evalVars, solverVars
      <3> QED
        BY <1>0, <3>1, <3>2, AnswersBetween
    <2>5. CASE CppAsks \/ CppTakes
      <3>1. tao.pc = "idle" /\ UNCHANGED <<tao, code, result>>
        BY <2>5 DEF CppAsks, CppTakes, taoVars
      <3> QED
        BY <1>0, <2>0, <3>1 DEF Answers
    <2>6. CASE Evaluate /\ UNCHANGED taoVars
      BY <1>0, <2>6, EvaluateRuns, AnswersEvaluation DEF taoVars
    <2> QED
      BY <1>2, <2>1, <2>2, <2>3, <2>4, <2>5, <2>6 DEF CppNext
  <1>3. CASE PyNext
    <2>0. client = "tao_solve"
      BY <1>3 DEF PyNext
    <2>1. CASE TaoSteps /\ UNCHANGED interrupted
      BY <1>0, <2>0, <2>1, TaoStepsAnswer
    <2>2. CASE PyStart
      <3>1. tao.pc = "idle" /\ code = "none" /\ UNCHANGED <<phase, result>>
        BY <2>2 DEF PyStart, evalVars, solverVars
      <3>2. phase = "idle"
        BY <2>0, <3>1 DEF Answers
      <3>3. PICK b \in Boxes, p \in Starts :
              IF BoundsValid(b) THEN tao' = NewTao(b, TRUE, p) /\ UNCHANGED code ELSE UNCHANGED tao
        BY <2>2 DEF PyStart
      <3>4. CASE BoundsValid(b)
        BY <1>0, <3>1, <3>2, <3>3, <3>4, StartAnswers
      <3>5. CASE ~BoundsValid(b)
        <4>1. UNCHANGED tao
          BY <3>3, <3>5
        <4> QED
          BY <1>0, <3>1, <3>2, <4>1 DEF Answers
      <3> QED
        BY <3>4, <3>5
    <2>3. CASE PyEvaluates
      BY <1>0, <2>3, EvaluateRuns, AnswersEvaluation DEF PyEvaluates, taoVars
    <2>4. CASE PyObserves \/ PyReturns
      <3>1. tao.pc \in {"idle", "monitor"} /\ UNCHANGED <<tao, phase, code, result>>
        BY <2>4 DEF PyObserves, PyReturns, evalVars, solverVars, taoVars
      <3> QED
        BY <1>0, <3>1, AnswersBetween
    <2> QED
      BY <1>3, <2>1, <2>2, <2>3, <2>4 DEF PyNext
  <1> QED
    BY <1>1, <1>2, <1>3 DEF Next

(* taoSolve, whose objective nobody changes: its result stays.             *)
LEMMA ResultStays ==
  ASSUME UNCHANGED <<config, obj, result>>
  PROVE  ExactAt(result) => ExactAt(result)'
  BY DEF ExactAt, ReducedValue, ReducedGrad, StateAt, Sensitivity

(* The evaluation of one program, whose result stays.                      *)
LEMMA OutStays ==
  ASSUME UNCHANGED <<config, obj, prm, out>>
  PROVE  out.val = ReducedValue(prm) /\ out.grad = ReducedGrad(prm)
           => (out.val = ReducedValue(prm) /\ out.grad = ReducedGrad(prm))'
  BY DEF ReducedValue, ReducedGrad, StateAt, Sensitivity

(* Steps that leave the result of tao_solve as it is.                      *)
LEMMA SolvedLeftAlone ==
  ASSUME TaoSolved, UNCHANGED <<client, phase, interrupted, config, obj, prm, out, code, answer, result>>
  PROVE  TaoSolved'
  BY ResultStays, OutStays DEF TaoSolved

(* The other programs have no such result.                                 *)
LEMMA NotTaoSolve ==
  ASSUME TaoSolved, client # "tao_solve", UNCHANGED <<client, answer>>
  PROVE  TaoSolved'
  BY DEF TaoSolved

(* A step while TAO runs, or before, with nothing evaluated afterwards.    *)
LEMMA NothingSolved ==
  ASSUME TaoSolved, client = "tao_solve", code = "none", UNCHANGED <<client, answer>>,
         phase' # "done", code' # "success" \/ interrupted'
  PROVE  TaoSolved'
  <1>1. answer = "none"
    BY DEF TaoSolved
  <1> QED
    BY <1>1 DEF TaoSolved

(* tao_solve evaluates once more at the point TAO ends at.                 *)
LEMMA EndsSolved ==
  ASSUME EvaluationIInv, Answers, TaoSolved, client = "tao_solve", UNCHANGED <<client, answer, interrupted>>, Ends
  PROVE  TaoSolved'
  <1>1. /\ tao.pc = "ends" /\ phase' = "idle" /\ code = "none" /\ phase \in {"done", "threw"}
        /\ UNCHANGED <<config, obj>>
    BY DEF Ends, Returned, Answers
  <1>2. CASE phase # "done" \/ interrupted
    <2>1. code' # "success" \/ interrupted'
      BY <1>1, <1>2 DEF Ends
    <2> QED
      BY <1>1, <2>1, NothingSolved
  <1>3. CASE phase = "done" /\ ~interrupted
    <2>1. result' = [result EXCEPT !.value = out.val, !.grad = out.grad] /\ code' = "success"
      BY <1>3 DEF Ends
    <2>2. result'.prm = ask.prm /\ result'.value = out.val /\ result'.grad = out.grad
      BY <1>1, <2>1 DEF Answers, NoResult
    <2>3. out.val = ReducedValue(ask.prm) /\ out.grad = ReducedGrad(ask.prm)
      BY <1>1, <1>3, ExactAnswer
    <2>4. PICK p : p = ask.prm
      OBVIOUS
    <2>5. UNCHANGED <<ReducedValue(p), ReducedGrad(p)>>
      BY <1>1, SameFunctional
    <2>6. ExactAt(result)'
      BY <1>1, <2>2, <2>3, <2>4, <2>5 DEF ExactAt, ReducedValue, ReducedGrad, StateAt, Sensitivity
    <2>7. answer = "none"
      BY <1>1 DEF TaoSolved
    <2> QED
      BY <1>1, <2>1, <2>6, <2>7 DEF TaoSolved
  <1> QED
    BY <1>2, <1>3

(* The steps of TAO under tao_solve.                                       *)
LEMMA TaoStepsSolved ==
  ASSUME EvaluationIInv, Answers, TaoSolved, client = "tao_solve", UNCHANGED <<client, answer, interrupted>>, TaoSteps
  PROVE  TaoSolved'
  <1>1. CASE FormValueGrad \/ FinalEvaluation
    <2>1. tao.pc # "idle" /\ phase' = "solve" /\ UNCHANGED code
      BY <1>1 DEF FormValueGrad, FinalEvaluation, Ask
    <2>2. code = "none"
      BY <2>1 DEF Answers
    <2> QED
      BY <2>1, <2>2, NothingSolved
  <1>2. CASE Answered
    <2>1. tao.pc # "idle" /\ phase' = "idle" /\ code' \in {code, "library"}
      BY <1>2 DEF Answered, Returned, Fails
    <2>2. code = "none"
      BY <2>1 DEF Answers
    <2> QED
      BY <2>1, <2>2, NothingSolved
  <1>3. CASE MonitorCallback \/ MonitorReturns \/ Iterates
    <2>1. tao.pc \in {"tells", "monitor", "iterates"} /\ UNCHANGED phase /\ code' \in {code, "library"}
      BY <1>3 DEF MonitorCallback, MonitorReturns, Iterates, Fails, evalVars, solverVars
    <2>2. code = "none" /\ phase = "idle"
      BY <2>1 DEF Answers
    <2> QED
      BY <2>1, <2>2, NothingSolved
  <1>4. CASE Ends
    BY <1>4, EndsSolved
  <1> QED
    BY <1>1, <1>2, <1>3, <1>4 DEF TaoSteps

(* The evaluations of tao_solve.                                           *)
LEMMA PyEvaluatesSolved ==
  ASSUME EvaluationIInv, Answers, TaoSolved, client = "tao_solve", UNCHANGED client, PyEvaluates
  PROVE  TaoSolved'
  <1>1. phase = "solve" /\ UNCHANGED <<config, obj, prm, tao, code, result, answer>>
    BY DEF PyEvaluates, taoVars
  <1>2. tao.pc \in {"waits", "ends"}
    BY <1>1 DEF Answers
  <1>3. code = "none" /\ answer = "none"
    BY <1>2 DEF Answers, TaoSolved
  <1>4. ASSUME phase' = "done", ~interrupted' PROVE (out.val = ReducedValue(prm) /\ out.grad = ReducedGrad(prm))'
    <2>1. out' = [val |-> ReducedValue(prm), grad |-> ReducedGrad(prm)]
      BY <1>4 DEF PyEvaluates, Throws
    <2> QED
      BY <1>1, <2>1 DEF ReducedValue, ReducedGrad, StateAt, Sensitivity
  <1> QED
    BY <1>1, <1>3, <1>4 DEF TaoSolved

(* Every step keeps the result of tao_solve exact.                         *)
LEMMA TaoSolvedNext ==
  ASSUME EvaluationIInv, Answers, TaoSolved, [Next]_vars
  PROVE  TaoSolved'
  <1>0. UNCHANGED client
    BY ClientStays
  <1>1. CASE UNCHANGED vars \/ ProblemClient
    BY <1>0, <1>1, SolvedLeftAlone
       DEF vars, ProblemClient, evalVars, solverVars, functionalVars, taoVars, driverVars
  <1>2. CASE CppNext
    BY <1>0, <1>2, NotTaoSolve DEF CppNext
  <1>3. CASE PyNext
    <2>0. client = "tao_solve"
      BY <1>3 DEF PyNext
    <2>1. CASE TaoSteps /\ UNCHANGED <<interrupted, answer>>
      BY <1>0, <2>0, <2>1, TaoStepsSolved
    <2>2. CASE PyStart
      <3>1. tao.pc = "idle" /\ code = "none" /\ code' \in {"none", "argument"} /\ UNCHANGED <<phase, answer>>
        BY <2>2 DEF PyStart, evalVars, solverVars
      <3>2. phase = "idle"
        BY <2>0, <3>1 DEF Answers
      <3> QED
        BY <1>0, <2>0, <3>1, <3>2, NothingSolved
    <2>3. CASE PyEvaluates
      BY <1>0, <2>0, <2>3, PyEvaluatesSolved
    <2>4. CASE PyObserves
      <3>1. tao.pc = "monitor" /\ UNCHANGED <<phase, code, answer>> /\ interrupted'
        BY <2>4 DEF PyObserves, evalVars, solverVars, taoVars
      <3>2. code = "none" /\ phase = "idle"
        BY <3>1 DEF Answers
      <3> QED
        BY <1>0, <2>0, <3>1, <3>2, NothingSolved
    <2>5. CASE PyReturns
      <3>1. /\ code # "none" /\ answer = "none" /\ answer' = PyAnswer
            /\ UNCHANGED <<phase, interrupted, config, obj, prm, out, code, result>>
        BY <2>5 DEF PyReturns, evalVars, solverVars, functionalVars, taoVars
      <3>2. answer' = "result" => ExactAt(result)
        BY <2>0, <3>1 DEF PyAnswer, TaoSolved
      <3> QED
        BY <1>0, <2>0, <3>1, <3>2, ResultStays, OutStays DEF TaoSolved
    <2> QED
      BY <1>3, <2>1, <2>2, <2>3, <2>4, <2>5 DEF PyNext
  <1> QED
    BY <1>1, <1>2, <1>3 DEF Next

(* The invariant of results holds at first.                                *)
LEMMA ResultInit == Init => ResultIInv
  <1> SUFFICES ASSUME Init PROVE ResultIInv
    OBVIOUS
  <1>1. EvaluationIInv
    BY EvaluationInit
  <1>2. phase = "idle" /\ tao.pc = "idle" /\ result = NoResult /\ code = "none" /\ answer = "none"
    BY DEF Init, FunctionalInit, TaoInit, IdleTao
  <1> QED
    BY <1>1, <1>2 DEF ResultIInv, Answers, TaoSolved

(* Every step keeps the invariant of results.                              *)
LEMMA ResultNext == ResultIInv /\ [Next]_vars => ResultIInv'
  BY EvaluationNext, AnswersNext, TaoSolvedNext DEF ResultIInv

(* What TAO was told is exact at the point it was told of, in the          *)
(* coordinates of its scale, and so is what tao_solve evaluates at the     *)
(* end: the strengthened invariant of results holds.                       *)
THEOREM ResultInvariant == Spec => []ResultIInv
  BY ResultInit, ResultNext, PTL DEF Spec

-----------------------------------------------------------------------------
(* The step at which solve reports success, and what it leaves.            *)
OfOnePoint ==
  /\ (client = "cpp" /\ tao.pc = "ends" /\ code' = "success" /\ Exact) \/ answer' = "result"
       => result'.value = ReducedValue(result'.prm) /\ result'.grad = ReducedGrad(result'.prm)
  /\ (tao.pc = "tells" /\ tao'.pc = "monitor" /\ scale = begun.scale /\ ~interrupted /\ Exact)
       => seen'.value = ReducedValue(seen'.prm) /\ seen'.grad = ReducedGrad(seen'.prm)

(* TaoOptimizer::solve reports success with the parameters, the value and  *)
(* the gradient of one point.                                              *)
LEMMA SuccessOfCpp ==
  ASSUME ResultIInv, [Next]_vars, client = "cpp", tao.pc = "ends", code' = "success", Exact
  PROVE  result'.value = ReducedValue(result'.prm) /\ result'.grad = ReducedGrad(result'.prm)
  <1>1. code = "none" /\ result.prm = ask.prm /\ DOMAIN result = DOMAIN NoResult
    BY DEF ResultIInv, Answers
  <1>2. Ends
    <2>1. code' # code
      BY <1>1
    <2>2. CppNext
      BY <2>1 DEF Next, vars, taoVars, PyNext, ProblemClient
    <2>3. ~CppSetup /\ ~CppSolve /\ ~CppAsks /\ ~CppTakes
      BY 
         DEF CppSetup, CppSolve, Start, CppAsks, CppTakes, SetBounds, SetVariableScale,
             SetMonitor, ClientRuns
    <2>4. TaoSteps
      BY <2>1, <2>2, <2>3 DEF CppNext, MonitorThrows, taoVars
    <2> QED
      BY <2>4
         DEF TaoSteps, FormValueGrad, Answered, MonitorCallback, MonitorReturns, Iterates,
             FinalEvaluation
  <1>3. phase = "done" /\ result' = [result EXCEPT !.value = out.val, !.grad = out.grad]
    BY <1>2 DEF Ends
  <1>4. result'.prm = ask.prm /\ result'.value = out.val /\ result'.grad = out.grad
    BY <1>1, <1>3 DEF NoResult
  <1>5. out.val = ReducedValue(ask.prm) /\ out.grad = ReducedGrad(ask.prm)
    BY <1>3, ExactAnswer DEF ResultIInv, Exact
  <1> QED
    BY <1>4, <1>5

(* tao_solve returns the parameters, the value and the gradient of one     *)
(* point.                                                                  *)
LEMMA ResultOfPython ==
  ASSUME ResultIInv, [Next]_vars, answer' = "result"
  PROVE  result'.value = ReducedValue(result'.prm) /\ result'.grad = ReducedGrad(result'.prm)
  <1>1. TaoSolved'
    BY ResultNext DEF ResultIInv
  <1>2. client' = "tao_solve" /\ ExactAt(result)'
    BY <1>1 DEF TaoSolved
  <1>3. client = "tao_solve"
    BY <1>2, ClientStays
  <1>4. UNCHANGED <<config, obj>>
    <2>1. CASE PyNext
      <3>1. CASE TaoSteps
        BY <3>1
           DEF TaoSteps, FormValueGrad, Answered, MonitorCallback, MonitorReturns, Iterates,
               FinalEvaluation, Ends, Ask, evalVars, solverVars, functionalVars
      <3> QED
        BY <2>1, <3>1
           DEF PyNext, PyStart, PyEvaluates, PyObserves, PyReturns, evalVars, solverVars,
               functionalVars
    <2> QED
      BY <1>3, <2>1 DEF Next, vars, CppNext, ProblemClient, evalVars, solverVars, functionalVars
  <1>5. PICK p : p = result'.prm
    OBVIOUS
  <1>6. UNCHANGED <<ReducedValue(p), ReducedGrad(p)>>
    BY <1>4, SameFunctional
  <1>7. result'.value = ReducedValue(p)' /\ result'.grad = ReducedGrad(p)'
    BY <1>2, <1>5 DEF ExactAt, ReducedValue, ReducedGrad, StateAt, Sensitivity
  <1> QED
    BY <1>5, <1>6, <1>7

(* A monitor sees the parameters, the value and the gradient of one point. *)
LEMMA ToldOfMonitor ==
  ASSUME ResultIInv, [Next]_vars, tao.pc = "tells", tao'.pc = "monitor", scale = begun.scale, ~interrupted, Exact
  PROVE  seen'.value = ReducedValue(seen'.prm) /\ seen'.grad = ReducedGrad(seen'.prm)
  <1>0. DOMAIN tao = DOMAIN IdleTao
    BY DEF ResultIInv, EvaluationIInv, BoundsIInv, Settings
  <1>1. MonitorCallback
    <2>1. tao' # tao
      OBVIOUS
    <2>2. TaoSteps
      BY <2>1 DEF Next, vars, taoVars, CppNext, PyNext, ProblemClient, CppSetup, CppSolve, Start, CppAsks, CppTakes,
         SetBounds, SetVariableScale, SetMonitor, MonitorThrows, PyStart, PyEvaluates, PyObserves, PyReturns
    <2> QED
      BY <2>2
         DEF TaoSteps, FormValueGrad, Answered, MonitorReturns, Iterates, FinalEvaluation, Ends
  <1>2. seen' = [prm |-> ToPhysical(scale, tao.at), value |-> tao.value, grad |-> ToPhysicalGrad(scale, tao.grad)]
    BY <1>0, <1>1 DEF MonitorCallback, IdleTao
  <1> DEFINE p == ToPhysical(scale, tao.at)
  <1>3. tao.value = ReducedValue(p) /\ tao.grad = ToOptimizerGrad(scale, ReducedGrad(p))
    BY DEF ResultIInv, Answers, Told, Exact
  <1>4. scale \in Scales /\ Positive(scale)
    BY DEF ResultIInv, EvaluationIInv, BoundsIInv, Settings, Underway
  <1>5. tao.at \in Pairs
    BY DEF ResultIInv, EvaluationIInv, TaoNumbers
  <1>6. p \in Pairs
    BY <1>4, <1>5, PhysicalPair
  <1> HIDE DEF p
  <1>7. ReducedGrad(p) \in Pairs
    BY <1>6, ReducedGradIsPair DEF ResultIInv, EvaluationIInv
  <1>8. ToPhysicalGrad(scale, tao.grad) = ReducedGrad(p)
    BY <1>3, <1>4, <1>7, GradientComesBack
  <1> QED
    BY <1>2, <1>3, <1>8 DEF p

(* Every step leaves a result, if any, that is of one point.               *)
LEMMA StepOfOnePoint ==
  ASSUME ResultIInv, [Next]_vars
  PROVE  OfOnePoint
  BY SuccessOfCpp, ResultOfPython, ToldOfMonitor DEF OfOnePoint

(* A minimisation that reports success leaves parameters with the value    *)
(* and the gradient of exactly these parameters, and a monitor is shown no *)
(* others. (TaoOptimizer::solve, tao_solve, monitor.)                      *)
THEOREM ResultOfOnePointAlways == Spec => ResultOfOnePoint
  <1>1. ResultIInv /\ [Next]_vars => [OfOnePoint]_vars
    BY StepOfOnePoint
  <1> QED
    BY <1>1, ResultInvariant, PTL DEF Spec, ResultOfOnePoint, OfOnePoint
=============================================================================
