--------------------- MODULE TimeReducedFunctionalProofs ---------------------
(***************************************************************************)
(* For every number of steps and of history slots: the invariants of       *)
(* TimeReducedFunctional.  The integrator keeps its own invariant under    *)
(* every step of the functional; the rest is about the adjoint sweep.      *)
(***************************************************************************)
EXTENDS TimeReducedFunctional, TimeIntegratorProofs

USE DEF Lags, Levels, Steps

-----------------------------------------------------------------------------
(* The block of a lag, and no two lags share one.                          *)
LEMMA BlockOfLag ==
  ASSUME head \in Lags, NEW l \in Lags
  PROVE  /\ Block(l) = IF head + l < NumHist THEN head + l ELSE head + l - NumHist
         /\ Block(l) \in Lags
         /\ \A k \in Lags : Block(k) = Block(l) => k = l
  <1>1. ASSUME NEW k \in Lags
        PROVE  Block(k) = IF head + k < NumHist THEN head + k ELSE head + k - NumHist
    <2>1. head + k \in 0 .. 2 * NumHist - 1 /\ NumHist \in Nat \ {0}
      BY HistAssumption
    <2> QED
      BY <2>1 DEF Block
  <1> QED
    BY <1>1, HistAssumption

(* When the head moves on, the block of a lag is that of the next lag      *)
(* before; the last one is the block that was taken.                       *)
LEMMA BlockTurned ==
  ASSUME head \in Lags, head' = Turned, NEW l \in Lags
  PROVE  /\ head' \in Lags
         /\ Block(l)' = IF l + 1 < NumHist THEN Block(l + 1) ELSE Block(0)
  <1>1. /\ head + 1 \in 0 .. 2 * NumHist - 1 /\ NumHist \in Nat \ {0}
        /\ 0 \in Lags /\ (l + 1 < NumHist => l + 1 \in Lags)
    BY HistAssumption
  <1>2. head' = IF head + 1 < NumHist THEN head + 1 ELSE 0
    BY <1>1 DEF Turned
  <1>3. head' \in Lags /\ head' + l \in 0 .. 2 * NumHist - 1
    BY <1>1, <1>2
  <1>4. Block(l)' = IF head' + l < NumHist THEN head' + l ELSE head' + l - NumHist
    BY <1>1, <1>3 DEF Block
  <1> QED
    BY <1>1, <1>2, <1>4, BlockOfLag

-----------------------------------------------------------------------------
(* A sum of terms that has none of them twice.                             *)
LEMMA PlusNew ==
  ASSUME NEW a, NEW b, a \cap b = {}
  PROVE  Plus(a, b) = a \cup b
  BY DEF Plus

(* What is owed, term by term.                                             *)
LEMMA OwedTerm ==
  ASSUME NEW s, NEW n, NEW level, NEW t
  PROVE  t \in Owed(s, n, level) <=>
           \E r \in Steps, l \in Lags :
             /\ t = HistTerm(r, l)
             /\ HistLevel(r, l) = level
             /\ r > s \/ (r = s /\ l < n)
  <1> DEFINE Done(w) == w[1] > s \/ (w[1] = s /\ w[2] < n)
             P == {w \in Steps \X Lags : HistLevel(w[1], w[2]) = level /\ Done(w)}
  <1>1. t \in Owed(s, n, level) <=> \E u \in P : t = HistTerm(u[1], u[2])
    BY DEF Owed
  <1>2. ASSUME NEW u \in P, t = HistTerm(u[1], u[2])
        PROVE  \E r \in Steps, l \in Lags :
                 t = HistTerm(r, l) /\ HistLevel(r, l) = level /\ (r > s \/ (r = s /\ l < n))
    BY <1>2
  <1>3. ASSUME NEW r \in Steps, NEW l \in Lags,
               t = HistTerm(r, l), HistLevel(r, l) = level, r > s \/ (r = s /\ l < n)
        PROVE  \E u \in P : t = HistTerm(u[1], u[2])
    <2>1. <<r, l>> \in P
      BY <1>3
    <2> QED
      BY <1>3, <2>1
  <1> QED
    BY <1>1, <1>2, <1>3

(* One more lag of a step: its term is new, and is owed to its level.      *)
LEMMA OwedNextLag ==
  ASSUME NEW s \in Steps, NEW n \in Lags, NEW level
  PROVE  /\ HistTerm(s, n) \notin Owed(s, n, level)
         /\ Owed(s, n + 1, level) =
              Owed(s, n, level) \cup (IF HistLevel(s, n) = level THEN {HistTerm(s, n)} ELSE {})
  <1>1. HistTerm(s, n) \notin Owed(s, n, level)
    BY OwedTerm, StepsAssumption, HistAssumption DEF HistTerm
  <1>2. ASSUME NEW t
        PROVE  t \in Owed(s, n + 1, level) <=>
                 t \in Owed(s, n, level) \/ (HistLevel(s, n) = level /\ t = HistTerm(s, n))
    BY OwedTerm, StepsAssumption, HistAssumption
  <1> QED
    BY <1>1, <1>2

(* A step is done when its last lag is.                                    *)
LEMMA OwedWholeStep ==
  ASSUME NEW s \in Int, NEW level
  PROVE  Owed(s, NumHist, level) = Owed(s - 1, 0, level)
  <1>1. ASSUME NEW t
        PROVE  t \in Owed(s, NumHist, level) <=> t \in Owed(s - 1, 0, level)
    BY OwedTerm, StepsAssumption, HistAssumption
  <1> QED
    BY <1>1

(* Before the sweep nothing is owed.                                       *)
LEMMA OwedAtFirst ==
  ASSUME NEW n, NEW level
  PROVE  Owed(NumSteps, n, level) = {}
  BY OwedTerm, StepsAssumption

(* The steps after s owe level s + 1 all it will ever be owed, ...         *)
LEMMA OwedAll ==
  ASSUME NEW s \in Steps
  PROVE  Owed(s, 0, s + 1) = Owed(0, NumHist, s + 1)
  <1>1. ASSUME NEW t
        PROVE  t \in Owed(s, 0, s + 1) <=> t \in Owed(0, NumHist, s + 1)
    BY OwedTerm, StepsAssumption, HistAssumption DEF HistLevel
  <1> QED
    BY <1>1

(* ... and nothing to the level that no lag of theirs reaches.             *)
LEMMA OwedOutOfReach ==
  ASSUME NEW s \in Steps, s + 1 > NumHist
  PROVE  Owed(s, 0, s + 1 - NumHist) = {}
  BY OwedTerm, StepsAssumption, HistAssumption DEF HistLevel

-----------------------------------------------------------------------------
(* Every step of the functional is a step of the integrator, or none.      *)
LEMMA ForwardCall ==
  ASSUME RfIInv, phase = "forward-begin"
  PROVE  [prm |-> h_prm, traj |-> RfTraj, observed |-> request.progress] \in Calls
  BY RfTrajAssumption, RequestsAssumption DEF RfIInv, Running, Calls

(* What the functional does to its integrator is a step of the integrator, *)
(* or nothing.                                                             *)
LEMMA IntegratorStep ==
  ASSUME RfIInv, [RfNext]_allVars
  PROVE  [Next]_vars
  <1>1. CASE ClientAsks \/ OtherSolve
    BY <1>1, OtherCallsAssumption DEF ClientAsks, OtherSolve, Next
  <1>2. CASE Forward
    BY <1>2, ForwardCall DEF Forward, Next
  <1>3. CASE ForwardStep \/ ForwardThrows
    BY <1>3 DEF ForwardStep, ForwardThrows, ObserverStops, Next
  <1>4. CASE \E r \in Requests : Begin(r)
    BY <1>4 DEF Begin
  <1>5. CASE ForwardEnd \/ NextRound \/ TakeCarry \/ Assemble \/ SolveT
    BY <1>5 DEF ForwardEnd, NextRound, TakeCarry, Assemble, SolveT
  <1>6. CASE ApplyLag \/ ApplyParam \/ Finish \/ Return \/ AdjointThrows
    BY <1>6 DEF ApplyLag, ApplyParam, Finish, Return, AdjointThrows
  <1>7. CASE UNCHANGED allVars
    BY <1>7 DEF allVars
  <1> QED
    BY <1>1, <1>2, <1>3, <1>4, <1>5, <1>6, <1>7 DEF RfNext

(* So the integrator's invariant is kept by every step of the functional.  *)
LEMMA IntegratorIInv ==
  ASSUME RfIInv, [RfNext]_allVars
  PROVE  IInv'
  BY IntegratorStep, NextIInv DEF RfIInv

(* Once the forward solve is over, the trajectory is all of its march.     *)
LEMMA TrajectoryOfMarch ==
  ASSUME RfIInv, phase \notin {"idle", "forward-begin", "forward"}
  PROVE  /\ march \in Marches /\ march.prm = h_prm /\ h_prm = request.prm
         /\ march = [prm |-> h_prm, init |-> march.init]
         /\ \A k \in Levels : traj[RfTraj][k] = Level(march, k)
         /\ MarchOf(RfTraj, h_prm) = march
  <1>1. /\ march \in Marches /\ march.prm = h_prm /\ h_prm = request.prm
        /\ call.traj = RfTraj /\ step = NumSteps
    BY DEF RfIInv, Running
  <1>2. march = [prm |-> h_prm, init |-> march.init]
    BY <1>1 DEF Marches
  <1>3. \A k \in Levels : traj[RfTraj][k] = Level(march, k)
    BY <1>1, RfTrajAssumption, TrajAssumption DEF RfIInv, IInv, StoredLevels
  <1>4. traj[RfTraj][0].init = march.init
    <2>1. 0 \in Levels
      BY StepsAssumption
    <2>2. traj[RfTraj][0] = Level(march, 0)
      BY <1>3, <2>1
    <2>3. Level(march, 0).init = march.init
      BY DEF Level
    <2> QED
      BY <2>2, <2>3
  <1> QED
    BY <1>1, <1>2, <1>3, <1>4 DEF MarchOf

(* The invariant says that value and adjoint belong to this request's      *)
(* march.                                                                  *)
THEOREM RfIInvSweep == RfIInv => SweepOfThisMarch
  BY TrajectoryOfMarch DEF SweepOfThisMarch

(* The invariant says what every adjoint solve is given, in terms of the   *)
(* products that are still in the ring.                                    *)
THEOREM RfIInvAdjoint == RfIInv => AdjointEquation
  BY DEF RfIInv, StepLoaded, AdjointEquation

-----------------------------------------------------------------------------
(* Between requests only the types are left to keep.                       *)
LEMMA IdleIInv ==
  ASSUME IInv', RfTypeOK', GradientComplete', phase' = "idle"
  PROVE  RfIInv'
  BY DEF RfIInv, Running, StepInRange, RingHolds, SumsSoFar, StepLoaded, Adjoint, Sweeping

(* The clients' calls leave everything of the request as it is.            *)
LEMMA FrameIInv ==
  ASSUME RfIInv, IInv', UNCHANGED rfVars, UNCHANGED <<pc, call, step, march>>
  PROVE  RfIInv'
  <1> USE DEF RfIInv, rfVars, sums
  <1>1. RfTypeOK' /\ Running' /\ StepInRange' /\ GradientComplete'
    BY DEF RfTypeOK, Running, StepInRange, GradientComplete
  <1>2. RingHolds' /\ SumsSoFar'
    BY DEF RingHolds, SumsSoFar, Sweeping, Applied, NextLevelToSolve, FirstStepDone, Block
  <1>3. StepLoaded'
    BY DEF StepLoaded, AtStep
  <1> QED
    BY <1>1, <1>2, <1>3

(* Other users of the integrator do not touch what a request keeps.        *)
LEMMA ClientIInvRf ==
  ASSUME RfIInv, IInv', ClientAsks \/ OtherSolve \/ UNCHANGED allVars
  PROVE  RfIInv'
  <1>1. CASE ClientAsks \/ UNCHANGED allVars
    BY <1>1, FrameIInv DEF ClientAsks, SetInitialState, ClearInitialState, allVars, vars
  <1>2. CASE OtherSolve
    <2>1. phase' = "idle" /\ UNCHANGED rfVars
      BY <1>2 DEF OtherSolve, rfVars
    <2>2. RfTypeOK' /\ GradientComplete'
      BY <2>1 DEF RfIInv, RfTypeOK, GradientComplete, rfVars, sums
    <2> QED
      BY <2>1, <2>2, IdleIInv
  <1> QED
    BY <1>1, <1>2

(* A request that throws or returns leaves nothing the next one relies on. *)
LEMMA LeaveRfIInv ==
  ASSUME RfIInv, IInv', ForwardThrows \/ Return \/ AdjointThrows
  PROVE  RfIInv'
  <1>1. /\ phase' = "idle" /\ request' = NoRequest /\ a_step' = 0 /\ lag' = 0
        /\ UNCHANGED <<h_prm, a_hist, a_nxt, x, sums, out, val>>
    BY DEF ForwardThrows, Return, AdjointThrows, LeaveRf
  <1>2. RfTypeOK' /\ GradientComplete'
    BY <1>1, StepsAssumption, HistAssumption
    DEF RfIInv, RfTypeOK, Phases, GradientComplete, sums
  <1> QED
    BY <1>1, <1>2, IdleIInv

(* A request starts without a value and without a gradient.                *)
LEMMA BeginIInv ==
  ASSUME RfIInv, IInv', NEW r \in Requests, Begin(r)
  PROVE  RfIInv'
  <1>1. /\ phase' = "forward-begin" /\ pc' = "idle" /\ request' = r /\ h_prm' = r.prm
        /\ out' = {} /\ val' = NoMarch
        /\ UNCHANGED <<a_step, lag, a_hist, a_nxt, x, sums>>
    BY DEF Begin, CopiedPrm, vars
  <1>2. RfTypeOK' /\ GradientComplete'
    BY <1>1, RequestsAssumption DEF RfIInv, RfTypeOK, Phases, GradientComplete, sums
  <1>3. Running'
    BY <1>1 DEF Running
  <1> QED
    BY <1>1, <1>2, <1>3
    DEF RfIInv, StepInRange, RingHolds, SumsSoFar, StepLoaded, Adjoint, Sweeping

(* The forward solve ends with all its levels in the trajectory.           *)
LEMMA ForwardIInv ==
  ASSUME RfIInv, IInv', Forward \/ ForwardStep
  PROVE  RfIInv'
  <1>1. /\ phase \in {"forward-begin", "forward"} /\ ForwardReached
        /\ UNCHANGED <<request, h_prm, a_step, lag, a_hist, a_nxt, x, sums, out, val>>
        /\ request \in Requests /\ h_prm = request.prm
    BY DEF Forward, ForwardStep, RfIInv, Running
  <1>2. /\ phase' = IF pc' = "idle" THEN "forward-end" ELSE "forward"
        /\ phase' \notin Adjoint \cup {"finish", "idle", "forward-begin"}
    BY <1>1 DEF ForwardReached, Adjoint
  <1>3. call' = [prm |-> h_prm, traj |-> RfTraj, observed |-> request.progress]
    BY DEF Forward, ForwardStep, Solve, SolveStep, ObserverReturns, RfIInv, Running
  <1>4. march' \in Marches /\ march'.prm = h_prm
    <2>1. CASE Forward
      <3>1. march' = [prm |-> h_prm, init |-> asked] /\ h_prm \in Params
        BY <1>1, <2>1, RequestsAssumption DEF Forward, Solve
      <3> QED
        BY <3>1 DEF Marches, RfIInv, IInv, TypeOK
    <2>2. CASE ForwardStep
      <3>1. march' = march /\ pc # "idle" /\ call.prm = h_prm
        BY <2>2 DEF ForwardStep, SolveStep, ObserverReturns, RfIInv, Running
      <3> QED
        BY <3>1 DEF RfIInv, IInv, Control, HistoryWindow
    <2> QED
      BY <2>1, <2>2
  <1>5. pc' = "idle" => step' = NumSteps
    <2>1. CASE Forward
      BY <2>1, StepsAssumption DEF Forward, Solve, Reached
    <2>2. CASE ForwardStep
      <3>1. step \in Levels /\ step' \in Levels
        BY DEF RfIInv, IInv, TypeOK
      <3> QED
        BY <2>2, <3>1, StepsAssumption
        DEF ForwardStep, SolveStep, ObserverReturns, ObserverStops, Reached, Leave
    <2> QED
      BY <2>1, <2>2
  <1>6. RfTypeOK' /\ GradientComplete'
    BY <1>1, <1>2 DEF RfIInv, RfTypeOK, Phases, GradientComplete, sums
  <1>7. Running'
    BY <1>1, <1>2, <1>3, <1>4, <1>5 DEF Running
  <1> QED
    BY <1>2, <1>6, <1>7
    DEF RfIInv, StepInRange, RingHolds, SumsSoFar, StepLoaded, Sweeping, Adjoint

-----------------------------------------------------------------------------
(* The steps of the adjoint sweep.  Control, the trajectory and the march  *)
(* stay as the forward solve left them.                                    *)
LEMMA SweepFrame ==
  ASSUME RfIInv, UNCHANGED <<vars, request, h_prm>>,
         phase \notin {"idle", "forward-begin", "forward"},
         phase' \notin {"idle", "forward-begin", "forward"}
  PROVE  Running'
  BY DEF RfIInv, Running, vars

(* The trajectory the adjoint starts from is that of the march that has    *)
(* just ended.                                                             *)
LEMMA ForwardEndIInv ==
  ASSUME RfIInv, IInv', ForwardEnd
  PROVE  RfIInv'
  <1> USE DEF ForwardEnd
  <1>1. val' \in Marches \cup {NoMarch}
    BY TrajectoryOfMarch
  <1>2. GradientComplete'
    BY DEF RfIInv, GradientComplete
  <1>3. CASE request.what = "value"
    <2>1. RfTypeOK'
      BY <1>1, <1>3, StepsAssumption, HistAssumption DEF RfIInv, RfTypeOK, Phases, LeaveRf
    <2> QED
      BY <1>2, <1>3, <2>1, IdleIInv DEF LeaveRf
  <1>4. CASE request.what # "value"
    <2>1. /\ phase' = "adjoint-begin" /\ a_step' = NumSteps
          /\ grad' = {ParamGrad} /\ init_grad' = {StateGrad(0)}
          /\ carry' = FreshRing /\ head' = 0
          /\ UNCHANGED <<vars, request, h_prm, lag, a_hist, a_nxt, rhs, x, calls, out>>
      BY <1>4
    <2>2. RfTypeOK'
      <3>1. NumSteps \in Levels /\ 0 \in Lags
        BY StepsAssumption, HistAssumption
      <3>2. ParamGrad \in Terms /\ StateGrad(0) \in Terms
        BY DEF ParamGrad, StateGrad, Terms
      <3> QED
        BY <1>1, <2>1, <3>1, <3>2 DEF RfIInv, RfTypeOK, Phases, Adjoint, FreshRing
    <2>3. Running'
      BY <2>1, SweepFrame
    <2>4. StepInRange' /\ StepLoaded'
      BY <2>1 DEF StepInRange, StepLoaded
    <2>5. RingHolds'
      <3> SUFFICES ASSUME NEW l \in Lags
                   PROVE  carry'[Block(l)'] = {}
        BY <2>1, OwedAtFirst DEF RingHolds, Applied, NextLevelToSolve
      <3>1. head' \in Lags /\ Block(l)' = l % NumHist /\ l % NumHist = l
        BY <2>1, HistAssumption DEF Block
      <3> QED
        BY <2>1, <3>1 DEF FreshRing
    <2>6. SumsSoFar'
      <3>1. Owed(NumSteps, NumHist, 0) = {} /\ NumSteps .. NumSteps - 1 = {}
        BY OwedAtFirst, StepsAssumption
      <3>2. Applied' = NumHist /\ FirstStepDone' = NumSteps
        BY <2>1 DEF Applied, FirstStepDone
      <3>3. {ParamTerm(s) : s \in NumSteps .. NumSteps - 1} = {}
        BY <3>1
      <3> QED
        BY <2>1, <3>1, <3>2, <3>3 DEF SumsSoFar
    <2> QED
      BY <1>2, <2>2, <2>3, <2>4, <2>5, <2>6 DEF RfIInv
  <1> QED
    BY <1>3, <1>4

(* The loop test moves on to the next step: what the last one did is what  *)
(* is owed before it.                                                      *)
LEMMA NextRoundIInv ==
  ASSUME RfIInv, IInv', NextRound
  PROVE  RfIInv'
  <1> USE DEF NextRound
  <1>1. /\ phase \in {"adjoint-begin", "sweep"} /\ a_step \in Levels
        /\ UNCHANGED <<vars, request, h_prm, lag, a_hist, a_nxt, x, sums, calls, out, val>>
        /\ UNCHANGED <<rhs, carry, head, init_grad, grad>>
    BY DEF RfIInv, RfTypeOK, sums
  <1>2. CASE a_step > 0
    <2>1. phase' = "adjoint-step" /\ a_step' = a_step - 1
      BY <1>2
    <2>2. \A level : Owed(a_step, NumHist, level) = Owed(a_step - 1, 0, level)
      BY <1>1, OwedWholeStep, StepsAssumption
    <2>3. RfTypeOK' /\ GradientComplete' /\ StepInRange' /\ StepLoaded'
      BY <1>1, <1>2, <2>1, StepsAssumption
      DEF RfIInv, RfTypeOK, Phases, Adjoint, GradientComplete, StepInRange, StepLoaded
    <2>4. Running'
      BY <1>1, <2>1, SweepFrame
    <2>5. RingHolds'
      BY <1>1, <2>1, <2>2 DEF RfIInv, RingHolds, Adjoint, Applied, NextLevelToSolve, Block
    <2>6. SumsSoFar'
      BY <1>1, <2>1, <2>2 DEF RfIInv, SumsSoFar, Sweeping, Adjoint, Applied, FirstStepDone
    <2> QED
      BY <2>3, <2>4, <2>5, <2>6 DEF RfIInv
  <1>3. CASE ~(a_step > 0)
    <2>1. phase' = "finish" /\ a_step' = a_step /\ a_step = 0
      BY <1>1, <1>3, StepsAssumption
    <2>2. RfTypeOK' /\ GradientComplete' /\ StepInRange' /\ StepLoaded'
      BY <1>1, <2>1
      DEF RfIInv, RfTypeOK, Phases, GradientComplete, StepInRange, StepLoaded
    <2>3. Running'
      BY <1>1, <2>1, SweepFrame
    <2>4. RingHolds'
      BY <2>1 DEF RingHolds, Adjoint
    <2>5. SumsSoFar'
      BY <1>1, <2>1 DEF RfIInv, SumsSoFar, Sweeping, Adjoint, Applied, FirstStepDone
    <2> QED
      BY <2>2, <2>3, <2>4, <2>5 DEF RfIInv
  <1> QED
    BY <1>2, <1>3

(* The right-hand side takes all that is owed to its level, and the block  *)
(* is free for the level that comes into reach.                            *)
LEMMA TakeCarryIInv ==
  ASSUME RfIInv, IInv', TakeCarry
  PROVE  RfIInv'
  <1> USE DEF TakeCarry
  <1>1. /\ phase = "adjoint-step" /\ phase' = "assemble"
        /\ a_step' = a_step /\ a_step \in Steps /\ head \in Lags
        /\ carry \in [Lags -> SUBSET Terms]
        /\ UNCHANGED <<vars, request, h_prm, lag, a_hist, a_nxt, x, init_grad, grad, calls, out, val>>
    BY StepsAssumption DEF RfIInv, RfTypeOK, StepInRange
  <1>2. 0 \in Lags
    BY HistAssumption
  <1>3. \A l \in Lags :
          carry[Block(l)] = IF a_step + 1 - l > 0 THEN Owed(a_step, 0, a_step + 1 - l) ELSE {}
    BY <1>1 DEF RfIInv, RingHolds, Adjoint, Applied, NextLevelToSolve
  <1>4. rhs' = TermsOf(a_step + 1)
    <2>1. carry[Block(0)] = Owed(a_step, 0, a_step + 1)
      BY <1>1, <1>2, <1>3, StepsAssumption
    <2>2. carry[Block(0)] = Owed(0, NumHist, a_step + 1)
      BY <1>1, <2>1, OwedAll
    <2>3. StateGrad(a_step + 1) \notin Owed(a_step, 0, a_step + 1)
      BY OwedTerm DEF StateGrad, HistTerm
    <2> QED
      BY <2>1, <2>2, <2>3, PlusNew DEF TermsOf
  <1>5. head' \in Lags /\ carry' \in [Lags -> SUBSET Terms] /\ rhs' \in SUBSET Terms
    <2>1. head' \in Lags
      BY <1>1, <1>2, BlockTurned
    <2>2. carry' \in [Lags -> SUBSET Terms]
      BY <1>1 DEF Taken
    <2>3. carry[Block(0)] \in SUBSET Terms
      BY <1>1, <1>2, BlockOfLag
    <2>4. StateGrad(a_step + 1) \in Terms /\ Wrong \in Terms
      BY <1>1, StepsAssumption DEF StateGrad, Wrong, Terms
    <2> QED
      BY <2>1, <2>2, <2>3, <2>4 DEF Plus
  <1>6. RfTypeOK' /\ GradientComplete' /\ StepInRange'
    BY <1>1, <1>5, StepsAssumption
    DEF RfIInv, RfTypeOK, Phases, Adjoint, GradientComplete, StepInRange
  <1>7. Running'
    BY <1>1, SweepFrame
  <1>8. StepLoaded'
    BY <1>1, <1>4 DEF StepLoaded
  <1>9. RingHolds'
    <2> SUFFICES ASSUME NEW l \in Lags
                 PROVE  carry'[Block(l)'] =
                          IF a_step - l > 0 THEN Owed(a_step, 0, a_step - l) ELSE {}
      BY <1>1 DEF RingHolds, Applied, NextLevelToSolve
    <2>1. l \in Int /\ a_step \in Int
      BY <1>1, HistAssumption, StepsAssumption
    <2>2. CASE l + 1 < NumHist
      <3>1. l + 1 \in Lags /\ Block(l)' = Block(l + 1)
        BY <1>1, <2>1, <2>2, BlockTurned, HistAssumption
      <3>2. Block(l + 1) # Block(0) /\ Block(l + 1) \in Lags
        BY <1>1, <1>2, <2>1, <3>1, BlockOfLag
      <3>3. carry'[Block(l)'] = carry[Block(l + 1)]
        BY <1>1, <3>1, <3>2 DEF Taken
      <3>4. a_step + 1 - (l + 1) = a_step - l
        BY <2>1
      <3> QED
        BY <1>3, <3>1, <3>3, <3>4
    <2>3. CASE ~(l + 1 < NumHist)
      <3>1. Block(l)' = Block(0) /\ Block(0) \in Lags
        BY <1>1, <1>2, <2>3, BlockTurned, BlockOfLag
      <3>2. carry'[Block(l)'] = {}
        BY <1>1, <3>1 DEF Taken
      <3>3. a_step - l = a_step + 1 - NumHist
        BY <2>1, <2>3, HistAssumption
      <3> QED
        BY <1>1, <2>1, <3>2, <3>3, OwedOutOfReach, HistAssumption
    <2> QED
      BY <2>2, <2>3
  <1>10. SumsSoFar'
    BY <1>1 DEF RfIInv, SumsSoFar, Sweeping, Adjoint, Applied, FirstStepDone
  <1> QED
    BY <1>6, <1>7, <1>8, <1>9, <1>10 DEF RfIInv

(* What is loaded is the step's own history and the level it led to.       *)
LEMMA AssembleIInv ==
  ASSUME RfIInv, IInv', Assemble
  PROVE  RfIInv'
  <1> USE DEF Assemble
  <1>1. /\ phase = "assemble" /\ phase' = "solveT"
        /\ a_step' = a_step /\ a_step \in Steps
        /\ UNCHANGED <<vars, request, h_prm, lag, out, val>>
        /\ UNCHANGED <<rhs, carry, head, init_grad, grad>>
    BY StepsAssumption DEF RfIInv, RfTypeOK, StepInRange, sums
  <1>2. a_step + 1 \in Levels /\ \A l \in Lags : HistLevel(a_step, l) \in Levels
    <2>1. a_step \in Levels
      BY <1>1, StepsAssumption
    <2>2. \A l \in Lags : HistLevel(a_step, l) \in 0 .. a_step
      BY <2>1, HistLevelType, HistAssumption
    <2> QED
      BY <1>1, <2>2, StepsAssumption
  <1>3. /\ march \in Marches /\ march = [prm |-> h_prm, init |-> march.init]
        /\ \A k \in Levels : traj[RfTraj][k] = Level(march, k)
    BY <1>1, TrajectoryOfMarch
  <1>4. a_hist' = Window(march, a_step) /\ a_nxt' = Level(march, a_step + 1)
    BY <1>2, <1>3 DEF Loaded, Window
  <1>5. a_hist' \in [Lags -> Vectors] /\ a_nxt' \in Vectors
    BY <1>1, <1>2, <1>3, <1>4, WindowType, LevelType, StepsAssumption
  <1>6. a_nxt'.init = march.init
    BY <1>4 DEF Level
  <1>7. AtStep(a_step)'
    BY <1>1, <1>3, <1>4, <1>6 DEF AtStep
  <1>8. RfTypeOK' /\ GradientComplete' /\ StepInRange'
    BY <1>1, <1>5 DEF RfIInv, RfTypeOK, Phases, Adjoint, GradientComplete, StepInRange, NoStep
  <1>9. Running'
    BY <1>1, SweepFrame
  <1>10. StepLoaded'
    BY <1>1, <1>7 DEF RfIInv, StepLoaded
  <1>11. RingHolds' /\ SumsSoFar'
    BY <1>1
    DEF RfIInv, RingHolds, SumsSoFar, Sweeping, Adjoint, Applied, NextLevelToSolve,
        FirstStepDone, Block
  <1> QED
    BY <1>8, <1>9, <1>10, <1>11 DEF RfIInv

(* solveT is given the terms of its level, all of them and no others.      *)
LEMMA SolveTIInv ==
  ASSUME RfIInv, IInv', SolveT
  PROVE  RfIInv'
  <1> USE DEF SolveT
  <1>1. /\ phase = "solveT" /\ phase' = "lags" /\ lag' = 0
        /\ a_step' = a_step /\ a_step \in Steps
        /\ UNCHANGED <<vars, request, h_prm, a_hist, a_nxt, out, val>>
        /\ UNCHANGED <<rhs, carry, head, init_grad, grad>>
    BY StepsAssumption DEF RfIInv, RfTypeOK, StepInRange, sums
  <1>2. x' = a_step /\ AtStep(a_step)
    BY <1>1 DEF RfIInv, StepLoaded
  <1>3. RfTypeOK' /\ GradientComplete' /\ StepInRange'
    BY <1>1, <1>2, HistAssumption
    DEF RfIInv, RfTypeOK, Phases, Adjoint, GradientComplete, StepInRange
  <1>4. Running'
    BY <1>1, SweepFrame
  <1>5. StepLoaded'
    BY <1>1, <1>2 DEF StepLoaded, AtStep
  <1>6. RingHolds' /\ SumsSoFar'
    BY <1>1
    DEF RfIInv, RingHolds, SumsSoFar, Sweeping, Adjoint, Applied, NextLevelToSolve,
        FirstStepDone, Block
  <1> QED
    BY <1>3, <1>4, <1>5, <1>6 DEF RfIInv

(* One lag: its term goes to the one place that is owed it.                *)
LEMMA ApplyLagIInv ==
  ASSUME RfIInv, IInv', ApplyLag
  PROVE  RfIInv'
  <1> DEFINE term == HistTerm(a_step, lag)
             target == HistLevel(a_step, lag)
  <1> USE DEF ApplyLag
  <1>1. /\ phase = "lags" /\ phase' = "lags" /\ lag \in Lags /\ lag' = lag + 1
        /\ a_step' = a_step /\ a_step \in Steps /\ head \in Lags
        /\ carry \in [Lags -> SUBSET Terms]
        /\ UNCHANGED <<vars, request, h_prm, a_hist, a_nxt, x, head, grad, calls, out, val>>
    BY StepsAssumption, HistAssumption DEF RfIInv, RfTypeOK, StepInRange
  <1>2. a_step \in Int /\ lag \in Int /\ NumHist \in Int /\ lag' \in 0 .. NumHist
    BY <1>1, StepsAssumption, HistAssumption
  <1>3. Product(term) = {term} /\ term \in Terms /\ Wrong \in Terms
    BY <1>1, <1>2 DEF RfIInv, StepLoaded, Product, HistTerm, Wrong, Terms
  <1>4. target = IF a_step - lag > 0 THEN a_step - lag ELSE 0
    BY <1>2 DEF HistLevel
  <1>5. \A level : /\ term \notin Owed(a_step, lag, level)
                   /\ Owed(a_step, lag + 1, level) =
                        Owed(a_step, lag, level) \cup (IF target = level THEN {term} ELSE {})
    BY <1>1, OwedNextLag
  <1>6. init_grad = {StateGrad(0)} \cup Owed(a_step, lag, 0)
    BY <1>1 DEF RfIInv, SumsSoFar, Sweeping, Adjoint, Applied
  <1>7. \A l \in Lags :
          carry[Block(l)] = IF a_step - l > 0 THEN Owed(a_step, lag, a_step - l) ELSE {}
    BY <1>1 DEF RfIInv, RingHolds, Adjoint, Applied, NextLevelToSolve
  <1>8. init_grad' = {StateGrad(0)} \cup Owed(a_step, lag + 1, 0)
    <2>1. CASE target = 0
      <3>1. init_grad' = Plus(init_grad, {term})
        BY <1>3, <2>1 DEF ReachesInitial
      <3>2. term \notin init_grad
        BY <1>5, <1>6 DEF StateGrad, HistTerm
      <3> QED
        BY <1>5, <1>6, <2>1, <3>1, <3>2, PlusNew
    <2>2. CASE target # 0
      BY <1>5, <1>6, <2>2 DEF ReachesInitial
    <2> QED
      BY <2>1, <2>2
  <1>9. ASSUME NEW l \in Lags
        PROVE  carry'[Block(l)] = IF a_step - l > 0 THEN Owed(a_step, lag + 1, a_step - l) ELSE {}
    <2>0. l \in Int
      BY HistAssumption
    <2>1. CASE target = 0
      <3>1. carry' = carry /\ (a_step - l > 0 => target # a_step - l)
        BY <1>2, <2>0, <2>1 DEF ReachesInitial
      <3> QED
        BY <1>5, <1>7, <3>1
    <2>2. CASE target # 0 /\ l = lag
      <3>1. carry' = [carry EXCEPT ![Block(lag)] = Plus(@, {term})] /\ Block(lag) \in Lags
        BY <1>1, <1>3, <2>2, BlockOfLag DEF ReachesInitial
      <3>2. carry'[Block(l)] = Plus(carry[Block(l)], {term})
        BY <1>1, <2>2, <3>1
      <3>3. a_step - l > 0 /\ target = a_step - l
        BY <1>2, <1>4, <2>2
      <3>4. carry[Block(l)] = Owed(a_step, lag, a_step - l)
        BY <1>7, <3>3
      <3> QED
        BY <1>5, <3>2, <3>3, <3>4, PlusNew
    <2>3. CASE target # 0 /\ l # lag
      <3>1. carry' = [carry EXCEPT ![Block(lag)] = Plus(@, {term})]
        BY <1>3, <2>3 DEF ReachesInitial
      <3>2. Block(l) # Block(lag) /\ Block(l) \in Lags
        BY <1>1, <2>3, BlockOfLag
      <3>3. carry'[Block(l)] = carry[Block(l)]
        BY <1>1, <3>1, <3>2
      <3>4. target # a_step - l
        BY <1>2, <1>4, <2>0, <2>3
      <3> QED
        BY <1>5, <1>7, <3>3, <3>4
    <2> QED
      BY <2>1, <2>2, <2>3
  <1>10. RfTypeOK' /\ GradientComplete' /\ StepInRange'
    <2>1. rhs' \in SUBSET Terms
      BY <1>3
    <2>2. init_grad' \in SUBSET Terms
      BY <1>3 DEF RfIInv, RfTypeOK, Plus
    <2>3. carry' \in [Lags -> SUBSET Terms]
      <3>1. \A S \in SUBSET Terms : Plus(S, {term}) \in SUBSET Terms
        BY <1>3 DEF Plus
      <3>2. carry' = carry \/ carry' = [carry EXCEPT ![Block(lag)] = Plus(carry[Block(lag)], {term})]
        BY <1>3
      <3>3. carry[Block(lag)] \in SUBSET Terms
        BY <1>1, BlockOfLag
      <3> QED
        BY <1>1, <3>1, <3>2, <3>3
    <2> QED
      BY <1>1, <1>2, <2>1, <2>2, <2>3
      DEF RfIInv, RfTypeOK, Phases, Adjoint, GradientComplete, StepInRange
  <1>11. Running'
    BY <1>1, SweepFrame
  <1>12. StepLoaded'
    BY <1>1 DEF RfIInv, StepLoaded, AtStep
  <1>13. RingHolds'
    BY <1>1, <1>9 DEF RingHolds, Applied, NextLevelToSolve, Block
  <1>14. SumsSoFar'
    BY <1>1, <1>8 DEF RfIInv, SumsSoFar, Sweeping, Adjoint, Applied, FirstStepDone
  <1> QED
    BY <1>10, <1>11, <1>12, <1>13, <1>14 DEF RfIInv

(* The parameter product is the last term of a step.                       *)
LEMMA ApplyParamIInv ==
  ASSUME RfIInv, IInv', ApplyParam
  PROVE  RfIInv'
  <1> DEFINE term == ParamTerm(a_step)
  <1> USE DEF ApplyParam
  <1>1. /\ phase = "lags" /\ phase' = "sweep" /\ lag = NumHist
        /\ a_step' = a_step /\ a_step \in Steps
        /\ UNCHANGED <<vars, request, h_prm, lag, a_hist, a_nxt, x, rhs, carry, head, init_grad,
                       calls, out, val>>
    BY StepsAssumption DEF RfIInv, RfTypeOK, StepInRange
  <1>2. Product(term) = {term} /\ term \in Terms /\ Wrong \in Terms
    BY <1>1, StepsAssumption DEF RfIInv, StepLoaded, Product, ParamTerm, Wrong, Terms
  <1>3. grad = {ParamGrad} \cup {ParamTerm(s) : s \in a_step + 1 .. NumSteps - 1}
    BY <1>1 DEF RfIInv, SumsSoFar, Sweeping, Adjoint, FirstStepDone
  <1>4. grad' = {ParamGrad} \cup {ParamTerm(s) : s \in a_step .. NumSteps - 1}
    <2>1. term \notin grad
      BY <1>1, <1>3, StepsAssumption DEF ParamTerm, ParamGrad
    <2>2. grad' = grad \cup {term}
      BY <1>2, <2>1, PlusNew
    <2>3. a_step .. NumSteps - 1 = {a_step} \cup (a_step + 1 .. NumSteps - 1)
      BY <1>1, StepsAssumption
    <2>4. {ParamTerm(s) : s \in a_step .. NumSteps - 1} =
            {term} \cup {ParamTerm(s) : s \in a_step + 1 .. NumSteps - 1}
      BY <2>3
    <2> QED
      BY <1>3, <2>2, <2>4
  <1>5. RfTypeOK' /\ GradientComplete' /\ StepInRange'
    <2>1. grad' \in SUBSET Terms
      BY <1>2 DEF RfIInv, RfTypeOK, Plus
    <2> QED
      BY <1>1, <2>1, StepsAssumption
      DEF RfIInv, RfTypeOK, Phases, Adjoint, GradientComplete, StepInRange
  <1>6. Running'
    BY <1>1, SweepFrame
  <1>7. StepLoaded'
    BY <1>1 DEF StepLoaded
  <1>8. RingHolds'
    BY <1>1 DEF RfIInv, RingHolds, Adjoint, Applied, NextLevelToSolve, Block
  <1>9. SumsSoFar'
    BY <1>1, <1>4 DEF RfIInv, SumsSoFar, Sweeping, Adjoint, Applied, FirstStepDone
  <1> QED
    BY <1>5, <1>6, <1>7, <1>8, <1>9 DEF RfIInv

(* What is handed out is the whole gradient.                               *)
LEMMA FinishIInv ==
  ASSUME RfIInv, IInv', Finish
  PROVE  RfIInv'
  <1> USE DEF Finish
  <1>1. /\ phase = "finish" /\ phase' = "adjoint-end" /\ a_step = 0
        /\ UNCHANGED <<vars, request, h_prm, a_step, lag, a_hist, a_nxt, rhs, x, carry, head,
                       init_grad, calls, val>>
    BY DEF RfIInv, StepInRange
  <1>2. init_grad = TermsOf(0)
    BY <1>1 DEF RfIInv, SumsSoFar, Sweeping, Applied, TermsOf
  <1>3. grad = {ParamGrad} \cup {ParamTerm(s) : s \in Steps}
    BY <1>1 DEF RfIInv, SumsSoFar, Sweeping, FirstStepDone
  <1>4. grad' = Gradient /\ out' = Gradient
    <2>1. StartTerm \notin grad
      BY <1>3 DEF StartTerm, ParamTerm, ParamGrad
    <2>2. Plus(grad, {StartTerm}) = Gradient
      BY <1>3, <2>1, PlusNew DEF Gradient
    <2> QED
      BY <1>2, <2>2
  <1>5. RfTypeOK'
    <2>1. StartTerm \in Terms
      BY DEF StartTerm, Terms
    <2>2. Gradient \in SUBSET Terms
      BY <1>3, <2>1 DEF RfIInv, RfTypeOK, Gradient
    <2> QED
      BY <1>1, <1>4, <2>2 DEF RfIInv, RfTypeOK, Phases
  <1>6. GradientComplete' /\ StepInRange' /\ StepLoaded' /\ RingHolds' /\ SumsSoFar'
    BY <1>1, <1>4
    DEF GradientComplete, StepInRange, StepLoaded, RingHolds, SumsSoFar, Sweeping, Adjoint
  <1>7. Running'
    BY <1>1, SweepFrame
  <1> QED
    BY <1>5, <1>6, <1>7 DEF RfIInv

-----------------------------------------------------------------------------
(* The invariant of the functional holds throughout, whatever the clients  *)
(* of the integrator do and wherever a request is left by an exception.    *)
THEOREM RfInitIInv == RfInit => RfIInv
  <1> SUFFICES ASSUME RfInit PROVE RfIInv
    OBVIOUS
  <1> USE DEF RfInit
  <1>1. IInv
    BY InitIInv
  <1>2. 0 \in Levels /\ 0 \in 0 .. NumHist /\ 0 \in Lags
    BY StepsAssumption, HistAssumption
  <1>3. Junk \in Vectors
    BY <1>2, LevelType DEF Junk
  <1>4. RfTypeOK
    BY <1>2, <1>3 DEF RfTypeOK, Phases
  <1> QED
    BY <1>1, <1>4
    DEF RfIInv, Running, StepInRange, RingHolds, SumsSoFar, StepLoaded, GradientComplete,
        Adjoint, Sweeping

(* No step of the functional, of its callbacks or of others breaks the     *)
(* invariant.                                                              *)
THEOREM RfNextIInv == RfIInv /\ [RfNext]_allVars => RfIInv'
  <1> SUFFICES ASSUME RfIInv, [RfNext]_allVars PROVE RfIInv'
    OBVIOUS
  <1>0. IInv'
    BY IntegratorIInv
  <1>1. CASE ClientAsks \/ OtherSolve \/ UNCHANGED allVars
    BY <1>0, <1>1, ClientIInvRf
  <1>2. CASE \E r \in Requests : Begin(r)
    BY <1>0, <1>2, BeginIInv
  <1>3. CASE Forward \/ ForwardStep
    BY <1>0, <1>3, ForwardIInv
  <1>4. CASE ForwardThrows \/ Return \/ AdjointThrows
    BY <1>0, <1>4, LeaveRfIInv
  <1>5. CASE ForwardEnd
    BY <1>0, <1>5, ForwardEndIInv
  <1>6. CASE NextRound
    BY <1>0, <1>6, NextRoundIInv
  <1>7. CASE TakeCarry
    BY <1>0, <1>7, TakeCarryIInv
  <1>8. CASE Assemble
    BY <1>0, <1>8, AssembleIInv
  <1>9. CASE SolveT
    BY <1>0, <1>9, SolveTIInv
  <1>10. CASE ApplyLag
    BY <1>0, <1>10, ApplyLagIInv
  <1>11. CASE ApplyParam
    BY <1>0, <1>11, ApplyParamIInv
  <1>12. CASE Finish
    BY <1>0, <1>12, FinishIInv
  <1> QED
    BY <1>1, <1>2, <1>3, <1>4, <1>5, <1>6, <1>7, <1>8, <1>9, <1>10, <1>11, <1>12 DEF RfNext

(* So the invariant holds at all times.                                    *)
THEOREM AlwaysRfIInv == RfSpec => []RfIInv
  BY RfInitIInv, RfNextIInv, PTL DEF RfSpec

(* The adjoint sweep runs over the march of its own request, for any       *)
(* number of steps and slots, whatever other clients of the integrator do. *)
THEOREM SweepOfThisMarchAlways == RfSpec => []SweepOfThisMarch
  BY AlwaysRfIInv, RfIInvSweep, PTL

(* Every step of every sweep solves its own adjoint equation: the ring of  *)
(* num_hist blocks gives each level exactly the products owed to it.       *)
THEOREM AdjointEquationAlways == RfSpec => []AdjointEquation
  BY AlwaysRfIInv, RfIInvAdjoint, PTL

(* A gradient handed out is complete, for any number of steps and slots.   *)
THEOREM GradientCompleteAlways == RfSpec => []GradientComplete
  BY AlwaysRfIInv, PTL DEF RfIInv

(* To the integrator the functional is one more client: every behaviour of *)
(* both is one of the integrator, and so an implementation of the march.   *)
THEOREM ClientOfIntegrator == RfSpec => Spec /\ Marching
  <1>1. RfInit => Init
    BY DEF RfInit
  <1>2. RfIInv /\ [RfNext]_allVars => [Next]_vars
    BY IntegratorStep
  <1>3. RfSpec => Spec
    BY <1>1, <1>2, AlwaysRfIInv, PTL DEF RfSpec, Spec
  <1> QED
    BY <1>3, Implements
=============================================================================
