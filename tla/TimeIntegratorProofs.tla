------------------------- MODULE TimeIntegratorProofs -------------------------
(***************************************************************************)
(* For every number of steps and of history slots: the invariants of       *)
(* TimeIntegrator, and that it implements TimeMarch.                       *)
(***************************************************************************)
EXTENDS TimeIntegrator, TLAPS

USE DEF Lags, Levels

-----------------------------------------------------------------------------
(* The vectors of a march are vectors.                                     *)
LEMMA LevelType ==
  ASSUME NEW m \in Marches \cup {NoMarch}, NEW k \in Levels
  PROVE  Level(m, k) \in Vectors
  BY DEF Level, Vectors, Marches, NoMarch

(* Slots and guesses read back levels between 0 and the step.              *)
LEMMA HistLevelType ==
  ASSUME NEW s \in Levels, NEW lag \in Nat
  PROVE  HistLevel(s, lag) \in 0 .. s
  BY StepsAssumption DEF HistLevel

(* The history of a march is one vector for each slot.                     *)
LEMMA WindowType ==
  ASSUME NEW m \in Marches \cup {NoMarch}, NEW s \in Levels
  PROVE  Window(m, s) \in [Lags -> Vectors]
  <1>1. \A lag \in Lags : HistLevel(s, lag) \in Levels
    BY HistLevelType, StepsAssumption, HistAssumption
  <1> QED
    BY <1>1, LevelType DEF Window

(* A step that sees the right history and guess gives the next level.      *)
LEMMA NextLevelOfWindow ==
  ASSUME NEW m \in Marches, NEW s \in Levels
  PROVE  NextLevel(s, Window(m, s), Level(m, s), m.prm) = Level(m, s + 1)
  <1>1. m = [prm |-> m.prm, init |-> m.init]
    BY DEF Marches
  <1>2. Level(m, s).init = m.init
    BY DEF Level
  <1> QED
    BY <1>1, <1>2 DEF NextLevel

(* advanceHist moves the window of a step to the next step.                *)
LEMMA ShiftedWindow ==
  ASSUME NEW m \in Marches, NEW s \in Levels
  PROVE  Shifted(Window(m, s), Level(m, s + 1)) = Window(m, s + 1)
  <1> SUFFICES ASSUME NEW lag \in Lags
               PROVE  (IF lag = 0 THEN Level(m, s + 1) ELSE Window(m, s)[lag - 1])
                        = Level(m, HistLevel(s + 1, lag))
    BY DEF Shifted, Window
  <1>1. CASE lag = 0
    BY <1>1, StepsAssumption DEF HistLevel
  <1>2. CASE lag # 0
    <2>1. lag - 1 \in Lags /\ s \in Nat /\ lag \in Nat
      BY <1>2, StepsAssumption, HistAssumption
    <2>2. HistLevel(s + 1, lag) = HistLevel(s, lag - 1)
      BY <1>2, <2>1 DEF HistLevel
    <2> QED
      BY <1>2, <2>1, <2>2 DEF Window
  <1> QED
    BY <1>1, <1>2

(* initialize fills every slot with the start: the window of step 0.       *)
LEMMA FirstWindow ==
  ASSUME NEW m
  PROVE  [lag \in Lags |-> Level(m, 0)] = Window(m, 0)
  BY HistAssumption DEF Window, HistLevel

(* The start a solve takes is level 0 of the march the client asked for.   *)
LEMMA StartOfMarch ==
  ASSUME StartKept, asked \in UserStates \cup {Mapped}, NEW p \in Params
  PROVE  StartState(p) = Level([prm |-> p, init |-> asked], 0)
  BY MappedAssumption DEF StartKept, StartState, UserState, InitialState, Level

-----------------------------------------------------------------------------
(* The strengthened invariant holds throughout.                            *)
THEOREM InitIInv == Init => IInv
  <1> SUFFICES ASSUME Init PROVE IInv
    OBVIOUS
  <1> USE DEF Init
  <1>0. 0 \in Levels
    BY StepsAssumption
  <1>1. Junk \in Vectors
    BY <1>0, LevelType DEF Junk
  <1>2. TypeOK
    BY <1>0, <1>1 DEF TypeOK, NoView, Views
  <1>3. StoredLevels
    BY DEF StoredLevels, NoCall
  <1> QED
    BY <1>2, <1>3 DEF IInv, Control, StartKept, HistoryWindow, ObserverBuffers,
                      ObserverViews, StepsCounted, NoCall

(* A solve that begins puts the start of the asked march everywhere.       *)
LEMMA SolveIInv ==
  ASSUME IInv, NEW c \in Calls, Solve(c)
  PROVE  IInv'
  <1> DEFINE m == [prm |-> c.prm, init |-> asked]
             x0 == StartState(c.prm)
  <1> USE DEF IInv, Solve
  <1>1. m \in Marches /\ c.prm \in Params
    BY DEF TypeOK, Marches, Calls
  <1>2. x0 = Level(m, 0)
    BY <1>1, StartOfMarch DEF TypeOK
  <1>3. 0 \in Levels
    BY StepsAssumption
  <1>4. x0 \in Vectors /\ Junk \in Vectors
    BY <1>1, <1>2, <1>3, LevelType DEF Junk
  <1>5. march' = m /\ step' = 0 /\ steps' = 0 /\ call' = c
    BY DEF Solve
  <1>6. traj' \in [Trajs -> [Levels -> Vectors]]
    BY <1>4 DEF Store, TypeOK
  <1>7. TypeOK'
    <2>1. hist' \in [Lags -> Vectors] /\ init' \in Vectors /\ nxt' \in Vectors
      BY <1>4
    <2>2. obs_prev' \in Vectors /\ obs_curr' \in Vectors
      BY <1>4
    <2>3. seen' \in Views
      BY <1>3, <1>4 DEF Views, NoView
    <2>4. pc' \in {"idle", "step", "observe"} /\ ended' \in {"none", "done", "stopped", "threw"}
      BY DEF Reached
    <2> QED
      BY <1>1, <1>3, <1>5, <1>6, <2>1, <2>2, <2>3, <2>4 DEF TypeOK
  <1>8. Control'
    BY <1>1, <1>5 DEF Control, Reached
  <1>9. StartKept'
    BY DEF StartKept, StartState
  <1>10. HistoryWindow'
    <2>1. hist' = Window(m, 0)
      BY <1>2, FirstWindow
    <2>2. nxt' = Level(m, 0) /\ m = [prm |-> c.prm, init |-> m.init]
      BY <1>2
    <2>3. nxt' = Level(march', step') /\ hist' = Window(march', step')
            /\ march' = [prm |-> call'.prm, init |-> march'.init]
      BY <1>5, <2>1, <2>2
    <2> QED
      BY <2>3 DEF HistoryWindow
  <1>11. StoredLevels'
    <2> SUFFICES ASSUME c.traj # NoTraj
                 PROVE  traj'[c.traj][0] = Level(m, 0)
      BY <1>5 DEF StoredLevels
    <2>1. c.traj \in Trajs /\ traj \in [Trajs -> [Levels -> Vectors]]
      BY DEF Calls, TypeOK
    <2>2. traj' = [traj EXCEPT ![c.traj][0] = x0]
      BY DEF Store
    <2> QED
      BY <1>2, <1>3, <2>1, <2>2
  <1>12. ObserverBuffers' /\ ObserverViews' /\ StepsCounted'
    BY <1>2, <1>5 DEF ObserverBuffers, ObserverViews, StepsCounted, Reached, HistLevel
  <1> QED
    BY <1>7, <1>8, <1>9, <1>10, <1>11, <1>12

(* What one round of the loop computes and stores.                         *)
LEMMA StepResult ==
  ASSUME IInv, SolveStep
  PROVE  /\ march \in Marches
         /\ step + 1 \in Levels
         /\ nxt' = Level(march, step + 1)
         /\ Level(march, step + 1) \in Vectors
         /\ hist' = Window(march, step + 1)
         /\ traj' = Store(call.traj, step + 1, nxt')
         /\ march' = march /\ call' = call /\ step' = step + 1
  <1> USE DEF IInv, SolveStep
  <1>1. march \in Marches /\ march.prm = call.prm
    BY DEF Control, HistoryWindow, Marches
  <1>2. step \in Levels /\ step + 1 \in Levels
    BY StepsAssumption DEF TypeOK, Control
  <1>3. hist = Window(march, step) /\ nxt = Level(march, step)
    BY DEF HistoryWindow
  <1>4. NextLevel(step, hist, nxt, call.prm) = Level(march, step + 1)
    BY <1>1, <1>2, <1>3, NextLevelOfWindow
  <1>5. hist' = Window(march, step + 1)
    BY <1>1, <1>2, <1>3, <1>4, ShiftedWindow
  <1> QED
    BY <1>1, <1>2, <1>4, <1>5, LevelType

(* A step reads its window and shifts it by one level, and stores and      *)
(* shows the level it computed.                                            *)
LEMMA SolveStepIInv ==
  ASSUME IInv, SolveStep
  PROVE  IInv'
  <1> DEFINE x == Level(march, step + 1)
  <1> USE DEF IInv
  <1>1. /\ march \in Marches /\ step + 1 \in Levels /\ nxt' = x /\ x \in Vectors
        /\ hist' = Window(march, step + 1)
        /\ march' = march /\ call' = call /\ step' = step + 1
        /\ traj' = Store(call.traj, step + 1, x)
    BY StepResult
  <1>2. /\ pc = "step" /\ steps' = steps + 1 /\ step \in Levels
        /\ call \in Calls /\ call.observed \in BOOLEAN /\ steps = step
    BY DEF SolveStep, TypeOK, Control, Calls, StepsCounted
  <1>3. ASSUME call.traj # NoTraj
        PROVE  traj[call.traj][step] = Level(march, step)
    BY <1>2, <1>3, StepsAssumption DEF StoredLevels
  <1>4. ASSUME call.observed
        PROVE  seen' = [level |-> step + 1, prev |-> Level(march, step), curr |-> x]
    BY <1>1, <1>2, <1>3, <1>4 DEF SolveStep, ObserverBuffers
  <1>5. traj' \in [Trajs -> [Levels -> Vectors]]
    BY <1>1 DEF Store, TypeOK
  <1>6. TypeOK'
    <2>1. hist' \in [Lags -> Vectors]
      BY <1>1, WindowType
    <2>2. Level(march, step) \in Vectors /\ 0 \in Levels
      BY <1>1, <1>2, LevelType, StepsAssumption
    <2>3. Junk \in Vectors
      BY <2>2, LevelType DEF Junk
    <2>4. seen' \in Views
      BY <1>1, <1>2, <1>4, <2>2, <2>3 DEF SolveStep, Views, NoView
    <2>5. obs_prev' \in Vectors /\ obs_curr' \in Vectors
      BY <1>1 DEF SolveStep, TypeOK
    <2>6. pc' \in {"idle", "step", "observe"} /\ ended' \in {"none", "done", "stopped", "threw"}
      BY DEF SolveStep, Reached
    <2> QED
      BY <1>1, <1>2, <1>5, <2>1, <2>4, <2>5, <2>6 DEF TypeOK, SolveStep
  <1>7. Control'
    BY <1>1, <1>2 DEF Control, SolveStep, Reached
  <1>8. StartKept'
    BY DEF StartKept, SolveStep
  <1>9. HistoryWindow'
    BY <1>1, <1>2 DEF HistoryWindow
  <1>10. StoredLevels'
    <2> SUFFICES ASSUME call.traj # NoTraj, NEW k \in 0 .. step + 1
                 PROVE  traj'[call.traj][k] = Level(march, k)
      BY <1>1 DEF StoredLevels
    <2>1. call.traj \in Trajs /\ traj \in [Trajs -> [Levels -> Vectors]]
      BY <1>2 DEF Calls, TypeOK
    <2>2. traj' = [traj EXCEPT ![call.traj][step + 1] = x]
      BY <1>1 DEF Store
    <2>3. CASE k = step + 1
      BY <1>1, <2>1, <2>2, <2>3
    <2>4. CASE k # step + 1
      <3>1. k \in 0 .. step /\ k \in Levels
        BY <1>1, <1>2, <2>4, StepsAssumption
      <3>2. traj[call.traj][k] = Level(march, k)
        BY <3>1 DEF StoredLevels
      <3> QED
        BY <2>1, <2>2, <2>4, <3>1, <3>2
    <2> QED
      BY <2>3, <2>4
  <1>11. ObserverBuffers'
    BY <1>1, <1>2 DEF ObserverBuffers, SolveStep, Reached
  <1>12. ObserverViews'
    <2>1. HistLevel(step + 1, 1) = step
      BY <1>2, StepsAssumption DEF HistLevel
    <2> QED
      BY <1>1, <1>2, <1>4, <2>1 DEF ObserverViews, SolveStep, Reached
  <1>13. StepsCounted'
    BY <1>1, <1>2 DEF StepsCounted
  <1> QED
    BY <1>6, <1>7, <1>8, <1>9, <1>10, <1>11, <1>12, <1>13

(* The ways out of solveImpl: only the observer's buffers are lost.        *)
LEMMA LeaveIInv ==
  ASSUME IInv, NEW how \in {"done", "stopped", "threw"}, Leave(how),
         UNCHANGED <<has_init, init, hist, nxt, call, step, traj, steps, asked, march>>
  PROVE  IInv'
  <1>1. 0 \in Levels
    BY StepsAssumption
  <1>2. Junk \in Vectors
    BY <1>1, LevelType DEF Junk
  <1>3. TypeOK'
    BY <1>1, <1>2 DEF IInv, TypeOK, Leave, NoView, Views
  <1>4. StoredLevels'
    BY DEF IInv, StoredLevels
  <1> QED
    BY <1>3, <1>4 DEF IInv, Leave, Control, StartKept, HistoryWindow, ObserverBuffers,
                      ObserverViews, StepsCounted

(* An observer that returns, asking for a stop or not, leaves the two      *)
(* buffers of its step in the places the next step needs.                  *)
LEMMA ObserverReturnsIInv ==
  ASSUME IInv, NEW stop \in BOOLEAN, ObserverReturns(stop)
  PROVE  IInv'
  <1>1. CASE pc' = "idle"
    BY <1>1, LeaveIInv DEF ObserverReturns, Leave
  <1>2. CASE pc' # "idle"
    <2>1. /\ pc = "observe" /\ pc' = "step" /\ ended' = "none" /\ seen' = NoView
          /\ step \in Levels /\ step < NumSteps
          /\ UNCHANGED <<has_init, init, hist, nxt, call, step, traj, steps, asked, march>>
      BY <1>2 DEF ObserverReturns, Leave, IInv, TypeOK
    <2>2. Junk \in Vectors /\ NoView \in Views
      <3>1. 0 \in Levels
        BY StepsAssumption
      <3>2. Junk \in Vectors
        BY <3>1, LevelType DEF Junk
      <3> QED
        BY <3>1, <3>2 DEF NoView, Views
    <2>3. TypeOK'
      BY <2>1, <2>2, <1>2 DEF IInv, TypeOK, ObserverReturns, Leave, BuffersSwap
    <2>4. ObserverBuffers'
      BY <2>1, <1>2, StepsAssumption DEF IInv, ObserverBuffers, ObserverReturns, Leave, BuffersSwap
    <2>5. StoredLevels' /\ HistoryWindow'
      BY <2>1 DEF IInv, StoredLevels, HistoryWindow
    <2> QED
      BY <2>1, <2>3, <2>4, <2>5
      DEF IInv, Control, StartKept, ObserverViews, StepsCounted
  <1> QED
    BY <1>1, <1>2

(* Client calls touch the start of the next solve and nothing of this one. *)
LEMMA ClientIInv ==
  ASSUME IInv, (\E u \in UserStates : SetInitialState(u)) \/ ClearInitialState
  PROVE  IInv'
  <1>1. 0 \in Levels
    BY StepsAssumption
  <1>2. /\ UNCHANGED <<hist, nxt, obs_prev, obs_curr, pc, call, step, seen, traj, steps, ended, march>>
        /\ init' \in Vectors /\ has_init' \in BOOLEAN /\ asked' \in UserStates \cup {Mapped}
        /\ StartKept'
    <2>1. ASSUME NEW u \in UserStates, SetInitialState(u)
          PROVE  /\ UNCHANGED <<hist, nxt, obs_prev, obs_curr, pc, call, step, seen, traj, steps, ended, march>>
                 /\ init' \in Vectors /\ has_init' \in BOOLEAN /\ asked' \in UserStates \cup {Mapped}
                 /\ StartKept'
      BY <1>1, <2>1, MappedAssumption
      DEF SetInitialState, UserState, Vectors, Level, StartKept
    <2>2. CASE ClearInitialState
      BY <2>2 DEF IInv, TypeOK, ClearInitialState, StartKept
    <2> QED
      BY <2>1, <2>2
  <1>3. StoredLevels' /\ HistoryWindow'
    BY <1>2 DEF IInv, StoredLevels, HistoryWindow
  <1> QED
    BY <1>2, <1>3 DEF IInv, TypeOK, Control, ObserverBuffers, ObserverViews, StepsCounted

(* A solve that fails before its first step keeps what the client set.     *)
LEMMA SolveFailsIInv ==
  ASSUME IInv, SolveFails
  PROVE  IInv'
  <1>1. 0 \in Levels
    BY StepsAssumption
  <1>2. Junk \in Vectors
    BY <1>1, LevelType DEF Junk
  <1>3. TypeOK'
    BY <1>1, <1>2 DEF IInv, TypeOK, SolveFails
  <1>4. StoredLevels'
    BY DEF IInv, StoredLevels, SolveFails
  <1> QED
    BY <1>3, <1>4 DEF IInv, SolveFails, Control, StartKept, HistoryWindow, ObserverBuffers,
                      ObserverViews, StepsCounted

(* Every step preserves the strengthened invariant.                        *)
THEOREM NextIInv == IInv /\ [Next]_vars => IInv'
  <1> SUFFICES ASSUME IInv, [Next]_vars PROVE IInv'
    OBVIOUS
  <1>1. CASE \E c \in Calls : Solve(c)
    BY <1>1, SolveIInv
  <1>2. CASE SolveStep
    BY <1>2, SolveStepIInv
  <1>3. CASE StepThrows
    BY <1>3, LeaveIInv DEF StepThrows
  <1>4. CASE \E stop \in BOOLEAN : ObserverReturns(stop)
    BY <1>4, ObserverReturnsIInv
  <1>5. CASE ObserverThrows
    BY <1>5, LeaveIInv DEF ObserverThrows
  <1>6. CASE (\E u \in UserStates : SetInitialState(u)) \/ ClearInitialState
    BY <1>6, ClientIInv
  <1>7. CASE SolveFails
    BY <1>7, SolveFailsIInv
  <1>8. CASE UNCHANGED vars
    <2>1. StoredLevels' /\ HistoryWindow' /\ TypeOK'
      BY <1>8 DEF IInv, vars, StoredLevels, HistoryWindow, TypeOK
    <2> QED
      BY <1>8, <2>1 DEF IInv, vars, Control, StartKept, ObserverBuffers, ObserverViews, StepsCounted
  <1> QED
    BY <1>1, <1>2, <1>3, <1>4, <1>5, <1>6, <1>7, <1>8 DEF Next

(* The invariants of the run, for every instance.                          *)
THEOREM AlwaysIInv == Spec => []IInv
  BY InitIInv, NextIInv, PTL DEF Spec

(* Every solve reads the history of its own march, whatever an earlier one *)
(* that stopped or threw left in the slots of hist_.                       *)
THEOREM HistoryWindowAlways == Spec => []HistoryWindow
  BY AlwaysIInv, PTL DEF IInv

(* The march under way starts from the state that was asked for: nothing   *)
(* set while a call runs reaches it.                                       *)
THEOREM StartKeptAlways == Spec => []StartKept
  BY AlwaysIInv, PTL DEF IInv

(* A trajectory holds, level for level, the states of the march that       *)
(* filled it, also after a step or an observer threw.                      *)
THEOREM StoredLevelsAlways == Spec => []StoredLevels
  BY AlwaysIInv, PTL DEF IInv

(* An observer sees the two levels its step joins, whichever buffers hold  *)
(* them.                                                                   *)
THEOREM ObserverViewsAlways == Spec => []ObserverViews
  BY AlwaysIInv, PTL DEF IInv

(* The types of the state, from the same invariant.                        *)
THEOREM TypesAlways == Spec => []TypeOK
  BY AlwaysIInv, PTL DEF IInv

-----------------------------------------------------------------------------
(* Refinement: the buffers are hidden, the rest is the state of TimeMarch. *)
USE DEF TM!Levels

(* Both modules name vectors, calls and views in the same way.             *)
LEMMA SameVectors ==
  /\ \A m, k : TM!Level(m, k) = Level(m, k)
  /\ TM!Junk = Junk /\ TM!NoView = NoView
  /\ \A t, k, v : TM!Store(t, k, v) = Store(t, k, v)
  /\ TM!Calls = Calls /\ TM!NoMarch = NoMarch
  BY DEF TM!Level, Level, TM!Junk, Junk, TM!NoMarch, NoMarch, TM!NoView, NoView,
         TM!Store, Store, TM!Calls, Calls

(* A new integrator is an abstract march nobody has asked for.             *)
THEOREM InitRefines == Init => TM!Init
  BY SameVectors DEF Init, TM!Init, NoCall

(* solve starts the abstract march from the state the client asked for.    *)
LEMMA SolveRefines ==
  ASSUME IInv, NEW c \in Calls, Solve(c)
  PROVE  TM!Solve(c)
  <1>1. StartState(c.prm) = Level([prm |-> c.prm, init |-> asked], 0)
    BY StartOfMarch DEF IInv, TypeOK, Calls
  <1>2. Reached(0, c.observed) => TM!Reached(0, c.observed)
    BY DEF Reached, TM!Reached
  <1> QED
    BY <1>1, <1>2, SameVectors DEF Solve, TM!Solve

(* A step with the integrator's history is the step of the abstract march. *)
LEMMA StepRefines ==
  ASSUME IInv, SolveStep
  PROVE  TM!Step
  <1>1. seen' = IF call.observed
                THEN [level |-> step + 1,
                      prev |-> Level(march, step),
                      curr |-> Level(march, step + 1)]
                ELSE NoView
    <2>1. CASE call.observed
      <3>1. step \in Levels /\ step \in 0 .. step
        BY StepsAssumption DEF IInv, TypeOK
      <3>2. call.traj # NoTraj => traj[call.traj][step] = Level(march, step)
        BY <3>1 DEF IInv, StoredLevels
      <3>3. call.traj = NoTraj => obs_prev = Level(march, step)
        BY <2>1 DEF IInv, ObserverBuffers, SolveStep
      <3>4. nxt' = Level(march, step + 1)
        BY StepResult
      <3> QED
        BY <2>1, <3>2, <3>3, <3>4 DEF SolveStep
    <2>2. CASE ~call.observed
      BY <2>2 DEF SolveStep
    <2> QED
      BY <2>1, <2>2
  <1>2. /\ nxt' = Level(march, step + 1) /\ march' = march /\ call' = call
        /\ traj' = Store(call.traj, step + 1, nxt')
    BY StepResult
  <1>3. Reached(step + 1, call.observed) => TM!Reached(step + 1, call.observed)
    BY DEF Reached, TM!Reached
  <1>4. step < NumSteps
    BY DEF IInv, Control, SolveStep
  <1> QED
    BY <1>1, <1>2, <1>3, <1>4, SameVectors DEF SolveStep, TM!Step

(* The setters, failures and the return of an observer are those of the    *)
(* abstract march.                                                         *)
LEMMA OtherRefines ==
  ASSUME IInv
  PROVE  /\ \A u \in UserStates : SetInitialState(u) => TM!Ask(u)
         /\ ClearInitialState => TM!Ask(Mapped)
         /\ SolveFails => TM!SolveFails
         /\ StepThrows \/ ObserverThrows => TM!Throw
         /\ \A stop \in BOOLEAN : ObserverReturns(stop) => TM!ObserverReturns(stop)
  <1>1. \A u \in UserStates : SetInitialState(u) => TM!Ask(u)
    BY DEF SetInitialState, ClientRuns, TM!Ask, TM!ClientRuns
  <1>2. ClearInitialState => TM!Ask(Mapped)
    BY DEF ClearInitialState, ClientRuns, TM!Ask, TM!ClientRuns
  <1>3. SolveFails => TM!SolveFails
    BY DEF SolveFails, TM!SolveFails, IInv, StartKept
  <1>4. StepThrows \/ ObserverThrows => TM!Throw
    BY SameVectors DEF StepThrows, ObserverThrows, Leave, TM!Throw
  <1>5. ASSUME NEW stop \in BOOLEAN, ObserverReturns(stop)
        PROVE  TM!ObserverReturns(stop)
    <2>1. step \in Levels
      BY DEF IInv, TypeOK
    <2> QED
      BY <1>5, <2>1, SameVectors, StepsAssumption
      DEF ObserverReturns, Leave, TM!ObserverReturns
  <1> QED
    BY <1>1, <1>2, <1>3, <1>4, <1>5

(* Every step of the integrator is one of the abstract march, or changes   *)
(* nothing of it.                                                          *)
THEOREM NextRefines == IInv /\ [Next]_vars => [TM!Next]_(TM!vars)
  <1> SUFFICES ASSUME IInv, [Next]_vars PROVE TM!Next \/ UNCHANGED TM!vars
    OBVIOUS
  <1>1. CASE \E c \in Calls : Solve(c)
    BY <1>1, SolveRefines, SameVectors DEF TM!Next
  <1>2. CASE SolveStep
    BY <1>2, StepRefines DEF TM!Next
  <1>3. CASE UNCHANGED vars
    BY <1>3 DEF vars, TM!vars
  <1>4. ASSUME Next, ~(\E c \in Calls : Solve(c)), ~SolveStep
        PROVE  TM!Next
    BY <1>4, OtherRefines DEF Next, TM!Next
  <1> QED
    BY <1>1, <1>2, <1>3, <1>4

(* TimeIntegrator implements TimeMarch: clients see a march from the state *)
(* they asked for, level after level, and nothing of the buffers.          *)
THEOREM Implements == Spec => Marching
  BY InitRefines, NextRefines, AlwaysIInv, PTL DEF Spec, Marching, TM!Spec
=============================================================================
