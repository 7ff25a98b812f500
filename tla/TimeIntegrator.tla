---------------------------- MODULE TimeIntegrator ----------------------------
(***************************************************************************)
(* femx::state::TimeIntegrator: one implicit step after another, with the  *)
(* history shifted through num_hist slots, the levels copied to the        *)
(* caller's trajectory and shown to the caller's observer.  The observer   *)
(* runs between two actions and may change the initial state of the next   *)
(* solve; the residual, the linear solver and the observer may throw.      *)
(*                                                                         *)
(* asked and march are history variables: what the client wants and which  *)
(* march a solve is to compute.  No action reads them to decide anything.  *)
(***************************************************************************)
EXTENDS TimeLevels

VARIABLES
  has_init, init,      \* has_init_ and init_
  hist, nxt,           \* hist_ by lag, and nxt_
  obs_prev, obs_curr,  \* the observer's buffers when there is no trajectory
  pc, call, step,      \* where solveImpl is, its arguments, its loop counter
  seen,                \* the level and the views the observer is called with
  traj,                \* the contents of the callers' trajectories
  steps,               \* stats_.lin_solve_calls, equal to stats_.assm_calls
  ended,               \* how the last solve ended
  asked, march         \* history: see above

vars == <<has_init, init, hist, nxt, obs_prev, obs_curr, pc, call, step,
          seen, traj, steps, ended, asked, march>>

Calls == [prm : Params, traj : Trajs \cup {NoTraj}, observed : BOOLEAN]
NoCall == [prm |-> NoPrm, traj |-> NoTraj, observed |-> FALSE]
NoView == [level |-> 0, prev |-> Junk, curr |-> Junk]
Views == [level : Levels, prev : Vectors, curr : Vectors]

(* A state the client sets, as the vector init_ holds.                     *)
UserState(u) == Level([prm |-> NoPrm, init |-> u], 0)

(* TimeResidual::initialState of parameters p.                             *)
InitialState(p) == Level([prm |-> p, init |-> Mapped], 0)

(* Level 0 is not copied.  (Mutant.)                                       *)
StoreFromFirst(t, k, v) ==
  IF t = NoTraj \/ k = 0 THEN traj ELSE [traj EXCEPT ![t][k] = v]

(* The copy of level k to the caller's trajectory.                         *)
Store(t, k, v) ==
  IF t = NoTraj THEN traj ELSE [traj EXCEPT ![t][k] = v]

Init ==
  /\ has_init = FALSE
  /\ init = Junk
  /\ hist = [lag \in Lags |-> Junk]
  /\ nxt = Junk
  /\ obs_prev = Junk /\ obs_curr = Junk
  /\ pc = "idle" /\ call = NoCall /\ step = 0
  /\ seen = NoView
  /\ traj = [t \in Trajs |-> [k \in Levels |-> Junk]]
  /\ steps = 0
  /\ ended = "none"
  /\ asked = Mapped
  /\ march = NoMarch

(***************************************************************************)
(* Client calls, from outside or from the observer of a running solve.     *)
(***************************************************************************)
ClientRuns == pc \in {"idle", "observe"}

SetInitialState(u) ==
  /\ ClientRuns
  /\ init' = UserState(u)
  /\ has_init' = TRUE
  /\ asked' = u
  /\ UNCHANGED <<hist, nxt, obs_prev, obs_curr, pc, call, step, seen, traj, steps, ended, march>>

ClearInitialState ==
  /\ ClientRuns
  /\ has_init' = FALSE
  /\ asked' = Mapped
  /\ UNCHANGED <<init, hist, nxt, obs_prev, obs_curr, pc, call, step, seen, traj, steps, ended, march>>

(***************************************************************************)
(* solveImpl.                                                              *)
(***************************************************************************)
(* Control after level k is in place: the callback, the next round of the  *)
(* loop, or the return.                                                    *)
Reached(k, observed) ==
  /\ pc' = IF observed THEN "observe" ELSE IF k < NumSteps THEN "step" ELSE "idle"
  /\ ended' = IF observed \/ k < NumSteps THEN "none" ELSE "done"

(* solveImpl is left: its buffers for the observer are gone.               *)
Leave(how) ==
  /\ pc' = "idle"
  /\ ended' = how
  /\ seen' = NoView
  /\ obs_prev' = Junk /\ obs_curr' = Junk

(* The residual's initial state overwrites the client's.  (Mutant.)        *)
StartMapped(p) == InitialState(p)

(* An initial state evaluated once is kept for all parameters.  (Mutant.)  *)
StartCached(p) == IF has_init \/ init # Junk THEN init ELSE InitialState(p)

(* The start that initialize(prm) leaves in init_.                         *)
StartState(p) == IF has_init THEN init ELSE InitialState(p)

(* Entry, initialize and level 0.                                          *)
Solve(c) ==
  LET x0 == StartState(c.prm) IN
  /\ pc = "idle"
  /\ call' = c
  /\ steps' = 0
  /\ step' = 0
  /\ init' = x0
  /\ nxt' = x0
  /\ hist' = [lag \in Lags |-> x0]
  /\ traj' = Store(c.traj, 0, x0)
  /\ obs_prev' = IF c.observed /\ c.traj = NoTraj THEN x0 ELSE Junk
  /\ obs_curr' = Junk
  /\ seen' = IF c.observed THEN [level |-> 0, prev |-> x0, curr |-> x0] ELSE NoView
  /\ Reached(0, c.observed)
  /\ march' = [prm |-> c.prm, init |-> asked]
  /\ UNCHANGED <<has_init, asked>>

(* initialState throws, after it wrote part of init_ or before.            *)
SolveFails ==
  /\ pc = "idle"
  /\ ~has_init
  /\ steps' = 0
  /\ init' \in {init, Junk}
  /\ ended' = "threw"
  /\ UNCHANGED <<has_init, hist, nxt, obs_prev, obs_curr, pc, call, step, seen, traj, asked, march>>

(* The slots are copied in ascending order of the lag.  (Mutant.)          *)
ShiftedAscending(h, x) == [lag \in Lags |-> IF lag = 0 THEN x ELSE h[0]]

(* advanceHist: the slots move up one lag and x enters at lag 0.           *)
Shifted(h, x) == [lag \in Lags |-> IF lag = 0 THEN x ELSE h[lag - 1]]

(* One round of the loop: solveStep with advanceHist, the statistics, the  *)
(* copies to the trajectory and to the observer's buffer.                  *)
SolveStep ==
  LET x == NextLevel(step, hist, nxt, call.prm)
      buffered == call.observed /\ call.traj = NoTraj IN
  /\ pc = "step"
  /\ hist' = Shifted(hist, x)
  /\ nxt' = x
  /\ step' = step + 1
  /\ steps' = steps + 1
  /\ traj' = Store(call.traj, step + 1, x)
  /\ obs_curr' = IF buffered THEN x ELSE obs_curr
  /\ seen' = IF call.observed
             THEN [level |-> step + 1,
                   prev |-> IF buffered THEN obs_prev ELSE traj[call.traj][step],
                   curr |-> x]
             ELSE NoView
  /\ Reached(step + 1, call.observed)
  /\ UNCHANGED <<has_init, init, obs_prev, call, asked, march>>

(* The residual or the linear solver throws: the history has not moved.    *)
StepThrows ==
  /\ pc = "step"
  /\ Leave("threw")
  /\ UNCHANGED <<has_init, init, hist, nxt, call, step, traj, steps, asked, march>>

(* The observer's buffers never change places.  (Mutant.)                  *)
BuffersKept == FALSE

(* Without a trajectory the two buffers change places after a callback,    *)
(* except after that of level 0, which is already the earlier one.         *)
BuffersSwap == call.traj = NoTraj /\ step > 0

(* The callback returns and asks to stop or not.                           *)
ObserverReturns(stop) ==
  /\ pc = "observe"
  /\ \/ /\ stop
        /\ Leave("stopped")
     \/ /\ ~stop /\ step = NumSteps
        /\ Leave("done")
     \/ /\ ~stop /\ step < NumSteps
        /\ obs_prev' = IF BuffersSwap THEN obs_curr ELSE obs_prev
        /\ obs_curr' = IF BuffersSwap THEN obs_prev ELSE obs_curr
        /\ pc' = "step" /\ ended' = "none" /\ seen' = NoView
  /\ UNCHANGED <<has_init, init, hist, nxt, call, step, traj, steps, asked, march>>

ObserverThrows ==
  /\ pc = "observe"
  /\ Leave("threw")
  /\ UNCHANGED <<has_init, init, hist, nxt, call, step, traj, steps, asked, march>>

Next ==
  \/ \E u \in UserStates : SetInitialState(u)
  \/ ClearInitialState
  \/ \E c \in Calls : Solve(c)
  \/ SolveFails
  \/ SolveStep
  \/ StepThrows
  \/ \E stop \in BOOLEAN : ObserverReturns(stop)
  \/ ObserverThrows

Spec == Init /\ [][Next]_vars

-----------------------------------------------------------------------------
(* The types of the buffers, of control and of what clients hold.          *)
TypeOK ==
  /\ has_init \in BOOLEAN
  /\ init \in Vectors /\ nxt \in Vectors
  /\ hist \in [Lags -> Vectors]
  /\ obs_prev \in Vectors /\ obs_curr \in Vectors
  /\ pc \in {"idle", "step", "observe"}
  /\ call \in Calls \cup {NoCall}
  /\ step \in Levels
  /\ seen \in Views
  /\ traj \in [Trajs -> [Levels -> Vectors]]
  /\ steps \in Levels
  /\ ended \in {"none", "done", "stopped", "threw"}
  /\ asked \in UserStates \cup {Mapped}
  /\ march \in Marches \cup {NoMarch}

(* A state a client set survives every solve, every failure and every      *)
(* other call: init_ doubles as the buffer initialState fills.             *)
StartKept ==
  /\ has_init <=> asked # Mapped
  /\ has_init => init = UserState(asked)

(* While a solve runs, the residual of the next step sees the levels of    *)
(* this march and of no other, at the right lags, whatever was left in the *)
(* slots by an earlier solve that stopped or threw.                        *)
HistoryWindow ==
  pc # "idle" =>
    /\ march = [prm |-> call.prm, init |-> march.init]
    /\ nxt = Level(march, step)
    /\ hist = Window(march, step)

(* Every level up to the one reached is in the caller's trajectory, also   *)
(* after the solve has returned, stopped or thrown.                        *)
StoredLevels ==
  call.traj # NoTraj =>
    \A k \in 0 .. step : traj[call.traj][k] = Level(march, k)

(* The observer is shown the level reached and the level before it, from   *)
(* the trajectory or from the two buffers that change places.              *)
ObserverViews ==
  pc = "observe" =>
    /\ call.observed
    /\ seen.level = step
    /\ seen.curr = Level(march, step)
    /\ seen.prev = Level(march, HistLevel(step, 1))

(* The statistics count the steps that were completed, and only those.     *)
StepsCounted == pc # "idle" => steps = step

(* The buffers between callbacks: what makes ObserverViews inductive.      *)
ObserverBuffers ==
  call.observed /\ call.traj = NoTraj =>
    /\ pc = "step" => obs_prev = Level(march, step)
    /\ pc = "observe" /\ step = 0 => obs_prev = Level(march, 0)
    /\ pc = "observe" /\ step > 0 => obs_curr = Level(march, step)

(* Where the loop stands.                                                  *)
Control ==
  /\ pc # "idle" => call \in Calls /\ march \in Marches
  /\ pc = "step" => step < NumSteps
  /\ pc = "observe" => call.observed

IInv ==
  /\ TypeOK /\ Control /\ StartKept /\ HistoryWindow /\ StoredLevels
  /\ ObserverBuffers /\ ObserverViews /\ StepsCounted

(* The integrator is an implementation of the march.                       *)
TM == INSTANCE TimeMarch
Marching == TM!Spec
=============================================================================
