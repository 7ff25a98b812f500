------------------------------ MODULE TimeMarch ------------------------------
(***************************************************************************)
(* What TimeIntegrator promises its clients, without its buffers: a solve  *)
(* marches from the state the client last asked for, shows the observer    *)
(* each level together with the one before it, stores every level it       *)
(* reaches in the caller's trajectory, and stops where the observer or an  *)
(* exception stops it.                                                     *)
(***************************************************************************)
EXTENDS TimeLevels

VARIABLES
  asked,    \* the initial state the client wants: a set one, or Mapped
  pc,       \* "idle", "step": between two callbacks, "observe": in a callback
  march,    \* the march under way, or of the last solve
  call,     \* how solve was called: its parameters and trajectory, if observed
  step,     \* the level reached
  seen,     \* what the observer is shown: a level and the vectors of it
  traj,     \* the contents of the callers' trajectories
  steps,    \* linear solves counted by the statistics of this solve
  ended     \* how the last solve ended

vars == <<asked, pc, march, call, step, seen, traj, steps, ended>>

Calls == [prm : Params, traj : Trajs \cup {NoTraj}, observed : BOOLEAN]
NoView == [level |-> 0, prev |-> Junk, curr |-> Junk]
Views == [level : Levels, prev : Vectors, curr : Vectors]

Store(t, k, v) ==
  IF t = NoTraj THEN traj ELSE [traj EXCEPT ![t][k] = v]

Init ==
  /\ asked = Mapped
  /\ pc = "idle"
  /\ march = NoMarch
  /\ call = [prm |-> NoPrm, traj |-> NoTraj, observed |-> FALSE]
  /\ step = 0
  /\ seen = NoView
  /\ traj = [t \in Trajs |-> [k \in Levels |-> Junk]]
  /\ steps = 0
  /\ ended = "none"

ClientRuns == pc \in {"idle", "observe"}

Ask(u) ==
  /\ ClientRuns
  /\ asked' = u
  /\ UNCHANGED <<pc, march, call, step, seen, traj, steps, ended>>

(* Where control goes once level k is in place.                            *)
Reached(k, observed) ==
  /\ pc' = IF observed THEN "observe" ELSE IF k < NumSteps THEN "step" ELSE "idle"
  /\ ended' = IF observed \/ k < NumSteps THEN "none" ELSE "done"

Solve(c) ==
  LET m == [prm |-> c.prm, init |-> asked] IN
  /\ pc = "idle"
  /\ march' = m
  /\ call' = c
  /\ step' = 0
  /\ steps' = 0
  /\ traj' = Store(c.traj, 0, Level(m, 0))
  /\ seen' = IF c.observed
             THEN [level |-> 0, prev |-> Level(m, 0), curr |-> Level(m, 0)]
             ELSE NoView
  /\ Reached(0, c.observed)
  /\ UNCHANGED asked

(* The initial state could not be evaluated.                               *)
SolveFails ==
  /\ pc = "idle"
  /\ asked = Mapped
  /\ steps' = 0
  /\ ended' = "threw"
  /\ UNCHANGED <<asked, pc, march, call, step, seen, traj>>

Step ==
  /\ pc = "step"
  /\ step < NumSteps
  /\ step' = step + 1
  /\ steps' = steps + 1
  /\ traj' = Store(call.traj, step + 1, Level(march, step + 1))
  /\ seen' = IF call.observed
             THEN [level |-> step + 1,
                   prev |-> Level(march, step),
                   curr |-> Level(march, step + 1)]
             ELSE NoView
  /\ Reached(step + 1, call.observed)
  /\ UNCHANGED <<asked, march, call>>

(* The observer returns, and asks to stop or not.                          *)
ObserverReturns(stop) ==
  /\ pc = "observe"
  /\ pc' = IF stop \/ step = NumSteps THEN "idle" ELSE "step"
  /\ ended' = IF stop THEN "stopped" ELSE IF step = NumSteps THEN "done" ELSE "none"
  /\ seen' = NoView
  /\ UNCHANGED <<asked, march, call, step, traj, steps>>

(* An exception of the step or of the observer ends the solve.             *)
Throw ==
  /\ pc # "idle"
  /\ pc' = "idle"
  /\ ended' = "threw"
  /\ seen' = NoView
  /\ UNCHANGED <<asked, march, call, step, traj, steps>>

Next ==
  \/ \E u \in UserStates \cup {Mapped} : Ask(u)
  \/ \E c \in Calls : Solve(c)
  \/ SolveFails
  \/ Step
  \/ \E stop \in BOOLEAN : ObserverReturns(stop)
  \/ Throw

Spec == Init /\ [][Next]_vars
=============================================================================
