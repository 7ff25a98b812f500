----------------------------- MODULE NavierSolve -----------------------------
(***************************************************************************)
(* femx::apps::navier::solve: the integrator with a Monitor as its         *)
(* observer, which keeps the result, decides convergence, and writes two   *)
(* time series, velocity and pressure.  A Monitor lives for one solve; the *)
(* integrator, the files and leaked HDF5 identifiers outlive it.           *)
(***************************************************************************)
EXTENDS TimeIntegrator, Sequences

CONSTANTS
  Interval,      \* field_interval_, 0 for no output
  MinSteps,      \* convergence_.min_steps, more than NumSteps when disabled
  NoMesh

ASSUME IntervalAssumption == Interval \in Nat /\ MinSteps \in Nat

VARIABLES
  at,            \* where solve is
  failed,        \* the solve ends, or has ended, with an exception
  final_step, final_state, converged,   \* res_
  last_field_step,
  write_failed,  \* history: a write of this solve has thrown
  vel_mesh, vel_steps, vel_pc, vel_next, vel_leaked, vel_h5, vel_xdmf, vel_promise,
  pre_mesh, pre_steps, pre_pc, pre_next, pre_leaked, pre_h5, pre_xdmf, pre_promise

monitor == <<final_step, final_state, converged, last_field_step>>
velVars == <<vel_mesh, vel_steps, vel_pc, vel_next, vel_leaked, vel_h5, vel_xdmf, vel_promise>>
preVars == <<pre_mesh, pre_steps, pre_pc, pre_next, pre_leaked, pre_h5, pre_xdmf, pre_promise>>
solveVars == <<at, failed, monitor, write_failed, velVars, preVars>>
allVars == <<vars, solveVars>>

Vel == INSTANCE TimeSeriesDataOut
  WITH Times <- 1 .. NumSteps, MaxSteps <- NumSteps + 1, MaxFields <- NumSteps + 1,
       Precise <- NumSteps + 1, Shapes <- {"Triangle"}, Names <- {"velocity", "pressure"},
       mesh <- vel_mesh, steps <- vel_steps,
       pc <- vel_pc, next <- vel_next, leaked <- vel_leaked, h5 <- vel_h5, xdmf <- vel_xdmf,
       promise <- vel_promise
Pre == INSTANCE TimeSeriesDataOut
  WITH Times <- 1 .. NumSteps, MaxSteps <- NumSteps + 1, MaxFields <- NumSteps + 1,
       Precise <- NumSteps + 1, Shapes <- {"Triangle"}, Names <- {"velocity", "pressure"},
       mesh <- pre_mesh, steps <- pre_steps,
       pc <- pre_pc, next <- pre_next, leaked <- pre_leaked, h5 <- pre_h5, xdmf <- pre_xdmf,
       promise <- pre_promise

(* One mesh, for which all fields are made.                                *)
TheMesh == [dim |-> 2, flat |-> TRUE, elems |-> <<"Triangle">>]
NodesOfMesh == Vel!NumNodes(TheMesh)

NavierInit ==
  /\ Init /\ Vel!Init /\ Pre!Init
  /\ at = "idle" /\ failed = FALSE /\ write_failed = FALSE
  /\ final_step = 0 /\ final_state = Junk /\ converged = FALSE /\ last_field_step = 0

Goes(where) == at' = where
Elsewhere == UNCHANGED <<monitor, write_failed, velVars, preVars>>

OutputEnabled == Interval > 0

ShouldWrite(level) ==
  Interval > 0 /\ (level % Interval = 0 \/ level = NumSteps)

(***************************************************************************)
(* solve: the Monitor is made and started, and the integrator is run.      *)
(***************************************************************************)

(* main sets the initial state once, before its first solve.               *)
SetState(u) ==
  /\ at = "idle" /\ ~has_init
  /\ SetInitialState(u)
  /\ UNCHANGED solveVars

Start ==
  /\ at = "idle" /\ has_init
  /\ Goes("start")
  /\ failed' = FALSE /\ write_failed' = FALSE
  /\ final_step' = 0 /\ final_state' = Junk /\ converged' = FALSE /\ last_field_step' = 0
  /\ vel_mesh' = TheMesh /\ vel_steps' = <<>>
  /\ pre_mesh' = TheMesh /\ pre_steps' = <<>>
  /\ UNCHANGED <<vars, vel_pc, vel_next, vel_leaked, vel_h5, vel_xdmf, vel_promise,
                 pre_pc, pre_next, pre_leaked, pre_h5, pre_xdmf, pre_promise>>

Integrate ==
  /\ at = "start"
  /\ \E p \in Params : Solve([prm |-> p, traj |-> NoTraj, observed |-> TRUE])
  /\ Goes("run")
  /\ UNCHANGED failed
  /\ Elsewhere

Advance ==
  /\ at = "run"
  /\ \/ SolveStep /\ UNCHANGED <<at, failed>>
     \/ /\ step = 0 /\ ObserverReturns(FALSE)
        /\ Goes(IF pc' = "idle" THEN "stop" ELSE "run")
        /\ UNCHANGED failed
     \/ /\ StepThrows
        /\ Goes("stop") /\ failed' = TRUE
  /\ Elsewhere

(***************************************************************************)
(* observeStep.                                                            *)
(***************************************************************************)
(* The state before the step is kept as the result.  (Mutant.)             *)
KeptEarlier == seen.prev

KeptState == seen.curr

Observe ==
  /\ at = "run" /\ pc = "observe" /\ step > 0
  /\ final_step' = seen.level
  /\ final_state' = KeptState
  /\ converged' \in IF seen.level >= MinSteps THEN BOOLEAN ELSE {FALSE}
  /\ Goes(IF ShouldWrite(seen.level) THEN "fields" ELSE "log")
  /\ UNCHANGED <<vars, failed, last_field_step, write_failed, velVars, preVars>>

(* The log line, and the return; an invalid CFL number throws.             *)
Log ==
  /\ at = "log"
  /\ \/ /\ ObserverReturns(converged)
        /\ Goes(IF pc' = "idle" THEN "stop" ELSE "run")
        /\ UNCHANGED failed
     \/ /\ ObserverThrows
        /\ Goes("stop") /\ failed' = TRUE
  /\ Elsewhere

(***************************************************************************)
(* writeFieldOutput, from observeStep or from stop.                        *)
(***************************************************************************)
InObserver == pc = "observe"

(* The pressure is not recorded.  (Mutant.)                                *)
StraightToFiles == "write-velocity"

AfterVelocity == "pressure"

Record ==
  /\ at \in {"fields", "field-data", "pressure", "pressure-data"}
  /\ \/ at = "fields" /\ Vel!BeginStep(final_step) /\ Goes("field-data") /\ UNCHANGED preVars
     \/ at = "field-data" /\ Vel!AddField("vector", "velocity", NodesOfMesh) /\ Goes(AfterVelocity) /\ UNCHANGED preVars
     \/ at = "pressure" /\ Pre!BeginStep(final_step) /\ Goes("pressure-data") /\ UNCHANGED velVars
     \/ at = "pressure-data" /\ Pre!AddField("scalar", "pressure", NodesOfMesh) /\ Goes("write-velocity") /\ UNCHANGED velVars
  /\ UNCHANGED <<vars, failed, monitor, write_failed>>

VelWrites == Vel!Write \/ Vel!CreateHdf5 \/ Vel!WriteStep \/ Vel!CloseHdf5 \/ Vel!OpenXdmf
PreWrites == Pre!Write \/ Pre!CreateHdf5 \/ Pre!WriteStep \/ Pre!CloseHdf5 \/ Pre!OpenXdmf

WriteVelocity ==
  /\ at = "write-velocity"
  /\ \/ VelWrites /\ UNCHANGED at
     \/ Vel!WriteXdmf /\ Goes("write-pressure")
  /\ UNCHANGED <<vars, failed, monitor, write_failed, preVars>>

WritePressure ==
  /\ at = "write-pressure"
  /\ \/ PreWrites /\ UNCHANGED <<at, last_field_step>>
     \/ /\ Pre!WriteXdmf
        /\ last_field_step' = final_step
        /\ Goes(IF InObserver THEN "log" ELSE "idle")
  /\ UNCHANGED <<vars, failed, final_step, final_state, converged, write_failed, velVars>>

(* stop is called again.  (Mutant.)                                        *)
StopsAgain == "stop"

(* An exception of a write that stop makes leaves solve.                   *)
AfterFailedStop == "idle"

(* A check in one of the two writes throws, in the observer or in stop.    *)
WriteThrows ==
  /\ \/ at = "write-velocity" /\ Vel!WriteThrows /\ UNCHANGED preVars
     \/ at = "write-pressure" /\ Pre!WriteThrows /\ UNCHANGED velVars
  /\ IF InObserver THEN ObserverThrows /\ Goes("stop") ELSE UNCHANGED vars /\ Goes(AfterFailedStop)
  /\ failed' = TRUE /\ write_failed' = TRUE
  /\ UNCHANGED monitor

(***************************************************************************)
(* stop.                                                                   *)
(***************************************************************************)
(* The last level is taken to be written.  (Mutant.)                       *)
NothingMissing == FALSE

FinalMissing == OutputEnabled /\ final_step > 0 /\ last_field_step # final_step

Stop ==
  /\ at = "stop"
  /\ Goes(IF FinalMissing THEN "fields" ELSE "idle")
  /\ UNCHANGED <<vars, failed>>
  /\ Elsewhere

Runs == Start \/ Integrate \/ Advance \/ Observe \/ Log \/ Record \/ WriteVelocity
            \/ WritePressure \/ WriteThrows \/ Stop

NavierNext == (\E u \in UserStates : SetState(u)) \/ Runs

(* One thread runs solve, and every call it makes returns or throws.       *)
NavierSpec == NavierInit /\ [][NavierNext]_allVars /\ WF_allVars(Runs)
-----------------------------------------------------------------------------
TimesOf(s) == [k \in DOMAIN s |-> s[k].time]
NotWriting == at \in {"idle", "start", "run", "log", "stop"}

(* The result is the last level of the march that was completed, whether   *)
(* the solve ran to its end, converged, or was ended by an exception of a  *)
(* step, of a write or of the log.                                         *)
ResultOfMarch ==
  at \in {"stop", "fields"} \/ (at = "idle" /\ final_step > 0) =>
    /\ final_step > 0 => final_step = step /\ final_state = Level(march, step)
    /\ at = "idle" /\ ~failed => (converged <=> ended = "stopped")

(* Velocity and pressure are written for the same levels, also when one of *)
(* the two writes throws and stop writes again.                            *)
SeriesPaired == NotWriting => TimesOf(vel_steps) = TimesOf(pre_steps)

(* A solve that returns has written its last level, and until a write has  *)
(* thrown no level is written twice or after a later one.                  *)
LastLevelWritten ==
  at = "idle" /\ ~failed /\ OutputEnabled /\ final_step > 0 =>
    vel_steps # <<>> /\ vel_steps[Len(vel_steps)].time = final_step
LevelsInOrder ==
  ~write_failed =>
    \A j, k \in DOMAIN vel_steps : j < k => vel_steps[j].time < vel_steps[k].time
FieldOutput == LastLevelWritten /\ LevelsInOrder

(* Whatever failed, the files of a velocity series that was written well   *)
(* and not touched since can be read back.                                 *)
VelocityReadBack == Vel!ReadBack

(* Every solve returns or throws.                                          *)
SolveEnds == (at = "start") ~> (at = "idle")

-----------------------------------------------------------------------------
(* What the properties above need to be inductive.  Where solve stands and *)
(* what it keeps.                                                          *)
Writers == {"fields", "field-data", "pressure", "pressure-data", "write-velocity", "write-pressure"}

NavierTypeOK ==
  /\ at \in {"idle", "start", "run", "log", "stop"} \cup Writers
  /\ failed \in BOOLEAN /\ write_failed \in BOOLEAN /\ converged \in BOOLEAN
  /\ final_step \in Levels /\ last_field_step \in Levels

(* Solve, the integrator and the two writes are where the others take them *)
(* to be.                                                                  *)
Standing ==
  /\ at \in {"idle", "start", "stop"} => pc = "idle"
  /\ at = "run" => pc # "idle"
  /\ at = "log" => pc = "observe"
  /\ at \in Writers => pc # "step"
  /\ pc # "idle" => call.observed
  /\ at # "write-velocity" => vel_pc = "idle"
  /\ at # "write-pressure" => pre_pc = "idle"

(* The result is that of the level reached, which the monitor has not seen *)
(* yet while the integrator is about to call it.                           *)
AboutToObserve == at = "run" /\ pc = "observe"

Kept ==
  /\ at = "start" => final_step = 0
  /\ AboutToObserve /\ step > 0 => final_step = step - 1
  /\ at # "start" /\ (AboutToObserve => step = 0) => final_step = step
  /\ final_step > 0 => final_state = Level(march, final_step)
  /\ at \in Writers \cup {"log"} => final_step > 0
  /\ at \in {"start", "run"} => ~converged
  /\ pc = "idle" /\ at # "start" /\ ~failed => (converged <=> ended = "stopped")

(* The velocity is one level ahead while the pressure is not recorded.     *)
Paired ==
  TimesOf(vel_steps) =
    IF at \in {"field-data", "pressure"} THEN Append(TimesOf(pre_steps), final_step)
    ELSE TimesOf(pre_steps)

Ordered(v) == \A j, k \in DOMAIN v : j < k => v[j] < v[k]
LastOf(v) == IF v = <<>> THEN 0 ELSE v[Len(v)]

(* The last level of the series is the last that was written, until the    *)
(* next is recorded, and a level is recorded once.                         *)
InOrder ==
  /\ last_field_step <= final_step
  /\ at = "fields" => last_field_step < final_step
  /\ at = "idle" /\ ~failed /\ OutputEnabled => last_field_step = final_step
  /\ write_failed => failed
  /\ ~write_failed =>
       /\ Ordered(TimesOf(vel_steps))
       /\ LastOf(TimesOf(vel_steps)) =
            IF at \in Writers \ {"fields"} THEN final_step ELSE last_field_step
=============================================================================
