------------------------- MODULE NavierSolveProofs -------------------------
(***************************************************************************)
(* For any number of steps and of history slots, any interval of output    *)
(* and any parameters: what a solve keeps as its result, which levels it   *)
(* writes, that velocity and pressure are written for the same levels, and *)
(* that the velocity can be read back.                                     *)
(***************************************************************************)
EXTENDS NavierSolve, TimeIntegratorProofs

VelP == INSTANCE TimeSeriesDataOutProofs
  WITH Times <- 1 .. NumSteps, MaxSteps <- NumSteps + 1, MaxFields <- NumSteps + 1,
       Precise <- NumSteps + 1, Shapes <- {"Triangle"}, Names <- {"velocity", "pressure"},
       mesh <- vel_mesh, steps <- vel_steps,
       pc <- vel_pc, next <- vel_next, leaked <- vel_leaked, h5 <- vel_h5, xdmf <- vel_xdmf,
       promise <- vel_promise
PreP == INSTANCE TimeSeriesDataOutProofs
  WITH Times <- 1 .. NumSteps, MaxSteps <- NumSteps + 1, MaxFields <- NumSteps + 1,
       Precise <- NumSteps + 1, Shapes <- {"Triangle"}, Names <- {"velocity", "pressure"},
       mesh <- pre_mesh, steps <- pre_steps,
       pc <- pre_pc, next <- pre_next, leaked <- pre_leaked, h5 <- pre_h5, xdmf <- pre_xdmf,
       promise <- pre_promise

-----------------------------------------------------------------------------
(* The two series.                                                         *)
LEMMA PreciseSeries == VelP!PreciseAssumption /\ PreP!PreciseAssumption
  BY StepsAssumption DEF VelP!PreciseAssumption, PreP!PreciseAssumption

(* The writing of the series, which keeps what is in memory.               *)
LEMMA VelWriting ==
  ASSUME VelP!IInv, VelWrites \/ Vel!WriteXdmf \/ Vel!WriteThrows
  PROVE  VelP!IInv' /\ vel_steps' = vel_steps
  <1>1. VelWrites \/ Vel!WriteXdmf \/ Vel!WriteThrows => VelP!Next /\ vel_steps' = vel_steps
    <2> USE DEF VelP!Next, Vel!memory, VelP!memory, Vel!files, VelP!files
    <2>1. Vel!Write => VelP!Write /\ vel_steps' = vel_steps
      BY DEF Vel!Write, VelP!Write, Vel!Ready, VelP!Ready, Vel!CheckMesh,
        VelP!CheckMesh, Vel!Supported, VelP!Supported, Vel!NumNodes,
        VelP!NumNodes, Vel!Corners, VelP!Corners, Vel!Kinds, VelP!Kinds,
        Vel!ToSet, VelP!ToSet
    <2>2. Vel!CreateHdf5 => VelP!CreateHdf5 /\ vel_steps' = vel_steps
      BY DEF Vel!CreateHdf5, VelP!CreateHdf5, Vel!WriteMesh, VelP!WriteMesh,
        Vel!NumNodes, VelP!NumNodes, Vel!Corners, VelP!Corners,
        Vel!Truncated, VelP!Truncated
    <2>3. Vel!WriteStep => VelP!WriteStep /\ vel_steps' = vel_steps
      BY DEF Vel!WriteStep, VelP!WriteStep, Vel!NamesFree, VelP!NamesFree,
        Vel!Group, VelP!Group, Vel!Kinds, VelP!Kinds, Vel!ToSet, VelP!ToSet
    <2>4. Vel!CloseHdf5 \/ Vel!OpenXdmf => (VelP!CloseHdf5 \/ VelP!OpenXdmf) /\ vel_steps' = vel_steps
      BY DEF Vel!CloseHdf5, VelP!CloseHdf5, Vel!OpenXdmf, VelP!OpenXdmf
    <2>5. Vel!WriteXdmf => VelP!WriteXdmf /\ vel_steps' = vel_steps
      BY ZenonT(60) DEF Vel!WriteXdmf, VelP!WriteXdmf, Vel!XdmfText, VelP!XdmfText,
        Vel!XdmfStep, VelP!XdmfStep, Vel!TimesOf, VelP!TimesOf, Vel!Printed,
        VelP!Printed, Vel!CutText, VelP!CutText, Vel!CutStep, VelP!CutStep
    <2>6. Vel!WriteThrows => VelP!WriteThrows /\ vel_steps' = vel_steps
      BY DEF Vel!WriteThrows, VelP!WriteThrows
    <2> QED
      BY <2>1, <2>2, <2>3, <2>4, <2>5, <2>6 DEF VelWrites
  <1>2. VelP!PreciseAssumption
    BY PreciseSeries
  <1> QED
    BY <1>1, <1>2, VelP!NextIInv

(* The writing of the series, which keeps what is in memory.               *)
LEMMA PreWriting ==
  ASSUME PreP!IInv, PreWrites \/ Pre!WriteXdmf \/ Pre!WriteThrows
  PROVE  PreP!IInv' /\ pre_steps' = pre_steps
  <1>1. PreWrites \/ Pre!WriteXdmf \/ Pre!WriteThrows => PreP!Next /\ pre_steps' = pre_steps
    <2> USE DEF PreP!Next, Pre!memory, PreP!memory, Pre!files, PreP!files
    <2>1. Pre!Write => PreP!Write /\ pre_steps' = pre_steps
      BY DEF Pre!Write, PreP!Write, Pre!Ready, PreP!Ready, Pre!CheckMesh,
        PreP!CheckMesh, Pre!Supported, PreP!Supported, Pre!NumNodes,
        PreP!NumNodes, Pre!Corners, PreP!Corners, Pre!Kinds, PreP!Kinds,
        Pre!ToSet, PreP!ToSet
    <2>2. Pre!CreateHdf5 => PreP!CreateHdf5 /\ pre_steps' = pre_steps
      BY DEF Pre!CreateHdf5, PreP!CreateHdf5, Pre!WriteMesh, PreP!WriteMesh,
        Pre!NumNodes, PreP!NumNodes, Pre!Corners, PreP!Corners,
        Pre!Truncated, PreP!Truncated
    <2>3. Pre!WriteStep => PreP!WriteStep /\ pre_steps' = pre_steps
      BY DEF Pre!WriteStep, PreP!WriteStep, Pre!NamesFree, PreP!NamesFree,
        Pre!Group, PreP!Group, Pre!Kinds, PreP!Kinds, Pre!ToSet, PreP!ToSet
    <2>4. Pre!CloseHdf5 \/ Pre!OpenXdmf => (PreP!CloseHdf5 \/ PreP!OpenXdmf) /\ pre_steps' = pre_steps
      BY DEF Pre!CloseHdf5, PreP!CloseHdf5, Pre!OpenXdmf, PreP!OpenXdmf
    <2>5. Pre!WriteXdmf => PreP!WriteXdmf /\ pre_steps' = pre_steps
      BY DEF Pre!WriteXdmf, PreP!WriteXdmf, Pre!XdmfText, PreP!XdmfText,
        Pre!XdmfStep, PreP!XdmfStep, Pre!TimesOf, PreP!TimesOf, Pre!Printed,
        PreP!Printed, Pre!CutText, PreP!CutText, Pre!CutStep, PreP!CutStep
    <2>6. Pre!WriteThrows => PreP!WriteThrows /\ pre_steps' = pre_steps
      BY DEF Pre!WriteThrows, PreP!WriteThrows
    <2> QED
      BY <2>1, <2>2, <2>3, <2>4, <2>5, <2>6 DEF PreWrites
  <1>2. PreP!PreciseAssumption
    BY PreciseSeries
  <1> QED
    BY <1>1, <1>2, PreP!NextIInv

(* The times of a series that gains a step.                                *)
LEMMA TimesOfLonger ==
  ASSUME NEW S, NEW s \in Seq(S), NEW e \in S
  PROVE  TimesOf(Append(s, e)) = Append(TimesOf(s), e.time)
  <1>1. DOMAIN s = 1 .. Len(s) /\ Len(s) \in Nat
    OBVIOUS
  <1>2. DOMAIN Append(s, e) = 1 .. Len(s) + 1
        /\ \A k \in 1 .. Len(s) + 1 : Append(s, e)[k] = IF k = Len(s) + 1 THEN e ELSE s[k]
    OBVIOUS
  <1>3. TimesOf(s) \in Seq({x.time : x \in S}) /\ Len(TimesOf(s)) = Len(s)
    BY <1>1 DEF TimesOf
  <1> QED
    BY <1>1, <1>2, <1>3 DEF TimesOf

(* Both series of the monitor are written for the mesh of the solve.       *)
LEMMA MeshOfSolve ==
  /\ TheMesh \in VelP!Meshes /\ TheMesh \in PreP!Meshes
  /\ NodesOfMesh \in Nat
  <1>1. NodesOfMesh = 3
    BY DEF NodesOfMesh, TheMesh, Vel!NumNodes, Vel!Corners
  <1>2. TheMesh \in VelP!Meshes /\ TheMesh \in PreP!Meshes
    BY DEF TheMesh, VelP!Meshes, PreP!Meshes
  <1> QED
    BY <1>1, <1>2

(* beginStep of the velocity series appends one time to it.                *)
LEMMA VelBeginStep ==
  ASSUME VelP!IInv, NEW t \in 1 .. NumSteps, Vel!BeginStep(t)
  PROVE  VelP!IInv' /\ TimesOf(vel_steps') = Append(TimesOf(vel_steps), t)
  <1>1. VelP!BeginStep(t)
    BY DEF Vel!BeginStep, VelP!BeginStep, Vel!NoFields, VelP!NoFields, Vel!Kinds, VelP!Kinds,
           Vel!writing, VelP!writing, Vel!files, VelP!files
  <1>2. VelP!PreciseAssumption
    BY PreciseSeries
  <1>3. VelP!IInv'
    BY <1>1, <1>2, VelP!SeriesIInv
  <1>4. vel_steps \in Seq(VelP!Steps) /\ [time |-> t, fields |-> VelP!NoFields] \in VelP!Steps
    BY DEF VelP!IInv, VelP!TypeOK, VelP!Series, VelP!Steps, VelP!NoFields
  <1>5. vel_steps' = Append(vel_steps, [time |-> t, fields |-> VelP!NoFields])
    BY <1>1 DEF VelP!BeginStep
  <1> QED
    BY <1>3, <1>4, <1>5, TimesOfLonger

(* A field added to the velocity series changes none of its times.         *)
LEMMA VelAddField ==
  ASSUME VelP!IInv, NEW kind \in VelP!Kinds, NEW name \in {"velocity", "pressure"},
         Vel!AddField(kind, name, NodesOfMesh)
  PROVE  VelP!IInv' /\ TimesOf(vel_steps') = TimesOf(vel_steps)
  <1> DEFINE field == [name |-> name, nodes |-> NodesOfMesh, data |-> Len(vel_steps)]
  <1>1. /\ vel_pc = "idle" /\ vel_steps # <<>>
        /\ vel_steps' = [vel_steps EXCEPT ![Len(vel_steps)].fields[kind] = Append(@, field)]
        /\ UNCHANGED <<vel_mesh, vel_pc, vel_next, vel_leaked, vel_h5, vel_xdmf, vel_promise>>
    BY DEF Vel!AddField, Vel!writing, Vel!files
  <1>2. VelP!PreciseAssumption
    BY PreciseSeries
  <1>3. vel_steps \in VelP!Series /\ VelP!Numbered(vel_steps)
    BY DEF VelP!IInv, VelP!TypeOK, VelP!Underway
  <1>4. field \in VelP!Fields /\ field.data = Len(vel_steps)
    BY <1>3, MeshOfSolve DEF VelP!Fields, VelP!Series
  <1>5. vel_steps' \in VelP!Series /\ VelP!Numbered(vel_steps')
    BY <1>1, <1>2, <1>3, <1>4, VelP!AddFieldSeries
  <1>6. VelP!IInv'
    BY <1>1, <1>2, <1>5, VelP!MemoryIInv DEF VelP!IInv, VelP!TypeOK, VelP!files
  <1>7. /\ DOMAIN vel_steps' = DOMAIN vel_steps
        /\ \A k \in DOMAIN vel_steps : vel_steps'[k].time = vel_steps[k].time
    BY <1>1
  <1>8. TimesOf(vel_steps') = TimesOf(vel_steps)
    BY <1>7 DEF TimesOf
  <1> QED
    BY <1>6, <1>8

(* start gives the velocity series its mesh and empties it; files and      *)
(* promise stay.                                                           *)
LEMMA VelStart ==
  ASSUME VelP!IInv, vel_pc = "idle", vel_mesh' = TheMesh, vel_steps' = <<>>,
         UNCHANGED <<vel_pc, vel_next, vel_leaked, vel_h5, vel_xdmf, vel_promise>>
  PROVE  VelP!IInv'
  <1>1. VelP!PreciseAssumption
    BY PreciseSeries
  <1>2. <<>> \in VelP!Series /\ VelP!Numbered(<<>>)
    BY DEF VelP!Series, VelP!Numbered
  <1> QED
    BY <1>1, <1>2, MeshOfSolve, VelP!MemoryIInv DEF VelP!IInv, VelP!TypeOK, VelP!files

(* What does not touch the velocity series keeps its invariant.            *)
LEMMA VelKept ==
  ASSUME VelP!IInv, UNCHANGED velVars
  PROVE  VelP!IInv'
  <1>1. VelP!PreciseAssumption
    BY PreciseSeries
  <1> QED
    BY <1>1, VelP!NextIInv DEF velVars, VelP!vars, VelP!memory, VelP!writing, VelP!files

(* beginStep of the pressure series appends one time to it.                *)
LEMMA PreBeginStep ==
  ASSUME PreP!IInv, NEW t \in 1 .. NumSteps, Pre!BeginStep(t)
  PROVE  PreP!IInv' /\ TimesOf(pre_steps') = Append(TimesOf(pre_steps), t)
  <1>1. PreP!BeginStep(t)
    BY DEF Pre!BeginStep, PreP!BeginStep, Pre!NoFields, PreP!NoFields, Pre!Kinds, PreP!Kinds,
           Pre!writing, PreP!writing, Pre!files, PreP!files
  <1>2. PreP!PreciseAssumption
    BY PreciseSeries
  <1>3. PreP!IInv'
    BY <1>1, <1>2, PreP!SeriesIInv
  <1>4. pre_steps \in Seq(PreP!Steps) /\ [time |-> t, fields |-> PreP!NoFields] \in PreP!Steps
    BY DEF PreP!IInv, PreP!TypeOK, PreP!Series, PreP!Steps, PreP!NoFields
  <1>5. pre_steps' = Append(pre_steps, [time |-> t, fields |-> PreP!NoFields])
    BY <1>1 DEF PreP!BeginStep
  <1> QED
    BY <1>3, <1>4, <1>5, TimesOfLonger

(* A field added to the pressure series changes none of its times.         *)
LEMMA PreAddField ==
  ASSUME PreP!IInv, NEW kind \in PreP!Kinds, NEW name \in {"velocity", "pressure"},
         Pre!AddField(kind, name, NodesOfMesh)
  PROVE  PreP!IInv' /\ TimesOf(pre_steps') = TimesOf(pre_steps)
  <1> DEFINE field == [name |-> name, nodes |-> NodesOfMesh, data |-> Len(pre_steps)]
  <1>1. /\ pre_pc = "idle" /\ pre_steps # <<>>
        /\ pre_steps' = [pre_steps EXCEPT ![Len(pre_steps)].fields[kind] = Append(@, field)]
        /\ UNCHANGED <<pre_mesh, pre_pc, pre_next, pre_leaked, pre_h5, pre_xdmf, pre_promise>>
    BY DEF Pre!AddField, Pre!writing, Pre!files
  <1>2. PreP!PreciseAssumption
    BY PreciseSeries
  <1>3. pre_steps \in PreP!Series /\ PreP!Numbered(pre_steps)
    BY DEF PreP!IInv, PreP!TypeOK, PreP!Underway
  <1>4. field \in PreP!Fields /\ field.data = Len(pre_steps)
    BY <1>3, MeshOfSolve DEF PreP!Fields, PreP!Series
  <1>5. pre_steps' \in PreP!Series /\ PreP!Numbered(pre_steps')
    BY <1>1, <1>2, <1>3, <1>4, PreP!AddFieldSeries
  <1>6. PreP!IInv'
    BY <1>1, <1>2, <1>5, PreP!MemoryIInv DEF PreP!IInv, PreP!TypeOK, PreP!files
  <1>7. /\ DOMAIN pre_steps' = DOMAIN pre_steps
        /\ \A k \in DOMAIN pre_steps : pre_steps'[k].time = pre_steps[k].time
    BY <1>1
  <1>8. TimesOf(pre_steps') = TimesOf(pre_steps)
    BY <1>7 DEF TimesOf
  <1> QED
    BY <1>6, <1>8

(* start gives the pressure series its mesh and empties it; files and      *)
(* promise stay.                                                           *)
LEMMA PreStart ==
  ASSUME PreP!IInv, pre_pc = "idle", pre_mesh' = TheMesh, pre_steps' = <<>>,
         UNCHANGED <<pre_pc, pre_next, pre_leaked, pre_h5, pre_xdmf, pre_promise>>
  PROVE  PreP!IInv'
  <1>1. PreP!PreciseAssumption
    BY PreciseSeries
  <1>2. <<>> \in PreP!Series /\ PreP!Numbered(<<>>)
    BY DEF PreP!Series, PreP!Numbered
  <1> QED
    BY <1>1, <1>2, MeshOfSolve, PreP!MemoryIInv DEF PreP!IInv, PreP!TypeOK, PreP!files

(* What does not touch the pressure series keeps its invariant.            *)
LEMMA PreKept ==
  ASSUME PreP!IInv, UNCHANGED preVars
  PROVE  PreP!IInv'
  <1>1. PreP!PreciseAssumption
    BY PreciseSeries
  <1> QED
    BY <1>1, PreP!NextIInv DEF preVars, PreP!vars, PreP!memory, PreP!writing, PreP!files

-----------------------------------------------------------------------------
(* Solve.  Every step of it is a step of the integrator, or none.          *)
LEMMA IntegratorSteps ==
  ASSUME [NavierNext]_allVars
  PROVE  [Next]_vars
  <1>1. CASE UNCHANGED allVars
    BY <1>1 DEF allVars
  <1>2. ASSUME NEW u \in UserStates, SetState(u)
        PROVE  Next
    BY <1>2 DEF SetState, Next
  <1>3. CASE Integrate
    <2>1. PICK p \in Params : Solve([prm |-> p, traj |-> NoTraj, observed |-> TRUE])
      BY <1>3 DEF Integrate
    <2>2. [prm |-> p, traj |-> NoTraj, observed |-> TRUE] \in Calls
      BY DEF Calls
    <2> QED
      BY <2>1, <2>2 DEF Next
  <1>4. CASE Advance
    BY <1>4 DEF Advance, Next
  <1>5. CASE Log
    BY <1>5 DEF Log, ObserverReturns, Next
  <1>6. CASE WriteThrows
    BY <1>6 DEF WriteThrows, Next
  <1>7. CASE Start \/ Observe \/ Record \/ WriteVelocity \/ WritePressure \/ Stop
    BY <1>7 DEF Start, Observe, Record, WriteVelocity, WritePressure, Stop
  <1> QED
    BY <1>1, <1>2, <1>3, <1>4, <1>5, <1>6, <1>7 DEF NavierNext, Runs

(* The strengthened invariant: what the integrator and the two series have *)
(* for themselves, and how solve holds them together.                      *)
Together == NavierTypeOK /\ Standing /\ Kept /\ Paired /\ InOrder
NavierIInv == IInv /\ VelP!IInv /\ PreP!IInv /\ Together

(* A series that is in order gains a later level.                          *)
LEMMA OrderedLonger ==
  ASSUME NEW v \in Seq(Nat), NEW t \in Nat, Ordered(v), LastOf(v) < t
  PROVE  Ordered(Append(v, t)) /\ LastOf(Append(v, t)) = t
  <1>1. DOMAIN v = 1 .. Len(v) /\ Len(v) \in Nat /\ \A k \in 1 .. Len(v) : v[k] \in Nat
    OBVIOUS
  <1>2. \A k \in 1 .. Len(v) : v[k] < t
    <2>1. Len(v) \in Nat
      OBVIOUS
    <2>2. \A k \in 1 .. Len(v) : v[k] \in Nat
      OBVIOUS
    <2> DEFINE n == Len(v)
    <2>3. \A k \in 1 .. n : k = n \/ k < n
      <3> HIDE DEF n
      <3>1. n \in Nat
        BY <2>1 DEF n
      <3> QED
        BY <3>1
    <2>4. ASSUME v # <<>>
          PROVE  v[n] < t /\ n \in 1 .. n
      BY <2>1, <2>4 DEF LastOf
    <2>5. ASSUME NEW k \in 1 .. n
          PROVE  v[k] < t
      <3>1. v # <<>>
        OBVIOUS
      <3>2. CASE k = n
        BY <2>4, <3>1, <3>2
      <3>3. CASE k < n
        <4>1. k \in DOMAIN v /\ n \in DOMAIN v
          BY <2>4, <3>1
        <4>2. v[k] < v[n]
          BY <3>3, <4>1 DEF Ordered
        <4> QED
          BY <2>2, <2>4, <3>1, <4>2
      <3> QED
        BY <2>3, <3>2, <3>3
    <2> QED
      BY <2>5
  <1>3. /\ DOMAIN Append(v, t) = 1 .. Len(v) + 1 /\ Len(Append(v, t)) = Len(v) + 1
        /\ \A k \in 1 .. Len(v) : Append(v, t)[k] = v[k]
        /\ Append(v, t)[Len(v) + 1] = t
    OBVIOUS
  <1>4. Ordered(Append(v, t))
    BY <1>1, <1>2, <1>3 DEF Ordered
  <1>5. LastOf(Append(v, t)) = t
    BY <1>1, <1>3 DEF LastOf
  <1> QED
    BY <1>4, <1>5

(* The times of a series are the steps that were recorded.                 *)
LEMMA TimesOfSeries ==
  ASSUME VelP!IInv
  PROVE  TimesOf(vel_steps) \in Seq(Nat)
  <1>1. vel_steps \in Seq(VelP!Steps)
    BY DEF VelP!IInv, VelP!TypeOK, VelP!Series
  <1>2. \A r \in VelP!Steps : r.time \in Nat
    BY StepsAssumption DEF VelP!Steps
  <1> QED
    BY <1>1, <1>2 DEF TimesOf

-----------------------------------------------------------------------------
(* The actions.                                                            *)
THEOREM NavierInitIInv == NavierInit => NavierIInv
  <1> SUFFICES ASSUME NavierInit PROVE NavierIInv
    OBVIOUS
  <1>1. IInv
    BY InitIInv DEF NavierInit
  <1>2. VelP!Init /\ PreP!Init
    BY DEF NavierInit, Vel!Init, VelP!Init, Pre!Init, PreP!Init
  <1>3. VelP!PreciseAssumption /\ PreP!PreciseAssumption
    BY PreciseSeries
  <1>4. VelP!IInv /\ PreP!IInv
    BY <1>2, <1>3, VelP!InitIInv, PreP!InitIInv
  <1>5. vel_steps = <<>> /\ pre_steps = <<>> /\ vel_pc = "idle" /\ pre_pc = "idle"
    BY <1>2 DEF VelP!Init, PreP!Init
  <1>6. TimesOf(vel_steps) = <<>> /\ TimesOf(pre_steps) = <<>>
    BY <1>5 DEF TimesOf
  <1>7. 0 \in Levels
    BY StepsAssumption DEF Levels
  <1>8. NavierTypeOK /\ Standing
    BY <1>5, <1>7 DEF NavierInit, Init, NavierTypeOK, Standing
  <1>9. Kept /\ Paired /\ InOrder
    BY <1>6 DEF NavierInit, Init, Kept, AboutToObserve, Paired, InOrder, Ordered, LastOf, Writers
  <1> QED
    BY <1>1, <1>4, <1>8, <1>9 DEF NavierIInv, Together

(* Steps of a client, and none.                                            *)
LEMMA KeptTogether ==
  ASSUME Together, UNCHANGED <<pc, call, step, march, ended, solveVars>>
  PROVE  Together'
  BY ZenonT(60) DEF Together, NavierTypeOK, Standing, Kept, AboutToObserve, Paired, InOrder, OutputEnabled,
         solveVars, monitor, velVars, preVars

(* start empties both series, so that they are paired.                     *)
LEMMA StartTogether ==
  ASSUME NavierIInv, Start
  PROVE  Together'
  <1> USE DEF NavierIInv, Together, Start, Goes
  <1>1. TimesOf(<<>>) = <<>>
    BY DEF TimesOf
  <1>2. 0 \in Levels
    BY StepsAssumption DEF Levels
  <1>3. pc = "idle" /\ UNCHANGED <<pc, vel_pc, pre_pc>>
    BY DEF Standing, vars
  <1>5. NavierTypeOK'
    BY <1>2 DEF NavierTypeOK
  <1>6. Standing'
    BY <1>3 DEF Standing, Writers
  <1>7. Kept'
    BY DEF Kept, AboutToObserve, Writers
  <1>4. Paired' /\ InOrder'
    BY <1>1 DEF Paired, InOrder, Ordered, LastOf, Writers
  <1> QED
    BY <1>4, <1>5, <1>6, <1>7

(* The integrator takes its first level or another step, or throws.        *)
LEMMA AdvanceTogether ==
  ASSUME NavierIInv, Integrate \/ Advance
  PROVE  Together'
  <1> USE DEF NavierIInv, Together, Goes, Elsewhere, monitor
  <1>0. step \in Nat /\ final_step \in Nat
    BY StepsAssumption DEF IInv, TypeOK, NavierTypeOK, Levels
  <1>1. CASE Integrate
    <2>1. PICK p \in Params : Solve([prm |-> p, traj |-> NoTraj, observed |-> TRUE])
      BY <1>1 DEF Integrate
    <2>2. pc' = "observe" /\ step' = 0 /\ call'.observed /\ at = "start" /\ at' = "run"
      BY <1>1, <2>1 DEF Integrate, Solve, Reached
    <2>3. NavierTypeOK' /\ Standing' /\ Kept'
      BY <1>1, <2>2 DEF Integrate, NavierTypeOK, Standing, Kept, AboutToObserve, Writers, velVars, preVars
    <2>4. Paired' /\ InOrder'
      BY <1>1, <2>2 DEF Integrate, Paired, InOrder, Writers, velVars, preVars, OutputEnabled
    <2> QED
      BY <2>3, <2>4
  <1>2. CASE Advance
    <2>0. at = "run" /\ UNCHANGED <<monitor, write_failed, velVars, preVars, march, call>>
      BY <1>2 DEF Advance, SolveStep, StepThrows, ObserverReturns
    <2>1. CASE SolveStep /\ UNCHANGED <<at, failed>>
      <3>1. pc = "step" /\ pc' = "observe" /\ step' = step + 1
        BY <2>0, <2>1 DEF SolveStep, Reached, Standing
      <3>2. NavierTypeOK' /\ Standing' /\ Kept'
        BY <1>0, <2>0, <2>1, <3>1 DEF NavierTypeOK, Standing, Kept, AboutToObserve, Writers, velVars, preVars
      <3>3. Paired' /\ InOrder'
        BY <2>0, <2>1 DEF Paired, InOrder, Writers, velVars, preVars, OutputEnabled
      <3> QED
        BY <3>2, <3>3
    <2>2. CASE /\ step = 0 /\ ObserverReturns(FALSE)
               /\ Goes(IF pc' = "idle" THEN "stop" ELSE "run") /\ UNCHANGED failed
      <3>1. /\ pc = "observe" /\ step' = step /\ pc' \in {"idle", "step"}
            /\ pc' = "idle" => ended' = "done"
        BY <2>2 DEF ObserverReturns, Leave
      <3>2. final_step = 0 /\ converged \in BOOLEAN
        BY <2>0, <2>2, <3>1 DEF Kept, AboutToObserve, NavierTypeOK
      <3>3. NavierTypeOK' /\ Standing'
        BY <2>0, <2>2, <3>1 DEF NavierTypeOK, Standing, Writers, velVars, preVars
      <3>4. Kept'
        <4>1. converged = FALSE
          BY <2>0, <2>2, <3>1 DEF Kept
        <4> QED
          BY <2>0, <2>2, <3>1, <3>2 DEF Kept, AboutToObserve, Writers
      <3>5. Paired' /\ InOrder'
        BY <2>0, <2>2, <3>1 DEF Paired, InOrder, Writers, velVars, preVars, OutputEnabled
      <3> QED
        BY <3>3, <3>4, <3>5
    <2>3. CASE StepThrows /\ Goes("stop") /\ failed' = TRUE
      <3>1. pc = "step" /\ pc' = "idle" /\ step' = step
        BY <2>3 DEF StepThrows, Leave
      <3>2. NavierTypeOK' /\ Standing' /\ Kept'
        BY <2>0, <2>3, <3>1 DEF NavierTypeOK, Standing, Kept, AboutToObserve, Writers, velVars, preVars
      <3>3. Paired' /\ InOrder'
        BY <2>0, <2>3, <3>1 DEF Paired, InOrder, Writers, velVars, preVars, OutputEnabled
      <3> QED
        BY <3>2, <3>3
    <2> QED
      BY <1>2, <2>1, <2>2, <2>3 DEF Advance
  <1> QED
    BY <1>1, <1>2

(* The monitor is shown a level and keeps it.                              *)
LEMMA ObserveTogether ==
  ASSUME NavierIInv, Observe
  PROVE  Together'
  <1> USE DEF NavierIInv, Together, Goes
  <1>1. /\ step \in Nat /\ final_step \in Nat /\ last_field_step \in Nat
        /\ step \in Levels /\ seen.level = step /\ seen.curr = Level(march, step)
    BY StepsAssumption DEF IInv, TypeOK, ObserverViews, Observe, NavierTypeOK, Levels
  <1>2. /\ at = "run" /\ pc = "observe" /\ step > 0 /\ final_step = step - 1
        /\ final_step' = step /\ final_state' = Level(march, step)
        /\ converged' \in BOOLEAN /\ at' \in {"fields", "log"}
        /\ UNCHANGED <<pc, call, step, march, ended, failed, last_field_step, write_failed, velVars, preVars>>
    BY <1>1 DEF Observe, KeptState, Kept, AboutToObserve, vars
  <1>3. NavierTypeOK' /\ Standing'
    BY <1>1, <1>2 DEF NavierTypeOK, Standing, Writers, velVars, preVars
  <1>4. Kept'
    BY <1>1, <1>2 DEF Kept, AboutToObserve, Writers
  <1>5. Paired'
    BY <1>2 DEF Paired, velVars, preVars
  <1>6. InOrder'
    BY <1>1, <1>2 DEF InOrder, Writers, velVars, OutputEnabled
  <1> QED
    BY <1>3, <1>4, <1>5, <1>6

(* It goes on, stops or throws.                                            *)
LEMMA LogTogether ==
  ASSUME NavierIInv, Log
  PROVE  Together'
  <1> USE DEF NavierIInv, Together, Goes, Elsewhere
  <1>1. /\ at = "log" /\ pc = "observe" /\ final_step = step
        /\ UNCHANGED <<monitor, write_failed, velVars, preVars, call, step, march>>
    BY DEF Log, Standing, Kept, AboutToObserve, ObserverReturns, ObserverThrows
  <1>2. \/ pc' = "step" /\ at' = "run" /\ failed' = failed /\ ~converged
        \/ pc' = "idle" /\ at' = "stop" /\ failed' = failed /\ (converged <=> ended' = "stopped")
        \/ pc' = "idle" /\ at' = "stop" /\ failed' = TRUE
    <2>1. converged \in BOOLEAN
      BY DEF NavierTypeOK
    <2> QED
      BY <2>1 DEF Log, ObserverReturns, ObserverThrows, Leave
  <1>3. NavierTypeOK' /\ Standing'
    BY <1>1, <1>2 DEF NavierTypeOK, Standing, Writers, monitor, velVars, preVars
  <1>4. Kept'
    BY <1>1, <1>2 DEF Kept, AboutToObserve, Writers, monitor
  <1>5. Paired'
    BY <1>1, <1>2 DEF Paired, monitor, velVars, preVars
  <1>6. InOrder'
    BY <1>1, <1>2 DEF InOrder, Writers, monitor, velVars, OutputEnabled
  <1> QED
    BY <1>3, <1>4, <1>5, <1>6

(* stop finds the level the march completed last, also in the handler of   *)
(* an exception, and leaves the two series to the final write.             *)
LEMMA StopTogether ==
  ASSUME NavierIInv, Stop
  PROVE  Together'
  <1> USE DEF NavierIInv, Together, Goes, Elsewhere
  <1>1. final_step \in Nat /\ last_field_step \in Nat
    BY StepsAssumption DEF NavierTypeOK, Levels
  <1>2. /\ at = "stop" /\ at' = (IF FinalMissing THEN "fields" ELSE "idle")
        /\ UNCHANGED <<pc, call, step, march, ended, failed, monitor, write_failed, velVars, preVars>>
    BY DEF Stop, vars
  <1>3. NavierTypeOK' /\ Standing' /\ Kept'
    BY <1>1, <1>2 DEF NavierTypeOK, Standing, Kept, AboutToObserve, FinalMissing, Writers, monitor, velVars, preVars
  <1>4. Paired'
    BY <1>2 DEF Paired, monitor, velVars, preVars
  <1>5. InOrder'
    BY <1>1, <1>2 DEF InOrder, Writers, monitor, velVars, OutputEnabled, FinalMissing
  <1> QED
    BY <1>3, <1>4, <1>5

-----------------------------------------------------------------------------
(* The output.  A level enters the velocity, then the pressure.            *)
LEMMA RecordIInv ==
  ASSUME NavierIInv, Record
  PROVE  VelP!IInv' /\ PreP!IInv' /\ Together'
  <1> USE DEF NavierIInv, Together, Goes
  <1> DEFINE velTimes == TimesOf(vel_steps)
             preTimes == TimesOf(pre_steps)
  <1>1. /\ final_step \in 1 .. NumSteps /\ final_step \in Nat /\ last_field_step \in Nat
        /\ UNCHANGED <<pc, call, step, march, ended, failed, monitor, write_failed>>
    BY StepsAssumption DEF Record, NavierTypeOK, Levels, Kept, Writers, vars
  <1>2. "vector" \in VelP!Kinds /\ "scalar" \in PreP!Kinds
    BY DEF VelP!Kinds, PreP!Kinds
  <1>3. velTimes \in Seq(Nat)
    BY TimesOfSeries
  <1>4. vel_pc' = vel_pc /\ pre_pc' = pre_pc /\ at \in Writers /\ at' \in Writers \ {"fields"}
        /\ at' # "write-pressure" /\ at # "write-velocity" /\ at # "write-pressure"
    BY DEF Record, Vel!BeginStep, Vel!AddField, Vel!writing, Pre!BeginStep, Pre!AddField, Pre!writing,
           velVars, preVars, AfterVelocity, Writers
  <1>5. NavierTypeOK' /\ Standing' /\ Kept'
    <2>1. NavierTypeOK'
      BY <1>1, <1>4 DEF NavierTypeOK, monitor
    <2>2. Standing'
      BY <1>1, <1>4 DEF Standing, Writers
    <2>3. Kept'
      BY <1>1, <1>4 DEF Kept, AboutToObserve, Writers, monitor
    <2> QED
      BY <2>1, <2>2, <2>3
  <1>6. CASE at = "fields"
    <2>1. Vel!BeginStep(final_step) /\ at' = "field-data" /\ UNCHANGED preVars
      BY <1>6 DEF Record
    <2>2. VelP!IInv' /\ velTimes' = Append(velTimes, final_step)
      BY <1>1, <2>1, VelBeginStep
    <2>3. PreP!IInv' /\ preTimes' = preTimes
      BY <2>1, PreKept DEF preVars
    <2>4. Paired'
      BY <1>1, <1>6, <2>1, <2>2, <2>3 DEF Paired, monitor
    <2>5. InOrder'
      <3>1. CASE ~write_failed
        <4>1. Ordered(velTimes) /\ LastOf(velTimes) < final_step
          BY <1>6, <3>1 DEF InOrder
        <4>2. Ordered(velTimes') /\ LastOf(velTimes') = final_step
          BY <1>1, <1>3, <2>2, <4>1, OrderedLonger
        <4> QED
          BY <1>1, <2>1, <4>2 DEF InOrder, Writers, monitor
      <3>2. CASE write_failed
        BY <1>1, <2>1, <3>2 DEF InOrder, monitor
      <3> QED
        BY <3>1, <3>2 DEF NavierTypeOK
    <2> QED
      BY <1>5, <2>2, <2>3, <2>4, <2>5
  <1>7. CASE at = "field-data"
    <2>1. Vel!AddField("vector", "velocity", NodesOfMesh) /\ at' = "pressure" /\ UNCHANGED preVars
      BY <1>7 DEF Record, AfterVelocity
    <2>2. VelP!IInv' /\ velTimes' = velTimes
      BY <1>2, <2>1, VelAddField
    <2>3. PreP!IInv' /\ preTimes' = preTimes
      BY <2>1, PreKept DEF preVars
    <2>4. Paired' /\ InOrder'
      BY <1>1, <1>7, <2>1, <2>2, <2>3 DEF Paired, InOrder, Writers, monitor
    <2> QED
      BY <1>5, <2>2, <2>3, <2>4
  <1>8. CASE at = "pressure"
    <2>1. Pre!BeginStep(final_step) /\ at' = "pressure-data" /\ UNCHANGED velVars
      BY <1>8 DEF Record
    <2>2. PreP!IInv' /\ preTimes' = Append(preTimes, final_step)
      BY <1>1, <2>1, PreBeginStep
    <2>3. VelP!IInv' /\ velTimes' = velTimes
      BY <2>1, VelKept DEF velVars
    <2>4. Paired' /\ InOrder'
      BY <1>1, <1>8, <2>1, <2>2, <2>3 DEF Paired, InOrder, Writers, monitor
    <2> QED
      BY <1>5, <2>2, <2>3, <2>4
  <1>9. CASE at = "pressure-data"
    <2>1. Pre!AddField("scalar", "pressure", NodesOfMesh) /\ at' = "write-velocity" /\ UNCHANGED velVars
      BY <1>9 DEF Record
    <2>2. PreP!IInv' /\ preTimes' = preTimes
      BY <1>2, <2>1, PreAddField
    <2>3. VelP!IInv' /\ velTimes' = velTimes
      BY <2>1, VelKept DEF velVars
    <2>4. Paired' /\ InOrder'
      BY <1>1, <1>9, <2>1, <2>2, <2>3 DEF Paired, InOrder, Writers, monitor
    <2> QED
      BY <1>5, <2>2, <2>3, <2>4
  <1> QED
    BY <1>6, <1>7, <1>8, <1>9 DEF Record

(* A write of the velocity, then of the pressure; the end of the second    *)
(* makes the level the last one written, a write that throws does not.     *)
LEMMA WritingIInv ==
  ASSUME NavierIInv, WriteVelocity \/ WritePressure \/ WriteThrows
  PROVE  VelP!IInv' /\ PreP!IInv' /\ Together'
  <1> USE DEF NavierIInv, Together, Goes
  <1>1. final_step \in Nat /\ last_field_step \in Nat /\ final_step \in Levels
        /\ pc \in {"idle", "step", "observe"}
    BY StepsAssumption DEF NavierTypeOK, Levels, IInv, TypeOK
  <1>2. CASE WriteVelocity
    <2>1. VelP!IInv' /\ vel_steps' = vel_steps
      BY <1>2, VelWriting DEF WriteVelocity
    <2>2. PreP!IInv' /\ UNCHANGED preVars
      BY <1>2, PreKept DEF WriteVelocity
    <2>3. /\ at = "write-velocity" /\ at' \in {"write-velocity", "write-pressure"}
          /\ at' = "write-pressure" => vel_pc' = "idle"
          /\ UNCHANGED <<pc, call, step, march, ended, failed, monitor, write_failed, preVars>>
      BY <1>2 DEF WriteVelocity, Vel!WriteXdmf, vars
    <2>4. NavierTypeOK' /\ Standing'
      BY <2>3 DEF NavierTypeOK, Standing, Writers, monitor, preVars
    <2>5. Kept'
      BY <2>3 DEF Kept, AboutToObserve, Writers, monitor
    <2>6. Paired' /\ InOrder'
      BY <2>1, <2>3 DEF Paired, InOrder, Writers, monitor, preVars
    <2> QED
      BY <2>1, <2>2, <2>4, <2>5, <2>6
  <1>3. CASE WritePressure
    <2>1. PreP!IInv' /\ pre_steps' = pre_steps
      BY <1>3, PreWriting DEF WritePressure
    <2>2. VelP!IInv' /\ UNCHANGED velVars
      BY <1>3, VelKept DEF WritePressure
    <2>3. /\ at = "write-pressure"
          /\ \/ at' = at /\ last_field_step' = last_field_step
             \/ /\ at' = IF InObserver THEN "log" ELSE "idle"
                /\ last_field_step' = final_step /\ pre_pc' = "idle"
          /\ UNCHANGED <<pc, call, step, march, ended, failed, final_step, final_state, converged, write_failed, velVars>>
      BY <1>3 DEF WritePressure, Pre!WriteXdmf, vars
    <2>4. NavierTypeOK' /\ Standing'
      BY <1>1, <2>3 DEF NavierTypeOK, Standing, Writers, InObserver, velVars
    <2>5. Kept'
      BY <2>3 DEF Kept, AboutToObserve, Writers, InObserver
    <2>6. Paired' /\ InOrder'
      BY <1>1, <2>1, <2>3 DEF Paired, InOrder, Writers, velVars, InObserver, OutputEnabled
    <2> QED
      BY <2>1, <2>2, <2>4, <2>5, <2>6
  <1>4. CASE WriteThrows
    <2>1. /\ VelP!IInv' /\ vel_steps' = vel_steps
          /\ PreP!IInv' /\ pre_steps' = pre_steps
      BY <1>4, VelWriting, PreWriting, VelKept, PreKept DEF WriteThrows, velVars, preVars
    <2>2. vel_pc' = "idle" /\ pre_pc' = "idle"
      BY <1>4 DEF WriteThrows, Vel!WriteThrows, Pre!WriteThrows, velVars, preVars, Standing
    <2>3. /\ at \in {"write-velocity", "write-pressure"}
          /\ at' = IF InObserver THEN "stop" ELSE "idle"
          /\ pc' = "idle" /\ failed' = TRUE /\ write_failed' = TRUE
          /\ UNCHANGED <<call, step, march, monitor>>
      BY <1>1, <1>4 DEF WriteThrows, AfterFailedStop, InObserver, ObserverThrows, Leave, Standing, Writers, vars
    <2>4. NavierTypeOK' /\ Standing'
      BY <2>2, <2>3 DEF NavierTypeOK, Standing, Writers, monitor
    <2>5. Kept'
      BY <2>3 DEF Kept, AboutToObserve, Writers, monitor
    <2>6. Paired' /\ InOrder'
      BY <1>1, <2>1, <2>3 DEF Paired, InOrder, Writers, monitor
    <2> QED
      BY <2>1, <2>4, <2>5, <2>6
  <1> QED
    BY <1>2, <1>3, <1>4

(* Every step keeps the strengthened invariant.                            *)
THEOREM NavierNextIInv == NavierIInv /\ [NavierNext]_allVars => NavierIInv'
  <1> SUFFICES ASSUME NavierIInv, [NavierNext]_allVars PROVE NavierIInv'
    OBVIOUS
  <1>1. IInv'
    BY IntegratorSteps, NextIInv DEF NavierIInv
  <1>2. CASE Record \/ WriteVelocity \/ WritePressure \/ WriteThrows
    BY <1>1, <1>2, RecordIInv, WritingIInv DEF NavierIInv
  <1>3. CASE Start
    <2>1. VelP!IInv' /\ PreP!IInv'
      BY <1>3, VelStart, PreStart DEF Start, NavierIInv, Together, Standing
    <2> QED
      BY <1>1, <1>3, <2>1, StartTogether DEF NavierIInv
  <1>4. CASE \/ UNCHANGED allVars \/ \E u \in UserStates : SetState(u)
             \/ Integrate \/ Advance \/ Observe \/ Log \/ Stop
    <2>1. UNCHANGED velVars /\ UNCHANGED preVars
      BY <1>4 DEF allVars, solveVars, SetState, Integrate, Advance, Observe, Log, Stop, Elsewhere
    <2>2. VelP!IInv' /\ PreP!IInv'
      BY <2>1, VelKept, PreKept DEF NavierIInv
    <2>3. CASE UNCHANGED allVars
      <3>1. UNCHANGED <<pc, call, step, march, ended, solveVars>>
        BY <2>3 DEF allVars, vars
      <3> QED
        BY <1>1, <2>2, <3>1, KeptTogether DEF NavierIInv
    <2>4. CASE \E u \in UserStates : SetState(u)
      <3>1. UNCHANGED <<pc, call, step, march, ended, solveVars>>
        BY <2>4 DEF SetState, SetInitialState
      <3> QED
        BY <1>1, <2>2, <3>1, KeptTogether DEF NavierIInv
    <2>5. CASE Integrate \/ Advance
      BY <1>1, <2>2, <2>5, AdvanceTogether DEF NavierIInv
    <2>6. CASE Observe
      BY <1>1, <2>2, <2>6, ObserveTogether DEF NavierIInv
    <2>7. CASE Log
      BY <1>1, <2>2, <2>7, LogTogether DEF NavierIInv
    <2>8. CASE Stop
      BY <1>1, <2>2, <2>8, StopTogether DEF NavierIInv
    <2> QED
      BY <1>4, <2>3, <2>4, <2>5, <2>6, <2>7, <2>8
  <1> QED
    BY <1>2, <1>3, <1>4 DEF NavierNext, Runs

(* How solve, the integrator and the two series stand to one another, at   *)
(* every moment of every solve.                                            *)
THEOREM NavierAlwaysIInv == NavierSpec => []NavierIInv
  BY NavierInitIInv, NavierNextIInv, PTL DEF NavierSpec

-----------------------------------------------------------------------------
(* What follows from it.                                                   *)
LEMMA NavierProperties ==
  ASSUME NavierIInv
  PROVE  ResultOfMarch /\ SeriesPaired /\ FieldOutput /\ VelocityReadBack
  <1> USE DEF NavierIInv, Together
  <1>0. final_step \in Nat
    BY StepsAssumption DEF NavierTypeOK, Levels
  <1>1. ResultOfMarch
    BY DEF ResultOfMarch, Kept, AboutToObserve, Standing
  <1>2. SeriesPaired
    BY DEF SeriesPaired, Paired, NotWriting
  <1>3. FieldOutput
    <2> DEFINE times == TimesOf(vel_steps)
    <2>1. vel_steps \in Seq(VelP!Steps)
      BY DEF VelP!IInv, VelP!TypeOK, VelP!Series
    <2>2. /\ DOMAIN times = DOMAIN vel_steps /\ Len(times) = Len(vel_steps)
          /\ \A k \in DOMAIN vel_steps : times[k] = vel_steps[k].time
          /\ vel_steps = <<>> => times = <<>>
          /\ vel_steps # <<>> => Len(vel_steps) \in DOMAIN vel_steps
      BY <2>1 DEF TimesOf
    <2>3. LevelsInOrder
      BY <2>2 DEF LevelsInOrder, InOrder, Ordered
    <2>4. LastLevelWritten
      <3>1. SUFFICES ASSUME at = "idle", ~failed, OutputEnabled, final_step > 0
                     PROVE  vel_steps # <<>> /\ vel_steps[Len(vel_steps)].time = final_step
        BY DEF LastLevelWritten
      <3>2. LastOf(times) = final_step
        BY <3>1 DEF InOrder, Writers
      <3>3. times # <<>> /\ times[Len(times)] = final_step
        BY <1>0, <3>1, <3>2 DEF LastOf
      <3> QED
        BY <2>2, <3>3
    <2> QED
      BY <2>3, <2>4 DEF FieldOutput
  <1>4. VelocityReadBack
    <2>1. VelP!PreciseAssumption
      BY PreciseSeries
    <2>2. VelP!ReadBack
      BY <2>1, VelP!ReadBackOfIInv
    <2> QED
      BY <2>2, ZenonT(60) DEF VelocityReadBack, Vel!ReadBack, VelP!ReadBack, Vel!NamesApart, VelP!NamesApart,
        Vel!NamesOf, VelP!NamesOf, Vel!Read, VelP!Read, Vel!ReadMesh,
        VelP!ReadMesh, Vel!ReadShape, VelP!ReadShape, Vel!MeshDim,
        VelP!MeshDim, Vel!InferShape, VelP!InferShape, Vel!CountsDiffer,
        VelP!CountsDiffer, Vel!ReadTimes, VelP!ReadTimes,
        Vel!ScalarInTheWay, VelP!ScalarInTheWay, Vel!ReadVectors,
        VelP!ReadVectors, Vel!VectorFields, VelP!VectorFields,
        Vel!VectorNames, VelP!VectorNames, Vel!ToSet, VelP!ToSet,
        Vel!Printed, VelP!Printed, Vel!DimensionShows, VelP!DimensionShows,
        Vel!NumNodes, VelP!NumNodes, Vel!Corners, VelP!Corners, Vel!Threw,
        VelP!Threw, Vel!CountSteps, VelP!CountSteps, Vel!Dataset, VelP!Dataset
  <1> QED
    BY <1>1, <1>2, <1>3, <1>4

(* A solve that ended, however it did, has the last completed level as its *)
(* result, and says that it converged exactly when it was stopped.         *)
THEOREM ResultOfMarchAlways == NavierSpec => []ResultOfMarch
  BY NavierAlwaysIInv, NavierProperties, PTL

(* Velocity and pressure are written for the same levels.                  *)
THEOREM SeriesPairedAlways == NavierSpec => []SeriesPaired
  BY NavierAlwaysIInv, NavierProperties, PTL

(* The last level is written, and no level twice.                          *)
THEOREM FieldOutputAlways == NavierSpec => []FieldOutput
  BY NavierAlwaysIInv, NavierProperties, PTL

(* A velocity that was written well can be read back.                      *)
THEOREM VelocityReadBackAlways == NavierSpec => []VelocityReadBack
  BY NavierAlwaysIInv, NavierProperties, PTL
=============================================================================
