------------------------------ MODULE NavierConfig -----------------------------
(***************************************************************************)
(* The configuration of the Navier-Stokes application: what loadConfig     *)
(* makes of a JSON file, and which files it rejects.  A JSON object is a   *)
(* function on its keys; `WrongType` is a value of another type than the   *)
(* key takes, on which the parser throws.  Where the parser asks for the   *)
(* type, the value is a record of one field that names it.  Times are      *)
(* ticks, of which Second make the unit of time; other numbers are         *)
(* integers, of which the defaults of a fluid and of tolerances are 1.     *)
(***************************************************************************)
EXTENDS Integers, Sequences, SequencesExt

CONSTANTS
  WrongType,  \* a JSON value of another type
  Tables,     \* the readable table files: sequences of rows [t, v] or BadRow, by path
  BadRow,     \* a row that holds no two numbers
  Absent,     \* an option without a value
  Second      \* ticks

ASSUME SecondAssumption == Second \in Nat \ {0} /\ Second % 100 = 0

Throws == [is |-> "thrown"]
EmptyObject == [key \in {} |-> 0]
MaxIndex == 2147483647

Has(node, key) == key \in DOMAIN node

(* checkKeys, and the type of every value that is read.                    *)
CheckKeys(node, keys) == \A key \in DOMAIN node : key \in keys /\ node[key] # WrongType

Get(node, key, default) == IF Has(node, key) THEN node[key] ELSE default

(* assign: field takes the value of the key, if there is one.              *)
Assign(record, field, node, key) == [record EXCEPT ![field] = Get(node, key, @)]

-----------------------------------------------------------------------------
(* The members' initializers.                                              *)
TimeDefaults == [steps |-> 100, dt |-> Second \div 100, conv |-> FALSE, vel_rel_tol |-> 1, min_steps |-> 1]
FluidDefaults == [rho |-> 1, mu |-> 1]
SolverDefaults ==
  [method |-> "iterative", solve |-> "fgmres", preconditioner |-> "ilu0",
   gram_schmidt |-> "cgs2", sketching |-> "count", max_itrs |-> 5000, restart |-> 200,
   relative_tolerance |-> 1, flexible |-> TRUE]
OutputDefaults == [enabled |-> TRUE, interval |-> 10]
ProfileDefaults == [type |-> "uniform", rad |-> 0, cen |-> Absent]
VelocityDefaults ==
  [time |-> <<>>, vals |-> <<>>, area |-> 1, per |-> 0, nrm |-> <<1, 0, 0>>,
   interp |-> "linear", qty |-> "flowrate", prof |-> ProfileDefaults]

-----------------------------------------------------------------------------
(* stepsForEndTime: the fewest steps that reach the end; a quotient within *)
(* rounding of an integer is that integer.                                 *)
EndTimeValid(end, dt) == end > 0 /\ dt > 0 /\ end \div dt <= MaxIndex
StepsForEndTime(end, dt) == (end + dt - 1) \div dt

(* parseConvergenceConfig: a boolean, or an object that enables it.        *)
ParseConvergence(node, time) ==
  IF Has(node, "boolean") THEN [time EXCEPT !.conv = node.boolean]
  ELSE Assign(Assign([time EXCEPT !.conv = Get(node, "enabled", TRUE)], "vel_rel_tol", node, "vel_rel_tol"),
              "min_steps", node, "min_steps")

TimeParses(node) ==
  LET dt == Get(node, "dt", TimeDefaults.dt) IN
  /\ CheckKeys(node, {"dt", "steps", "end_time", "convergence"})
  /\ Has(node, "end_time") =>
       /\ EndTimeValid(node.end_time, dt)
       /\ Has(node, "steps") => node.steps = StepsForEndTime(node.end_time, dt)
  /\ Has(node, "convergence") =>
       Has(node.convergence, "boolean") \/ CheckKeys(node.convergence, {"enabled", "vel_rel_tol", "min_steps"})

ParseTimeConfig(node) ==
  LET time == Assign(Assign(TimeDefaults, "dt", node, "dt"), "steps", node, "steps")
      ended == IF Has(node, "end_time")
               THEN [time EXCEPT !.steps = StepsForEndTime(node.end_time, time.dt)] ELSE time
  IN IF Has(node, "convergence") THEN ParseConvergence(node.convergence, ended) ELSE ended

-----------------------------------------------------------------------------
(* parseVelocityTable: the rows that are no comment.                       *)
TableReads(path) == path \in DOMAIN Tables /\ \A i \in DOMAIN Tables[path] : Tables[path][i] # BadRow
ParseVelocityTable(velocity, path) ==
  [velocity EXCEPT !.time = [i \in DOMAIN Tables[path] |-> Tables[path][i].t],
                   !.vals = [i \in DOMAIN Tables[path] |-> Tables[path][i].v]]

(* A pulse of one period, at its quarters; the amplitude is in percent.    *)
Sine(velocity, node) ==
  LET per == Get(node, "period", IF velocity.per > 0 THEN velocity.per ELSE Second)
      amp == Get(node, "amplitude", 35)
  IN [velocity EXCEPT !.per = per, !.interp = "cubic",
        !.time = [i \in 1 .. 5 |-> ((i - 1) * per) \div 4],
        !.vals = [i \in 1 .. 5 |-> (node.value * (100 + <<0, amp, 0, -amp, 0>>[i])) \div 100]]

TimeProfileType(node) == Get(node, "type", IF Has(node, "table") THEN "table" ELSE "uniform")

TimeProfileParses(node) ==
  /\ CheckKeys(node, {"quantity", "type", "table", "period", "value", "amplitude", "interpolate"})
  /\ \/ TimeProfileType(node) = "table" /\ Has(node, "table") /\ TableReads(node.table)
     \/ TimeProfileType(node) = "uniform" /\ Has(node, "value")
     \/ TimeProfileType(node) = "sine" /\ Has(node, "value") /\ Get(node, "period", 1) > 0

ParseVelocityTimeProfile(node, velocity) ==
  LET type == TimeProfileType(node)
      quantified == Assign(velocity, "qty", node, "quantity")
      timed == CASE type = "table" -> Assign(ParseVelocityTable(quantified, node.table), "per", node, "period")
                 [] type = "uniform" -> Assign([quantified EXCEPT !.time = <<0>>, !.vals = <<node.value>>],
                                               "per", node, "period")
                 [] type = "sine" -> Sine(quantified, node)
  IN Assign(timed, "interp", node, "interpolate")

(* parseVelocityProfile: a type, or an object.                             *)
ParseVelocityProfile(node) ==
  [type |-> Get(node, "type", "uniform"), rad |-> Get(node, "radius", 0), cen |-> Get(node, "center", Absent)]

ParseVelocitySpaceProfile(node, velocity) ==
  Assign(Assign(Assign([velocity EXCEPT !.prof = ParseVelocityProfile(node)],
    "area", node, "area"), "qty", node, "quantity"), "nrm", node, "normal")

(* parseVelocity: "time" is a profile or the list of times.                *)
Profiled(node) == Has(node, "time") /\ Has(node.time, "profile")
VelocityParses(node) ==
  /\ CheckKeys(node, {"area", "period", "quantity", "normal", "profile", "table", "time",
                      "value", "space", "interpolate"})
  /\ Has(node, "table") => TableReads(node.table)
  /\ Profiled(node) => TimeProfileParses(node.time.profile)
  /\ Has(node, "table") \/ Profiled(node) \/ (Has(node, "time") /\ Has(node, "value"))
  /\ Has(node, "space") => CheckKeys(node.space, {"type", "radius", "center", "area", "quantity", "normal"})

ParseVelocity(node) ==
  LET named == Assign(Assign(Assign(Assign(VelocityDefaults,
                 "area", node, "area"), "per", node, "period"), "qty", node, "quantity"), "nrm", node, "normal")
      shaped == IF Has(node, "profile") THEN [named EXCEPT !.prof = ParseVelocityProfile(node.profile)] ELSE named
      tabled == IF Has(node, "table") THEN ParseVelocityTable(shaped, node.table) ELSE shaped
      timed == IF Profiled(node) THEN ParseVelocityTimeProfile(node.time.profile, tabled)
               ELSE IF Has(node, "time") THEN [tabled EXCEPT !.time = node.time.list] ELSE tabled
      valued == Assign(timed, "vals", node, "value")
      spaced == IF Has(node, "space") THEN ParseVelocitySpaceProfile(node.space, valued) ELSE valued
  IN Assign(spaced, "interp", node, "interpolate")

ValidVelocity(v) ==
  /\ Len(v.time) > 0 /\ Len(v.time) = Len(v.vals)
  /\ v.area > 0 /\ v.per >= 0
  /\ \A i \in 2 .. Len(v.time) : v.time[i - 1] < v.time[i]
  /\ v.nrm # <<0, 0, 0>>
  /\ v.interp \in {"constant", "nearest", "linear", "cubic"}
  /\ v.qty \in {"flowrate", "mean_velocity", "max_velocity"}
  /\ v.prof.type = "uniform" \/ (v.prof.type = "poiseuille" /\ v.prof.rad > 0)

-----------------------------------------------------------------------------
(* parseDirichletBC.                                                       *)
ConditionParses(node) ==
  /\ CheckKeys(node, {"name", "physical", "type", "ux", "uy", "uz", "p", "velocity"})
  /\ Has(node, "physical")
  /\ \E key \in {"ux", "uy", "uz", "p", "velocity"} : Has(node, key)
  /\ Has(node, "velocity") => VelocityParses(node.velocity)

ParseDirichletBC(node) ==
  [tag |-> node.physical, type |-> Get(node, "type", "dirichlet"),
   ux |-> Get(node, "ux", Absent), uy |-> Get(node, "uy", Absent), uz |-> Get(node, "uz", Absent),
   p |-> Get(node, "p", Absent),
   velocity |-> IF Has(node, "velocity") THEN ParseVelocity(node.velocity) ELSE Absent]

RootParses(root) ==
  /\ CheckKeys(root, {"mesh", "time", "fluid", "solver", "output", "bcs"})
  /\ Has(root, "mesh") => CheckKeys(root.mesh, {"file"})
  /\ Has(root, "time") => TimeParses(root.time)
  /\ Has(root, "fluid") => CheckKeys(root.fluid, {"rho", "mu"})
  /\ Has(root, "solver") => CheckKeys(root.solver, DOMAIN SolverDefaults)
  /\ Has(root, "output") => CheckKeys(root.output, {"enabled", "interval", "directory"})
  /\ Has(root, "bcs") => \A i \in DOMAIN root.bcs : ConditionParses(root.bcs[i])

ParseRoot(root) ==
  LET AtLeastOne(out) == [out EXCEPT !.interval = IF @ < 1 THEN 1 ELSE @]
      With(record, node) == [field \in DOMAIN record |-> Get(node, field, record[field])]
      Section(key) == Get(root, key, EmptyObject)
  IN [mesh_file |-> Get(Section("mesh"), "file", ""), time |-> ParseTimeConfig(Section("time")),
      fluid |-> With(FluidDefaults, Section("fluid")),
      solver |-> With(SolverDefaults, Section("solver")),
      output |-> AtLeastOne(With(OutputDefaults, Section("output"))),
      bcs |-> IF Has(root, "bcs") THEN [i \in DOMAIN root.bcs |-> ParseDirichletBC(root.bcs[i])] ELSE <<>>]

Validate(prm) ==
  /\ prm.mesh_file # ""
  /\ prm.time.steps > 0 /\ prm.time.dt > 0
  /\ prm.time.conv => prm.time.vel_rel_tol > 0 /\ prm.time.min_steps >= 1
  /\ prm.fluid.rho > 0 /\ prm.fluid.mu > 0
  /\ prm.solver.method \in {"direct", "iterative"}
  /\ prm.solver.solve \in {"fgmres", "randgmres"}
  /\ prm.solver.preconditioner \in {"ilu0", "none"}
  /\ prm.solver.gram_schmidt \in {"cgs1", "cgs2", "mgs", "mgs_two_sync", "mgs_pm"}
  /\ prm.solver.sketching \in {"count", "fwht"}
  /\ prm.solver.max_itrs > 0 /\ prm.solver.restart > 0 /\ prm.solver.relative_tolerance > 0
  /\ Len(prm.bcs) > 0
  /\ \A i \in DOMAIN prm.bcs :
       /\ prm.bcs[i].tag > 0 /\ prm.bcs[i].type = "dirichlet"
       /\ prm.bcs[i].velocity # Absent => ValidVelocity(prm.bcs[i].velocity)

(* loadConfig.                                                             *)
LoadConfig(root) ==
  IF RootParses(root) /\ Validate(ParseRoot(root)) THEN ParseRoot(root) ELSE Throws
=============================================================================
