-------------------------- MODULE TimeSeriesDataOut --------------------------
(***************************************************************************)
(* femx::io::TimeSeriesDataOut and TimeSeriesDataIn: a series of steps is  *)
(* kept in memory and written as a whole, each time anew, to an HDF5 file  *)
(* and then to an XDMF file.  A write that throws in the HDF5 part leaves  *)
(* the HDF5 identifier open.  The process may be killed between any two    *)
(* actions.  A field's values are named by the number of their step.       *)
(***************************************************************************)
EXTENDS Integers, Sequences, FiniteSets, SequencesExt

CONSTANTS
  Times,      \* the times of steps
  Precise,    \* the first time that a stream of six digits rounds
  Shapes,     \* the shapes of elements
  NoMesh,
  Names,      \* the names of fields
  MaxSteps,   \* bound: the steps of a series
  MaxFields   \* bound: the fields of a series

ASSUME PreciseAssumption == Times \subseteq 0 .. 10 * Precise - 1

VARIABLES
  mesh,       \* mesh_, or NoMesh
  steps,      \* steps_
  pc, next,   \* where write is, and the step it writes next
  leaked,     \* an HDF5 identifier of an earlier write is still open
  h5, xdmf,   \* the files; the text of xdmf is the sequence of its grids
  promise     \* history: <<the series>> of the last write that went well, if any

memory == <<mesh, steps>>
writing == <<pc, next, leaked>>
files == <<h5, xdmf>>
vars == <<memory, writing, files, promise>>

(***************************************************************************)
(* Meshes: their dimension, whether their nodes all lie in the plane z = 0 *)
(* and the shapes of their elements.  The class Mesh ties none of the      *)
(* three to another: a mesh of dimension two may be a curved surface.      *)
(***************************************************************************)
Supported == {"Triangle", "Quadrilateral", "Tetrahedron"}
Corners(shape) == IF shape = "Triangle" THEN 3 ELSE IF shape = "Hexahedron" THEN 8 ELSE 4
NumNodes(m) == Corners(m.elems[1]) + Len(m.elems) - 1

Meshes ==
  [dim : {2, 3}, flat : BOOLEAN,
   elems : {<<s>> : s \in Shapes} \cup {<<"Triangle", s>> : s \in Shapes \ {"Triangle"}}]

(* checkMesh.                                                              *)
CheckMesh(m) ==
  /\ m.dim \in {2, 3}
  /\ m.elems # <<>> /\ m.elems[1] \in Supported
  /\ \A k \in DOMAIN m.elems : m.elems[k] = m.elems[1]

Init ==
  /\ mesh = NoMesh /\ steps = <<>>
  /\ pc = "idle" /\ next = 0 /\ leaked = FALSE
  /\ h5 = [state |-> "absent", mesh |-> NoMesh, data |-> <<>>]
  /\ xdmf = <<>>
  /\ promise = <<>>

(***************************************************************************)
(* The series in memory.                                                   *)
(***************************************************************************)
AttachMesh(m) ==
  /\ pc = "idle"
  /\ mesh' = m
  /\ UNCHANGED <<steps, writing, files, promise>>

(* A step keeps its scalar and its vector fields apart.                    *)
Kinds == {"scalar", "vector"}
NoFields == [kind \in Kinds |-> <<>>]

BeginStep(t) ==
  /\ pc = "idle"
  /\ Len(steps) < MaxSteps
  /\ steps' = Append(steps, [time |-> t, fields |-> NoFields])
  /\ UNCHANGED <<mesh, writing, files, promise>>

Recorded ==
  {w \in (DOMAIN steps) \X Kinds \X (1 .. MaxFields) : w[3] \in DOMAIN steps[w[1]].fields[w[2]]}

(* Neither the size of the field nor its name is compared with anything.   *)
AddField(kind, name, nodes) ==
  LET last == Len(steps)
      field == [name |-> name, nodes |-> nodes, data |-> last] IN
  /\ pc = "idle"
  /\ steps # <<>>
  /\ Cardinality(Recorded) < MaxFields
  /\ steps' = [steps EXCEPT ![last].fields[kind] = Append(@, field)]
  /\ UNCHANGED <<mesh, writing, files, promise>>

Clear ==
  /\ pc = "idle"
  /\ steps' = <<>>
  /\ UNCHANGED <<mesh, writing, files, promise>>

(***************************************************************************)
(* write.                                                                  *)
(***************************************************************************)
(* checkReady.                                                             *)
Ready ==
  /\ mesh # NoMesh
  /\ steps # <<>>
  /\ CheckMesh(mesh)
  /\ \A k \in DOMAIN steps, kind \in Kinds :
       \A f \in ToSet(steps[k].fields[kind]) : f.nodes = NumNodes(mesh)

Write ==
  /\ pc = "idle"
  /\ Ready
  /\ pc' = "create"
  /\ UNCHANGED <<memory, next, leaked, files, promise>>

(* The content of an existing file is kept.  (Mutant.)                     *)
Appended == h5.data

(* H5F_ACC_TRUNC.                                                          *)
Truncated == <<>>

(* writeMesh: the coordinates, and the nodes of every element.             *)
WriteMesh(m) == [nodes |-> NumNodes(m), flat |-> m.flat, elems |-> Len(m.elems), cn |-> Corners(m.elems[1])]

(* H5Fcreate: it fails on a file the process still has open.               *)
CreateHdf5 ==
  /\ pc = "create"
  /\ ~leaked
  /\ h5' = [state |-> "open", mesh |-> WriteMesh(mesh), data |-> Truncated]
  /\ next' = 1
  /\ pc' = "steps"
  /\ promise' = <<>>
  /\ UNCHANGED <<memory, leaked, xdmf>>

(* H5Dcreate2 fails on a name the group already has.                       *)
NamesFree(fields) ==
  \A kind, other \in Kinds : \A i \in DOMAIN fields[kind], j \in DOMAIN fields[other] :
    fields[kind][i].name = fields[other][j].name => kind = other /\ i = j

(* The group of a step holds a dataset for each field; those of scalars    *)
(* and of vectors have different ranks.                                    *)
Group(fields) ==
  UNION {{[rank |-> kind, name |-> f.name, data |-> f.data] : f \in ToSet(fields[kind])} : kind \in Kinds}

WriteStep ==
  /\ pc = "steps"
  /\ next <= Len(steps)
  /\ NamesFree(steps[next].fields)
  /\ h5' = [h5 EXCEPT !.data = Append(@, Group(steps[next].fields))]
  /\ next' = next + 1
  /\ UNCHANGED <<memory, pc, leaked, xdmf, promise>>

CloseHdf5 ==
  /\ pc = "steps"
  /\ next > Len(steps)
  /\ h5' = [h5 EXCEPT !.state = "closed"]
  /\ pc' = "xdmf"
  /\ UNCHANGED <<memory, next, leaked, xdmf, promise>>

(* The stream is opened, which empties the file.                           *)
OpenXdmf ==
  /\ pc = "xdmf"
  /\ xdmf' = <<>>
  /\ pc' = "text"
  /\ UNCHANGED <<memory, next, leaked, h5, promise>>

(* The number of a step is written for its time.  (Mutant.)                *)
NumbersOf(s) == [k \in DOMAIN s |-> k]

(* operator<< with the stream's default precision, for times of at most    *)
(* one digit too many: the last digit is rounded away.                     *)
Printed(t) == IF t < Precise THEN t ELSE 10 * ((t + 5) \div 10)

TimesOf(s) == [k \in DOMAIN s |-> Printed(s[k].time)]

(* The grid of a step: its time, the shape of the elements, and the names  *)
(* of its vectors in their order.  Those of scalars are not looked at when *)
(* the file is read.                                                       *)
XdmfStep(m, s, k) ==
  LET vecs == s[k].fields["vector"] IN
  [time |-> TimesOf(s)[k], shape |-> m.elems[1], vecs |-> [i \in DOMAIN vecs |-> vecs[i].name]]

XdmfText(m, s) == [k \in DOMAIN s |-> XdmfStep(m, s, k)]

(* A grid that is cut: it has lost its last vectors, or the shape too.     *)
CutStep(grid) ==
  {[grid EXCEPT !.shape = "Unknown", !.vecs = <<>>]}
    \cup {[grid EXCEPT !.vecs = SubSeq(@, 1, n)] : n \in 0 .. Len(grid.vecs)}

CutText(text) ==
  {SubSeq(text, 1, n) : n \in DOMAIN text \cup {0}}
    \cup UNION {{Append(SubSeq(text, 1, n - 1), cut) : cut \in CutStep(text[n])} : n \in DOMAIN text}

(* The text is written and write returns; errors of the stream are not     *)
(* looked at, so that the file may end anywhere.                           *)
WriteXdmf ==
  /\ pc = "text"
  /\ \/ /\ xdmf' = XdmfText(mesh, steps)
        /\ promise' = <<[mesh |-> mesh, steps |-> steps]>>
     \/ /\ xdmf' \in CutText(XdmfText(mesh, steps))
        /\ UNCHANGED promise
  /\ pc' = "idle" /\ next' = 0
  /\ UNCHANGED <<memory, leaked, h5>>

(* A check of the HDF5 part or of the opening of the stream throws.        *)
WriteThrows ==
  /\ pc \in {"create", "steps", "xdmf"}
  /\ leaked' = (leaked \/ pc = "steps")
  /\ pc' = "idle" /\ next' = 0
  /\ UNCHANGED <<memory, files, promise>>

(* The process is killed: what was in memory is gone.                      *)
Crash ==
  /\ mesh' = NoMesh /\ steps' = <<>>
  /\ pc' = "idle" /\ next' = 0 /\ leaked' = FALSE
  /\ UNCHANGED <<files, promise>>

Next ==
  \/ \E m \in Meshes : AttachMesh(m)
  \/ \E t \in Times : BeginStep(t)
  \/ \E kind \in Kinds, name \in Names, nodes \in {NumNodes(m) : m \in Meshes} :
       AddField(kind, name, nodes)
  \/ Clear
  \/ Write \/ CreateHdf5 \/ WriteStep \/ CloseHdf5 \/ OpenXdmf \/ WriteXdmf \/ WriteThrows
  \/ Crash

Spec == Init /\ [][Next]_vars

(* What later steps and the property below can depend on: a mesh that      *)
(* write refuses is as good as none, and a file is not looked at before it *)
(* is emptied unless something promised is in it.                          *)
Live ==
  <<IF mesh # NoMesh /\ CheckMesh(mesh) THEN mesh ELSE NoMesh,
    steps, writing, promise,
    IF promise # <<>> \/ pc \in {"steps", "xdmf", "text"} THEN h5 ELSE {},
    IF promise # <<>> \/ pc = "text" THEN xdmf ELSE {}>>

(***************************************************************************)
(* TimeSeriesDataIn::read: the series of the two files, or Threw.  What    *)
(* can be read from an HDF5 file that was never closed is left open: no    *)
(* property asks.                                                          *)
(***************************************************************************)
Threw == <<>>

(* readXdmfInfo: the text may be missing, old or cut.                      *)
ReadTimes == [k \in DOMAIN xdmf |-> xdmf[k].time]
ReadShape == IF xdmf = <<>> THEN "Unknown" ELSE xdmf[1].shape
VectorNames == UNION {ToSet(xdmf[k].vecs) : k \in DOMAIN xdmf}
VectorFields == IF VectorNames = {} THEN {"velocity"} ELSE VectorNames

MeshDim(shape) == IF shape = "Tetrahedron" \/ ~h5.mesh.flat THEN 3 ELSE 2

(* What the nodes of an element and the dimension tell, or "Unknown".      *)
InferShape(cn, dim) ==
  CASE cn = 3 /\ dim = 2 -> "Triangle"
    [] cn = 4 /\ dim = 2 -> "Quadrilateral"
    [] cn = 4 /\ dim = 3 -> "Tetrahedron"
    [] OTHER -> "Unknown"

ReadMesh ==
  LET dim == MeshDim(ReadShape)
      shape == IF ReadShape = "Unknown" THEN InferShape(h5.mesh.cn, dim) ELSE ReadShape
  IN  [dim |-> dim, shape |-> shape, nodes |-> h5.mesh.nodes, elems |-> h5.mesh.elems]

(* countSteps: the groups up to the first that is not there.               *)
CountSteps == Len(h5.data)

CountsDiffer == ReadTimes # <<>> /\ Len(ReadTimes) # CountSteps

(* readDoubleDataset: the dataset of a name, with its dimensions.          *)
Dataset(data, name) == CHOOSE f \in data : f.name = name

(* A dataset that has the name of a vector field, in one step, but is none.*)
ScalarInTheWay(data) == \E f \in data : f.name \in VectorFields /\ f.rank = "scalar"

(* The vector fields a step has; one that it does not have is passed over. *)
ReadVectors(data) ==
  [name \in VectorFields \cap {f.name : f \in data} |-> Dataset(data, name).data]

Read ==
  IF \/ h5.state # "closed" \/ CountSteps = 0
     \/ ReadMesh.shape = "Unknown"
     \/ CountsDiffer
     \/ \E k \in DOMAIN h5.data : ScalarInTheWay(h5.data[k])
  THEN Threw
  ELSE <<[mesh |-> ReadMesh,
          steps |-> [k \in DOMAIN h5.data |->
                       [time |-> IF ReadTimes = <<>> THEN k - 1 ELSE ReadTimes[k],
                        vecs |-> ReadVectors(h5.data[k])]]]>>

-----------------------------------------------------------------------------
(* No scalar field of the series has the name that a vector field of       *)
(* another step has, or the name that a series without vectors is asked    *)
(* for.                                                                    *)
NamesOf(s, kind) == UNION {{f.name : f \in ToSet(s[k].fields[kind])} : k \in DOMAIN s}
NamesApart(s) ==
  LET asked == IF NamesOf(s, "vector") = {} THEN {"velocity"} ELSE NamesOf(s, "vector") IN
  NamesOf(s, "scalar") \cap asked = {}

(* The reader finds the dimension a mesh has: two for a surface in the     *)
(* plane z = 0, three for tetrahedra and for any mesh that leaves the      *)
(* plane.                                                                  *)
DimensionShows(m) == m.dim = 2 <=> m.flat /\ m.elems[1] # "Tetrahedron"

(* What a write that went well has written can be read back, the mesh, the *)
(* vector fields and the times (as they are printed, so that two steps may *)
(* get one time), until the next write empties the files: also after the   *)
(* process was killed, after the series was cleared or another mesh was    *)
(* attached, and after writes that threw before they touched a file.  The  *)
(* exceptions are what the files do not say: a scalar in the way of a      *)
(* vector makes the reader throw, and a mesh whose dimension is not that   *)
(* of its shapes and coordinates is returned with the other one.           *)
ReadBack ==
  LET r == Read IN
  \A s \in ToSet(promise) :
    NamesApart(s.steps) =>
      /\ Len(r) = 1
      /\ r[1].steps =
           [k \in DOMAIN s.steps |->
              [time |-> Printed(s.steps[k].time),
               vecs |-> [name \in {f.name : f \in ToSet(s.steps[k].fields["vector"])} |-> k]]]
      /\ r[1].mesh.shape = s.mesh.elems[1]
      /\ r[1].mesh.nodes = NumNodes(s.mesh) /\ r[1].mesh.elems = Len(s.mesh.elems)
      /\ r[1].mesh.dim = s.mesh.dim <=> DimensionShows(s.mesh)

-----------------------------------------------------------------------------
(* What is kept in memory.                                                 *)
Fields == [name : Names, nodes : Nat, data : Nat]
Steps == [time : Times, fields : [Kinds -> Seq(Fields)]]
Series == Seq(Steps)

TypeOK ==
  /\ mesh \in Meshes \cup {NoMesh} /\ steps \in Series
  /\ pc \in {"idle", "create", "steps", "xdmf", "text"}
  /\ next \in Nat /\ leaked \in BOOLEAN

(* A series write accepts, as AddField made it.                            *)
Numbered(s) ==
  \A k \in DOMAIN s, kind \in Kinds : \A f \in ToSet(s[k].fields[kind]) : f.data = k
Accepted(m, s) == m \in Meshes /\ CheckMesh(m) /\ s \in Series \ {<<>>} /\ Numbered(s)

(* The HDF5 file holds the mesh and the first n steps of a series.         *)
Holds(m, s, n) ==
  h5.mesh = WriteMesh(m) /\ h5.data = [k \in 1 .. n |-> Group(s[k].fields)]

(* A write under way, from the moment it has emptied the file.             *)
Underway ==
  /\ Numbered(steps)
  /\ pc # "idle" => Accepted(mesh, steps)
  /\ pc = "steps" =>
       /\ h5.state = "open" /\ promise = <<>>
       /\ next \in 1 .. Len(steps) + 1 /\ Holds(mesh, steps, next - 1)
  /\ pc \in {"xdmf", "text"} =>
       /\ h5.state = "closed" /\ promise = <<>>
       /\ Holds(mesh, steps, Len(steps))

(* The files of the last write that went well.                             *)
Promised ==
  promise # <<>> =>
    LET m == promise[1].mesh
        s == promise[1].steps
    IN  /\ promise = <<[mesh |-> m, steps |-> s]>> /\ Accepted(m, s)
        /\ h5.state = "closed" /\ Holds(m, s, Len(s))
        /\ xdmf = XdmfText(m, s)

(* Together they are inductive.                                            *)
IInv == TypeOK /\ Underway /\ Promised
=============================================================================
