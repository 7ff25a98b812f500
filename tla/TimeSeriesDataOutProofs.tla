------------------------ MODULE TimeSeriesDataOutProofs ------------------------
(***************************************************************************)
(* For series of any length, any fields and any times: what a write that   *)
(* went well has written can be read back until the next write empties the *)
(* files, whatever happens to the process and to the series meanwhile.     *)
(***************************************************************************)
EXTENDS TimeSeriesDataOut, TLAPS

-----------------------------------------------------------------------------
(* The elements of a sequence that has grown by one.                       *)
LEMMA ToSetAppend ==
  ASSUME NEW S, NEW q \in Seq(S), NEW e \in S, NEW f \in ToSet(Append(q, e))
  PROVE  f = e \/ f \in ToSet(q)
  <1>1. PICK i \in DOMAIN Append(q, e) : f = Append(q, e)[i]
    BY DEF ToSet
  <1>2. i \in 1 .. Len(q) + 1 /\ DOMAIN q = 1 .. Len(q) /\ Len(q) \in Nat
    BY <1>1
  <1>3. CASE i = Len(q) + 1
    BY <1>1, <1>2, <1>3
  <1>4. CASE i # Len(q) + 1
    <2>1. i \in DOMAIN q /\ f = q[i]
      BY <1>1, <1>2, <1>4
    <2> QED
      BY <2>1 DEF ToSet
  <1> QED
    BY <1>3, <1>4

(* The series in memory.                                                   *)
LEMMA SeriesType ==
  ASSUME NEW s \in Series
  PROVE  /\ Len(s) \in Nat /\ DOMAIN s = 1 .. Len(s)
         /\ s \in [1 .. Len(s) -> Steps]
         /\ \A k \in DOMAIN s :
              s[k] \in Steps /\ s[k].time \in Times /\ s[k].fields \in [Kinds -> Seq(Fields)]
  <1>1. Len(s) \in Nat /\ DOMAIN s = 1 .. Len(s) /\ s \in [1 .. Len(s) -> Steps]
    BY DEF Series
  <1>2. \A k \in DOMAIN s : s[k] \in Steps
    BY <1>1
  <1>3. \A r \in Steps : r.time \in Times /\ r.fields \in [Kinds -> Seq(Fields)]
    BY DEF Steps
  <1> QED
    BY <1>1, <1>2, <1>3

(* beginStep makes a longer series of the same kind.                       *)
LEMMA BeginStepSeries ==
  ASSUME NEW s \in Series, Numbered(s), NEW t \in Times
  PROVE  /\ Append(s, [time |-> t, fields |-> NoFields]) \in Series
         /\ Numbered(Append(s, [time |-> t, fields |-> NoFields]))
  <1> DEFINE new == [time |-> t, fields |-> NoFields]
             longer == Append(s, new)
  <1>1. new \in Steps
    BY DEF NoFields, Steps
  <1>2. longer \in Series
    BY <1>1 DEF Series
  <1>3. ASSUME NEW k \in DOMAIN longer, NEW kind \in Kinds,
               NEW f \in ToSet(longer[k].fields[kind])
        PROVE  f.data = k
    <2>1. CASE k = Len(s) + 1
      <3>1. longer[k].fields[kind] = <<>>
        BY <1>1, <2>1 DEF Series, NoFields
      <3> QED
        BY <1>3, <3>1 DEF ToSet
    <2>2. CASE k # Len(s) + 1
      <3>1. k \in DOMAIN s /\ longer[k] = s[k]
        BY <1>1, <1>3, <2>2 DEF Series
      <3> QED
        BY <1>3, <3>1 DEF Numbered
    <2> QED
      BY <2>1, <2>2
  <1> QED
    BY <1>2, <1>3 DEF Numbered

(* A field added to the last step makes a series of the same length.       *)
LEMMA AddFieldSeries ==
  ASSUME NEW s \in Series, s # <<>>, Numbered(s), NEW kind \in Kinds,
         NEW field \in Fields, field.data = Len(s)
  PROVE  LET more == [s EXCEPT ![Len(s)].fields[kind] = Append(@, field)]
         IN  more \in Series /\ Numbered(more) /\ Len(more) = Len(s)
  <1> DEFINE last == Len(s)
             old == s[last].fields
             new == [s[last] EXCEPT !.fields = [old EXCEPT ![kind] = Append(@, field)]]
             more == [s EXCEPT ![last] = new]
  <1>1. last \in Nat /\ DOMAIN s = 1 .. last /\ s \in [1 .. last -> Steps] /\ last \in 1 .. last
    BY SeriesType DEF Series
  <1>2. s[last] \in Steps /\ old \in [Kinds -> Seq(Fields)]
    BY <1>1, SeriesType
  <1>3. [old EXCEPT ![kind] = Append(@, field)] \in [Kinds -> Seq(Fields)]
    BY <1>2
  <1>4. new \in Steps /\ new.fields = [old EXCEPT ![kind] = Append(@, field)]
    BY <1>2, <1>3 DEF Steps
  <1>5. /\ more \in [1 .. last -> Steps] /\ more[last] = new
        /\ \A k \in 1 .. last : k # last => more[k] = s[k]
    BY <1>1, <1>4
  <1>6. more \in Series /\ Len(more) = last /\ DOMAIN more = 1 .. last
    BY <1>1, <1>5 DEF Series
  <1>7. ASSUME NEW k \in 1 .. last, NEW other \in Kinds,
               NEW f \in ToSet(more[k].fields[other])
        PROVE  f.data = k
    <2>1. CASE k # last \/ other # kind
      <3>1. more[k].fields[other] = s[k].fields[other]
        BY <1>1, <1>2, <1>4, <1>5, <2>1
      <3> QED
        BY <1>1, <1>7, <3>1 DEF Numbered
    <2>2. CASE k = last /\ other = kind
      <3>1. more[k].fields[other] = Append(old[kind], field) /\ old[kind] \in Seq(Fields)
        BY <1>1, <1>2, <1>4, <1>5, <2>2
      <3>2. f = field \/ f \in ToSet(old[kind])
        BY <1>7, <3>1, ToSetAppend
      <3> QED
        BY <1>1, <2>2, <3>2 DEF Numbered
    <2> QED
      BY <2>1, <2>2
  <1>8. Numbered(more)
    BY <1>6, <1>7 DEF Numbered
  <1>9. more = [s EXCEPT ![Len(s)].fields[kind] = Append(@, field)]
    OBVIOUS
  <1> QED
    BY <1>6, <1>8, <1>9

-----------------------------------------------------------------------------
(* The actions.                                                            *)
THEOREM InitIInv == Init => IInv
  <1> SUFFICES ASSUME Init PROVE IInv
    OBVIOUS
  <1>1. <<>> \in Series /\ Numbered(<<>>)
    BY DEF Series, Numbered
  <1>2. TypeOK
    BY <1>1 DEF Init, TypeOK
  <1>3. Underway /\ Promised
    BY <1>1 DEF Init, Underway, Promised
  <1> QED
    BY <1>2, <1>3 DEF IInv

(* Outside of a write only the types and the numbering are to be kept.     *)
LEMMA MemoryIInv ==
  ASSUME IInv, pc' = "idle", next' \in Nat, leaked' \in BOOLEAN,
         mesh' \in Meshes \cup {NoMesh}, steps' \in Series, Numbered(steps'),
         UNCHANGED <<files, promise>>
  PROVE  IInv'
  <1>1. TypeOK' /\ Underway'
    BY DEF TypeOK, Underway
  <1>2. Promised'
    BY DEF IInv, Promised, Holds, files
  <1> QED
    BY <1>1, <1>2 DEF IInv

(* What only changes the series in memory, ends a write by an exception or *)
(* kills the process keeps the promise of the files.                       *)
LEMMA SeriesIInv ==
  ASSUME IInv,
         \/ \E m \in Meshes : AttachMesh(m)
         \/ \E t \in Times : BeginStep(t)
         \/ \E kind \in Kinds, name \in Names, nodes \in Nat : AddField(kind, name, nodes)
         \/ Clear \/ WriteThrows \/ Crash
  PROVE  IInv'
  <1> USE DEF IInv, writing, memory
  <1>0. <<>> \in Series /\ Numbered(<<>>) /\ steps \in Series /\ Numbered(steps)
    BY DEF Series, Numbered, TypeOK, Underway
  <1>1. CASE \E m \in Meshes : AttachMesh(m)
    BY <1>0, <1>1, MemoryIInv DEF AttachMesh, TypeOK
  <1>2. CASE \E t \in Times : BeginStep(t)
    BY <1>0, <1>2, MemoryIInv, BeginStepSeries DEF BeginStep, TypeOK
  <1>3. ASSUME NEW kind \in Kinds, NEW name \in Names, NEW nodes \in Nat,
               AddField(kind, name, nodes)
        PROVE  IInv'
    <2> DEFINE field == [name |-> name, nodes |-> nodes, data |-> Len(steps)]
    <2>1. field \in Fields /\ field.data = Len(steps)
      BY <1>0, SeriesType DEF Fields
    <2>2. steps' = [steps EXCEPT ![Len(steps)].fields[kind] = Append(@, field)] /\ steps # <<>>
      BY <1>3 DEF AddField
    <2>3. steps' \in Series /\ Numbered(steps')
      BY <1>0, <2>1, <2>2, AddFieldSeries
    <2> QED
      BY <1>3, <2>3, MemoryIInv DEF AddField, TypeOK
  <1>4. CASE Clear
    BY <1>0, <1>4, MemoryIInv DEF Clear, TypeOK
  <1>5. CASE WriteThrows
    BY <1>0, <1>5, MemoryIInv DEF WriteThrows, TypeOK
  <1>6. CASE Crash
    BY <1>0, <1>6, MemoryIInv DEF Crash
  <1> QED
    BY <1>1, <1>2, <1>3, <1>4, <1>5, <1>6

(* What checkReady accepts.                                                *)
LEMMA ReadyAccepted ==
  ASSUME IInv, Ready
  PROVE  Accepted(mesh, steps)
  BY DEF IInv, TypeOK, Underway, Ready, Accepted

(* The start of a write changes no file, and the file that is emptied      *)
(* takes the promise with it.                                              *)
LEMMA WriteIInv ==
  ASSUME IInv, Write \/ CreateHdf5
  PROVE  IInv'
  <1> USE DEF IInv, memory, files
  <1>1. CASE Write
    <2>1. TypeOK' /\ Promised'
      BY <1>1 DEF Write, TypeOK, Promised, Holds
    <2>2. Underway'
      BY <1>1, ReadyAccepted DEF Write, Underway
    <2> QED
      BY <2>1, <2>2
  <1>2. CASE CreateHdf5
    <2>1. TypeOK' /\ Promised'
      BY <1>2 DEF CreateHdf5, TypeOK, Promised
    <2>2. Holds(mesh, steps, 0)'
      BY <1>2 DEF CreateHdf5, Truncated, Holds
    <2>3. Len(steps) \in Nat
      BY SeriesType DEF TypeOK
    <2> QED
      BY <1>2, <2>1, <2>2, <2>3 DEF CreateHdf5, Underway
  <1> QED
    BY <1>1, <1>2

(* One group more.                                                         *)
LEMMA WriteStepIInv ==
  ASSUME IInv, WriteStep
  PROVE  IInv'
  <1> USE DEF IInv, memory
  <1>1. /\ pc = "steps" /\ pc' = "steps" /\ next' = next + 1 /\ next <= Len(steps)
        /\ next \in 1 .. Len(steps) + 1 /\ Len(steps) \in Nat
        /\ h5.state = "open" /\ promise = <<>> /\ Holds(mesh, steps, next - 1)
        /\ UNCHANGED <<mesh, steps, leaked, xdmf, promise>>
        /\ h5' = [h5 EXCEPT !.data = Append(@, Group(steps[next].fields))]
    BY SeriesType DEF WriteStep, Underway, TypeOK
  <1>2. Append([k \in 1 .. next - 1 |-> Group(steps[k].fields)], Group(steps[next].fields))
          = [k \in 1 .. next |-> Group(steps[k].fields)]
    BY <1>1
  <1>3. h5'.state = "open" /\ h5'.mesh = WriteMesh(mesh)
         /\ h5'.data = [k \in 1 .. next |-> Group(steps[k].fields)]
    BY <1>1, <1>2 DEF Holds
  <1>4. TypeOK' /\ Promised'
    BY <1>1 DEF TypeOK, Promised
  <1>5. Underway'
    BY <1>1, <1>3 DEF Underway, Holds
  <1> QED
    BY <1>4, <1>5

(* The promise is made only when both files are complete.                  *)
LEMMA FinishIInv ==
  ASSUME IInv, CloseHdf5 \/ OpenXdmf \/ WriteXdmf
  PROVE  IInv'
  <1> USE DEF IInv, memory
  <1>1. CASE CloseHdf5
    <2>1. next - 1 = Len(steps)
      BY <1>1, SeriesType DEF CloseHdf5, Underway, TypeOK
    <2> QED
      BY <1>1, <2>1 DEF CloseHdf5, TypeOK, Underway, Holds, Promised
  <1>2. CASE OpenXdmf
    BY <1>2 DEF OpenXdmf, TypeOK, Underway, Holds, Promised
  <1>3. CASE WriteXdmf
    <2>1. TypeOK' /\ Underway'
      BY <1>3 DEF WriteXdmf, TypeOK, Underway
    <2>2. Promised'
      BY <1>3 DEF WriteXdmf, Underway, Promised, Holds
    <2> QED
      BY <2>1, <2>2
  <1> QED
    BY <1>1, <1>2, <1>3

(* The nodes of a mesh, of which the type says too little.                 *)
LEMMA MeshType ==
  ASSUME NEW m \in Meshes
  PROVE  /\ Len(m.elems) \in Nat /\ NumNodes(m) \in Nat
         /\ m.dim \in {2, 3} /\ m.flat \in BOOLEAN
  <1>1. /\ m.dim \in {2, 3} /\ m.flat \in BOOLEAN
        /\ m.elems \in {<<s>> : s \in Shapes} \cup {<<"Triangle", s>> : s \in Shapes \ {"Triangle"}}
    BY DEF Meshes
  <1>2. Len(m.elems) \in {1, 2} /\ 1 \in DOMAIN m.elems
    BY <1>1
  <1>3. Corners(m.elems[1]) \in {3, 4, 8}
    BY DEF Corners
  <1>4. NumNodes(m) \in Nat
    BY <1>2, <1>3 DEF NumNodes
  <1> QED
    BY <1>1, <1>2, <1>4

(* Every step keeps it.                                                    *)
THEOREM NextIInv == IInv /\ [Next]_vars => IInv'
  <1> SUFFICES ASSUME IInv, [Next]_vars PROVE IInv'
    OBVIOUS
  <1>1. CASE UNCHANGED vars
    BY <1>1 DEF IInv, TypeOK, Underway, Promised, Holds, vars, memory, writing, files
  <1>2. ASSUME NEW kind \in Kinds, NEW name \in Names, NEW nodes \in {NumNodes(m) : m \in Meshes},
               AddField(kind, name, nodes)
        PROVE  IInv'
    BY <1>2, MeshType, SeriesIInv
  <1>3. CASE \/ \E m \in Meshes : AttachMesh(m)
             \/ \E t \in Times : BeginStep(t)
             \/ Clear \/ WriteThrows \/ Crash
    BY <1>3, SeriesIInv
  <1>4. CASE Write \/ CreateHdf5
    BY <1>4, WriteIInv
  <1>5. CASE WriteStep
    BY <1>5, WriteStepIInv
  <1>6. CASE CloseHdf5 \/ OpenXdmf \/ WriteXdmf
    BY <1>6, FinishIInv
  <1> QED
    BY <1>1, <1>2, <1>3, <1>4, <1>5, <1>6 DEF Next

(* What the series, a write under way and the files of the last write that *)
(* went well have to do with one another, at every moment.                 *)
THEOREM AlwaysIInv == Spec => []IInv
  BY InitIInv, NextIInv, PTL DEF Spec

-----------------------------------------------------------------------------
(* What the reader makes of the files of the last write that went well.    *)
(* The dimension and the shape of the mesh.                                *)
LEMMA ReadMeshOfWritten ==
  ASSUME NEW m, NEW s, Accepted(m, s), Holds(m, s, Len(s)), xdmf = XdmfText(m, s)
  PROVE  /\ ReadMesh.shape # "Unknown"
         /\ ReadMesh.shape = m.elems[1]
         /\ ReadMesh.nodes = NumNodes(m) /\ ReadMesh.elems = Len(m.elems)
         /\ ReadMesh.dim = m.dim <=> DimensionShows(m)
  <1>1. m \in Meshes /\ m.elems[1] \in Supported /\ "Unknown" \notin Supported
    BY DEF Accepted, CheckMesh, Supported
  <1>2. xdmf # <<>> /\ xdmf[1].shape = m.elems[1]
    <2>1. s # <<>> /\ s \in Series
      BY DEF Accepted
    <2>2. 1 \in DOMAIN s
      BY <2>1, SeriesType
    <2>3. DOMAIN xdmf = DOMAIN s /\ xdmf[1] = XdmfStep(m, s, 1)
      BY <2>2 DEF XdmfText
    <2> QED
      BY <2>2, <2>3 DEF XdmfStep
  <1>3. ReadShape = m.elems[1] /\ ReadShape # "Unknown"
    BY <1>1, <1>2 DEF ReadShape
  <1>4. h5.mesh = [nodes |-> NumNodes(m), flat |-> m.flat, elems |-> Len(m.elems), cn |-> Corners(m.elems[1])]
    BY DEF Holds, WriteMesh
  <1>5. MeshDim(ReadShape) = m.dim <=> DimensionShows(m)
    <2>1. h5.mesh.flat = m.flat
      BY <1>4
    <2>2. m.dim \in {2, 3} /\ m.flat \in BOOLEAN
      BY <1>1, MeshType
    <2> QED
      BY <1>3, <2>1, <2>2 DEF MeshDim, DimensionShows
  <1>6. ReadMesh = [dim |-> MeshDim(ReadShape), shape |-> m.elems[1],
                    nodes |-> NumNodes(m), elems |-> Len(m.elems)]
    BY <1>3, <1>4 DEF ReadMesh
  <1> QED
    BY <1>1, <1>5, <1>6

(* The times, and the names the vector fields are asked for.               *)
LEMMA ReadInfoOfWritten ==
  ASSUME NEW m, NEW s \in Series, s # <<>>, xdmf = XdmfText(m, s)
  PROVE  /\ ReadTimes = [k \in DOMAIN s |-> Printed(s[k].time)]
         /\ ReadTimes # <<>> /\ Len(ReadTimes) = Len(s)
         /\ VectorNames = NamesOf(s, "vector")
  <1>1. Len(s) \in Nat /\ DOMAIN s = 1 .. Len(s) /\ 1 \in DOMAIN s
    BY SeriesType
  <1>2. DOMAIN xdmf = DOMAIN s /\ \A k \in DOMAIN s : xdmf[k] = XdmfStep(m, s, k)
    BY DEF XdmfText
  <1>3. \A k \in DOMAIN s : xdmf[k].time = Printed(s[k].time)
    BY <1>2 DEF XdmfStep, TimesOf
  <1>4. ReadTimes = [k \in DOMAIN s |-> Printed(s[k].time)]
    BY <1>2, <1>3 DEF ReadTimes
  <1>5. ReadTimes # <<>> /\ Len(ReadTimes) = Len(s)
    BY <1>1, <1>4
  <1>6. ASSUME NEW k \in DOMAIN s
        PROVE  ToSet(xdmf[k].vecs) = {f.name : f \in ToSet(s[k].fields["vector"])}
    <2> DEFINE vecs == s[k].fields["vector"]
    <2>1. xdmf[k].vecs = [i \in DOMAIN vecs |-> vecs[i].name]
      BY <1>2 DEF XdmfStep
    <2> QED
      BY <2>1 DEF ToSet
  <1>7. VectorNames = NamesOf(s, "vector")
    BY <1>2, <1>6 DEF VectorNames, NamesOf
  <1> QED
    BY <1>4, <1>5, <1>7

(* The vector fields of a step, in spite of the scalar fields.             *)
LEMMA ReadVectorsOfWritten ==
  ASSUME NEW s \in Series, Numbered(s), NamesApart(s), VectorNames = NamesOf(s, "vector"),
         NEW k \in DOMAIN s
  PROVE  /\ ~ScalarInTheWay(Group(s[k].fields))
         /\ ReadVectors(Group(s[k].fields)) =
              [name \in {f.name : f \in ToSet(s[k].fields["vector"])} |-> k]
  <1> DEFINE fields == s[k].fields
             data == Group(fields)
             vectors == {f.name : f \in ToSet(fields["vector"])}
  <1>1. \A d \in data : d.data = k
    BY DEF Group, Numbered
  <1>2. VectorFields \cap NamesOf(s, "scalar") = {}
    BY DEF VectorFields, NamesApart
  <1>3. ASSUME NEW d \in data, d.rank = "scalar"
        PROVE  d.name \notin VectorFields
    <2>1. PICK kind \in Kinds : \E f \in ToSet(fields[kind]) :
                    d = [rank |-> kind, name |-> f.name, data |-> f.data]
      BY DEF Group
    <2>2. kind = "scalar"
      BY <1>3, <2>1
    <2>3. d.name \in NamesOf(s, "scalar")
      BY <2>1, <2>2 DEF NamesOf
    <2> QED
      BY <1>2, <2>3
  <1>4. VectorFields \cap {d.name : d \in data} = vectors
    <2>1. ASSUME NEW d \in data, d.name \in VectorFields
          PROVE  d.name \in vectors
      <3>1. PICK kind \in Kinds : \E f \in ToSet(fields[kind]) :
                      d = [rank |-> kind, name |-> f.name, data |-> f.data]
        BY DEF Group
      <3>2. kind = "vector"
        BY <1>3, <2>1, <3>1 DEF Kinds
      <3> QED
        BY <3>1, <3>2
    <2>2. ASSUME NEW f \in ToSet(fields["vector"])
          PROVE  f.name \in VectorFields /\ f.name \in {d.name : d \in data}
      <3>1. f.name \in NamesOf(s, "vector")
        BY <2>2 DEF NamesOf
      <3>2. [rank |-> "vector", name |-> f.name, data |-> f.data] \in data
        BY <2>2 DEF Group, Kinds
      <3> QED
        BY <3>1, <3>2 DEF VectorFields
    <2> QED
      BY <2>1, <2>2
  <1>5. ASSUME NEW name \in vectors
        PROVE  (CHOOSE d \in data : d.name = name).data = k
    <2>1. \E d \in data : d.name = name
      BY <1>4, <1>5
    <2>2. (CHOOSE d \in data : d.name = name) \in data
      BY <2>1
    <2> QED
      BY <1>1, <2>2
  <1>6. ReadVectors(data) = [name \in vectors |-> k]
    BY <1>4, <1>5 DEF ReadVectors, Dataset
  <1>7. ~ScalarInTheWay(data)
    BY <1>3 DEF ScalarInTheWay
  <1> QED
    BY <1>6, <1>7

-----------------------------------------------------------------------------
(* What was written can be read back, from what always holds.              *)
THEOREM ReadBackOfIInv == IInv => ReadBack
  <1> SUFFICES ASSUME IInv, NEW r \in ToSet(promise), NamesApart(r.steps)
               PROVE  /\ Len(Read) = 1
                      /\ Read[1].steps =
                           [k \in DOMAIN r.steps |->
                              [time |-> Printed(r.steps[k].time),
                               vecs |-> [name \in {f.name : f \in ToSet(r.steps[k].fields["vector"])} |-> k]]]
                      /\ Read[1].mesh.shape = r.mesh.elems[1]
                      /\ Read[1].mesh.nodes = NumNodes(r.mesh)
                      /\ Read[1].mesh.elems = Len(r.mesh.elems)
                      /\ Read[1].mesh.dim = r.mesh.dim <=> DimensionShows(r.mesh)
    BY DEF ReadBack
  <1> DEFINE m == r.mesh
             s == r.steps
             all == [k \in DOMAIN s |->
                       [time |-> Printed(s[k].time),
                        vecs |-> [name \in {f.name : f \in ToSet(s[k].fields["vector"])} |-> k]]]
  <1>1. Accepted(m, s) /\ h5.state = "closed" /\ Holds(m, s, Len(s)) /\ xdmf = XdmfText(m, s)
    <2>1. promise # <<>> /\ \E i \in DOMAIN promise : r = promise[i]
      BY DEF ToSet
    <2>2. r = promise[1]
      BY <2>1 DEF IInv, Promised
    <2> QED
      BY <2>1, <2>2 DEF IInv, Promised
  <1>2. s \in Series /\ s # <<>> /\ Numbered(s)
    BY <1>1 DEF Accepted
  <1>3. /\ ReadTimes = [k \in DOMAIN s |-> Printed(s[k].time)]
        /\ ReadTimes # <<>> /\ Len(ReadTimes) = Len(s)
        /\ VectorNames = NamesOf(s, "vector")
    BY <1>1, <1>2, ReadInfoOfWritten
  <1>4. /\ DOMAIN s = 1 .. Len(s) /\ Len(s) \in Nat
        /\ h5.data = [k \in DOMAIN s |-> Group(s[k].fields)]
    BY <1>1, <1>2, SeriesType DEF Holds
  <1>5. CountSteps # 0 /\ ~CountsDiffer
    <2>1. Len(s) # 0 /\ Len(h5.data) = Len(s)
      BY <1>2, <1>4
    <2> QED
      BY <1>3, <2>1 DEF CountsDiffer, CountSteps
  <1>6. \A k \in DOMAIN s :
          ~ScalarInTheWay(h5.data[k]) /\ ReadVectors(h5.data[k]) = all[k].vecs
    <2>1. TAKE k \in DOMAIN s
    <2>2. h5.data[k] = Group(s[k].fields)
      BY <1>4
    <2>3. /\ ~ScalarInTheWay(Group(s[k].fields))
          /\ ReadVectors(Group(s[k].fields)) =
               [name \in {f.name : f \in ToSet(s[k].fields["vector"])} |-> k]
      BY <1>2, <1>3, ReadVectorsOfWritten
    <2> QED
      BY <2>2, <2>3
  <1>7. Read = <<[mesh |-> ReadMesh,
                  steps |-> [k \in DOMAIN h5.data |->
                               [time |-> IF ReadTimes = <<>> THEN k - 1 ELSE ReadTimes[k],
                                vecs |-> ReadVectors(h5.data[k])]]]>>
    BY <1>1, <1>4, <1>5, <1>6, ReadMeshOfWritten DEF Read
  <1>8. [k \in DOMAIN h5.data |->
           [time |-> IF ReadTimes = <<>> THEN k - 1 ELSE ReadTimes[k],
            vecs |-> ReadVectors(h5.data[k])]] = all
    BY <1>3, <1>4, <1>6
  <1>9. Len(Read) = 1 /\ Read[1].mesh = ReadMesh /\ Read[1].steps = all
    BY <1>7, <1>8
  <1> QED
    BY <1>1, <1>9, ReadMeshOfWritten

(* Always, until the next write empties the files.                         *)
THEOREM ReadBackAlways == Spec => []ReadBack
  BY AlwaysIInv, ReadBackOfIInv, PTL
=============================================================================
