------------------------------- MODULE GmshReader ------------------------------
(***************************************************************************)
(* GmshReader: a mesh from a Gmsh file of format 2 or 4.  A file is its    *)
(* sections in the order they are written,                                 *)
(*   [kind |-> "MeshFormat", version, ascii]                               *)
(*   [kind |-> "PhysicalNames", names]        names: [dim, tag, name]      *)
(*   [kind |-> "Entities", entities]          entities: [dim, tag, ptags]  *)
(*   [kind |-> "Nodes", layout, nodes]        nodes: [tag, point]          *)
(*   [kind |-> "Elements", layout, elems]     elems: [type, tags, nodes],  *)
(*                           in format 4 [type, edim, etag, nodes]         *)
(*   [kind |-> "Other", closed]                                            *)
(* where layout is the format the section is written in.                   *)
(***************************************************************************)
EXTENDS NavierConfig

CONSTANT Files    \* the readable mesh files, by path

VARIABLES
  reader,   \* what read has gathered, and the sections that are left
  mesh      \* the mesh, or NoMesh

readerVars == <<reader, mesh>>

NoMesh == <<>>
NotReading == <<>>
EmptyFunction == [x \in {} |-> 0]
Opened(path) ==
  [version |-> 0, names |-> EmptyFunction, entities |-> EmptyFunction, nid_by_tag |-> EmptyFunction,
   nodes |-> <<>>, elems |-> <<>>, rest |-> Files[path], ok |-> TRUE]

(* gmshShape, gmshNumNodes and gmshElemDim, of the types the reader knows. *)
ElemTypes ==
  (1 :> [shape |-> "segment", nodes |-> 2, dim |-> 1]) @@ (2 :> [shape |-> "triangle", nodes |-> 3, dim |-> 2])
  @@ (3 :> [shape |-> "quad", nodes |-> 4, dim |-> 2]) @@ (4 :> [shape |-> "tetra", nodes |-> 4, dim |-> 3])
  @@ (5 :> [shape |-> "hexa", nodes |-> 8, dim |-> 3]) @@ (15 :> [shape |-> "unknown", nodes |-> 1, dim |-> 0])

Layout(version) == IF version >= 4 THEN 4 ELSE 2

-----------------------------------------------------------------------------
(* The last entry of a key wins.                                           *)
Put(f, entries) ==
  LET Latest(key) == CHOOSE i \in DOMAIN entries :
                     entries[i].key = key /\ \A j \in DOMAIN entries : j > i => entries[j].key # key
      keys == {entries[i].key : i \in DOMAIN entries}
  IN [key \in DOMAIN f \cup keys |-> IF key \in keys THEN entries[Latest(key)].val ELSE f[key]]

Format(r, s) == [r EXCEPT !.version = s.version,
                          !.ok = s.ascii /\ (s.version \in {2, 4})]

ReadPhysicalNames(r, s) ==
  [r EXCEPT !.names = Put(@, [i \in DOMAIN s.names |-> [key |-> <<s.names[i].dim, s.names[i].tag>>,
                                                        val |-> s.names[i].name]])]

ReadEntities(r, s) ==
  [r EXCEPT !.entities = Put(@, [i \in DOMAIN s.entities |-> [key |-> <<s.entities[i].dim, s.entities[i].tag>>,
                                                              val |-> s.entities[i].ptags]])]

(* readNodesV2, readNodesV4: nodes are numbered as they come.  A section   *)
(* in the other layout does not end where its marker is.                   *)
ReadNodes(r, s) ==
  [r EXCEPT !.ok = s.layout = Layout(r.version),
            !.nid_by_tag = Put(@, [i \in DOMAIN s.nodes |-> [key |-> s.nodes[i].tag, val |-> Len(r.nodes) + i - 1]]),
            !.nodes = @ \o [i \in DOMAIN s.nodes |-> s.nodes[i].point]]

(* The first tag of an element is its group, in format 4 found at the end. *)
Nids(r, elem) == [i \in DOMAIN elem.nodes |-> r.nid_by_tag[elem.nodes[i]]]
RecordV2(r, elem) ==
  [edim |-> ElemTypes[elem.type].dim, shape |-> ElemTypes[elem.type].shape, nids |-> Nids(r, elem),
   ptag |-> IF Len(elem.tags) > 0 THEN elem.tags[1] ELSE 0,
   etag |-> IF Len(elem.tags) > 1 THEN elem.tags[2] ELSE 0]
RecordV4(r, elem) ==
  [edim |-> elem.edim, shape |-> ElemTypes[elem.type].shape, nids |-> Nids(r, elem), ptag |-> 0, etag |-> elem.etag]

(* readElemsV2, readElemsV4: points are left out.                          *)
ReadElems(r, s) ==
  LET known == /\ s.layout = Layout(r.version)
               /\ \A i \in DOMAIN s.elems :
                    /\ s.elems[i].type \in DOMAIN ElemTypes
                    /\ \A j \in DOMAIN s.elems[i].nodes : s.elems[i].nodes[j] \in DOMAIN r.nid_by_tag
      Kept(elem) == ElemTypes[elem.type].shape # "unknown"
      kept == SelectSeq(s.elems, Kept)
  IN IF known THEN [r EXCEPT !.elems = @ \o [i \in DOMAIN kept |-> IF s.layout = 4 THEN RecordV4(r, kept[i])
                                                                    ELSE RecordV2(r, kept[i])]]
     ELSE [r EXCEPT !.ok = FALSE]

SkipUnknownSection(r, s) == [r EXCEPT !.ok = s.closed]

Read(r, s) ==
  CASE s.kind = "MeshFormat" -> Format(r, s)
    [] s.kind = "PhysicalNames" -> ReadPhysicalNames(r, s)
    [] s.kind = "Entities" -> ReadEntities(r, s)
    [] s.kind = "Nodes" -> ReadNodes(r, s)
    [] s.kind = "Elements" -> ReadElems(r, s)
    [] OTHER -> SkipUnknownSection(r, s)

-----------------------------------------------------------------------------
(* meshDim: that of the elements; a file of segments has none.             *)
Dims(elems) == {CASE elems[i].shape \in {"triangle", "quad"} -> 2
                  [] elems[i].shape \in {"tetra", "hexa"} -> 3
                  [] OTHER -> 0 : i \in DOMAIN elems}
MeshDim(elems) == IF 3 \in Dims(elems) THEN 3 ELSE IF 2 \in Dims(elems) THEN 2 ELSE 0

FirstPhysicalTag(entities, key) ==
  IF key \in DOMAIN entities /\ Len(entities[key]) > 0 THEN entities[key][1] ELSE 0

(* The group an element is in, in both formats.                            *)
PhysicalTag(r, elem) ==
  IF elem.ptag > 0 THEN elem.ptag ELSE FirstPhysicalTag(r.entities, <<elem.edim, elem.etag>>)

(* addElemsToMesh: elements of the mesh's dimension, facets of one less.   *)
Classified(r, dim) ==
  LET OfDim(elem) == elem.edim = dim
      elems == SelectSeq(r.elems, OfDim)
      Name(elem) == Get(r.names, <<elem.edim, PhysicalTag(r, elem)>>, "")
  IN [i \in DOMAIN elems |-> [nids |-> elems[i].nids, shape |-> elems[i].shape, etag |-> elems[i].etag,
                              ptag |-> PhysicalTag(r, elems[i]), pname |-> Name(elems[i])]]

(* Mesh, addNode, addElem, addBoundaryFacet.                               *)
MeshOf(r) ==
  [dim |-> MeshDim(r.elems), nodes |-> r.nodes,
   elems |-> Classified(r, MeshDim(r.elems)), facets |-> Classified(r, MeshDim(r.elems) - 1)]

NodeOf(m, in) == m.nodes[in + 1]

-----------------------------------------------------------------------------
(* GmshReader::read, section by section.                                   *)
Open(path) ==
  /\ path \in DOMAIN Files
  /\ reader' = Opened(path)
  /\ UNCHANGED mesh

ReadSection ==
  /\ reader # NotReading /\ reader.ok /\ reader.rest # <<>>
  /\ reader' = [Read(reader, Head(reader.rest)) EXCEPT !.rest = Tail(@)]
  /\ UNCHANGED mesh

ReadEnds ==
  /\ reader # NotReading /\ reader.ok /\ reader.rest = <<>>
  /\ MeshDim(reader.elems) > 0
  /\ mesh' = MeshOf(reader)
  /\ reader' = NotReading

(* What read throws on.                                                    *)
ReadThrows == reader # NotReading /\ (~reader.ok \/ (reader.rest = <<>> /\ MeshDim(reader.elems) = 0))
=============================================================================
