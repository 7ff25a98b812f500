------------------------------ MODULE NavierSpaces -----------------------------
(***************************************************************************)
(* The unknowns of the Navier-Stokes model: a velocity space with one      *)
(* component per dimension and a pressure space, mixed, on the mesh read;  *)
(* the rows of the element kernel; and the assembly map from elements to   *)
(* entries of the system.  Nodes, elements, components and degrees of      *)
(* freedom are numbered from 0.                                            *)
(***************************************************************************)
EXTENDS Integers, Sequences, FiniteSets, TLC

Fields == {"u", "p"}

NumNodes(m) == Len(m.nodes)
Elems(m) == 0 .. Len(m.elems) - 1
ElemOf(m, ie) == m.elems[ie + 1]
Conn(m, ie, in) == ElemOf(m, ie).nids[in + 1]

(* makeElement: by the shape of the first element.                         *)
ElementNodes == "triangle" :> 3 @@ "quad" :> 4 @@ "tetra" :> 4
Supported(m) == Len(m.elems) > 0 /\ ElemOf(m, 0).shape \in DOMAIN ElementNodes
NumShapes(m) == ElementNodes[ElemOf(m, 0).shape]

(* FESpace::setup: one element for the whole mesh, on existing nodes.      *)
SpaceFits(m) ==
  \A ie \in Elems(m) :
    /\ Len(ElemOf(m, ie).nids) = NumShapes(m) /\ ElemOf(m, ie).shape = ElemOf(m, 0).shape
    /\ \A in \in 0 .. NumShapes(m) - 1 : Conn(m, ie, in) \in 0 .. NumNodes(m) - 1

ModelValid(m, time) == time.steps > 0 /\ time.dt > 0 /\ Supported(m) /\ SpaceFits(m)

-----------------------------------------------------------------------------
(* FESpace: components of a node are next to each other.                   *)
Comps(m, field) == IF field = "u" THEN m.dim ELSE 1
SpaceDof(m, field, in, comp) == Comps(m, field) * in + comp

(* FESpace::setup: an element's dofs, node by node.                        *)
SpaceElemDofs(m, field, ie) ==
  [il \in 0 .. Comps(m, field) * NumShapes(m) - 1 |->
     SpaceDof(m, field, Conn(m, ie, il \div Comps(m, field)), il % Comps(m, field))]

(* MixedFESpace::setup: the velocity, then the pressure.                   *)
Offset(m, field) == IF field = "u" THEN 0 ELSE m.dim * NumNodes(m)
LocalOffset(m, field) == IF field = "u" THEN 0 ELSE m.dim * NumShapes(m)

(* The pressure follows the velocity of one element.  (Mutant.)            *)
ShapesOffset(m, field) == LocalOffset(m, field)
MixedOffset(m, field) == IF field = "u" THEN 0 ELSE Comps(m, "u") * NumNodes(m)

NumDofs(m) == (m.dim + 1) * NumNodes(m)
Dofs(m) == 0 .. NumDofs(m) - 1
NumElemDofs(m) == (m.dim + 1) * NumShapes(m)
Rows(m) == 0 .. NumElemDofs(m) - 1

(* DofMap::elementDof of the mixed space.                                  *)
ElemDof(m, ie, il) ==
  LET field == IF il < LocalOffset(m, "p") THEN "u" ELSE "p" IN
  MixedOffset(m, field) + SpaceElemDofs(m, field, ie)[il - LocalOffset(m, field)]

(* MixedFieldView::globalDof: what conditions and output name a dof by.    *)
GlobalDof(m, field, in, comp) == Offset(m, field) + SpaceDof(m, field, in, comp)

(* The unknown that is a dof: a field's component at a node.               *)
Unknowns(m) == {x \in (0 .. NumNodes(m) - 1) \X Fields \X (0 .. 2) : x[3] < Comps(m, x[2])}
UnknownOf(m) == [d \in Dofs(m) |-> CHOOSE x \in Unknowns(m) : GlobalDof(m, x[2], x[1], x[3]) = d]

-----------------------------------------------------------------------------
(* evalRow of the element kernel: velocity rows node by node, and after    *)
(* them the pressure rows; columns are laid out alike.                     *)
KernelRow(m, ie, row) ==
  LET num_vel == m.dim * NumShapes(m) IN
  IF row < num_vel THEN <<Conn(m, ie, row \div m.dim), "u", row % m.dim>>
  ELSE <<Conn(m, ie, row - num_vel), "p", 0>>

(* What an element adds: terms named by the element and the unknowns of    *)
(* their row and column.                                                   *)
ResTerm(m, ie, row) == <<ie, KernelRow(m, ie, row)>>
JacTerm(m, ie, row, col) == <<ie, KernelRow(m, ie, row), KernelRow(m, ie, col)>>

-----------------------------------------------------------------------------
(* makeAssemblyMap: the entries of all elements, sorted by row and column, *)
(* once each, are the pattern, whose places are counted from 1; the map    *)
(* sends an element's entry to its place.                                  *)
Entries(m) == UNION {{<<ElemDof(m, ie, i), ElemDof(m, ie, j)>> : i \in Rows(m), j \in Rows(m)} : ie \in Elems(m)}
Before(a, b) == a[1] < b[1] \/ (a[1] = b[1] /\ a[2] < b[2])
Places(entries) == [e \in entries |-> 1 + Cardinality({f \in entries : Before(f, e)})]

MapOf(m) ==
  [places |-> Places(Entries(m)), dofs |-> [ie \in Elems(m) |-> [il \in Rows(m) |-> ElemDof(m, ie, il)]]]

JacMap(map, ie, il, jl) == map.places[<<map.dofs[ie][il], map.dofs[ie][jl]>>]
PatternEntry(map, k) == CHOOSE e \in DOMAIN map.places : map.places[e] = k
=============================================================================
