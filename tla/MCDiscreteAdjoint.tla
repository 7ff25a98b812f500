--------------------------- MODULE MCDiscreteAdjoint ---------------------------
(* Three problems of three dofs and three steps, and clients that observe  *)
(* a velocity or control the boundary of small meshes, for TLC.            *)
EXTENDS TimeObservations

List(s) == [i \in Range0(Len(s)) |-> s[i + 1]]
Matrix(rows) == [i \in Range0(Len(rows)) |-> List(rows[i + 1])]
At(row, col, wt) == [row |-> row, col |-> col, wt |-> wt]
Cond(dof, val) == [dof |-> dof, val |-> val]

Physics ==
  [K |-> List(<<Matrix(<<<<2, 1, 3>>, <<4, 1, 2>>, <<1, 3, 3>>>>),
               Matrix(<<<<3, 1, 0>>, <<2, 2, 1>>, <<4, 1, 1>>>>),
               Matrix(<<<<1, 2, 4>>, <<0, 3, 1>>, <<2, 1, 4>>>>)>>),
   B |-> List(<<Matrix(<<<<1, 2, 0>>, <<3, 1, 1>>, <<2, 0, 4>>>>),
               Matrix(<<<<2, 0, 1>>, <<1, 4, 3>>, <<1, 2, 1>>>>)>>),
   f |-> List(<<List(<<1, 2, 3>>), List(<<0, 4, 1>>), List(<<2, 2, 0>>)>>),
   adv |-> Matrix(<<<<1, 0, 2>>, <<0, 1, 1>>, <<3, 1, 1>>>>),
   speed |-> Matrix(<<<<1, 1, 0>>, <<0, 2, 1>>, <<1, 0, 3>>>>)]

(* Parameter vectors on lines.                                             *)
Probes(n) == {[p \in Range0(n) |-> (a + b * p) % P] : a \in 0 .. 1, b \in 1 .. 3}

(* Two velocity dofs of which one is a wall, levels between the steps,     *)
(* modes, data between the levels.                                         *)
Inflow ==
  [ctr |-> [dofs |-> List(<<0, 1>>), cols |-> 2, entries |-> {At(0, 0, 1), At(1, 1, 1)}],
   bc_at |-> [t \in 0 .. 12 |-> IF t % 8 = 0 THEN <<Cond(0, t % P), Cond(0, t % P)>> ELSE <<Cond(0, 2)>>],
   constant |-> FALSE,
   times |-> List(<<0, 6, 12>>), periodic |-> FALSE, ctr_off |-> 1,
   mapped |-> TRUE, mean |-> List(<<1, 2, 3>>), modes |-> Matrix(<<<<1>>, <<0>>, <<2>>>>), num_modes |-> 1,
   base |-> Physics,
   terms |-> {[kind |-> "misfit", points |-> Matrix(<<<<1, 2, 3>>, <<0, 1, 4>>>>),
               time_vals |-> List(<<1, 5, 11>>), time_levels |-> <<>>, offset |-> 1,
               data |-> List(<<List(<<1, 0>>), List(<<2, 3>>), List(<<0, 1>>)>>),
               wts |-> List(<<1, 2, 3, 1>>),
               entry_wts |-> List(<<List(<<1, 2>>), List(<<1, 1>>), List(<<3, 1>>)>>)],
              [kind |-> "time", levels |-> 2, block |-> 2, beta_value |-> 1, beta_diff |-> 2,
               reference |-> List(<<1, 0, 2, 3>>)]},
   prms |-> Probes(4)]

(* Two dofs moved together by one parameter, a periodic control, a start   *)
(* the client sets, data at listed levels.                                 *)
Pulse ==
  [ctr |-> [dofs |-> List(<<0, 2>>), cols |-> 1, entries |-> {At(0, 0, 2), At(1, 0, 4)}],
   bc_at |-> [t \in 0 .. 12 |-> <<>>],
   constant |-> TRUE,
   times |-> List(<<0, 3, 6, 12>>), periodic |-> TRUE, ctr_off |-> 0,
   mapped |-> FALSE, mean |-> List(<<2, 1, 1>>), modes |-> Matrix(<<<<>>, <<>>, <<>>>>), num_modes |-> 0,
   base |-> Physics,
   terms |-> {[kind |-> "misfit", points |-> Matrix(<<<<2, 1, 1>>>>),
               time_vals |-> <<>>, time_levels |-> List(<<0, 2, 1>>), offset |-> 4,
               data |-> List(<<List(<<1>>), List(<<3>>), List(<<4>>)>>),
               wts |-> List(<<1, 1, 2, 4>>),
               entry_wts |-> List(<<List(<<1>>), List(<<2>>), List(<<1>>)>>)],
              [kind |-> "block", levels |-> 3, block |-> 1, weight |-> 2, entries |-> {At(0, 0, 3)},
               reference |-> List(<<0, 1, 1>>)]},
   prms |-> Probes(3)]

(* A wall value that does not change, a level for every step, two terms of *)
(* data, a mixed block.                                                    *)
Channel ==
  [ctr |-> [dofs |-> List(<<2>>), cols |-> 1, entries |-> {At(0, 0, 3)}],
   bc_at |-> [t \in 0 .. 12 |-> <<Cond(1, 5)>>],
   constant |-> TRUE,
   times |-> <<>>, periodic |-> FALSE, ctr_off |-> 0,
   mapped |-> TRUE, mean |-> List(<<0, 4, 1>>), modes |-> Matrix(<<<<>>, <<>>, <<>>>>), num_modes |-> 0,
   base |-> Physics,
   terms |-> {[kind |-> "misfit", points |-> Matrix(<<<<1, 1, 0>>>>),
               time_vals |-> <<>>, time_levels |-> <<>>, offset |-> 0,
               data |-> List(<<List(<<1>>), List(<<3>>), List(<<4>>), List(<<0>>)>>),
               wts |-> List(<<1, 1, 2, 4>>),
               entry_wts |-> List(<<List(<<1>>), List(<<2>>), List(<<1>>), List(<<1>>)>>)],
              [kind |-> "block", levels |-> 1, block |-> 3, weight |-> 1,
               entries |-> {At(0, 1, 3), At(1, 0, 1), At(2, 2, 2)},
               reference |-> List(<<0, 1, 1>>)]},
   prms |-> Probes(3)]

MCScripts == {Inflow, Pulse, Channel}

-----------------------------------------------------------------------------
(* Meshes: the square of two triangles and of one quadrilateral, three     *)
(* parallelograms in a row, and two tetrahedra.                            *)
Elem(shape, nids) == [shape |-> shape, nids |-> nids]
Corners4 == << <<0, 0, 0>>, <<4, 0, 0>>, <<4, 4, 0>>, <<0, 4, 0>> >>
Facet(ptag, pname, nids) == [ptag |-> ptag, pname |-> pname, nids |-> nids]
Triangles == [dim |-> 2,
              facets |-> {Facet(1, "inlet", <<3, 0>>), Facet(2, "wall", <<0, 1>>), Facet(2, "wall", <<2, 3>>), Facet(3, "outlet", <<1, 2>>)},
              nodes |-> Corners4, elems |-> <<Elem("triangle", <<0, 1, 2>>), Elem("triangle", <<3, 2, 0>>)>>]
Strip == [dim |-> 2,
          facets |-> {Facet(1, "inlet", <<0, 3>>), Facet(1, "inlet", <<3, 5>>), Facet(2, "wall", <<0, 1>>),
                      Facet(2, "wall", <<1, 6>>), Facet(2, "wall", <<5, 4>>), Facet(3, "outlet", <<4, 2>>),
                      Facet(3, "outlet", <<2, 7>>), Facet(4, "corner", <<7, 6>>)},
          nodes |-> << <<0, 0, 0>>, <<4, 0, 0>>, <<6, 2, 0>>, <<2, 2, 0>>, <<8, 4, 0>>, <<4, 4, 0>>, <<8, 0, 0>>, <<10, 2, 0>> >>,
          elems |-> <<Elem("quad", <<0, 1, 2, 3>>), Elem("quad", <<3, 2, 4, 5>>), Elem("quad", <<6, 7, 2, 1>>)>>]
Tetrahedra == [dim |-> 3, facets |-> {Facet(1, "inlet", <<0, 1, 2>>), Facet(2, "wall", <<0, 1, 3>>), Facet(3, "outlet", <<2, 3, 4>>)},
               nodes |-> << <<0, 0, 0>>, <<4, 0, 0>>, <<0, 4, 0>>, <<0, 0, 4>>, <<4, 4, 4>> >>,
               elems |-> <<Elem("tetra", <<0, 1, 2, 3>>), Elem("tetra", <<1, 2, 3, 4>>)>>]

MCField(k, c, point) == 1 + 3 * k * k + c + (k + c) * point[1] + (2 + c) * point[2] + 3 * point[3]

Client(client, mesh, points, components, times) ==
  [client |-> client, mesh |-> mesh, points |-> points, components |-> components, times |-> times]

(* Problems: a wall that meets the inlet, conditions that meet and agree   *)
(* or do not, values that are called, a pressure, controls of both kinds   *)
(* with levels or without; and what is refused.                            *)
Name(name) == [by |-> "name", name |-> name, tag |-> 0]
Tag(tag) == [by |-> "tag", name |-> "", tag |-> tag]
Condition(m, field, boundary, constant, Val(_, _)) ==
  [field |-> field, boundary |-> boundary, constant |-> constant,
   vals |-> [t \in 0 .. NumSteps * Ticks |-> [in \in Range0(Len(m.nodes)) |-> Val(t, in)]]]
Fixed(m, boundary, val) == Condition(m, "velocity", boundary, TRUE, LAMBDA t, in : [i \in 1 .. m.dim |-> val])
Moving(m, boundary) == Condition(m, "velocity", boundary, FALSE, LAMBDA t, in : [i \in 1 .. m.dim |-> (t * (in + i)) % P])
Pressure(m, boundary, val) == Condition(m, "pressure", boundary, TRUE, LAMBDA t, in : <<val>>)
Control(kind, boundary, normal, times, periodic, ctr_off) ==
  [kind |-> kind, boundary |-> boundary, normal |-> normal, times |-> times, periodic |-> periodic, ctr_off |-> ctr_off]
Uncontrolled == Control("none", Tag(0), <<>>, <<>>, FALSE, 0)
Problem(m, conds, ctr) == [client |-> "problem", mesh |-> m, conds |-> conds, ctr |-> ctr]

MCProblems ==
  {Problem(m, conds, ctr) :
     m \in {Triangles, Strip},
     conds \in {<<>>, <<Fixed(Strip, Name("wall"), 0)>>},
     ctr \in {Control("normal", Name("inlet"), <<1, 0>>, <<>>, FALSE, 0),
              Control("normal", Tag(1), <<-3, 4>>, List(<<0, 6, 12>>), FALSE, 1),
              Control("vector", Tag(1), <<>>, List(<<0, 4, 8, 12>>), TRUE, 0),
              Control("vector", Name("outlet"), <<>>, <<>>, FALSE, 2),
              Control("normal", Name("outlet"), <<0, 0>>, <<>>, FALSE, 0),
              Control("normal", Name("outlet"), <<1>>, <<>>, FALSE, 0),
              Control("vector", Name("nowhere"), <<>>, <<>>, FALSE, 0),
              Uncontrolled}}
  \cup {Problem(Strip, <<Moving(Strip, Name("wall")), Pressure(Strip, Tag(3), 3)>>,
                Control("normal", Name("inlet"), <<0, 2>>, List(<<2, 10>>), FALSE, 0)),
        Problem(Strip, <<Fixed(Strip, Tag(4), 1), Moving(Strip, Name("inlet"))>>, Uncontrolled),
        Problem(Strip, <<Fixed(Strip, Tag(4), 0), Fixed(Strip, Tag(3), 0)>>, Control("vector", Tag(2), <<>>, <<>>, FALSE, 0)),
        Problem(Strip, <<Fixed(Strip, Tag(4), 1), Fixed(Strip, Tag(3), 0)>>, Control("vector", Tag(2), <<>>, <<>>, FALSE, 0)),
        Problem(Triangles, <<Fixed(Triangles, Tag(1), 0)>>, Control("vector", Name("inlet"), <<>>, <<>>, FALSE, 0)),
        Problem(Triangles, <<Fixed(Triangles, Tag(9), 0)>>, Uncontrolled),
        Problem(Triangles, <<>>, Control("vector", Name("inlet"), <<>>, <<>>, TRUE, 0)),
        Problem(Triangles, <<Pressure(Triangles, Tag(1), 1), Condition(Triangles, "density", Tag(1), TRUE, LAMBDA t, in : <<1>>)>>, Uncontrolled),
        Problem(Triangles, <<Condition(Triangles, "velocity", Tag(1), FALSE, LAMBDA t, in : <<t>>)>>, Uncontrolled),
        Problem(Tetrahedra, <<Fixed(Tetrahedra, Name("wall"), 0), Pressure(Tetrahedra, Name("outlet"), 2)>>,
                Control("normal", Tag(1), <<2, -1, 2>>, List(<<0, 12>>), FALSE, 0)),
        Problem(Tetrahedra, <<Moving(Tetrahedra, Name("wall"))>>, Control("vector", Tag(3), <<>>, List(<<0, 1, 12>>), FALSE, 0)),
        Problem(Tetrahedra, <<Moving(Tetrahedra, Tag(3))>>, Control("vector", Tag(1), <<>>, List(<<4, 12>>), FALSE, 3))}

(* A corner, an edge, the inside; times on levels, between, and both ends. *)
MCSessions ==
  MCProblems \cup
  {Client("python", Triangles, points, comps, times) :
     points \in {<< <<4, 4>>, <<2, 2>>, <<1, 3>> >>, << <<3, 1, 0>> >>},
     comps \in {NoComponents, <<1, 0>>, <<1>>},
     times \in {<<0, 1, 3, 4, 12>>, <<5, 6, 8, 11>>, <<12>>, <<0>>}}
  \cup {Client("python", Strip, << <<5, 1>>, <<6, 2>>, <<9, 1>>, <<5, 3>> >>, <<1, 0>>, <<2, 3, 12>>),
        Client("python", Tetrahedra, << <<1, 1, 1>>, <<2, 2, 2>>, <<0, 4, 0>> >>, <<2, 0>>, <<4, 7, 9>>),
        Client("python", Triangles, << <<5, 1>> >>, NoComponents, <<0>>),
        Client("python", Strip, << <<1, 2>> >>, NoComponents, <<0>>),
        Client("python", Tetrahedra, << <<2, 2>> >>, NoComponents, <<0>>),
        Client("python", Triangles, << <<1, 1>> >>, <<0, 0>>, <<0>>),
        Client("python", Triangles, << <<1, 1>> >>, <<2>>, <<0>>),
        Client("python", Triangles, << <<1, 1>> >>, NoComponents, <<4, 3>>),
        Client("python", Triangles, << <<1, 1>> >>, NoComponents, <<13>>),
        Client("library", Triangles, << <<1, 3, 0>>, <<9, 9, 0>>, <<2, 1, 0>> >>, NoComponents, <<>>),
        Client("library", Tetrahedra, << <<3, 3, 3>>, <<1, 0, 1>> >>, <<2>>, <<>>),
        Client("library", Strip, << <<1, 2, 0>> >>, NoComponents, <<>>),
        Client("library", Strip, << <<5, 1, 0>> >>, <<2>>, <<>>)}

MCLevelLists == {<<>>, <<0, 1, 2, 3>>, <<0, 2, 3, 5>>, <<2, 1, 3, 4>>, <<3>>}
MCTimeLists == {<<>>, <<0, 2, 4, 6>>, <<1>>, <<0, 0, 1, 2>>}
=============================================================================
