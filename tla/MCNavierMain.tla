------------------------------ MODULE MCNavierMain ------------------------------
(***************************************************************************)
(* Small runs of the programs.  Navier-Stokes: a square of two triangles   *)
(* in both mesh formats, one of a quadrilateral and a tetrahedron, scripts *)
(* with every kind of time and space profile, and scripts and meshes that  *)
(* are to be refused.  The stationary examples: squares of a few cells and *)
(* command lines that are to be refused.                                   *)
(***************************************************************************)
EXTENDS PoissonMain

-----------------------------------------------------------------------------
(* Meshes.  The square: its left side is group 1, the bottom group 2, the  *)
(* right side group 3.  Tags and order of the nodes do not agree.          *)
SquareNodes == << [tag |-> 30, point |-> <<4, 4, 0>>], [tag |-> 10, point |-> <<0, 0, 0>>],
                  [tag |-> 40, point |-> <<0, 4, 0>>], [tag |-> 20, point |-> <<4, 0, 0>>] >>
Sides == << <<10, 40>>, <<10, 20>>, <<20, 30>> >>
Triangles == << <<10, 20, 30>>, <<10, 30, 40>> >>

Head2 == [kind |-> "MeshFormat", version |-> 2, ascii |-> TRUE]
Head4 == [kind |-> "MeshFormat", version |-> 4, ascii |-> TRUE]
Groups == [kind |-> "PhysicalNames", names |-> << [dim |-> 1, tag |-> 1, name |-> "inlet"], [dim |-> 2, tag |-> 9, name |-> "fluid"] >>]
Comment == [kind |-> "Other", closed |-> TRUE]
NodesIn(format, nodes) == [kind |-> "Nodes", layout |-> format, nodes |-> nodes]
ElementsIn(format, elems) == [kind |-> "Elements", layout |-> format, elems |-> elems]
Group2(type, tag, lists) == [i \in DOMAIN lists |-> [type |-> type, tags |-> <<tag, 100 + i>>, nodes |-> lists[i]]]
Block4(type, dim, etag, lists) == [i \in DOMAIN lists |-> [type |-> type, edim |-> dim, etag |-> etag, nodes |-> lists[i]]]

Sides2 == [i \in 1 .. 3 |-> [type |-> 1, tags |-> <<i, 100 + i>>, nodes |-> Sides[i]]]
Sides4 == [i \in 1 .. 3 |-> [type |-> 1, edim |-> 1, etag |-> 10 + i, nodes |-> Sides[i]]]
Entities4 == [kind |-> "Entities", entities |->
  << [dim |-> 1, tag |-> 11, ptags |-> <<1>>], [dim |-> 1, tag |-> 12, ptags |-> <<2, 7>>],
     [dim |-> 1, tag |-> 13, ptags |-> <<3>>], [dim |-> 2, tag |-> 11, ptags |-> <<>>] >>]

Square2 == <<Head2, Groups, NodesIn(2, SquareNodes), ElementsIn(2, Group2(15, 5, << <<10>> >>) \o Sides2 \o Group2(2, 9, Triangles))>>
Square4 == <<Head4, Comment, Entities4, NodesIn(4, SquareNodes), ElementsIn(4, Block4(2, 2, 11, Triangles) \o Sides4)>>
Quad2 == <<Head2, NodesIn(2, SquareNodes), ElementsIn(2, Sides2 \o Group2(3, 9, << <<10, 20, 30, 40>> >>))>>

TetraNodes == << [tag |-> 1, point |-> <<0, 0, 0>>], [tag |-> 2, point |-> <<4, 0, 0>>],
                 [tag |-> 3, point |-> <<0, 4, 0>>], [tag |-> 4, point |-> <<0, 0, 4>>] >>
Tetra4 == <<Head4, [kind |-> "Entities", entities |-> << [dim |-> 2, tag |-> 1, ptags |-> <<1>>] >>],
            NodesIn(4, TetraNodes), ElementsIn(4, Block4(2, 2, 1, << <<1, 2, 3>> >>) \o Block4(4, 3, 1, << <<1, 2, 3, 4>> >>))>>

(* Refused by the reader, by the spaces, and by the conditions.            *)
Binary == <<[Head4 EXCEPT !.ascii = FALSE], NodesIn(4, SquareNodes)>>
OtherLayout == <<Head4, NodesIn(2, SquareNodes)>>
UnknownNode == <<Head2, NodesIn(2, SquareNodes), ElementsIn(2, Group2(2, 9, << <<10, 20, 99>> >>))>>
Unclosed == <<Head2, [Comment EXCEPT !.closed = FALSE]>>
OnlySides == <<Head2, NodesIn(2, SquareNodes), ElementsIn(2, Sides2)>>
Hexahedron == <<Head2, NodesIn(2, TetraNodes \o [i \in 1 .. 4 |-> [tag |-> 4 + i, point |-> <<i, 4, 4>>]]),
                ElementsIn(2, Group2(5, 9, << <<1, 2, 3, 4, 5, 6, 7, 8>> >>))>>
MixedShapes == <<Head2, NodesIn(2, SquareNodes),
                 ElementsIn(2, Sides2 \o Group2(2, 9, << <<10, 20, 30>> >>) \o Group2(3, 9, << <<10, 20, 30, 40>> >>))>>

MCFiles ==
  "square2" :> Square2 @@ "square4" :> Square4 @@ "quad" :> Quad2 @@ "tetra" :> Tetra4
  @@ "binary" :> Binary @@ "layout" :> OtherLayout @@ "node" :> UnknownNode @@ "unclosed" :> Unclosed
  @@ "sides" :> OnlySides @@ "hexa" :> Hexahedron @@ "mixed" :> MixedShapes

-----------------------------------------------------------------------------
(* Scripts.                                                                *)
MCTables == "inflow.csv" :> << [t |-> 0, v |-> 8], [t |-> 20, v |-> 24], [t |-> 40, v |-> 8] >>
            @@ "broken.csv" :> << [t |-> 0, v |-> 8], BadRow >>

Uniform == [type |-> "uniform"]
Poiseuille == [type |-> "poiseuille", radius |-> 4]

(* A pulse through the left side, at rest on the bottom.                   *)
Pulse == [mesh |-> [file |-> "square2"], time |-> [dt |-> 25, steps |-> 2],
          bcs |-> << [physical |-> 1, velocity |-> [quantity |-> "max_velocity",
                        time |-> [profile |-> [type |-> "sine", value |-> 40, amplitude |-> 50]]]],
                     [physical |-> 2, ux |-> 0, uy |-> 0],
                     [physical |-> 3, uy |-> 1] >>]

(* A periodic table over a parabola, with a pressure and an end time.      *)
Tabulated == [mesh |-> [file |-> "square4"], time |-> [dt |-> 20, end_time |-> 50],
              output |-> [enabled |-> TRUE, interval |-> 2], fluid |-> [mu |-> 3],
              bcs |-> << [physical |-> 2, ux |-> 3, uy |-> 0],
                         [physical |-> 1, velocity |-> [table |-> "inflow.csv", period |-> 40, profile |-> Poiseuille,
                                                        quantity |-> "mean_velocity", normal |-> <<2, 0, 0>>]],
                         [physical |-> 3, p |-> 5] >>]

(* Listed times and values, a flow rate; the march stops when steady.      *)
Listed == [mesh |-> [file |-> "tetra"],
           time |-> [dt |-> 10, steps |-> 3, convergence |-> [min_steps |-> 2]],
           bcs |-> << [physical |-> 1, velocity |-> [time |-> [list |-> <<0, 20, 40, 60>>], value |-> <<16, 32, 0, 16>>,
                         interpolate |-> "cubic", space |-> [type |-> "uniform", area |-> 2, normal |-> <<0, 0, 1>>]]] >>]

Held == [mesh |-> [file |-> "quad"], time |-> [dt |-> 15, steps |-> 2, convergence |-> [boolean |-> TRUE]],
         output |-> [enabled |-> FALSE],
         bcs |-> << [physical |-> 3, velocity |-> [time |-> [list |-> <<0, 20>>], value |-> <<4, 6>>,
                       interpolate |-> "nearest", quantity |-> "mean_velocity"]],
                    [physical |-> 1, p |-> 0] >>]

With(root, mesh_file) == [root EXCEPT !.mesh = [file |-> mesh_file]]
MCRoots ==
  "pulse" :> Pulse @@ "tabulated" :> Tabulated @@ "listed" :> Listed @@ "held" :> Held
  @@ "no_file" :> With(Pulse, "none") @@ "binary" :> With(Pulse, "binary") @@ "layout" :> With(Pulse, "layout")
  @@ "node" :> With(Pulse, "node") @@ "unclosed" :> With(Pulse, "unclosed") @@ "sides" :> With(Pulse, "sides")
  @@ "hexa" :> With(Pulse, "hexa") @@ "mixed" :> With(Pulse, "mixed")
  @@ "key" :> (Pulse @@ "meshes" :> 1)
  @@ "fluid" :> (Pulse @@ "fluid" :> [rho |-> 1, mu |-> 0])
  @@ "type" :> [Pulse EXCEPT !.time = [dt |-> WrongType]]
  @@ "steps" :> [Tabulated EXCEPT !.time = [dt |-> 20, end_time |-> 50, steps |-> 2]]
  @@ "table" :> [Pulse EXCEPT !.bcs = << [physical |-> 1, velocity |-> [table |-> "broken.csv"]] >>]
  @@ "order" :> [Pulse EXCEPT !.bcs = << [physical |-> 1, velocity |-> [time |-> [list |-> <<0, 0>>], value |-> <<1, 2>>]] >>]
  @@ "group" :> [Pulse EXCEPT !.bcs = << [physical |-> 8, ux |-> 0] >>]
  @@ "uz" :> [Pulse EXCEPT !.bcs = << [physical |-> 1, uz |-> 0] >>]

-----------------------------------------------------------------------------
Run(program, ranks, path, steady) == [help |-> FALSE, config_file |-> path, program |-> program, ranks |-> ranks, steady |-> steady]
Accepted ==
  {Run("petsc", 1, "pulse", 9), Run("petsc", 2, "pulse", 9), Run("petsc", 3, "tabulated", 9), Run("petsc", 2, "listed", 2),
   Run("host", 1, "tabulated", 9), Run("host", 1, "listed", 9), Run("host", 1, "held", 1),
   Run("cuda", 1, "pulse", 9), Run("cuda", 1, "held", 2)}
Refused == {Run("petsc", 2, path, 9) : path \in DOMAIN MCRoots \ {"pulse", "tabulated", "listed", "held"}}
MCCases == Accepted \cup Refused \cup {Run("petsc", 2, "nowhere", 9), [Run("host", 1, "", 9) EXCEPT !.help = TRUE]}

(* The examples: two cells by three, three by two, and words to refuse.    *)
Bare(opt) == [opt |-> opt, val |-> ""]
Plain(val) == [opt |-> "", val |-> val]
Given(opt, val) == [opt |-> opt, val |-> val]
MCNumerals == "0" :> 0 @@ "1" :> 1 @@ "2" :> 2 @@ "3" :> 3 @@ "4" :> 4 @@ "-1" :> -1
MCReadable == MCNumerals @@ "2x" :> 2

Size(nx, ny) == <<Bare("--nx"), Plain(nx), Bare("--ny"), Plain(ny)>>
Example(program, words, ranks, cuda) == [program |-> program, words |-> words, ranks |-> ranks, cuda |-> cuda]
Output == <<Bare("--output"), Plain("yes")>>
Calculated ==
  {Example("poisson", Size("2", "3") \o Output, 1, FALSE), Example("poisson-resolve", Size("3", "2"), 1, FALSE),
   Example("poisson-resolve", Size("3", "2") \o <<Bare("-b"), Plain("cuda")>> \o Output, 1, TRUE),
   Example("poisson-petsc", Size("3", "2") \o <<Given("--nx", "4"), Bare("-ksp_monitor")>> \o Output, 2, FALSE),
   Example("poisson-petsc", Size("1", "2"), 3, FALSE)}
Optimized ==
  {Example("poisson-opt-petsc", <<Given("--nx", "3"), Given("--ny", "2"), Bare("--output"), Bare("-tao_monitor")>>, 2, FALSE),
   Example("poisson-opt-petsc", Size("4", "3") \o <<Given("--obs-stride", "2x"), Given("--output", "off")>>, 1, FALSE),
   Example("poisson-opt-resolve", Size("2", "3") \o <<Bare("--output"), Bare("--alpha"), Plain("0")>>, 1, FALSE),
   Example("poisson-opt-resolve", Size("3", "3") \o <<Given("--backend", "cuda"), Given("--max-its", "1")>>, 1, TRUE)}
Unaccepted ==
  {Example("poisson", words, 1, FALSE) :
     words \in {<<Given("--nx", "3")>>, <<Bare("--nx")>>, <<Bare("--nx"), Plain("2x")>>, <<Bare("--output"), Plain("on")>>,
                Size("2", "2") \o <<Bare("-b"), Plain("cuda")>>, <<Bare("--ny"), Bare("--help")>>}}
  \cup {Example("poisson-opt-petsc", words, 2, FALSE) :
     words \in {<<Given("--cells", "3")>>, <<Bare("-o"), Plain("yes")>>, Size("1", "3"), Size("3", "1"), <<Given("--alpha", "-1")>>,
                Size("3", "3") \o <<Bare("--obs-stride"), Plain("3")>>, <<Bare("--output"), Plain("maybe")>>,
                <<Given("--obs-stride", "-1")>>, Size("3", "3") \o <<Given("--backend", "cuda")>>}}
  \cup {Example("poisson-resolve", Size("2", "2") \o <<Bare("-b"), Plain("cuda")>>, 1, FALSE)}
MCPoissonCases == Calculated \cup Optimized \cup Unaccepted

MCThreads == {0, 1}

MCPartitions(count, size) ==
  CASE size = 1 -> {[d \in 0 .. count - 1 |-> 0]}
    [] size = 2 -> {[d \in 0 .. count - 1 |-> d % 2], [d \in 0 .. count - 1 |-> IF 2 * d < count THEN 1 ELSE 0],
                    [d \in 0 .. count - 1 |-> 1]}
    [] OTHER -> {[d \in 0 .. count - 1 |-> d % size], [d \in 0 .. count - 1 |-> IF d < 4 THEN 2 ELSE 1]}
=============================================================================
