------------------------------ MODULE PoissonProblem -----------------------------
(***************************************************************************)
(* The stationary examples, the Poisson equation and the control of its    *)
(* boundary, up to their problem: the options of a command line, and the   *)
(* mesh, the boundary rows, the controls and the observations made of      *)
(* them.  A word of the command line is [opt, val]: "--nx=3" is            *)
(* ["--nx", "3"], "--nx" is ["--nx", ""], "3" is ["", "3"].  Points are    *)
(* in units of a cell over the number of cells, so that a side of the      *)
(* square has Side units; a space has one dof to a node, and its number.   *)
(***************************************************************************)
EXTENDS GmshReader, NavierSpaces, MpiContext

CONSTANTS
  Numerals,   \* the texts that are an integer: text to integer
  Readable    \* the texts that start with a number: text to that number

-----------------------------------------------------------------------------
(* The readers of a value: of no element where they throw.                 *)
Looked(f, text) == {f[t] : t \in {text} \cap DOMAIN f}
PositiveIndex(text) == {n \in Looked(Numerals, text) : 0 < n /\ n <= MaxIndex}
NonnegativeIndex(text) == {n \in Looked(Readable, text) : 0 <= n /\ n <= MaxIndex}
RealValue(text) == Looked(Readable, text)
Backend(text) == {text} \cap {"cpu", "cuda"}
YesNo(text) == {t = "yes" : t \in {text} \cap {"yes", "no"}}

Affirmed == {"yes", "true", "on", "1"}
OutputValue(text) == {(t \in Affirmed) : t \in {text} \cap (Affirmed \cup {"no", "false", "off", "0"})}

-----------------------------------------------------------------------------
PoissonDefaults == [num_x_cells |-> 8, num_y_cells |-> 8, memspace |-> "cpu", write_output |-> FALSE]
PoissonOptDefaults ==
  [num_x_cells |-> 32, num_y_cells |-> 32, memspace |-> "cpu", write_output |-> FALSE,
   alpha |-> 1, observation_stride |-> 0, max_itrs |-> 50]

Optimizes(opts) == Has(opts, "alpha")
Valued(opts) ==
  {"--nx", "--ny", "--output", "--backend", "-b"}
  \cup (IF Optimizes(opts) THEN {"--alpha", "--obs-stride", "--max-its"} ELSE {})

Taken(opts, option, text) ==
  CASE option = "--nx" -> {[opts EXCEPT !.num_x_cells = n] : n \in PositiveIndex(text)}
    [] option = "--ny" -> {[opts EXCEPT !.num_y_cells = n] : n \in PositiveIndex(text)}
    [] option = "--max-its" -> {[opts EXCEPT !.max_itrs = n] : n \in PositiveIndex(text)}
    [] option = "--obs-stride" -> {[opts EXCEPT !.observation_stride = n] : n \in NonnegativeIndex(text)}
    [] option = "--alpha" -> {[opts EXCEPT !.alpha = r] : r \in RealValue(text)}
    [] option = "--output" -> {[opts EXCEPT !.write_output = yes] :
                                 yes \in IF Optimizes(opts) THEN OutputValue(text) ELSE YesNo(text)}
    [] OTHER -> {[opts EXCEPT !.memspace = space] : space \in Backend(text)}

(* parseOptions reads on, with an option that awaits its value.            *)
Awaiting(opts, option) == [opts |-> opts, awaits |-> option]
Settled(opts) == {Awaiting(o, "") : o \in opts}

(* requireValue takes the next word, whatever it is.  The --output of the  *)
(* control program takes it only if it is no option, and is on without.    *)
MayLack(at) == at.awaits = "--output" /\ Optimizes(at.opts)
TakesValue(at, w) == at.awaits # "" /\ (MayLack(at) => w.opt = "")
IsHelp(w) == w.opt \in {"--help", "-h"} /\ w.val = ""

ReadWord(at, w, ignore_unknown) ==
  IF TakesValue(at, w) THEN Settled(Taken(at.opts, at.awaits, IF w.opt = "" THEN w.val ELSE w.opt))
  ELSE IF IsHelp(w) THEN Settled({at.opts})
  ELSE IF w.opt \in Valued(at.opts) /\ w.val = ""
    THEN {Awaiting(IF Optimizes(at.opts) /\ w.opt = "--output" THEN [at.opts EXCEPT !.write_output = TRUE] ELSE at.opts, w.opt)}
  ELSE IF Optimizes(at.opts) /\ w.opt \in {"--cells", "-o"} THEN {}
  ELSE IF Optimizes(at.opts) /\ w.opt \in Valued(at.opts) \ {"-b"} THEN Settled(Taken(at.opts, w.opt, w.val))
  ELSE IF ignore_unknown THEN Settled({at.opts}) ELSE {}

OptionsValid(opts) == opts.num_x_cells > 0 /\ opts.num_y_cells > 0 /\ (Optimizes(opts) => opts.alpha >= 0)

ParseOptions(words, defaults, ignore_unknown) ==
  LET Step(ats, w) == UNION {ReadWord(at, w, ignore_unknown) : at \in ats}
      ends == FoldLeft(Step, Settled({defaults}), words)
  IN {opts \in {at.opts : at \in {a \in ends : a.awaits = "" \/ MayLack(a)}} : OptionsValid(opts)}

HasHelp(words) == \E i \in DOMAIN words : IsHelp(words[i])

-----------------------------------------------------------------------------
(* Mesh::makeStructuredQuad.                                               *)
PerRow(opts) == opts.num_x_cells + 1
Side(opts) == opts.num_x_cells * opts.num_y_cells

StructuredQuad(opts) ==
  LET Corner(k) == ((k - 1) \div opts.num_x_cells) * PerRow(opts) + ((k - 1) % opts.num_x_cells) IN
  [dim |-> 2, facets |-> <<>>,
   nodes |-> [k \in 1 .. PerRow(opts) * (opts.num_y_cells + 1) |->
                <<((k - 1) % PerRow(opts)) * opts.num_y_cells, ((k - 1) \div PerRow(opts)) * opts.num_x_cells, 0>>],
   elems |-> [k \in 1 .. Side(opts) |->
                [nids |-> <<Corner(k), Corner(k) + 1, Corner(k) + PerRow(opts) + 1, Corner(k) + PerRow(opts)>>,
                 shape |-> "quad", etag |-> 0, ptag |-> 0, pname |-> ""]]]

Nodes(m) == 0 .. NumNodes(m) - 1
InOrderOfNodes(m, nodes) == SelectSeq([k \in 1 .. NumNodes(m) |-> k - 1], LAMBDA in : in \in nodes)

-----------------------------------------------------------------------------
(* The values a boundary has, and an unknown may.                          *)
Zero == [is |-> "zero"]
SineAt(point) == [is |-> "sine", at |-> point]
ExactAt(point) == [is |-> "exact", at |-> point]

OnBoundary(opts, p) == p[1] \in {0, Side(opts)} \/ p[2] \in {0, Side(opts)}
IsControlNode(opts, p) == p[2] = Side(opts) /\ 0 < p[1] /\ p[1] < Side(opts)
BoundaryValue(opts, p) == IF p[2] = Side(opts) THEN SineAt(p) ELSE Zero

(* makeBoundaryMap.                                                        *)
BoundaryMaps(rows) ==
  {r \in {rows} : \A i \in DOMAIN r : r[i] >= 0 /\ \A j \in DOMAIN r : r[i] = r[j] => i = j}

(* The problem of the forward programs: DirichletBC::addBoundary.          *)
PoissonLayouts(opts, m) ==
  LET dofs == InOrderOfNodes(m, {in \in Nodes(m) : OnBoundary(opts, NodeOf(m, in))}) IN
  {[rows |-> rows, vals |-> [i \in DOMAIN rows |-> BoundaryValue(opts, NodeOf(m, rows[i]))],
    ctr_dofs |-> <<>>, target_ctr |-> <<>>, obs_dofs |-> <<>>, obs_points |-> <<>>] : rows \in BoundaryMaps(dofs)}

(* Fixed rows first.  (Mutant.)                                            *)
FixedFirst(controlled, fixed) == fixed \o controlled

ControlledFirst(controlled, fixed) == controlled \o fixed

(* effectiveObservationStride.                                             *)
Stride(opts) ==
  LET cells == Smaller(opts.num_x_cells, opts.num_y_cells) \div 8 IN
  IF opts.observation_stride > 0 THEN opts.observation_stride ELSE IF cells > 1 THEN cells ELSE 1

(* observationGridPoints, from an origin.                                  *)
ObservationGridPoints(origin, counts, spacing) ==
  {[q \in 1 .. c[1] * c[2] * c[3] |->
      <<origin[1] + spacing[1] * ((q - 1) % c[1]),
        origin[2] + spacing[2] * (((q - 1) \div c[1]) % c[2]),
        origin[3] + spacing[3] * ((q - 1) \div (c[1] * c[2]))>>] :
     c \in {n \in {counts} : \A i \in DOMAIN n : n[i] > 0}}

(* initBoundary, initTargetControl, initObservations.                      *)
PoissonOptLayouts(opts, m) ==
  LET controlled == InOrderOfNodes(m, {in \in Nodes(m) : IsControlNode(opts, NodeOf(m, in))})
      fixed == InOrderOfNodes(m, {in \in Nodes(m) : OnBoundary(opts, NodeOf(m, in)) /\ ~IsControlNode(opts, NodeOf(m, in))})
      s == Stride(opts)
      count_x == (opts.num_x_cells - 1) \div s
      count_y == (opts.num_y_cells - 1) \div s
      width == s * opts.num_y_cells
      height == s * opts.num_x_cells
  IN {[rows |-> rows, vals |-> <<>>, ctr_dofs |-> controlled,
       target_ctr |-> [ip \in DOMAIN controlled |-> ExactAt(NodeOf(m, controlled[ip]))],
       obs_dofs |-> [q \in DOMAIN points |-> s * ((q - 1) \div count_x + 1) * PerRow(opts) + s * (((q - 1) % count_x) + 1)],
       obs_points |-> points] :
        rows \in {r \in BoundaryMaps(ControlledFirst(controlled, fixed)) : controlled # <<>>},
        points \in ObservationGridPoints(<<width, height, 0>>, <<count_x, count_y, 1>>, <<width, height, 1>>)}

Layouts(opts) ==
  LET m == StructuredQuad(opts) IN IF Optimizes(opts) THEN PoissonOptLayouts(opts, m) ELSE PoissonLayouts(opts, m)

(* The values of the boundary rows: of the controlled ones the parameters. *)
ValuesOfRows(opts, layout, values) ==
  IF Optimizes(opts) THEN [i \in DOMAIN layout.rows |-> IF i \in DOMAIN values THEN values[i] ELSE Zero]
  ELSE layout.vals
=============================================================================
