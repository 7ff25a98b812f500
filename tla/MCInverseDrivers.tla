--------------------------- MODULE MCInverseDrivers ----------------------------
(* Small values for InverseDrivers: two parameters on a grid of four       *)
(* points, one objective with both terms and one without a state term, and *)
(* solvers of every kind.                                                  *)
EXTENDS InverseDrivers

Config(solver, kind, curv, max_its) ==
  [solver |-> solver, kind |-> kind, curv |-> curv, max_its |-> max_its]

MCGrid == {0, 1} \X {0, 1}
MCScales == {NotScaled, <<1, 2>>, <<1, 0>>}
InnerBox == [lower |-> <<0, 0>>, upper |-> <<1, 0>>]
MCBoxes == {NoBounds, InnerBox, [lower |-> <<0, 2>>, upper |-> <<1, 0>>],
            [lower |-> <<0>>, upper |-> <<1>>]}

(* Every option of TAO with the plain solver, every solver with none.      *)
Plain == Config("linear", "dense", 0, 0)
MCCases ==
  [config : {Plain}, type : {"lmvm"}, scale : {NotScaled, <<1, 2>>}, bounds : {NoBounds, InnerBox}, monitor : BOOLEAN]
    \cup [config : {Plain}, type : {"cg"}, scale : {NotScaled}, bounds : {InnerBox}, monitor : {TRUE}]
    \cup [config : {Config("linear", k, 0, 0) : k \in Kinds \ {"dense"}}
                     \cup {Config("newton", "dense", 1, 1), Config("newton", "krylov", 1, 2)},
          type : {"lmvm"}, scale : {NotScaled}, bounds : {NoBounds}, monitor : {FALSE}]

StateTerm == Term(<<1, 0>>, <<2, 4>>)
ParamTerm == Term(<<1, 1>>, <<2, 2>>)
MCObjectives == {<<[state |-> StateTerm, prm |-> ParamTerm], [state |-> NotSet, prm |-> ParamTerm]>>}
MCTerms == [state |-> {NotSet, StateTerm, Term(<<1>>, <<2>>)}, prm |-> {Term(<<1, 1>>, <<2, -2>>)}]
MCStarts == {<<0, 0>>, <<1, 2>>}
MCOthers == {Csr("square", <<<<1, 1>>, <<1, 2>>>>), Csr("other", <<<<1, 0>>, <<0, 1>>>>)}
=============================================================================
