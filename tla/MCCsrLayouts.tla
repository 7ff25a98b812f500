----------------------------- MODULE MCCsrLayouts -----------------------------
(***************************************************************************)
(* Three layouts besides the default: two of the same size with different  *)
(* entries, in one of which row 1 has no diagonal entry, and one that is   *)
(* not square.                                                             *)
(***************************************************************************)
EXTENDS Integers

MCLayouts == {0, 1, 2, 3}
MCSize == [l \in MCLayouts |-> CASE l = 0 -> 0 [] l = 3 -> 2 [] OTHER -> 3]
MCWidth == [l \in MCLayouts |-> IF l = 0 THEN 0 ELSE 3]
MCEntry ==
  [l \in MCLayouts |->
     CASE l = 0 -> <<>>
       [] l = 1 -> <<<<0, 0>>, <<0, 1>>, <<1, 0>>, <<1, 1>>, <<1, 2>>, <<2, 1>>, <<2, 2>>>>
       [] l = 2 -> <<<<0, 0>>, <<0, 2>>, <<1, 0>>, <<2, 0>>, <<2, 2>>>>
       [] l = 3 -> <<<<0, 0>>, <<0, 2>>, <<1, 1>>>>]
MCElements ==
  {[layout |-> 1, vals |-> <<2, -1, 1, 1, -1, 0, 0>>],
   [layout |-> 1, vals |-> <<0, 0, 0, 1, 2, -1, 1>>],
   [layout |-> 2, vals |-> <<1, 2, -1, 1, -1>>],
   [layout |-> 3, vals |-> <<1, 1, 1>>]}

(* Lists every square layout accepts, and those with rejected ones.        *)
ValidLists == {<<>>, <<0>>, <<2>>, <<2, 0>>, <<0, 2>>}
AllLists == ValidLists \cup {<<1>>, <<0, 3>>, <<2, 2>>}

MCBcs == {<<1, -2>>, <<2, 1>>}
MCSides == [l \in MCLayouts |-> {[row \in 0 .. MCSize[l] - 1 |-> row - 1]}]
MCTrial == -2 .. 2
=============================================================================
