--------------------------- MODULE MCGpuAccumulator ---------------------------
(***************************************************************************)
(* Six parents: a pass, a terminal board, children of both players, the    *)
(* same child from several parents, a key both players have, and keys that *)
(* only the second field tells apart.                                      *)
(***************************************************************************)
EXTENDS GpuAccumulator

MCParents == 1..6

Board(n, kids) == [kind |-> n, children |-> kids]
Kids(ps, ks) == [i \in 1..Len(ps) |-> [player |-> ps[i], key |-> ks[i]]]

MCExpansion ==
  << Board("move", Kids(<<0, 0>>, << <<2, 1>>, <<1, 2>> >>)),
     Board("move", Kids(<<0, 1>>, << <<1, 2>>, <<2, 2>> >>)),
     Board("pass", Kids(<<1>>, << <<2, 1>> >>)),
     Board("terminal", <<>>),
     Board("move", Kids(<<0, 1>>, << <<2, 2>>, <<2, 2>> >>)),
     Board("pass", Kids(<<1, 1>>, << <<1, 2>>, <<2, 1>> >>)) >>
=============================================================================
