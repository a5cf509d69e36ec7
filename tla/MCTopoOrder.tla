---------------------------- MODULE MCTopoOrder ----------------------------
(***************************************************************************)
(* All graphs with few ordering edges among a few units, and the names of a *)
(* transaction among them.                                                  *)
(***************************************************************************)
EXTENDS TopoOrder, FiniteSetsExt

CONSTANT MaxEdges   \* bound: ordering edges of a graph

Graphs == UNION {kSubset(k, Unit \X OrderingEdge \X Unit) : k \in 0 .. MaxEdges}
SmallInputs == [names : SUBSET Unit, edges : Graphs]
=============================================================================
