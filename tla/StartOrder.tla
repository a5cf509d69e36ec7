----------------------------- MODULE StartOrder -----------------------------
(***************************************************************************)
(* What DepGraph::topo_order promises (systeml-deps, graph.rs:252-259): an  *)
(* order in which every name follows those that it starts after, or the     *)
(* news that there is none.  TopoOrder is the algorithm.                    *)
(***************************************************************************)
EXTENDS Ordering

CONSTANT Inputs     \* what topo_order may be asked: [names, edges] records

VARIABLES
  input,     \* the names to sort and the ordering edges of the graph
  answer     \* "none" until the sort returns, then "ok" with an order, or "cycle"

None == [is |-> "none", order |-> <<>>]
Cycle == [is |-> "cycle", order |-> <<>>]
Sorted(order) == [is |-> "ok", order |-> order]

Init == input \in Inputs /\ answer = None

Answer ==
  /\ answer = None
  /\ \/ Deadlocked(input.names, input.edges) /\ answer' = Cycle
     \/ \E order \in StartOrders(input.names, input.edges) : answer' = Sorted(order)
  /\ UNCHANGED input

Spec == Init /\ [][Answer]_<<input, answer>>
=============================================================================
