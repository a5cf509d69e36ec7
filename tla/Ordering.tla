------------------------------ MODULE Ordering ------------------------------
(***************************************************************************)
(* What it means to order names by the After= and Before= edges of the      *)
(* dependency graph: shared by the sort and by the transactions that use it.*)
(***************************************************************************)
EXTENDS Naturals, FiniteSets, Sequences, Functions

OrderingEdge == {"After", "Before"}

\* For each name the names that must run first.  Edges to others are ignored.
preds(names, edges) ==
  [u \in names |->
     {o \in names : <<u, "After", o>> \in edges \/ <<o, "Before", u>> \in edges}]

\* The sequences that hold each element of S once.
Orders(S) == Injection(1 .. Cardinality(S), S)

Earlier(order, i) == {order[k] : k \in 1 .. i - 1}

\* The orders in which every name comes after those it waits for.
StartOrders(names, edges) ==
  {order \in Orders(names) :
     \A i \in DOMAIN order : preds(names, edges)[order[i]] \subseteq Earlier(order, i)}

\* There are names none of which can be first: each waits for another of them.
Deadlocked(names, edges) ==
  \E S \in SUBSET names :
     S # {} /\ \A u \in S : preds(names, edges)[u] \cap S # {}
=============================================================================
