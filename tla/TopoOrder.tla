----------------------------- MODULE TopoOrder -----------------------------
(***************************************************************************)
(* DepGraph::topo_order: Kahn's algorithm over the After= and Before= edges *)
(* among the names of a transaction.  One step is one turn of its loop.     *)
(*                                                                         *)
(* The code takes names from IndexMaps in their insertion order, which      *)
(* depends on the caller.  Here names that come from a map come in any      *)
(* order; `ready` is the code's first-in-first-out queue.                   *)
(***************************************************************************)
EXTENDS Ordering, Integers

CONSTANTS
  Unit,     \* the units of the graph
  Inputs    \* the questions: names to sort, with the graph's ordering edges

ASSUME InputsAssumption ==
  /\ IsFiniteSet(Unit)
  /\ Inputs \subseteq [names : SUBSET Unit, edges : SUBSET (Unit \X OrderingEdge \X Unit)]

VARIABLES
  input,    \* the question, one of Inputs
  indeg,    \* for each name, how many of its predecessors are not out yet
  ready,    \* names that wait for nobody
  out,      \* the order so far
  answer,   \* what is returned
  err       \* the name that Err carries, as a set of at most one

vars == <<input, indeg, ready, out, answer, err>>

Promise == INSTANCE StartOrder

names == input.names

\* Mutant: edges declared with Before= are forgotten.
waits_for_after == [u \in names |-> {o \in names : <<u, "After", o>> \in input.edges}]
waits_for == preds(names, input.edges)

Init ==
  /\ input \in Inputs
  /\ indeg = [u \in names |-> Cardinality(waits_for[u])]
  /\ ready \in Orders({u \in names : indeg[u] = 0})
  /\ out = <<>>
  /\ answer = Promise!None
  /\ err = {}

\* The names that `u` was the last to hold back.
released(u) == {n \in names : u \in waits_for[n] /\ indeg[n] = 1}

\* Mutant: a name that is not held back by `u` alone keeps its count.
count_last(n, u) == IF u \in waits_for[n] /\ indeg[n] = 1 THEN 0 ELSE indeg[n]
\* A name loses `u` from the predecessors it waits for (saturating_sub).
count_down(n, u) ==
  IF u \in waits_for[n] /\ indeg[n] > 0 THEN indeg[n] - 1 ELSE indeg[n]

place_first_ready ==
  /\ answer = Promise!None
  /\ ready # <<>>
  /\ LET u == Head(ready)
     IN /\ out' = Append(out, u)
        /\ indeg' = [n \in names |-> count_down(n, u)]
        /\ \E more \in Orders(released(u)) : ready' = Tail(ready) \o more
  /\ UNCHANGED <<input, answer, err>>

\* Mutant: the fall-back `units[0]`, whatever its count.
blamed_first(u) == TRUE
\* Any name that still waits.
blamed(u) == indeg[u] > 0

\* The loop is over: a name whose count is not zero is on or behind a cycle.
return_order ==
  /\ answer = Promise!None
  /\ ready = <<>>
  /\ \/ /\ Len(out) = Cardinality(names)
        /\ answer' = Promise!Sorted(out)
        /\ UNCHANGED err
     \/ /\ Len(out) # Cardinality(names)
        /\ answer' = Promise!Cycle
        /\ \E u \in names : blamed(u) /\ err' = {u}
  /\ UNCHANGED <<input, indeg, ready, out>>

Next == place_first_ready \/ return_order

Spec == Init /\ [][Next]_vars

-----------------------------------------------------------------------------
(* Properties                                                              *)

TypeOK ==
  /\ input \in Inputs
  /\ indeg \in [names -> Nat]
  /\ ready \in Seq(names)
  /\ out \in Seq(names)
  /\ answer \in {Promise!None, Promise!Cycle, Promise!Sorted(out)}
  /\ err \subseteq names

\* The counts are exact, and the names without predecessors left are exactly
\* those that are out or ready, each of them once (graph.rs:289-318).
CountsExact ==
  /\ \A u \in names : indeg[u] = Cardinality(waits_for[u] \ Range(out))
  /\ \A u \in names : indeg[u] = 0 <=> u \in Range(out) \cup Range(ready)
  /\ IsInjective(out) /\ IsInjective(ready)
  /\ Range(out) \cap Range(ready) = {}

\* Every name that is out comes after all that it waits for.
OrderedSoFar ==
  \A i \in DOMAIN out : waits_for[out[i]] \subseteq Earlier(out, i)

\* topo_order implements its promise: no order that breaks an edge, and no
\* cycle reported where there is none (graph.rs:252-259).
KeepsPromise == Promise!Spec

\* The name in Err is on a cycle or behind one (graph.rs:319-320): it belongs to
\* names that all wait for one another.
ErrIsStuck ==
  \A u \in err :
     \E S \in SUBSET names : u \in S /\ \A n \in S : waits_for[n] \cap S # {}
=============================================================================
