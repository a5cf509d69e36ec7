-------------------------- MODULE TopoOrderProofs --------------------------
(***************************************************************************)
(* The sort of the dependency graph is correct for every graph and every    *)
(* set of names: proofs about TopoOrder.                                    *)
(***************************************************************************)
EXTENDS TopoOrder, OrderingProofs

-----------------------------------------------------------------------------
(* The inductive invariant                                                 *)

\* TypeOK and CountsExact say what the algorithm keeps; the rest ties the answer
\* to them.
Inv ==
  /\ TypeOK
  /\ CountsExact
  /\ OrderedSoFar
  /\ ErrIsStuck

LEMMA Finite ==
  ASSUME TypeOK
  PROVE  /\ names \subseteq Unit /\ IsFiniteSet(names)
         /\ waits_for \in [names -> SUBSET names]
         /\ \A u \in names : IsFiniteSet(waits_for[u])
<1>1. input \in [names : SUBSET Unit, edges : SUBSET (Unit \X OrderingEdge \X Unit)]
  BY InputsAssumption DEF TypeOK
<1>2. names \subseteq Unit
  BY <1>1 DEF names
<1>3. IsFiniteSet(names)
  BY <1>2, InputsAssumption, FS_Subset
<1>4. waits_for \in [names -> SUBSET names]
  BY DEF waits_for, preds
<1>5. \A u \in names : IsFiniteSet(waits_for[u])
  BY <1>3, <1>4, FS_Subset
<1> QED
  BY <1>2, <1>3, <1>4, <1>5

LEMMA InitInv == Init => Inv
<1> SUFFICES ASSUME Init PROVE Inv
  OBVIOUS
<1>1. input \in [names : SUBSET Unit, edges : SUBSET (Unit \X OrderingEdge \X Unit)]
  BY InputsAssumption DEF Init
<1>2. IsFiniteSet(names)
  BY <1>1, InputsAssumption, FS_Subset DEF names
<1>3. waits_for \in [names -> SUBSET names]
  BY DEF waits_for, preds
<1>4. \A u \in names : IsFiniteSet(waits_for[u])
  BY <1>2, <1>3, FS_Subset
<1>5. \A u \in names : Cardinality(waits_for[u]) \in Nat
  BY <1>4, FS_CardinalityType
<1>6. indeg \in [names -> Nat]
  BY <1>5 DEF Init
<1> DEFINE free == {u \in names : indeg[u] = 0}
<1>7. IsFiniteSet(free) /\ free \subseteq names
  BY <1>2, FS_Subset
<1>8. ready \in Orders(free)
  BY DEF Init
<1>9. ready \in Seq(free) /\ Range(ready) = free /\ IsInjective(ready)
  <2> HIDE DEF free
  <2> QED BY <1>7, <1>8, OrdersElements
<1>10. ready \in Seq(names)
  BY <1>7, <1>9
<1>11. out = <<>> /\ out \in Seq(names) /\ Range(out) = {} /\ IsInjective(out)
       /\ DOMAIN out = {}
  BY EmptySeq DEF Init, Range, IsInjective
<1>12. answer = Promise!None /\ err = {}
  BY DEF Init
<1>13. TypeOK
  BY <1>6, <1>10, <1>11, <1>12 DEF TypeOK, Init
<1>14. \A u \in names : waits_for[u] \ Range(out) = waits_for[u]
  BY <1>11
<1>15. \A u \in names : indeg[u] = Cardinality(waits_for[u] \ Range(out))
  BY <1>14 DEF Init
<1>16. CountsExact
  BY <1>9, <1>11, <1>15 DEF CountsExact
<1>17. OrderedSoFar
  BY <1>11 DEF OrderedSoFar
<1>18. ErrIsStuck
  BY <1>12 DEF ErrIsStuck
<1> QED
  BY <1>13, <1>16, <1>17, <1>18 DEF Inv

\* The turn of the loop that places the first ready name.
LEMMA PlaceInv ==
  ASSUME Inv, place_first_ready
  PROVE  Inv'
<1> DEFINE u == Head(ready)
<1> DEFINE rel == released(u)
<1>1. TypeOK /\ CountsExact /\ OrderedSoFar /\ ErrIsStuck
  BY DEF Inv
<1>2. input' = input /\ answer' = answer /\ err' = err /\ answer = Promise!None
      /\ names' = names /\ waits_for' = waits_for /\ ready # <<>>
  BY DEF place_first_ready, names, waits_for
<1>3. /\ names \subseteq Unit /\ IsFiniteSet(names)
      /\ waits_for \in [names -> SUBSET names]
      /\ \A n \in names : IsFiniteSet(waits_for[n])
  BY <1>1, Finite
<1>4. indeg \in [names -> Nat] /\ ready \in Seq(names) /\ out \in Seq(names)
      /\ err \subseteq names /\ input \in Inputs
  BY <1>1 DEF TypeOK
<1>5. /\ IsInjective(out) /\ IsInjective(ready) /\ Range(out) \cap Range(ready) = {}
      /\ \A n \in names : indeg[n] = Cardinality(waits_for[n] \ Range(out))
      /\ \A n \in names : indeg[n] = 0 <=> n \in Range(out) \cup Range(ready)
  BY <1>1 DEF CountsExact
<1>6. u \in Range(ready) /\ u \in names /\ Tail(ready) \in Seq(names)
      /\ IsInjective(Tail(ready)) /\ Range(Tail(ready)) = Range(ready) \ {u}
  BY <1>2, <1>4, <1>5, TailRest
<1>7. u \notin Range(out)
  BY <1>5, <1>6
<1>8. out' = Append(out, u) /\ indeg' = [n \in names |-> count_down(n, u)]
  BY DEF place_first_ready
<1>9. PICK more \in Orders(rel) : ready' = Tail(ready) \o more
  BY DEF place_first_ready
<1>10. out' \in Seq(names) /\ IsInjective(out') /\ Range(out') = Range(out) \cup {u}
  BY <1>4, <1>5, <1>6, <1>7, <1>8, AppendNew
<1>11. rel \subseteq names /\ IsFiniteSet(rel)
  BY <1>3, FS_Subset DEF released
<1>12. more \in Seq(rel) /\ Range(more) = rel /\ IsInjective(more)
  <2> HIDE DEF rel
  <2> QED BY <1>9, <1>11, OrdersElements
<1>13. more \in Seq(names)
  BY <1>11, <1>12
<1>14. \A n \in rel : indeg[n] = 1 /\ u \in waits_for[n]
  BY DEF released
<1>15. Range(Tail(ready)) \cap Range(more) = {}
  BY <1>5, <1>6, <1>11, <1>12, <1>14
<1>16. ready' \in Seq(names) /\ IsInjective(ready')
       /\ Range(ready') = (Range(ready) \ {u}) \cup rel
  <2> DEFINE rest == Tail(ready)
  <2>1. rest \o more \in Seq(names) /\ IsInjective(rest \o more)
        /\ Range(rest \o more) = Range(rest) \cup Range(more)
    <3>1. rest \in Seq(names) /\ IsInjective(rest) /\ Range(rest) \cap Range(more) = {}
      BY <1>6, <1>15
    <3> HIDE DEF rest
    <3> QED BY <3>1, <1>12, <1>13, ConcatDisjoint
  <2> QED
    BY <2>1, <1>6, <1>9, <1>12
<1>17. \A n \in names : u \in waits_for[n] =>
          /\ indeg[n] > 0
          /\ indeg[n] - 1 = Cardinality(waits_for[n] \ Range(out'))
  <2> SUFFICES ASSUME NEW n \in names, u \in waits_for[n]
               PROVE  /\ indeg[n] > 0
                      /\ indeg[n] - 1 = Cardinality(waits_for[n] \ Range(out'))
    OBVIOUS
  <2> DEFINE left == waits_for[n] \ Range(out)
  <2>1. IsFiniteSet(left) /\ u \in left
    BY <1>3, <1>7, FS_Subset
  <2>2. left \ {u} = waits_for[n] \ Range(out')
    BY <1>10
  <2>3. Cardinality(left) \in Nat /\ IsFiniteSet(left \ {u})
        /\ Cardinality(left \ {u}) = Cardinality(left) - 1
        /\ Cardinality(left \ {u}) \in Nat
    <3> HIDE DEF left
    <3> QED BY <2>1, FS_RemoveElement, FS_CardinalityType
  <2>4. indeg[n] = Cardinality(left)
    BY <1>5
  <2>5. indeg[n] > 0
    BY <2>3, <2>4
  <2> QED
    BY <2>2, <2>3, <2>4, <2>5
<1>18. \A n \in names : u \notin waits_for[n] =>
          waits_for[n] \ Range(out') = waits_for[n] \ Range(out)
  BY <1>10
<1>19. \A n \in names :
          /\ u \in waits_for[n] => indeg'[n] = indeg[n] - 1
          /\ u \notin waits_for[n] => indeg'[n] = indeg[n]
  BY <1>8, <1>17 DEF count_down
<1>20. \A n \in names : indeg'[n] = Cardinality(waits_for[n] \ Range(out'))
  BY <1>5, <1>17, <1>18, <1>19
<1>21. indeg' \in [names -> Nat]
  BY <1>4, <1>8, <1>17 DEF count_down
<1>22. \A n \in names : indeg'[n] = 0 <=> n \in Range(out') \cup Range(ready')
  <2> SUFFICES ASSUME NEW n \in names
               PROVE  indeg'[n] = 0 <=> n \in Range(out') \cup Range(ready')
    OBVIOUS
  <2>1. indeg[n] \in Nat
    BY <1>4
  <2>2. n \in Range(out') \cup Range(ready')
          <=> n \in Range(out) \cup Range(ready) \/ n \in rel
    BY <1>6, <1>10, <1>16
  <2>3. n \in rel <=> u \in waits_for[n] /\ indeg[n] = 1
    BY DEF released
  <2>4. CASE u \in waits_for[n]
    <3>1. indeg'[n] = 0 <=> indeg[n] = 1
      BY <2>1, <2>4, <1>19
    <3>2. indeg[n] > 0
      BY <2>4, <1>17
    <3>3. n \notin Range(out) \cup Range(ready)
      BY <3>2, <2>1, <1>5
    <3> QED
      BY <3>1, <3>3, <2>2, <2>3, <2>4
  <2>5. CASE u \notin waits_for[n]
    <3>1. indeg'[n] = 0 <=> n \in Range(out) \cup Range(ready)
      BY <2>5, <1>19, <1>5
    <3> QED
      BY <3>1, <2>2, <2>3, <2>5
  <2> QED
    BY <2>4, <2>5
<1>23. Range(out') \cap Range(ready') = {}
  BY <1>5, <1>6, <1>10, <1>11, <1>14, <1>16, <1>17
<1>24. CountsExact'
  BY <1>2, <1>10, <1>16, <1>20, <1>22, <1>23 DEF CountsExact
<1>25. TypeOK'
  BY <1>2, <1>4, <1>10, <1>16, <1>21 DEF TypeOK
<1>26. waits_for[u] \subseteq Range(out)
  <2>1. indeg[u] = 0
    BY <1>5, <1>6
  <2>2. Cardinality(waits_for[u] \ Range(out)) = 0 /\ IsFiniteSet(waits_for[u] \ Range(out))
    BY <2>1, <1>3, <1>5, <1>6, FS_Subset
  <2> QED
    BY <2>2, FS_EmptySet
<1>27. Len(out) \in Nat /\ DOMAIN out = 1 .. Len(out) /\ DOMAIN out' = 1 .. Len(out) + 1
       /\ (\A i \in 1 .. Len(out) : out'[i] = out[i]) /\ out'[Len(out) + 1] = u
  BY <1>4, <1>6, <1>8, AppendProperties, LenProperties
<1>28. OrderedSoFar'
  <2> SUFFICES ASSUME NEW i \in DOMAIN out'
               PROVE  waits_for[out'[i]] \subseteq Earlier(out', i)
    BY <1>2 DEF OrderedSoFar
  <2>1. CASE i \in 1 .. Len(out)
    <3>1. waits_for[out[i]] \subseteq Earlier(out, i)
      BY <2>1, <1>1, <1>27 DEF OrderedSoFar
    <3>2. Earlier(out, i) = Earlier(out', i)
      BY <2>1, <1>27 DEF Earlier
    <3> QED
      BY <2>1, <3>1, <3>2, <1>27
  <2>2. CASE i = Len(out) + 1
    <3>1. Range(out) \subseteq Earlier(out', i)
      BY <2>2, <1>27 DEF Earlier, Range
    <3> QED
      BY <2>2, <3>1, <1>26, <1>27
  <2> QED
    BY <2>1, <2>2, <1>27
<1>29. ErrIsStuck'
  BY <1>1, <1>2 DEF ErrIsStuck
<1> QED
  BY <1>24, <1>25, <1>28, <1>29 DEF Inv

\* When no name is ready, the names that are not out wait for one another.
LEMMA StuckNames ==
  ASSUME Inv, ready = <<>>
  PROVE  \A n \in names \ Range(out) : indeg[n] # 0 /\ waits_for[n] \ Range(out) # {}
<1>1. TypeOK /\ CountsExact
  BY DEF Inv
<1>2. Range(ready) = {}
  BY EmptySeq DEF Range
<1>3. \A n \in names \ Range(out) : indeg[n] # 0
  BY <1>1, <1>2 DEF CountsExact
<1>4. \A n \in names : indeg[n] = Cardinality(waits_for[n] \ Range(out))
  BY <1>1 DEF CountsExact
<1> QED
  BY <1>3, <1>4, FS_EmptySet

\* The end of the loop.
LEMMA ReturnInv ==
  ASSUME Inv, return_order
  PROVE  Inv'
<1>1. TypeOK /\ CountsExact /\ OrderedSoFar
  BY DEF Inv
<1>2. input' = input /\ indeg' = indeg /\ out' = out /\ ready' = ready
      /\ names' = names /\ waits_for' = waits_for /\ ready = <<>>
  BY DEF return_order, names, waits_for
<1>3. CountsExact' /\ OrderedSoFar'
  BY <1>1, <1>2 DEF CountsExact, OrderedSoFar
<1>4. answer' \in {Promise!None, Promise!Cycle, Promise!Sorted(out)}
  BY DEF return_order
<1>5. /\ err \subseteq names /\ ErrIsStuck
      /\ waits_for \in [names -> SUBSET names]
  BY <1>1, Finite DEF TypeOK, Inv
<1>6. CASE err' = err
  BY <1>1, <1>2, <1>3, <1>4, <1>5, <1>6 DEF Inv, TypeOK, ErrIsStuck
<1>7. CASE \E u \in names : blamed(u) /\ err' = {u}
  <2>1. PICK u \in names : indeg[u] > 0 /\ err' = {u}
    BY <1>7 DEF blamed
  <2> DEFINE S == names \ Range(out)
  <2>2. u \in S
    BY <2>1, <1>1 DEF CountsExact, TypeOK
  <2>3. \A n \in S : waits_for[n] \cap S # {}
    BY <1>2, <1>5, StuckNames
  <2>4. \A v \in err' : v \in S
    BY <2>1, <2>2
  <2>5. S \in SUBSET names
    OBVIOUS
  <2>6. ErrIsStuck'
    <3> HIDE DEF S
    <3> QED BY <2>3, <2>4, <2>5, <1>2 DEF ErrIsStuck
  <2> QED
    BY <2>1, <2>6, <1>1, <1>2, <1>3, <1>4 DEF Inv, TypeOK
<1> QED
  BY <1>6, <1>7 DEF return_order

LEMMA StepInv == Inv /\ [Next]_vars => Inv'
<1> SUFFICES ASSUME Inv, [Next]_vars PROVE Inv'
  OBVIOUS
<1>1. CASE place_first_ready
  BY <1>1, PlaceInv
<1>2. CASE return_order
  BY <1>2, ReturnInv
<1>3. CASE UNCHANGED vars
  BY <1>3 DEF Inv, TypeOK, CountsExact, OrderedSoFar, ErrIsStuck, names, waits_for, vars
<1> QED
  BY <1>1, <1>2, <1>3 DEF Next

\* The inductive invariant holds, for every graph.
THEOREM Invariant == Spec => []Inv
  BY InitInv, StepInv, PTL DEF Spec

\* The queue, the counts and the order keep their types (graph.rs:260-329).
THEOREM TypeCorrect == Spec => []TypeOK
<1>1. Inv => TypeOK
  BY DEF Inv
<1> QED
  BY <1>1, Invariant, PTL

\* The in-degrees count the predecessors that are not out yet (graph.rs:289-318).
THEOREM Counts == Spec => []CountsExact
<1>1. Inv => CountsExact
  BY DEF Inv
<1> QED
  BY <1>1, Invariant, PTL

\* No name is placed before one that it waits for (graph.rs:305-318).
THEOREM Ordered == Spec => []OrderedSoFar
<1>1. Inv => OrderedSoFar
  BY DEF Inv
<1> QED
  BY <1>1, Invariant, PTL

\* The name that Err carries waits on a cycle (graph.rs:319-328).
THEOREM Blame == Spec => []ErrIsStuck
<1>1. Inv => ErrIsStuck
  BY DEF Inv
<1> QED
  BY <1>1, Invariant, PTL

-----------------------------------------------------------------------------
(* Refinement                                                              *)

\* The loop's end is the one step of the promise.
LEMMA ReturnAnswers ==
  ASSUME Inv, return_order
  PROVE  Promise!Answer
<1>1. TypeOK /\ CountsExact /\ OrderedSoFar
  BY DEF Inv
<1>2. answer = Promise!None /\ input' = input /\ ready = <<>>
  BY DEF return_order
<1>3. out \in Seq(names) /\ IsInjective(out)
  BY <1>1 DEF TypeOK, CountsExact
<1>4. CASE Len(out) = Cardinality(names) /\ answer' = Promise!Sorted(out)
  <2>1. out \in Orders(names)
    BY <1>3, <1>4, InjectiveIsOrder
  <2>2. \A i \in DOMAIN out : preds(names, input.edges)[out[i]] \subseteq Earlier(out, i)
    BY <1>1 DEF OrderedSoFar, waits_for
  <2>3. out \in StartOrders(input.names, input.edges)
    BY <2>1, <2>2 DEF StartOrders, names
  <2>4. out \in Promise!StartOrders(input.names, input.edges)
    BY <2>3 DEF Promise!StartOrders, StartOrders, Promise!Orders, Orders,
         Promise!preds, preds, Promise!Earlier, Earlier, Promise!Injection, Injection,
         Promise!IsInjective, IsInjective, Promise!Cardinality, Cardinality, Promise!IsFiniteSet, IsFiniteSet
  <2> QED
    BY <2>4, <1>2, <1>4 DEF Promise!Answer
<1>5. CASE Len(out) # Cardinality(names) /\ answer' = Promise!Cycle
  <2> DEFINE S == names \ Range(out)
  <2>1. Range(out) \subseteq names
    BY <1>3, LenProperties DEF Range
  <2>2. S # {}
    BY <2>1, <1>3, <1>5, InjectiveLength
  <2>3. waits_for \in [names -> SUBSET names]
    BY <1>1, Finite
  <2>4. \A n \in S : waits_for[n] \cap S # {}
    BY <2>3, <1>2, StuckNames
  <2>5. Deadlocked(input.names, input.edges)
    BY <2>2, <2>4 DEF Deadlocked, waits_for, names
  <2> QED
    BY <2>5, <1>2, <1>5 DEF Promise!Answer, Promise!Deadlocked, Deadlocked, Promise!preds, preds
<1> QED
  BY <1>4, <1>5 DEF return_order

\* topo_order implements its promise, for every graph and every set of names.
THEOREM Refinement == Spec => KeepsPromise
<1>1. Init => Promise!Init
  BY DEF Init, Promise!Init
<1>2. Inv /\ [Next]_vars => [Promise!Answer]_<<input, answer>>
  <2>1. Inv /\ place_first_ready => UNCHANGED <<input, answer>>
    BY DEF place_first_ready
  <2> QED
    BY <2>1, ReturnAnswers DEF Next, vars
<1>3. Spec => Promise!Spec
  BY <1>1, <1>2, Invariant, PTL DEF Spec, Promise!Spec
<1> QED
  BY <1>3 DEF KeepsPromise
=============================================================================
