------------------------- MODULE TransactionProofs -------------------------
(***************************************************************************)
(* Proofs about Transaction, for every set of unit files and every request. *)
(***************************************************************************)
EXTENDS Transaction, OrderingProofs

\* The names are the keys of the map of jobs, and the order is one of them.
Listed ==
  /\ IsInjective(names) /\ Range(names) = DOMAIN jobs
  /\ result = "ok" => order \in Orders(DOMAIN jobs)

\* Beside what the runs check: the expansion stops when an answer is there, and
\* nothing has been recorded before it begins.
Inv ==
  /\ TypeOK
  /\ Listed
  /\ RecursionBounded
  /\ stack # <<>> => phase \in {"expand", "isolate"}
  /\ phase = "begin" => jobs = <<>> /\ names = <<>> /\ order = <<>>

Frame == [calls : Seq(Call), soft : BOOLEAN]

LEMMA FunctionIsSeq ==
  ASSUME NEW S, NEW n \in Nat, NEW f \in [1 .. n -> S]
  PROVE  f \in Seq(S)
OBVIOUS

-----------------------------------------------------------------------------
(* The graph of the unit files                                             *)

\* Both adjacency lists of an edge have it.
Mirrored(g) ==
  \A u, v \in Unit : \A k \in DepEdge :
    <<k, v>> \in Range(g.forward[u]) <=> <<k, u>> \in Range(g.reverse[v])

GraphOf(g, loaded, spared) ==
  /\ g \in Graph /\ Mirrored(g)
  /\ loaded \subseteq Range(g.nodes) /\ g.ignore_on_isolate = spared \cap loaded

LEMMA PushAdds ==
  ASSUME NEW S, NEW list \in Seq(S), NEW x \in S
  PROVE  /\ push(list, x) \in Seq(S)
         /\ \A y : y \in Range(push(list, x)) <=> y \in Range(list) \/ y = x
<1>1. CASE Contains(list, x)
  <2>1. x \in Range(list)
    BY <1>1, LenProperties DEF Contains, Range
  <2> QED BY <1>1, <2>1 DEF push
<1>2. CASE ~Contains(list, x)
  BY <1>2, RangeAppend, AppendProperties DEF push
<1> QED BY <1>1, <1>2

LEMMA AddEdgeGraph ==
  ASSUME NEW L, NEW P, NEW g, GraphOf(g, L, P),
         NEW u \in Unit, NEW k \in DepEdge, NEW v \in Unit
  PROVE  GraphOf(add_edge(g, <<u, k, v>>), L, P)
<1> DEFINE h == add_edge(g, <<u, k, v>>)
           fw == push(g.forward[u], <<k, v>>)
           rv == push(g.reverse[v], <<k, u>>)
           pu == push(g.nodes, u)
           nd == push(pu, v)
<1>1. /\ g \in Graph /\ g.nodes \in Seq(Unit)
      /\ g.forward \in [Unit -> Seq(DepEdge \X Unit)] /\ g.reverse \in [Unit -> Seq(DepEdge \X Unit)]
  BY DEF GraphOf, Graph
<1>2. /\ <<k, v>> \in DepEdge \X Unit /\ <<k, u>> \in DepEdge \X Unit
      /\ g.forward[u] \in Seq(DepEdge \X Unit) /\ g.reverse[v] \in Seq(DepEdge \X Unit)
  BY <1>1
<1>3. fw \in Seq(DepEdge \X Unit) /\ \A y : y \in Range(fw) <=> y \in Range(g.forward[u]) \/ y = <<k, v>>
  BY <1>2, PushAdds
<1>10. rv \in Seq(DepEdge \X Unit) /\ \A y : y \in Range(rv) <=> y \in Range(g.reverse[v]) \/ y = <<k, u>>
  BY <1>2, PushAdds
<1>11. pu \in Seq(Unit) /\ \A y : y \in Range(pu) <=> y \in Range(g.nodes) \/ y = u
  BY <1>1, PushAdds, SMTT(30)
<1>12. nd \in Seq(Unit) /\ \A y : y \in Range(nd) <=> y \in Range(pu) \/ y = v
  <2> HIDE DEF pu
  <2> QED BY <1>11, PushAdds
<1>4. /\ h.forward = [g.forward EXCEPT ![u] = fw] /\ h.reverse = [g.reverse EXCEPT ![v] = rv]
      /\ h.nodes = nd /\ h.ignore_on_isolate = g.ignore_on_isolate
      /\ h = [forward |-> h.forward, reverse |-> h.reverse, nodes |-> h.nodes,
              ignore_on_isolate |-> h.ignore_on_isolate]
  <2> DEFINE e == <<u, k, v>>
  <2>1. e[1] = u /\ e[2] = k /\ e[3] = v
    OBVIOUS
  <2> HIDE DEF e
  <2>2. g = [forward |-> g.forward, reverse |-> g.reverse, nodes |-> g.nodes,
             ignore_on_isolate |-> g.ignore_on_isolate]
    BY <1>1 DEF Graph
  <2>3. add_edge(g, e) = [forward |-> [g.forward EXCEPT ![u] = fw],
                          reverse |-> [g.reverse EXCEPT ![v] = rv],
                          nodes |-> nd, ignore_on_isolate |-> g.ignore_on_isolate]
    <3>1. DOMAIN g = {"forward", "reverse", "nodes", "ignore_on_isolate"}
      BY <2>2
    <3>2. add_edge(g, e).forward = [g.forward EXCEPT ![u] = push(g.forward[u], <<k, v>>)]
      BY <2>1, <3>1 DEF add_edge
    <3>3. add_edge(g, e).reverse = [g.reverse EXCEPT ![v] = push(g.reverse[v], <<k, u>>)]
      BY <2>1, <3>1 DEF add_edge
    <3>4. add_edge(g, e).nodes = nd /\ add_edge(g, e).ignore_on_isolate = g.ignore_on_isolate
      BY <2>1, <3>1 DEF add_edge
    <3>5. add_edge(g, e) = [x \in DOMAIN g |-> add_edge(g, e)[x]]
      BY DEF add_edge
    <3> QED BY <3>1, <3>2, <3>3, <3>4, <3>5
  <2>4. h = add_edge(g, e)
    BY DEF e
  <2> HIDE DEF h, fw, rv, nd
  <2> QED BY <2>3, <2>4
<1> HIDE DEF h, fw, rv, nd
<1>5. h \in Graph
  <2>1. h.forward \in [Unit -> Seq(DepEdge \X Unit)] /\ h.reverse \in [Unit -> Seq(DepEdge \X Unit)]
    BY <1>1, <1>3, <1>10, <1>4
  <2>2. h.nodes \in Seq(Unit) /\ h.ignore_on_isolate \in SUBSET Unit
    BY <1>1, <1>4, <1>12 DEF Graph
  <2> QED BY <1>4, <2>1, <2>2 DEF Graph
<1>6. \A w, x \in Unit : \A d \in DepEdge :
        /\ <<d, x>> \in Range(h.forward[w]) <=>
             <<d, x>> \in Range(g.forward[w]) \/ (w = u /\ d = k /\ x = v)
        /\ <<d, w>> \in Range(h.reverse[x]) <=>
             <<d, w>> \in Range(g.reverse[x]) \/ (w = u /\ d = k /\ x = v)
  <2> TAKE w, x \in Unit
  <2> TAKE d \in DepEdge
  <2>1. h.forward[w] = IF w = u THEN fw ELSE g.forward[w]
    BY <1>1, <1>4
  <2>2. h.reverse[x] = IF x = v THEN rv ELSE g.reverse[x]
    BY <1>1, <1>4
  <2>3. <<d, x>> \in Range(h.forward[w]) <=>
          <<d, x>> \in Range(g.forward[w]) \/ (w = u /\ d = k /\ x = v)
    BY <1>3, <2>1
  <2>4. <<d, w>> \in Range(h.reverse[x]) <=>
          <<d, w>> \in Range(g.reverse[x]) \/ (w = u /\ d = k /\ x = v)
    BY <1>10, <2>2
  <2> QED BY <2>3, <2>4
<1>7. Mirrored(h)
  BY <1>6 DEF Mirrored, GraphOf
<1>8. L \subseteq Range(h.nodes) /\ h.ignore_on_isolate = P \cap L
  BY <1>11, <1>12, <1>4 DEF GraphOf
<1> QED BY <1>5, <1>7, <1>8 DEF GraphOf, h

LEMMA DirectiveKinds ==
  /\ Range(Directives) \subseteq DepEdge \cup DOMAIN InstallEdge \cup {"Unit"}
  /\ \A d \in DOMAIN InstallEdge : InstallEdge[d] \in DepEdge
  /\ "Wants" \in DepEdge /\ "Before" \in DepEdge
  /\ Len(Directives) \in Nat
<1> DEFINE D == {"Wants", "Requires", "Requisite", "BindsTo", "PartOf", "Upholds", "Conflicts",
                 "OnFailure", "OnSuccess", "PropagatesReloadTo", "PropagatesStopTo", "After",
                 "Before"}
           I == {"WantedBy", "RequiredBy", "UpheldBy"}
           A == D \cup I \cup {"Unit"}
<1>1. Dependencies \in Seq(D) /\ DOMAIN Dependencies = 1 .. 13
  BY DEF Dependencies
<1>2. /\ Dependencies[1] = "Wants" /\ Dependencies[2] = "Requires"
      /\ Dependencies[6] = "Upholds" /\ Dependencies[13] = "Before"
  BY DEF Dependencies
<1>3. {"Wants", "Requires", "Upholds", "Before"} \subseteq DepEdge
  BY <1>1, <1>2 DEF DepEdge, Range
<1>4. Installs \in Seq(I) /\ Range(Installs) \subseteq I /\ DOMAIN InstallEdge = I
  BY DEF Installs, InstallEdge, Range
<1>5. <<"Unit">> \in Seq({"Unit"}) /\ Range(<<"Unit">>) = {"Unit"}
  BY DEF Range
<1>6. \A T \in {D, I, {"Unit"}} : Seq(T) \subseteq Seq(A)
  OBVIOUS
<1> HIDE DEF D, I, A
<1>7. Dependencies \in Seq(A) /\ Installs \in Seq(A) /\ <<"Unit">> \in Seq(A)
  BY <1>1, <1>4, <1>5, <1>6
<1>8. Dependencies \o Installs \in Seq(A)
      /\ Range(Dependencies \o Installs) = DepEdge \cup Range(Installs)
  BY <1>7, RangeConcat, ConcatProperties DEF DepEdge
<1>9. Range(Directives) = DepEdge \cup Range(Installs) \cup {"Unit"} /\ Directives \in Seq(A)
  <2> DEFINE DI == Dependencies \o Installs
  <2> HIDE DEF DI
  <2>1. DI \in Seq(A) /\ Range(DI) = DepEdge \cup Range(Installs)
    BY <1>8 DEF DI
  <2>2. Range(DI \o <<"Unit">>) = Range(DI) \cup Range(<<"Unit">>)
    <3> DEFINE one == <<"Unit">>
    <3>1. one \in Seq(A)
      BY <1>7
    <3> HIDE DEF one
    <3>2. Range(DI \o one) = Range(DI) \cup Range(one)
      BY <2>1, <3>1, RangeConcat
    <3> QED BY <3>2 DEF one
  <2>3. DI \o <<"Unit">> \in Seq(A)
    BY <1>7, <2>1, ConcatProperties
  <2> QED BY <1>5, <2>1, <2>2, <2>3 DEF Directives, DI
<1>10. \A d \in DOMAIN InstallEdge : InstallEdge[d] \in {"Wants", "Requires", "Upholds"}
  BY DEF InstallEdge
<1>11. Len(Directives) \in Nat
  BY <1>9, LenProperties
<1> QED BY <1>3, <1>4, <1>9, <1>10, <1>11

LEMMA AddLineGraph ==
  ASSUME NEW L, NEW P, NEW plain, NEW g, GraphOf(g, L, P),
         NEW l \in Unit \X Range(Directives) \X Unit
  PROVE  GraphOf(add_line(plain, g, l), L, P)
<1>1. PICK u \in Unit, d \in Range(Directives), v \in Unit : l = <<u, d, v>>
  OBVIOUS
<1>2. l[1] = u /\ l[2] = d /\ l[3] = v
  BY <1>1
<1>3. CASE d \in DOMAIN InstallEdge
  <2>1. InstallEdge[d] \in DepEdge
    BY <1>3, DirectiveKinds
  <2>2. GraphOf(add_edge(g, <<v, InstallEdge[d], u>>), L, P)
    BY <2>1, AddEdgeGraph
  <2>3. d # "Unit"
    BY <1>3 DEF InstallEdge
  <2>4. add_line(plain, g, l) = IF u \in plain THEN g ELSE add_edge(g, <<v, InstallEdge[d], u>>)
    BY <1>2, <1>3, <2>3 DEF add_line
  <2> QED BY <2>2, <2>4
<1>4. CASE d = "Unit"
  <2>1. "Wants" \in DepEdge /\ "Before" \in DepEdge
    BY DirectiveKinds
  <2>2. GraphOf(add_edge(g, <<u, "Wants", v>>), L, P)
    BY <2>1, AddEdgeGraph
  <2>3. GraphOf(add_edge(add_edge(g, <<u, "Wants", v>>), <<u, "Before", v>>), L, P)
    BY <2>1, <2>2, AddEdgeGraph
  <2>4. d \notin DOMAIN InstallEdge
    BY <1>4 DEF InstallEdge
  <2>5. add_line(plain, g, l) = add_edge(add_edge(g, <<u, "Wants", v>>), <<u, "Before", v>>)
    BY <1>2, <1>4, <2>4 DEF add_line
  <2> QED BY <2>3, <2>5
<1>5. CASE d \notin DOMAIN InstallEdge /\ d # "Unit"
  <2>1. d \in DepEdge
    BY <1>5, DirectiveKinds
  <2>2. GraphOf(add_edge(g, l), L, P)
    BY <1>1, <2>1, AddEdgeGraph
  <2>3. add_line(plain, g, l) = add_edge(g, l)
    BY <1>2, <1>5 DEF add_line
  <2> QED BY <2>2, <2>3
<1> QED BY <1>3, <1>4, <1>5

LEMMA LinesCount == Len(Lines) \in Nat /\ Len(Names) \in Nat
<1>1. Len(Names) \in Nat /\ Len(Directives) \in Nat
  BY LenProperties, DirectiveKinds, CasesAssumption
<1> DEFINE m == Len(Names) * Len(Directives) * Len(Names)
<1>2. m \in Nat
  BY <1>1
<1>3. DOMAIN Lines = 1 .. m /\ Lines \in [1 .. m -> Range(Lines)]
  BY DEF Lines, Range
<1> HIDE DEF m
<1>4. Lines \in Seq(Range(Lines))
  BY <1>2, <1>3, FunctionIsSeq
<1> QED BY <1>1, <1>4, LenProperties

\* What one more name, or one more line, makes of what was built before.
Listing(loaded, f, n) ==
  IF n = 0 THEN <<>> ELSE IF Names[n] \in loaded THEN Append(f[n - 1], Names[n]) ELSE f[n - 1]
Reading(seeded, lines, plain, f, n) ==
  IF n = 0 THEN seeded
  ELSE IF Lines[n] \in lines THEN add_line(plain, f[n - 1], Lines[n]) ELSE f[n - 1]

\* All loaded units are nodes from the beginning.
LEMMA LoadedAreListed ==
  ASSUME NEW loaded, loaded \subseteq Unit
  PROVE  LET listed[n \in 0 .. Len(Names)] ==
               IF n = 0 THEN <<>>
               ELSE IF Names[n] \in loaded THEN Append(listed[n - 1], Names[n]) ELSE listed[n - 1]
         IN listed[Len(Names)] \in Seq(Unit) /\ loaded \subseteq Range(listed[Len(Names)])
<1> DEFINE N == Len(Names)
           Def(f) == f = [n \in 0 .. N |-> Listing(loaded, f, n)]
           listed == CHOOSE f : Def(f)
<1>1. N \in Nat /\ DOMAIN Names = 1 .. N /\ \A n \in 1 .. N : Names[n] \in Unit
  BY CasesAssumption, LenProperties, ElementOfSeq
<1>2. Def(listed)
  <2> DEFINE F == [n \in 1 .. N |-> [s \in Seq(Unit) |->
                     IF Names[n] \in loaded THEN Append(s, Names[n]) ELSE s]]
  <2>1. \A n \in 1 .. N : \A s \in Seq(Unit) :
          (IF Names[n] \in loaded THEN Append(s, Names[n]) ELSE s) \in Seq(Unit)
    BY <1>1, AppendProperties
  <2>2. F \in [1 .. N -> [Seq(Unit) -> Seq(Unit)]]
    BY <2>1
  <2>3. <<>> \in Seq(Unit)
    OBVIOUS
  <2>4. \E f \in [0 .. N -> Seq(Unit)] : f[0] = <<>> /\ \A n \in 1 .. N : f[n] = F[n][f[n - 1]]
    <3> DEFINE T == Seq(Unit)
               none == <<>>
    <3>1. none \in T /\ F \in [1 .. N -> [T -> T]]
      BY <2>2, <2>3
    <3> HIDE DEF F, N, T, none
    <3>2. \E f \in [0 .. N -> T] : f[0] = none /\ \A n \in 1 .. N : f[n] = F[n][f[n - 1]]
      BY <1>1, <3>1, Iterated
    <3> QED BY <3>2 DEF T, none
  <2>5. PICK f \in [0 .. N -> Seq(Unit)] : f[0] = <<>> /\ \A n \in 1 .. N : f[n] = F[n][f[n - 1]]
    BY <2>4
  <2>6. \A n \in 0 .. N : f[n] = Listing(loaded, f, n)
    <3> SUFFICES ASSUME NEW n \in 0 .. N, n # 0 PROVE f[n] = Listing(loaded, f, n)
      BY <2>5 DEF Listing
    <3>1. n \in 1 .. N /\ n - 1 \in 0 .. N
      BY <1>1
    <3>2. f[n - 1] \in Seq(Unit) /\ f[n] = F[n][f[n - 1]]
      BY <2>5, <3>1
    <3>3. F[n][f[n - 1]] = IF Names[n] \in loaded THEN Append(f[n - 1], Names[n]) ELSE f[n - 1]
      BY <3>1, <3>2
    <3> QED BY <3>2, <3>3 DEF Listing
  <2>7. Def(f)
    BY <2>5, <2>6
  <2> QED BY <2>7
<1> DEFINE P == {n \in 0 .. N : /\ listed[n] \in Seq(Unit)
                                /\ \A i \in 1 .. n : Names[i] \in loaded => Names[i] \in Range(listed[n])}
<1> HIDE DEF listed
<1>3. \A n \in 0 .. N : listed[n] = Listing(loaded, listed, n)
  BY <1>2
<1>4. P = 0 .. N
  <2>1. 0 \in P
    <3>1. 0 \in 0 .. N /\ \A i \in 1 .. 0 : FALSE
      BY <1>1
    <3>2. listed[0] = <<>>
      BY <1>3, <3>1 DEF Listing
    <3>3. <<>> \in Seq(Unit)
      OBVIOUS
    <3> QED BY <3>1, <3>2, <3>3
  <2>2. \A n \in 1 .. N : n - 1 \in P => n \in P
    <3> SUFFICES ASSUME NEW n \in 1 .. N, n - 1 \in P PROVE n \in P
      OBVIOUS
    <3>1. n \in 0 .. N /\ n # 0 /\ Names[n] \in Unit /\ listed[n - 1] \in Seq(Unit)
      BY <1>1
    <3>2. listed[n] = IF Names[n] \in loaded THEN Append(listed[n - 1], Names[n]) ELSE listed[n - 1]
      BY <1>3, <3>1 DEF Listing
    <3>3. \A i \in 1 .. n : i \in 1 .. n - 1 \/ i = n
      BY <1>1
    <3>4. CASE Names[n] \in loaded
      <4>1. listed[n] \in Seq(Unit) /\ Range(listed[n]) = Range(listed[n - 1]) \cup {Names[n]}
        BY <3>1, <3>2, <3>4, RangeAppend, AppendProperties
      <4> QED BY <3>1, <3>3, <4>1
    <3>5. CASE Names[n] \notin loaded
      BY <3>1, <3>2, <3>3, <3>5
    <3> QED BY <3>4, <3>5
  <2> HIDE DEF P
  <2>3. P \subseteq 0 .. N
    BY DEF P
  <2> HIDE DEF N
  <2> QED BY <1>1, <2>1, <2>2, <2>3, UpTo
<1>5. N \in P
  BY <1>1, <1>4
<1>6. loaded \subseteq Range(listed[N])
  <2> SUFFICES ASSUME NEW u \in loaded PROVE u \in Range(listed[N])
    OBVIOUS
  <2>1. PICK i \in 1 .. N : Names[i] = u
    BY <1>1 DEF Unit, Range
  <2> QED BY <1>5, <2>1
<1> QED BY <1>5, <1>6 DEF listed, Listing

ReadFrom(seeded, lines, plain) ==
  LET read[n \in 0 .. Len(Lines)] ==
        IF n = 0 THEN seeded
        ELSE IF Lines[n] \in lines THEN add_line(plain, read[n - 1], Lines[n]) ELSE read[n - 1]
  IN read[Len(Lines)]

\* Reading lines keeps what add_line keeps.
LEMMA LinesAreRead ==
  ASSUME NEW S, NEW seeded \in S, NEW lines, NEW plain,
         \A l \in lines : \A g \in S : add_line(plain, g, l) \in S
  PROVE  ReadFrom(seeded, lines, plain) \in S
<1> DEFINE N == Len(Lines)
           Def(f) == f = [n \in 0 .. N |-> Reading(seeded, lines, plain, f, n)]
           read == CHOOSE f : Def(f)
<1>1. N \in Nat
  BY LinesCount
<1>2. Def(read)
  <2> DEFINE F == [n \in 1 .. N |-> [g \in S |->
                     IF Lines[n] \in lines THEN add_line(plain, g, Lines[n]) ELSE g]]
  <2>2. F \in [1 .. N -> [S -> S]]
    OBVIOUS
  <2>4. \E f \in [0 .. N -> S] : f[0] = seeded /\ \A n \in 1 .. N : f[n] = F[n][f[n - 1]]
    <3> HIDE DEF F, N
    <3> QED BY <1>1, <2>2, Iterated
  <2>5. PICK f \in [0 .. N -> S] : f[0] = seeded /\ \A n \in 1 .. N : f[n] = F[n][f[n - 1]]
    BY <2>4
  <2>6. \A n \in 0 .. N : f[n] = Reading(seeded, lines, plain, f, n)
    <3> SUFFICES ASSUME NEW n \in 0 .. N, n # 0 PROVE f[n] = Reading(seeded, lines, plain, f, n)
      BY <2>5 DEF Reading
    <3>1. n \in 1 .. N /\ n - 1 \in 0 .. N
      BY <1>1
    <3>2. f[n - 1] \in S /\ f[n] = F[n][f[n - 1]]
      BY <2>5, <3>1
    <3>3. F[n][f[n - 1]] = IF Lines[n] \in lines THEN add_line(plain, f[n - 1], Lines[n]) ELSE f[n - 1]
      BY <3>1, <3>2
    <3> QED BY <3>2, <3>3 DEF Reading
  <2>7. Def(f)
    BY <2>5, <2>6
  <2> QED BY <2>7
<1> DEFINE P == {n \in 0 .. N : read[n] \in S}
<1> HIDE DEF read
<1>3. \A n \in 0 .. N : read[n] = Reading(seeded, lines, plain, read, n)
  BY <1>2
<1>4. P = 0 .. N
  <2>1. 0 \in P
    BY <1>1, <1>3 DEF Reading
  <2>2. \A n \in 1 .. N : n - 1 \in P => n \in P
    <3> SUFFICES ASSUME NEW n \in 1 .. N, n - 1 \in P PROVE n \in P
      OBVIOUS
    <3>1. n \in 0 .. N /\ n # 0 /\ read[n - 1] \in S
      BY <1>1
    <3>2. read[n] = IF Lines[n] \in lines THEN add_line(plain, read[n - 1], Lines[n]) ELSE read[n - 1]
      BY <1>3, <3>1 DEF Reading
    <3> QED BY <3>1, <3>2
  <2>3. P \subseteq 0 .. N
    OBVIOUS
  <2> HIDE DEF P, N
  <2> QED BY <1>1, <2>1, <2>2, <2>3, UpTo
<1>5. read[N] \in S
  BY <1>1, <1>4
<1> QED BY <1>5 DEF read, Reading, ReadFrom

\* build makes a graph in which each edge is in both adjacency lists, all loaded
\* units are nodes, and those that opted out of Isolate are known.
LEMMA BuildGraph ==
  ASSUME NEW c \in Cases
  PROVE  GraphOf(graph_of(c), c.loaded, c.spared)
<1> DEFINE S == {g \in Graph : GraphOf(g, c.loaded, c.spared)}
           listed == CHOOSE f : f = [n \in 0 .. Len(Names) |->
                       IF n = 0 THEN <<>>
                       ELSE IF Names[n] \in c.loaded THEN Append(f[n - 1], Names[n]) ELSE f[n - 1]]
           nd == listed[Len(Names)]
           seeded == [forward |-> [u \in Unit |-> <<>>], reverse |-> [u \in Unit |-> <<>>],
                      nodes |-> nd, ignore_on_isolate |-> c.spared \cap c.loaded]
<1>1. c.loaded \subseteq Unit /\ c.spared \subseteq Unit
      /\ c.lines \subseteq Unit \X Range(Directives) \X Unit
  BY CasesAssumption DEF Case
<1>2. nd \in Seq(Unit) /\ c.loaded \subseteq Range(nd)
  BY <1>1, LoadedAreListed
<1> HIDE DEF listed, nd
<1>3. seeded \in Graph
  BY <1>1, <1>2 DEF Graph
<1>4. Mirrored(seeded)
  BY DEF Mirrored, Range
<1>5. seeded \in S
  BY <1>2, <1>3, <1>4 DEF GraphOf
<1> HIDE DEF seeded
<1>6. \A l \in c.lines : \A g \in S : add_line(c.plain, g, l) \in S
  <2> SUFFICES ASSUME NEW l \in c.lines, NEW g \in S PROVE add_line(c.plain, g, l) \in S
    OBVIOUS
  <2>1. l \in Unit \X Range(Directives) \X Unit
    BY <1>1
  <2>2. GraphOf(add_line(c.plain, g, l), c.loaded, c.spared)
    BY <2>1, AddLineGraph
  <2> QED BY <2>2 DEF GraphOf
<1>7. ReadFrom(seeded, c.lines, c.plain) \in S
  <2> HIDE DEF S
  <2> QED BY <1>5, <1>6, LinesAreRead
<1>8. graph_of(c) = ReadFrom(seeded, c.lines, c.plain)
  BY DEF graph_of, build, seeded, nd, listed, ReadFrom
<1> QED BY <1>7, <1>8

-----------------------------------------------------------------------------
(* What is reached over a relation                                         *)

\* A set that a relation does not leave.
Closed(S, R) == \A r \in R : r[1] \in S => r[2] \in S
\* One step further.
Further(S, R) == S \cup {r[2] : r \in {x \in R : x[1] \in S}}

LEMMA ReachSteps ==
  ASSUME NEW start \in Unit, NEW R, R \subseteq Unit \X Unit
  PROVE  \E reach \in [0 .. Cardinality(Unit) -> SUBSET Unit] :
           /\ reach[0] = {start}
           /\ \A n \in 1 .. Cardinality(Unit) : reach[n] = Further(reach[n - 1], R)
           /\ Reach(start, R) = reach[Cardinality(Unit)]
<1> DEFINE C == Cardinality(Unit)
           U == SUBSET Unit
           One(f, n) == IF n = 0 THEN {start} ELSE Further(f[n - 1], R)
           Def(f) == f = [n \in 0 .. C |-> One(f, n)]
           reach == CHOOSE f : Def(f)
<1>1. C \in Nat
  BY CasesAssumption, FS_CardinalityType
<1>2. \A S \in U : Further(S, R) \in U
  BY DEF Further
<1>3. \E f \in [0 .. C -> U] : f[0] = {start} /\ \A n \in 1 .. C : f[n] = Further(f[n - 1], R)
  <2> DEFINE F == [n \in 1 .. C |-> [S \in U |-> Further(S, R)]]
             base == {start}
  <2>1. F \in [1 .. C -> [U -> U]] /\ base \in U
    BY <1>2
  <2>2. \E f \in [0 .. C -> U] : f[0] = base /\ \A n \in 1 .. C : f[n] = F[n][f[n - 1]]
    <3> DEFINE D == C
               V == U
    <3>1. D \in Nat /\ F \in [1 .. D -> [V -> V]] /\ base \in V
      BY <1>1, <2>1
    <3> HIDE DEF F, base, D, V
    <3>2. \E f \in [0 .. D -> V] : f[0] = base /\ \A n \in 1 .. D : f[n] = F[n][f[n - 1]]
      BY <3>1, Iterated
    <3> QED BY <3>2 DEF D, V
  <2>3. PICK f \in [0 .. C -> U] : f[0] = base /\ \A n \in 1 .. C : f[n] = F[n][f[n - 1]]
    BY <2>2
  <2>4. \A n \in 1 .. C : f[n] = Further(f[n - 1], R)
    <3> SUFFICES ASSUME NEW n \in 1 .. C PROVE f[n] = Further(f[n - 1], R)
      OBVIOUS
    <3>1. n - 1 \in 0 .. C
      BY <1>1
    <3>2. f[n - 1] \in U /\ f[n] = F[n][f[n - 1]]
      BY <2>3, <3>1
    <3>3. F[n][f[n - 1]] = Further(f[n - 1], R)
      BY <3>2
    <3> QED BY <3>2, <3>3
  <2> QED BY <2>3, <2>4
<1>4. PICK f \in [0 .. C -> U] : f[0] = {start} /\ \A n \in 1 .. C : f[n] = Further(f[n - 1], R)
  BY <1>3
<1>5. Def(f)
  <2>1. \A n \in 0 .. C : n # 0 => n \in 1 .. C
    BY <1>1
  <2>2. \A n \in 0 .. C : f[n] = One(f, n)
    BY <1>4, <2>1
  <2> QED BY <1>4, <2>2
<1>6. Def(reach)
  BY <1>5
<1>7. Reach(start, R) = reach[C]
  BY DEF Reach, Further
<1> HIDE DEF reach
<1> DEFINE P == {n \in 0 .. C : reach[n] = f[n]}
<1>8. P = 0 .. C
  <2>1. 0 \in P
    BY <1>1, <1>4, <1>6
  <2>2. \A n \in 1 .. C : n - 1 \in P => n \in P
    <3> SUFFICES ASSUME NEW n \in 1 .. C, n - 1 \in P PROVE n \in P
      OBVIOUS
    <3>1. n \in 0 .. C /\ n # 0
      BY <1>1
    <3>2. reach[n] = Further(reach[n - 1], R)
      BY <1>6, <3>1
    <3> QED BY <1>4, <3>1, <3>2
  <2> HIDE DEF C
  <2>3. P \subseteq 0 .. C
    OBVIOUS
  <2> HIDE DEF P
  <2> QED BY <1>1, <2>1, <2>2, <2>3, UpTo
<1>9. reach[C] = f[C]
  BY <1>1, <1>8
<1> QED BY <1>4, <1>7, <1>9

\* What is reached holds the start and lies in each set that holds it and that
\* the relation does not leave.
LEMMA ReachLeast ==
  ASSUME NEW start \in Unit, NEW R, R \subseteq Unit \X Unit
  PROVE  /\ start \in Reach(start, R) /\ Reach(start, R) \subseteq Unit
         /\ \A T : start \in T /\ Closed(T, R) => Reach(start, R) \subseteq T
<1> DEFINE C == Cardinality(Unit)
<1>1. C \in Nat
  BY CasesAssumption, FS_CardinalityType
<1>2. PICK reach \in [0 .. C -> SUBSET Unit] :
           /\ reach[0] = {start}
           /\ \A n \in 1 .. C : reach[n] = Further(reach[n - 1], R)
           /\ Reach(start, R) = reach[C]
  BY ReachSteps
<1> HIDE DEF C
<1>3. start \in reach[C]
  <2> DEFINE P == {n \in 0 .. C : start \in reach[n]}
  <2>1. 0 \in P /\ P \subseteq 0 .. C
    BY <1>1, <1>2
  <2>2. \A n \in 1 .. C : n - 1 \in P => n \in P
    BY <1>1, <1>2 DEF Further
  <2>3. P = 0 .. C
    <3> HIDE DEF P
    <3> QED BY <1>1, <2>1, <2>2, UpTo
  <2> QED BY <1>1, <2>3
<1>4. ASSUME NEW T, start \in T, Closed(T, R)
      PROVE  reach[C] \subseteq T
  <2> DEFINE P == {n \in 0 .. C : reach[n] \subseteq T}
  <2>1. 0 \in P /\ P \subseteq 0 .. C
    BY <1>1, <1>2, <1>4
  <2>2. \A n \in 1 .. C : n - 1 \in P => n \in P
    <3> SUFFICES ASSUME NEW n \in 1 .. C, n - 1 \in P PROVE n \in P
      OBVIOUS
    <3>1. n \in 0 .. C /\ reach[n - 1] \subseteq T /\ reach[n] = Further(reach[n - 1], R)
      BY <1>1, <1>2
    <3>2. reach[n] \subseteq T
      BY <1>4, <3>1 DEF Further, Closed
    <3> QED BY <3>1, <3>2
  <2>3. P = 0 .. C
    <3> HIDE DEF P
    <3> QED BY <1>1, <2>1, <2>2, UpTo
  <2> QED BY <1>1, <2>3
<1>5. reach[C] \subseteq Unit
  BY <1>1, <1>2
<1> QED BY <1>2, <1>3, <1>4, <1>5

\* As many steps as there are units are enough: each step but the last adds a unit.
LEMMA ReachClosed ==
  ASSUME NEW start \in Unit, NEW R, R \subseteq Unit \X Unit
  PROVE  Closed(Reach(start, R), R)
<1> DEFINE C == Cardinality(Unit)
<1>1. C \in Nat /\ IsFiniteSet(Unit)
  BY CasesAssumption, FS_CardinalityType
<1>2. PICK reach \in [0 .. C -> SUBSET Unit] :
           /\ reach[0] = {start}
           /\ \A n \in 1 .. C : reach[n] = Further(reach[n - 1], R)
           /\ Reach(start, R) = reach[C]
  BY ReachSteps
<1>3. \A S \in SUBSET Unit : IsFiniteSet(S) /\ Cardinality(S) \in Nat /\ Cardinality(S) <= C
  BY <1>1, FS_Subset, FS_CardinalityType
<1> HIDE DEF C
<1> DEFINE P == {n \in 0 .. C : Closed(reach[n], R) \/ n + 1 <= Cardinality(reach[n])}
<1>4. P = 0 .. C
  <2>1. 0 \in P
    <3>1. Cardinality({start}) = 1
      BY FS_Singleton
    <3>2. 0 \in 0 .. C /\ reach[0] = {start} /\ 0 + 1 <= 1
      BY <1>1, <1>2
    <3>3. Cardinality(reach[0]) = 1
      BY <3>1, <3>2
    <3> QED BY <3>2, <3>3
  <2>2. \A n \in 1 .. C : n - 1 \in P => n \in P
    <3> SUFFICES ASSUME NEW n \in 1 .. C, n - 1 \in P PROVE n \in P
      OBVIOUS
    <3> DEFINE A == reach[n - 1]
               B == reach[n]
    <3>1. /\ n \in 0 .. C /\ n - 1 \in 0 .. C /\ A \in SUBSET Unit /\ B \in SUBSET Unit
          /\ B = Further(A, R)
      BY <1>1, <1>2
    <3>2. Closed(A, R) \/ (n - 1) + 1 <= Cardinality(A)
      OBVIOUS
    <3> HIDE DEF A, B
    <3>3. A \subseteq B
      BY <3>1 DEF Further
    <3>4. CASE Closed(A, R)
      <4>1. B = A
        BY <3>1, <3>4 DEF Further, Closed
      <4> QED BY <3>1, <3>4, <4>1 DEF B
    <3>5. CASE ~ Closed(A, R) /\ n <= Cardinality(A)
      <4>1. B # A
        BY <3>1, <3>5 DEF Further, Closed
      <4>2. IsFiniteSet(B) /\ Cardinality(A) \in Nat /\ Cardinality(B) \in Nat
        BY <1>3, <3>1
      <4>3. Cardinality(A) <= Cardinality(B) /\ Cardinality(A) # Cardinality(B)
        BY <3>3, <4>1, <4>2, FS_Subset
      <4>4. n + 1 <= Cardinality(B)
        BY <3>5, <4>2, <4>3
      <4> QED BY <3>1, <4>4 DEF B
    <3>6. (n - 1) + 1 = n
      OBVIOUS
    <3> QED BY <3>2, <3>4, <3>5, <3>6
  <2>3. P \subseteq 0 .. C
    OBVIOUS
  <2> HIDE DEF P
  <2> QED BY <1>1, <2>1, <2>2, <2>3, UpTo
<1>5. Closed(reach[C], R) \/ C + 1 <= Cardinality(reach[C])
  BY <1>1, <1>4
<1>6. reach[C] \in SUBSET Unit
  BY <1>1, <1>2
<1>7. Cardinality(reach[C]) \in Nat /\ Cardinality(reach[C]) <= C
  BY <1>3, <1>6
<1> QED BY <1>1, <1>2, <1>5, <1>7

-----------------------------------------------------------------------------
(* The tables of the code                                                  *)

LEMMA MergeType ==
  ASSUME NEW k \in JobType, NEW l \in JobType
  PROVE  merge_kinds(k, l) \in JobType
BY DEF merge_kinds, JobType

\* Restart subsumes whatever it is merged with.
LEMMA MergeRestart ==
  ASSUME NEW k \in JobType
  PROVE  merge_kinds("Restart", k) = "Restart"
BY DEF merge_kinds, JobType

LEMMA CollapsedType ==
  ASSUME NEW u, NEW k \in JobType
  PROVE  collapsed(u, k) \in JobType
BY DEF collapsed, JobType

LEMMA CaseType ==
  ASSUME TypeOK
  PROVE  /\ case \in Case
         /\ case.root \in Unit /\ case.kind \in JobType /\ case.loaded \subseteq Unit
         /\ graph.forward \in [Unit -> Seq(DepEdge \X Unit)]
         /\ graph.reverse \in [Unit -> Seq(DepEdge \X Unit)]
         /\ graph.nodes \in Seq(Unit)
BY DEF TypeOK, Case, Graph

LEMMA CallType ==
  ASSUME NEW u \in Unit, NEW k \in JobType
  PROVE  /\ call(u, k, TRUE) \in Call /\ call(u, k, FALSE) \in Call
         /\ \A S, e : call(u, k, e \in S) \in Call
BY DEF call, Call

LEMMA CallsToType ==
  ASSUME NEW list \in Seq(DepEdge \X Unit), NEW K, NEW k \in JobType
  PROVE  calls_to(list, K, k) \in Seq(Call)
<1>1. Len(list) \in Nat /\ DOMAIN list = 1 .. Len(list)
      /\ \A i \in 1 .. Len(list) : list[i][2] \in Unit
  BY LenProperties, ElementOfSeq
<1>2. \A i \in 1 .. Len(list) : call(list[i][2], k, TRUE) \in Call
  BY <1>1, CallType
<1>3. NoCall \in Call
  BY DEF Call
<1>4. calls_to(list, K, k) \in [1 .. Len(list) -> Call]
  BY <1>1, <1>2, <1>3 DEF calls_to
<1> QED
  BY <1>1, <1>4

LEMMA StartType ==
  ASSUME TypeOK, NEW u \in Unit
  PROVE  expand_start(u) \in Seq(Call)
<1> DEFINE fwd == graph.forward[u]
<1>1. fwd \in Seq(DepEdge \X Unit)
  BY CaseType
<1>2. Len(fwd) \in Nat /\ DOMAIN fwd = 1 .. Len(fwd)
      /\ \A i \in 1 .. Len(fwd) : fwd[i][2] \in Unit
  BY <1>1, LenProperties, ElementOfSeq
<1>3. \A e \in DOMAIN Pulled : Pulled[e] \in JobType
  BY DEF Pulled, JobType
<1>4. \A i \in 1 .. Len(fwd) : fwd[i][1] \in DOMAIN Pulled =>
         call(fwd[i][2], Pulled[fwd[i][1]], fwd[i][1] \in Soft) \in Call
  <2> SUFFICES ASSUME NEW i \in 1 .. Len(fwd), fwd[i][1] \in DOMAIN Pulled
               PROVE  call(fwd[i][2], Pulled[fwd[i][1]], fwd[i][1] \in Soft) \in Call
    OBVIOUS
  <2>1. fwd[i][2] \in Unit /\ Pulled[fwd[i][1]] \in JobType
    BY <1>2, <1>3
  <2> QED
    BY <2>1, CallType
<1>5. NoCall \in Call
  BY DEF Call
<1>6. expand_start(u) \in [1 .. Len(fwd) -> Call]
  BY <1>2, <1>4, <1>5 DEF expand_start
<1> QED
  BY <1>2, <1>6

LEMMA ExpandType ==
  ASSUME TypeOK, NEW u \in Unit, NEW k \in JobType
  PROVE  expand(u, k) \in Seq(Call)
<1> DEFINE fwd == graph.forward[u]
<1> DEFINE rev == graph.reverse[u]
<1>1. fwd \in Seq(DepEdge \X Unit) /\ rev \in Seq(DepEdge \X Unit)
  BY CaseType
<1>4. expand_start(u) \in Seq(Call)
  BY StartType
<1>5. expand_stop(u) \in Seq(Call)
  <2>1. "Stop" \in JobType
    BY DEF JobType
  <2>2. calls_to(rev, {"BindsTo", "PartOf"}, "Stop") \in Seq(Call)
        /\ calls_to(fwd, {"PropagatesStopTo"}, "Stop") \in Seq(Call)
    BY <1>1, <2>1, CallsToType
  <2> QED
    BY <2>2, ConcatProperties DEF expand_stop
<1>6. expand_stop_propagation(u) \in Seq(Call)
  <2>1. "TryRestart" \in JobType
    BY DEF JobType
  <2> QED
    BY <1>1, <2>1, CallsToType DEF expand_stop_propagation
<1>7. expand_reload(u) \in Seq(Call)
  <2>1. "Reload" \in JobType
    BY DEF JobType
  <2> QED
    BY <1>1, <2>1, CallsToType DEF expand_reload
<1>8. expand_start(u) \o expand_stop_propagation(u) \in Seq(Call)
  BY <1>4, <1>6, ConcatProperties
<1>9. <<>> \in Seq(Call)
  OBVIOUS
<1> QED
  BY <1>4, <1>5, <1>7, <1>8, <1>9 DEF expand, JobType

-----------------------------------------------------------------------------
(* The stack                                                               *)

LEMMA Single ==
  ASSUME NEW S, NEW x \in S
  PROVE  <<x>> \in Seq(S) /\ Len(<<x>>) = 1
OBVIOUS

LEMMA Shorter ==
  ASSUME NEW S, NEW s \in Seq(S), Len(s) \in Nat \ {0}
  PROVE  /\ SubSeq(s, 1, Len(s) - 1) \in Seq(S)
         /\ Len(SubSeq(s, 1, Len(s) - 1)) = Len(s) - 1
<1> DEFINE n == Len(s) - 1
<1>1. n \in Nat /\ n <= Len(s) /\ n \in Int /\ 1 \in Int
  OBVIOUS
<1>2. \A i \in 1 .. n : s[i] \in S
  BY <1>1, ElementOfSeq
<1> HIDE DEF n
<1>3. SubSeq(s, 1, n) \in Seq(S) /\ Len(SubSeq(s, 1, n)) = (IF 1 <= n THEN n - 1 + 1 ELSE 0)
  BY <1>1, <1>2, SubSeqProperties
<1>4. Len(SubSeq(s, 1, n)) = n
  BY <1>1, <1>3
<1> QED
  BY <1>3, <1>4 DEF n

LEMMA StackParts ==
  ASSUME TypeOK, stack # <<>>
  PROVE  /\ Len(stack) \in Nat \ {0} /\ Top \in Frame
         /\ Below \in Seq(Frame) /\ Len(Below) = Len(stack) - 1
         /\ Top.calls \in Seq(Call)
<1>1. stack \in Seq(Frame)
  BY DEF TypeOK, Frame
<1>2. Len(stack) \in Nat \ {0}
  BY <1>1, LenProperties, EmptySeq
<1>3. Top \in Frame
  BY <1>1, <1>2, ElementOfSeq DEF Top
<1>4. Below \in Seq(Frame) /\ Len(Below) = Len(stack) - 1
  BY <1>1, <1>2, Shorter DEF Below
<1>5. Top.calls \in Seq(Call)
  BY <1>3 DEF Frame
<1> QED
  BY <1>2, <1>3, <1>4, <1>5

LEMMA CallTaken ==
  ASSUME TypeOK, stack # <<>>, Top.calls # <<>>
  PROVE  /\ NextCall \in Call
         /\ Taken \in Seq(Frame) /\ Len(Taken) = Len(stack)
<1>1. /\ Len(stack) \in Nat \ {0} /\ Top \in Frame
      /\ Below \in Seq(Frame) /\ Len(Below) = Len(stack) - 1
      /\ Top.calls \in Seq(Call)
  BY StackParts
<1>2. NextCall \in Call /\ Tail(Top.calls) \in Seq(Call)
  BY <1>1, HeadTailProperties DEF NextCall
<1>3. [Top EXCEPT !.calls = Tail(@)] \in Frame
  BY <1>1, <1>2 DEF Frame
<1>4. Taken \in Seq(Frame) /\ Len(Taken) = Len(Below) + 1
  BY <1>1, <1>3, AppendProperties DEF Taken
<1> QED
  BY <1>1, <1>2, <1>4

-----------------------------------------------------------------------------
(* The steps                                                               *)

LEMMA JobsFinite ==
  ASSUME TypeOK
  PROVE  /\ DOMAIN jobs \subseteq Unit /\ IsFiniteSet(DOMAIN jobs)
         /\ Cardinality(DOMAIN jobs) \in Nat
<1>1. DOMAIN jobs \subseteq Unit
  BY CaseType DEF TypeOK
<1> QED
  BY <1>1, CasesAssumption, FS_Subset, FS_CardinalityType

LEMMA EmptyOrder == /\ <<>> \in Orders(DOMAIN <<>>) /\ IsInjective(<<>>)
                    /\ Range(<<>>) = DOMAIN <<>> /\ Cardinality(DOMAIN <<>>) = 0
<1>1. DOMAIN <<>> = {}
  OBVIOUS
<1>2. Cardinality({}) = 0
  BY FS_EmptySet
<1> QED
  BY <1>1, <1>2 DEF Orders, Injection, IsInjective, Range

LEMMA InitInv == Init => Inv
<1> SUFFICES ASSUME Init PROVE Inv
  OBVIOUS
<1>1. case \in Case /\ graph \in Graph
  BY CasesAssumption, BuildGraph DEF Init, GraphOf
<1>2. /\ phase = "begin" /\ stack = <<>> /\ jobs = <<>> /\ names = <<>>
      /\ result = "none" /\ cancel = {} /\ order = <<>>
  BY DEF Init
<1>3. DOMAIN jobs = {} /\ jobs \in [DOMAIN jobs -> JobType]
  BY <1>2
<1>4. Len(stack) = 0
  BY <1>2
<1>5. TypeOK
  BY <1>1, <1>2, <1>3 DEF TypeOK
<1> QED
  BY <1>2, <1>4, <1>5, EmptyOrder DEF Inv, Listed, RecursionBounded

LEMMA BeginInv ==
  ASSUME Inv, begin
  PROVE  Inv'
<1>1. TypeOK /\ phase = "begin" /\ jobs = <<>> /\ names = <<>> /\ order = <<>>
      /\ stack = <<>> /\ result = "none"
  BY DEF Inv, TypeOK, begin
<1>2. case' = case /\ graph' = graph /\ jobs' = jobs /\ names' = names
      /\ cancel' = cancel /\ order' = order
  BY DEF begin
<1>3. Len(stack) = 0 /\ DOMAIN jobs = {}
  BY <1>1
<1>4. CASE refusal # "none" /\ answer(refusal) /\ UNCHANGED stack
  <2>1. refusal \in {"ok", "NotLoaded", "IsolateNotAllowed"}
    BY <1>4 DEF refusal
  <2>2. result' = refusal /\ phase' = "done" /\ stack' = <<>>
    BY <1>1, <1>4 DEF answer
  <2>3. TypeOK'
    BY <1>1, <1>2, <2>1, <2>2 DEF TypeOK
  <2> QED
    BY <1>1, <1>2, <1>3, <2>2, <2>3, EmptyOrder DEF Inv, Listed, RecursionBounded
<1>5. CASE /\ stack' = <<frame(<<call(case.root, case.kind, FALSE)>>, FALSE)>>
           /\ phase' = "expand" /\ UNCHANGED result
  <2>1. call(case.root, case.kind, FALSE) \in Call
    BY <1>1, CaseType, CallType
  <2>2. <<call(case.root, case.kind, FALSE)>> \in Seq(Call)
    BY <2>1, Single
  <2>3. frame(<<call(case.root, case.kind, FALSE)>>, FALSE) \in Frame
    BY <2>2 DEF frame, Frame
  <2>4. stack' \in Seq(Frame) /\ Len(stack') = 1
    BY <1>5, <2>3, Single
  <2>5. TypeOK'
    BY <1>1, <1>2, <1>5, <2>4 DEF TypeOK, Frame
  <2> QED
    BY <1>1, <1>2, <1>5, <2>4, <2>5, EmptyOrder DEF Inv, Listed, RecursionBounded
<1> QED
  BY <1>4, <1>5 DEF begin

\* Steps that only shorten the stack, or take a call from its top.
LEMMA PopInv ==
  ASSUME Inv, UNCHANGED <<case, graph, phase, jobs, names, result, cancel, order>>,
         stack # <<>>, stack' \in Seq(Frame), Len(stack') <= Len(stack)
  PROVE  Inv'
<1>1. TypeOK'
  BY DEF Inv, TypeOK, Frame
<1>2. Len(stack) \in Nat /\ Len(stack') \in Nat /\ Cardinality(DOMAIN jobs) \in Nat
  BY JobsFinite, LenProperties DEF Inv, TypeOK
<1>3. RecursionBounded'
  BY <1>2 DEF Inv, RecursionBounded
<1>4. Listed'
  BY DEF Inv, Listed
<1> QED
  BY <1>1, <1>3, <1>4 DEF Inv

LEMMA PassInv ==
  ASSUME Inv, pass_edge
  PROVE  Inv'
<1>1. stack # <<>> /\ Top.calls # <<>> /\ stack' = Taken
      /\ UNCHANGED <<case, graph, phase, jobs, names, result, cancel, order>>
  BY DEF pass_edge
<1>2. Taken \in Seq(Frame) /\ Len(Taken) = Len(stack) /\ Len(stack) \in Nat
  BY <1>1, CallTaken, StackParts DEF Inv
<1> QED
  BY <1>1, <1>2, PopInv

LEMMA ReturnInv ==
  ASSUME Inv, return
  PROVE  Inv'
<1>1. stack # <<>> /\ stack' = Below
      /\ UNCHANGED <<case, graph, phase, jobs, names, result, cancel, order>>
  BY DEF return
<1>2. Below \in Seq(Frame) /\ Len(Below) = Len(stack) - 1 /\ Len(stack) \in Nat
  BY <1>1, StackParts DEF Inv
<1> QED
  BY <1>1, <1>2, PopInv

LEMMA FailInv ==
  ASSUME Inv, call_fails
  PROVE  Inv'
<1>1. stack # <<>> /\ UNCHANGED <<case, graph, jobs, names, cancel, order>>
  BY DEF call_fails, Calling
<1>2. stack \in Seq(Frame) /\ Len(stack) \in Nat /\ DOMAIN stack = 1 .. Len(stack)
  BY LenProperties DEF Inv, TypeOK, Frame
<1>3. CASE answer("NotLoaded") /\ stack' = <<>>
  <2>1. result' = "NotLoaded" /\ phase' = "done" /\ Len(stack') = 0
    BY <1>3 DEF answer
  <2>2. TypeOK'
    BY <1>1, <1>3, <2>1 DEF Inv, TypeOK
  <2>3. RecursionBounded'
    BY <1>1, <2>1, JobsFinite DEF Inv, RecursionBounded
  <2> QED
    BY <1>1, <1>3, <2>1, <2>2, <2>3 DEF Inv, Listed
<1>4. CASE \E i \in DOMAIN stack : stack' = SubSeq(stack, 1, i - 1) /\ UNCHANGED <<phase, result>>
  <2>1. PICK i \in 1 .. Len(stack) : stack' = SubSeq(stack, 1, i - 1) /\ UNCHANGED <<phase, result>>
    BY <1>2, <1>4
  <2>2. \A k \in 1 .. i - 1 : stack[k] \in Frame
    BY <1>2, ElementOfSeq
  <2>3. stack' \in Seq(Frame) /\ Len(stack') <= Len(stack)
    BY <1>2, <2>1, <2>2, SubSeqProperties
  <2> QED
    BY <1>1, <2>1, <2>3, PopInv
<1> QED
  BY <1>3, <1>4 DEF call_fails

LEMMA MergeInv ==
  ASSUME Inv, merge_job
  PROVE  Inv'
<1> DEFINE u == NextCall.unit
<1> DEFINE k == collapsed(u, NextCall.kind)
<1>1. stack # <<>> /\ Top.calls # <<>> /\ NextCall # NoCall /\ u \in DOMAIN jobs
      /\ jobs' = [jobs EXCEPT ![u] = merge_kinds(@, k)] /\ stack' = Taken
      /\ UNCHANGED <<case, graph, phase, names, result, cancel, order>>
  BY DEF merge_job, Calling
<1>2. NextCall \in Call /\ Taken \in Seq(Frame) /\ Len(Taken) = Len(stack) /\ Len(stack) \in Nat
  BY <1>1, CallTaken, StackParts DEF Inv
<1>3. NextCall.kind \in JobType
  BY <1>1, <1>2 DEF Call
<1>4. k \in JobType
  BY <1>3, CollapsedType
<1>5. jobs \in [DOMAIN jobs -> JobType] /\ DOMAIN jobs \subseteq case.loaded
  BY DEF Inv, TypeOK
<1>6. merge_kinds(jobs[u], k) \in JobType
  BY <1>1, <1>4, <1>5, MergeType
<1>7. DOMAIN jobs' = DOMAIN jobs /\ jobs' \in [DOMAIN jobs' -> JobType]
  BY <1>1, <1>5, <1>6
<1>8. TypeOK'
  BY <1>1, <1>2, <1>5, <1>7 DEF Inv, TypeOK, Frame
<1>9. RecursionBounded'
  BY <1>1, <1>2, <1>7 DEF Inv, RecursionBounded
<1>10. Listed'
  BY <1>1, <1>7 DEF Inv, Listed
<1>11. phase # "begin"
  BY <1>1 DEF Inv
<1> QED
  BY <1>1, <1>8, <1>9, <1>10, <1>11 DEF Inv

LEMMA AddInv ==
  ASSUME Inv, add_job
  PROVE  Inv'
<1> DEFINE u == NextCall.unit
<1> DEFINE kind == NextCall.kind
<1>1. stack # <<>> /\ Top.calls # <<>> /\ NextCall # NoCall
      /\ u \in case.loaded /\ u \notin DOMAIN jobs
      /\ UNCHANGED <<case, graph, phase, result, cancel, order>>
  BY DEF add_job, Calling
<1>2. jobs' = [v \in DOMAIN jobs \cup {u} |-> IF v = u THEN collapsed(u, kind) ELSE jobs[v]]
      /\ names' = Append(names, u)
      /\ stack' = Append(Taken, frame(expand(u, kind), NextCall.soft))
  BY DEF add_job
<1>3. NextCall \in Call /\ Taken \in Seq(Frame) /\ Len(Taken) = Len(stack) /\ Len(stack) \in Nat
  BY <1>1, CallTaken, StackParts DEF Inv
<1>4. kind \in JobType /\ u \in Unit /\ NextCall.soft \in BOOLEAN
  BY <1>1, <1>3 DEF Call
<1>5. collapsed(u, kind) \in JobType
  BY <1>4, CollapsedType
<1>6. expand(u, kind) \in Seq(Call)
  BY <1>4, ExpandType DEF Inv
<1>7. frame(expand(u, kind), NextCall.soft) \in Frame
  BY <1>4, <1>6 DEF frame, Frame
<1>8. stack' \in Seq(Frame) /\ Len(stack') = Len(stack) + 1
  BY <1>2, <1>3, <1>7, AppendProperties
<1>9. jobs \in [DOMAIN jobs -> JobType] /\ DOMAIN jobs \subseteq case.loaded /\ names \in Seq(Unit)
  BY DEF Inv, TypeOK
<1>10. DOMAIN jobs' = DOMAIN jobs \cup {u} /\ jobs' \in [DOMAIN jobs' -> JobType]
  BY <1>2, <1>5, <1>9
<1>11. IsInjective(names) /\ Range(names) = DOMAIN jobs
  BY DEF Inv, Listed
<1>12. names' \in Seq(Unit) /\ IsInjective(names') /\ Range(names') = DOMAIN jobs'
  BY <1>1, <1>2, <1>4, <1>9, <1>10, <1>11, AppendNew
<1>13. TypeOK'
  BY <1>1, <1>8, <1>9, <1>10, <1>12 DEF Inv, TypeOK, Frame
<1>14. Cardinality(DOMAIN jobs') = Cardinality(DOMAIN jobs) + 1
  BY <1>1, <1>10, JobsFinite, FS_AddElement DEF Inv
<1>15. RecursionBounded'
  BY <1>3, <1>8, <1>14, JobsFinite DEF Inv, RecursionBounded
<1>16. phase \in {"expand", "isolate"} /\ result = "none"
  BY <1>1 DEF Inv, TypeOK
<1> QED
  BY <1>1, <1>12, <1>13, <1>15, <1>16 DEF Inv, Listed

LEMMA IsolateInv ==
  ASSUME Inv, add_isolate_stops
  PROVE  Inv'
<1> DEFINE nodes == graph.nodes
<1> DEFINE calls == [i \in DOMAIN nodes |->
                       IF to_stop(nodes[i]) THEN call(nodes[i], "Stop", TRUE) ELSE NoCall]
<1>1. stack' = <<frame(calls, FALSE)>> /\ phase' = "isolate" /\ phase = "expand"
      /\ UNCHANGED <<case, graph, jobs, names, result, cancel, order>>
  BY DEF add_isolate_stops
<1>2. Len(nodes) \in Nat /\ DOMAIN nodes = 1 .. Len(nodes)
      /\ \A i \in 1 .. Len(nodes) : nodes[i] \in Unit
  BY CaseType, LenProperties, ElementOfSeq DEF Inv
<1>3. "Stop" \in JobType /\ NoCall \in Call
  BY DEF JobType, Call
<1>4. \A i \in 1 .. Len(nodes) : call(nodes[i], "Stop", TRUE) \in Call
  BY <1>2, <1>3, CallType
<1>5. calls \in [1 .. Len(nodes) -> Call]
  BY <1>2, <1>3, <1>4
<1>6. calls \in Seq(Call)
  <2> HIDE DEF calls
  <2> QED BY <1>2, <1>5, FunctionIsSeq
<1>7. frame(calls, FALSE) \in Frame
  <2> HIDE DEF calls
  <2> QED BY <1>6 DEF frame, Frame
<1>8. stack' \in Seq(Frame) /\ Len(stack') = 1
  <2> HIDE DEF calls
  <2> QED BY <1>1, <1>7, Single
<1>9. TypeOK'
  BY <1>1, <1>8 DEF Inv, TypeOK, Frame
<1>10. RecursionBounded'
  BY <1>1, <1>8, JobsFinite DEF Inv, RecursionBounded
<1> QED
  BY <1>1, <1>9, <1>10 DEF Inv, Listed

LEMMA ApplyInv ==
  ASSUME Inv, apply_mode
  PROVE  Inv'
<1>1. stack = <<>> /\ UNCHANGED <<case, graph, stack, jobs, names, order>>
      /\ phase \in {"expand", "isolate"} /\ result = "none"
  BY DEF apply_mode, Inv, TypeOK
<1>2. /\ cancel' \subseteq case.existing
      /\ \/ result' = "WouldReplaceFail" /\ phase' = "done"
         \/ result' = result /\ phase' = "sort"
  BY DEF apply_mode, answer, replaced, Inv, TypeOK
<1>3. TypeOK'
  BY <1>1, <1>2 DEF Inv, TypeOK
<1> QED
  BY <1>1, <1>2, <1>3 DEF Inv, Listed, RecursionBounded

\* The units in the order of their first job are an order of the jobs.
LEMMA NamesOrder ==
  ASSUME Inv
  PROVE  names \in Orders(DOMAIN jobs)
<1>1. names \in Seq(Unit) /\ IsInjective(names) /\ Range(names) = DOMAIN jobs
  BY DEF Inv, TypeOK, Listed
<1>2. Len(names) \in Nat /\ DOMAIN names = 1 .. Len(names)
  BY <1>1, LenProperties
<1>3. names \in [1 .. Len(names) -> DOMAIN jobs]
  BY <1>1, <1>2 DEF Range
<1>4. names \in Seq(DOMAIN jobs)
  BY <1>2, <1>3
<1> QED
  BY <1>1, <1>4, InjectiveLength, InjectiveIsOrder

LEMMA SortInv ==
  ASSUME Inv, sort_jobs
  PROVE  Inv'
<1>1. phase = "sort" /\ stack = <<>> /\ phase' = "done"
      /\ UNCHANGED <<case, graph, stack, jobs, names, cancel>>
  BY DEF sort_jobs, answer, Inv
<1>2. \/ result' = "Cycle" /\ order' = order
      \/ result' = "ok" /\ order' \in Orders(DOMAIN jobs)
  BY NamesOrder DEF sort_jobs, answer, StartOrders
<1>3. DOMAIN jobs \subseteq Unit /\ IsFiniteSet(DOMAIN jobs)
  BY JobsFinite DEF Inv
<1>4. order' \in Seq(Unit)
  <2>1. CASE order' = order
    BY <2>1 DEF Inv, TypeOK
  <2>2. CASE order' \in Orders(DOMAIN jobs)
    <3>1. order' \in Seq(DOMAIN jobs)
      BY <2>2, <1>3, OrdersElements
    <3> QED
      BY <3>1, <1>3
  <2> QED
    BY <1>2, <2>1, <2>2
<1>5. TypeOK'
  BY <1>1, <1>2, <1>4 DEF Inv, TypeOK
<1> QED
  BY <1>1, <1>2, <1>5 DEF Inv, Listed, RecursionBounded

LEMMA StepInv == Inv /\ [Next]_vars => Inv'
<1> SUFFICES ASSUME Inv, [Next]_vars PROVE Inv'
  OBVIOUS
<1>1. CASE UNCHANGED vars
  BY <1>1 DEF Inv, TypeOK, Listed, RecursionBounded, vars
<1> QED
  BY <1>1, BeginInv, FailInv, MergeInv, AddInv, PassInv, ReturnInv, IsolateInv, ApplyInv, SortInv
     DEF Next

-----------------------------------------------------------------------------
(* The calls on the stack                                                  *)

\* The calls that are still to be made, and among them those whose error would
\* reach the request.
Waiting(s) == {x \in Call \ {NoCall} : \E i \in DOMAIN s : x \in Range(s[i].calls)}
Exposed(s, i) == \A j \in 1 .. i : ~s[j].soft
HardCalls(s) ==
  {x \in Call \ {NoCall} : \E i \in DOMAIN s : Exposed(s, i) /\ x \in Range(s[i].calls)}

LEMMA EmptyStack == Waiting(<<>>) = {} /\ HardCalls(<<>>) = {}
<1>1. DOMAIN <<>> = {}
  OBVIOUS
<1> QED BY <1>1 DEF Waiting, HardCalls

LEMMA PushedCalls ==
  ASSUME NEW s \in Seq(Frame), NEW f \in Frame
  PROVE  /\ \A x \in Call \ {NoCall} : x \in Waiting(Append(s, f)) <=> x \in Waiting(s) \/ x \in Range(f.calls)
         /\ \A x \in HardCalls(Append(s, f)) \ HardCalls(s) :
              x \in Range(f.calls) /\ ~f.soft /\ Exposed(s, Len(s))
<1> DEFINE t == Append(s, f)
           n == Len(s)
<1>1. /\ n \in Nat /\ DOMAIN s = 1 .. n /\ DOMAIN t = 1 .. n + 1
      /\ t[n + 1] = f /\ \A i \in 1 .. n : t[i] = s[i]
  BY AppendProperties, LenProperties
<1> HIDE DEF t, n
<1>2. /\ n + 1 \in 1 .. n + 1 /\ \A i \in 1 .. n : i \in 1 .. n + 1
      /\ \A i \in 1 .. n + 1 : i \in 1 .. n \/ i = n + 1
      /\ \A i \in 1 .. n : \A j \in 1 .. i : j \in 1 .. n
  BY <1>1
<1>3. \A x \in Call \ {NoCall} : x \in Waiting(t) <=> x \in Waiting(s) \/ x \in Range(f.calls)
  BY <1>1, <1>2 DEF Waiting
<1>4. \A i \in 1 .. n : Exposed(t, i) <=> Exposed(s, i)
  BY <1>1, <1>2 DEF Exposed
<1>5. Exposed(t, n + 1) => ~f.soft /\ Exposed(s, n)
  BY <1>1, <1>2 DEF Exposed
<1>6. \A x \in HardCalls(t) \ HardCalls(s) : x \in Range(f.calls) /\ ~f.soft /\ Exposed(s, n)
  <2> SUFFICES ASSUME NEW x \in HardCalls(t), x \notin HardCalls(s)
               PROVE  x \in Range(f.calls) /\ ~f.soft /\ Exposed(s, n)
    OBVIOUS
  <2>1. PICK i \in 1 .. n + 1 : x \in Call \ {NoCall} /\ Exposed(t, i) /\ x \in Range(t[i].calls)
    BY <1>1 DEF HardCalls
  <2>2. i \notin 1 .. n
    BY <1>1, <1>4, <2>1 DEF HardCalls
  <2>3. i = n + 1
    BY <1>2, <2>2
  <2> QED BY <1>1, <1>5, <2>1, <2>3
<1> QED BY <1>3, <1>6 DEF t, n

\* A lower part of the stack.
LEMMA LowerCalls ==
  ASSUME NEW s \in Seq(Frame), NEW n \in 0 .. Len(s)
  PROVE  /\ Waiting(SubSeq(s, 1, n)) \subseteq Waiting(s)
         /\ HardCalls(SubSeq(s, 1, n)) \subseteq HardCalls(s)
<1> DEFINE t == SubSeq(s, 1, n)
<1>1. Len(s) \in Nat /\ DOMAIN s = 1 .. Len(s)
  BY LenProperties
<1>2. \A i \in 1 .. n : s[i] \in Frame
  BY <1>1, ElementOfSeq
<1>3. DOMAIN t = 1 .. n /\ \A i \in 1 .. n : t[i] = s[i] /\ i \in 1 .. Len(s)
  <2>1. n \in Int /\ 1 \in Int
    BY <1>1
  <2>2. t \in Seq(Frame) /\ Len(t) = (IF 1 <= n THEN n - 1 + 1 ELSE 0)
        /\ \A i \in 1 .. n - 1 + 1 : t[i] = s[1 + i - 1]
    BY <1>2, <2>1, SubSeqProperties
  <2>3. Len(t) = n /\ n - 1 + 1 = n /\ \A i \in 1 .. n : 1 + i - 1 = i /\ i \in 1 .. Len(s)
    BY <1>1, <2>2
  <2> HIDE DEF t
  <2> QED BY <2>2, <2>3, LenProperties
<1> HIDE DEF t
<1>4. \A i \in 1 .. n : \A j \in 1 .. i : j \in 1 .. n
  BY <1>1
<1>5. \A i \in 1 .. n : Exposed(t, i) <=> Exposed(s, i)
  BY <1>3, <1>4 DEF Exposed
<1> QED BY <1>1, <1>3, <1>5 DEF Waiting, HardCalls, t

LEMMA BelowFrames ==
  ASSUME TypeOK, stack # <<>>
  PROVE  /\ DOMAIN Below = 1 .. Len(stack) - 1
         /\ \A i \in 1 .. Len(stack) - 1 : Below[i] = stack[i]
         /\ \A i \in 1 .. Len(stack) : i = Len(stack) \/ i \in 1 .. Len(stack) - 1
<1> DEFINE n == Len(stack)
<1>1. stack \in Seq(Frame) /\ n \in Nat \ {0}
  BY StackParts DEF TypeOK, Frame
<1>2. n - 1 \in Int /\ 1 \in Int /\ n - 1 - 1 + 1 = n - 1
      /\ \A i \in 1 .. n - 1 : 1 + i - 1 = i /\ i \in 1 .. n
  <2> HIDE DEF n
  <2> QED BY <1>1
<1>3. \A i \in 1 .. n - 1 : stack[i] \in Frame
  BY <1>1, <1>2, ElementOfSeq
<1>4. \A i \in 1 .. n - 1 - 1 + 1 : Below[i] = stack[1 + i - 1]
  <2> DEFINE m == n - 1
  <2> HIDE DEF m
  <2>1. \A i \in 1 .. m - 1 + 1 : SubSeq(stack, 1, m)[i] = stack[1 + i - 1]
    BY <1>2, <1>3, SubSeqProperties DEF m
  <2> QED BY <2>1 DEF m, Below
<1>5. DOMAIN Below = 1 .. n - 1
  BY StackParts, LenProperties
<1>6. \A i \in 1 .. n : i = n \/ i \in 1 .. n - 1
  <2> HIDE DEF n
  <2> QED BY <1>1
<1> QED BY <1>2, <1>4, <1>5, <1>6

\* When a function returns, nothing that waits is lost.
LEMMA ReturnedCalls ==
  ASSUME TypeOK, stack # <<>>, Top.calls = <<>>
  PROVE  Waiting(Below) = Waiting(stack) /\ HardCalls(Below) \subseteq HardCalls(stack)
<1> DEFINE n == Len(stack)
<1>1. stack \in Seq(Frame) /\ n \in Nat \ {0} /\ DOMAIN stack = 1 .. n
  BY StackParts, LenProperties DEF TypeOK, Frame
<1>2. Waiting(Below) \subseteq Waiting(stack) /\ HardCalls(Below) \subseteq HardCalls(stack)
  <2>1. n - 1 \in 0 .. n
    BY <1>1
  <2> QED BY <1>1, <2>1, LowerCalls DEF Below
<1>3. Range(stack[n].calls) = {}
  BY DEF Top, Range
<1>4. /\ DOMAIN Below = 1 .. n - 1
      /\ \A i \in 1 .. n - 1 : Below[i] = stack[i]
  BY BelowFrames
<1>5. \A i \in 1 .. n : i = n \/ i \in 1 .. n - 1
  BY BelowFrames
<1>6. Waiting(stack) \subseteq Waiting(Below)
  BY <1>1, <1>3, <1>4, <1>5 DEF Waiting
<1> QED BY <1>2, <1>6

\* When a call is made, it no longer waits.
LEMMA TakenCalls ==
  ASSUME TypeOK, stack # <<>>, Top.calls # <<>>
  PROVE  /\ \A x \in Call \ {NoCall} : x \in Waiting(stack) <=> x \in Waiting(Taken) \/ x = NextCall
         /\ HardCalls(Taken) \subseteq HardCalls(stack)
         /\ NextCall # NoCall /\ Exposed(stack, Len(stack)) => NextCall \in HardCalls(stack)
         /\ Exposed(Taken, Len(Taken)) => Exposed(stack, Len(stack))
<1> DEFINE n == Len(stack)
           top == [Top EXCEPT !.calls = Tail(@)]
<1>1. stack \in Seq(Frame) /\ n \in Nat \ {0} /\ DOMAIN stack = 1 .. n /\ Top \in Frame
      /\ Below \in Seq(Frame) /\ Len(Below) = n - 1 /\ Top.calls \in Seq(Call) /\ Top = stack[n]
  BY StackParts, LenProperties DEF TypeOK, Frame, Top
<1>2. /\ NextCall \in Call /\ Tail(Top.calls) \in Seq(Call)
      /\ Range(Top.calls) = Range(Tail(Top.calls)) \cup {NextCall}
  BY <1>1, HeadTailProperties, RangeTail DEF NextCall
<1>3. top \in Frame /\ top.soft = Top.soft /\ top.calls = Tail(Top.calls)
  BY <1>1, <1>2 DEF Frame
<1> HIDE DEF top
<1>4. /\ DOMAIN Taken = 1 .. n /\ Taken[n] = top /\ Len(Taken) = n
      /\ \A i \in 1 .. n - 1 : Taken[i] = Below[i]
  <2>1. /\ DOMAIN Append(Below, top) = 1 .. (n - 1) + 1 /\ Append(Below, top)[(n - 1) + 1] = top
        /\ \A i \in 1 .. n - 1 : Append(Below, top)[i] = Below[i]
        /\ Len(Append(Below, top)) = (n - 1) + 1
    <3>1. Below \in Seq(Frame) /\ Len(Below) = n - 1 /\ n - 1 \in Nat /\ top \in Frame
      BY <1>1, <1>3
    <3> HIDE DEF n
    <3>2. Append(Below, top) \in Seq(Frame) /\ Len(Append(Below, top)) = (n - 1) + 1
          /\ \A i \in 1 .. n - 1 : Append(Below, top)[i] = Below[i]
      BY <3>1, AppendProperties
    <3>3. Append(Below, top)[(n - 1) + 1] = top
      BY <3>1, AppendProperties
    <3> QED BY <3>2, <3>3, LenProperties
  <2>2. (n - 1) + 1 = n
    BY <1>1
  <2> QED BY <2>1, <2>2 DEF Taken, top
<1>5. \A i \in 1 .. n - 1 : Below[i] = stack[i]
  BY BelowFrames
<1>6. /\ \A i \in 1 .. n : i = n \/ i \in 1 .. n - 1
      /\ n \in 1 .. n /\ \A i \in 1 .. n - 1 : i \in 1 .. n
      /\ \A i \in 1 .. n : \A j \in 1 .. i : j \in 1 .. n
  <2>1. n \in Nat \ {0} /\ \A i \in 1 .. n : i = n \/ i \in 1 .. n - 1
    BY <1>1, BelowFrames
  <2> HIDE DEF n
  <2> QED BY <2>1
<1>7. \A i \in 1 .. n : Taken[i].soft = stack[i].soft
  BY <1>1, <1>3, <1>4, <1>5, <1>6
<1>8. \A i \in 1 .. n : \A x : x \in Range(stack[i].calls) <=> x \in Range(Taken[i].calls) \/ (i = n /\ x = NextCall)
  <2> SUFFICES ASSUME NEW i \in 1 .. n, NEW x
               PROVE x \in Range(stack[i].calls) <=> x \in Range(Taken[i].calls) \/ (i = n /\ x = NextCall)
    OBVIOUS
  <2>1. CASE i = n
    BY <1>1, <1>2, <1>3, <1>4, <2>1
  <2>2. CASE i # n
    BY <1>4, <1>5, <1>6, <2>2
  <2> QED BY <2>1, <2>2
<1>9. \A i \in 1 .. n : Exposed(Taken, i) <=> Exposed(stack, i)
  BY <1>6, <1>7 DEF Exposed
<1>10. \A x \in Call \ {NoCall} : x \in Waiting(stack) <=> x \in Waiting(Taken) \/ x = NextCall
  BY <1>1, <1>2, <1>4, <1>6, <1>8 DEF Waiting
<1>11. HardCalls(Taken) \subseteq HardCalls(stack)
  BY <1>1, <1>4, <1>8, <1>9 DEF HardCalls
<1>12. NextCall # NoCall /\ Exposed(stack, n) => NextCall \in HardCalls(stack)
  BY <1>1, <1>2, <1>6, <1>8 DEF HardCalls
<1>13. Exposed(Taken, Len(Taken)) => Exposed(stack, n)
  BY <1>4, <1>6, <1>9
<1> QED BY <1>10, <1>11, <1>12, <1>13

-----------------------------------------------------------------------------
(* What a job calls                                                        *)

GraphKnown == GraphOf(graph, case.loaded, case.spared)

\* The edges of the graph, and the lists that hold them.
LEMMA EdgeLists ==
  ASSUME TypeOK, GraphKnown
  PROVE  /\ \A r \in edges(graph) :
              /\ r \in Unit \X DepEdge \X Unit
              /\ <<r[2], r[3]>> \in Range(graph.forward[r[1]])
              /\ <<r[2], r[1]>> \in Range(graph.reverse[r[3]])
         /\ \A u \in Unit : \A e \in Range(graph.forward[u]) :
              e \in DepEdge \X Unit /\ <<u, e[1], e[2]>> \in edges(graph)
         /\ \A u \in Unit : \A e \in Range(graph.reverse[u]) :
              e \in DepEdge \X Unit /\ <<e[2], e[1], u>> \in edges(graph)
<1>1. \A u \in Unit : /\ Range(graph.forward[u]) \subseteq DepEdge \X Unit
                      /\ Range(graph.reverse[u]) \subseteq DepEdge \X Unit
  <2> SUFFICES ASSUME NEW u \in Unit
               PROVE  /\ Range(graph.forward[u]) \subseteq DepEdge \X Unit
                      /\ Range(graph.reverse[u]) \subseteq DepEdge \X Unit
    OBVIOUS
  <2> DEFINE f == graph.forward[u]
             r == graph.reverse[u]
             S == DepEdge \X Unit
  <2>1. f \in Seq(S) /\ r \in Seq(S)
    BY CaseType
  <2> HIDE DEF f, r, S
  <2>2. /\ DOMAIN f = 1 .. Len(f) /\ \A i \in 1 .. Len(f) : f[i] \in S
        /\ DOMAIN r = 1 .. Len(r) /\ \A i \in 1 .. Len(r) : r[i] \in S
    BY <2>1, LenProperties, ElementOfSeq
  <2>3. Range(f) \subseteq S /\ Range(r) \subseteq S
    BY <2>2 DEF Range
  <2> QED BY <2>3 DEF f, r, S
<1>2. \A u, v \in Unit : \A k \in DepEdge :
        <<k, v>> \in Range(graph.forward[u]) <=> <<k, u>> \in Range(graph.reverse[v])
  BY DEF GraphKnown, GraphOf, Mirrored
<1>3. \A u \in Unit : \A e \in Range(graph.forward[u]) :
        e \in DepEdge \X Unit /\ <<u, e[1], e[2]>> \in edges(graph)
  BY <1>1 DEF edges
<1>4. \A r \in edges(graph) : \E u \in Unit : \E e \in Range(graph.forward[u]) : r = <<u, e[1], e[2]>>
  BY DEF edges
<1>5. ASSUME NEW r \in edges(graph)
      PROVE  /\ r \in Unit \X DepEdge \X Unit
             /\ <<r[2], r[3]>> \in Range(graph.forward[r[1]])
             /\ <<r[2], r[1]>> \in Range(graph.reverse[r[3]])
  <2>1. PICK u \in Unit : \E e \in Range(graph.forward[u]) : r = <<u, e[1], e[2]>>
    BY <1>4
  <2>2. PICK e \in Range(graph.forward[u]) : r = <<u, e[1], e[2]>>
    BY <2>1
  <2>3. e \in DepEdge \X Unit
    BY <1>1
  <2>4. PICK d \in DepEdge, v \in Unit : e = <<d, v>>
    BY <2>3
  <2>5. e[1] = d /\ e[2] = v
    BY <2>4
  <2>6. r = <<u, d, v>>
    BY <2>2, <2>5
  <2>7. r[1] = u /\ r[2] = d /\ r[3] = v
    BY <2>6
  <2>8. <<d, v>> \in Range(graph.forward[u]) /\ <<d, u>> \in Range(graph.reverse[v])
    BY <1>2, <2>4
  <2> QED BY <2>6, <2>7, <2>8
<1>6. ASSUME NEW u \in Unit, NEW e \in Range(graph.reverse[u])
      PROVE  e \in DepEdge \X Unit /\ <<e[2], e[1], u>> \in edges(graph)
  <2>1. e \in DepEdge \X Unit
    BY <1>1
  <2>2. PICK d \in DepEdge, v \in Unit : e = <<d, v>>
    BY <2>1
  <2>3. e[1] = d /\ e[2] = v
    BY <2>2
  <2>4. <<d, u>> \in Range(graph.forward[v])
    BY <1>2, <2>2
  <2> DEFINE h == <<d, u>>
  <2>5. h[1] = d /\ h[2] = u
    OBVIOUS
  <2>6. h \in Range(graph.forward[v])
    BY <2>4
  <2> HIDE DEF h
  <2>7. <<v, h[1], h[2]>> \in edges(graph)
    BY <1>3, <2>6
  <2> QED BY <2>1, <2>3, <2>5, <2>7
<1> QED BY <1>3, <1>5, <1>6

LEMMA CallFields ==
  ASSUME NEW u \in Unit, NEW k, NEW soft \in BOOLEAN
  PROVE  /\ call(u, k, soft).unit = u /\ call(u, k, soft).kind = k /\ call(u, k, soft).soft = soft
         /\ call(u, k, soft) # NoCall
<1>1. call(u, k, soft).unit = u /\ NoCall.unit = None /\ None \notin Unit
  BY CasesAssumption DEF call, NoCall
<1> QED BY <1>1 DEF call

\* The calls of calls_to are those to the loaded ends of the edges.
LEMMA CallsToCalls ==
  ASSUME NEW list, NEW K, NEW k
  PROVE  /\ \A x \in Range(calls_to(list, K, k)) \ {NoCall} :
              \E e \in Range(list) : e[1] \in K /\ e[2] \in case.loaded /\ x = call(e[2], k, TRUE)
         /\ \A e \in Range(list) :
              e[1] \in K /\ e[2] \in case.loaded => call(e[2], k, TRUE) \in Range(calls_to(list, K, k))
<1> DEFINE t == calls_to(list, K, k)
<1>1. DOMAIN t = DOMAIN list
  BY DEF calls_to
<1>2. \A i \in DOMAIN list :
        t[i] = IF list[i][1] \in K /\ list[i][2] \in case.loaded THEN call(list[i][2], k, TRUE) ELSE NoCall
  BY DEF calls_to
<1> HIDE DEF t
<1>3. ASSUME NEW x \in Range(t), x # NoCall
      PROVE  \E e \in Range(list) : e[1] \in K /\ e[2] \in case.loaded /\ x = call(e[2], k, TRUE)
  <2>1. PICK i \in DOMAIN list : x = t[i]
    BY <1>1 DEF Range
  <2>2. list[i] \in Range(list)
    BY DEF Range
  <2> QED BY <1>2, <1>3, <2>1, <2>2
<1>4. ASSUME NEW e \in Range(list), e[1] \in K, e[2] \in case.loaded
      PROVE  call(e[2], k, TRUE) \in Range(t)
  <2>1. PICK i \in DOMAIN list : e = list[i]
    BY DEF Range
  <2>2. t[i] = call(e[2], k, TRUE)
    BY <1>2, <1>4, <2>1
  <2> QED BY <1>1, <2>1, <2>2 DEF Range
<1> QED BY <1>3, <1>4 DEF t

LEMMA StartCalls ==
  ASSUME TypeOK, GraphKnown, NEW u \in Unit
  PROVE  /\ \A x \in Range(expand_start(u)) \ {NoCall} :
              \E r \in edges(graph) :
                /\ r[1] = u /\ r[2] \in DOMAIN Pulled /\ (r[2] \in OnlyLoaded => r[3] \in case.loaded)
                /\ x = call(r[3], Pulled[r[2]], r[2] \in Soft)
         /\ \A r \in edges(graph) :
              r[1] = u /\ r[2] \in DOMAIN Pulled /\ (r[2] \in OnlyLoaded => r[3] \in case.loaded) =>
                call(r[3], Pulled[r[2]], r[2] \in Soft) \in Range(expand_start(u))
<1> DEFINE t == expand_start(u)
           list == graph.forward[u]
<1>1. DOMAIN t = DOMAIN list
  BY DEF expand_start
<1>2. \A i \in DOMAIN list :
        t[i] = IF list[i][1] \in DOMAIN Pulled /\ (list[i][1] \in OnlyLoaded => list[i][2] \in case.loaded)
               THEN call(list[i][2], Pulled[list[i][1]], list[i][1] \in Soft) ELSE NoCall
  BY DEF expand_start
<1> HIDE DEF t
<1>3. ASSUME NEW x \in Range(t), x # NoCall
      PROVE  \E r \in edges(graph) :
                /\ r[1] = u /\ r[2] \in DOMAIN Pulled /\ (r[2] \in OnlyLoaded => r[3] \in case.loaded)
                /\ x = call(r[3], Pulled[r[2]], r[2] \in Soft)
  <2>1. PICK i \in DOMAIN list : x = t[i]
    BY <1>1 DEF Range
  <2>2. list[i] \in Range(list)
    BY DEF Range
  <2> DEFINE e == list[i]
             r == <<u, e[1], e[2]>>
  <2>3. r[1] = u /\ r[2] = e[1] /\ r[3] = e[2]
    OBVIOUS
  <2>4. r \in edges(graph)
    BY <2>2, EdgeLists
  <2>5. e[1] \in DOMAIN Pulled /\ (e[1] \in OnlyLoaded => e[2] \in case.loaded)
        /\ x = call(e[2], Pulled[e[1]], e[1] \in Soft)
    BY <1>2, <1>3, <2>1
  <2> HIDE DEF e, r
  <2> QED BY <2>3, <2>4, <2>5
<1>4. ASSUME NEW r \in edges(graph), r[1] = u, r[2] \in DOMAIN Pulled,
             r[2] \in OnlyLoaded => r[3] \in case.loaded
      PROVE  call(r[3], Pulled[r[2]], r[2] \in Soft) \in Range(t)
  <2>1. <<r[2], r[3]>> \in Range(list)
    BY <1>4, EdgeLists
  <2>2. PICK i \in DOMAIN list : <<r[2], r[3]>> = list[i]
    BY <2>1 DEF Range
  <2>3. list[i][1] = r[2] /\ list[i][2] = r[3]
    BY <2>2
  <2>4. t[i] = call(r[3], Pulled[r[2]], r[2] \in Soft)
    BY <1>2, <1>4, <2>3
  <2> QED BY <1>1, <2>4 DEF Range
<1> QED BY <1>3, <1>4 DEF t

\* Where a stop goes, and a reload.
StopsNext == PulledBack({"BindsTo", "PartOf"}) \cup Pulls({"PropagatesStopTo"})
ReloadsNext == Pulls({"PropagatesReloadTo"})

LEMMA PullPairs ==
  ASSUME TypeOK, GraphKnown, NEW K
  PROVE  /\ \A r \in edges(graph) : r[2] \in K /\ r[3] \in case.loaded => <<r[1], r[3]>> \in Pulls(K)
         /\ \A r \in edges(graph) : r[2] \in K /\ r[1] \in case.loaded => <<r[3], r[1]>> \in PulledBack(K)
         /\ \A q \in Pulls(K) : \E r \in edges(graph) :
              r[2] \in K /\ r[3] \in case.loaded /\ q[1] = r[1] /\ q[2] = r[3] /\ q = <<r[1], r[3]>>
         /\ \A q \in PulledBack(K) : \E r \in edges(graph) :
              r[2] \in K /\ r[1] \in case.loaded /\ q[1] = r[3] /\ q[2] = r[1] /\ q = <<r[3], r[1]>>
         /\ Pulls(K) \subseteq Unit \X Unit /\ PulledBack(K) \subseteq Unit \X Unit
<1>1. \A r \in edges(graph) : r \in Unit \X DepEdge \X Unit
  BY EdgeLists
<1>2. \A r \in edges(graph) : r[1] \in Unit /\ r[3] \in Unit
  BY <1>1
<1> QED BY <1>2 DEF Pulls, PulledBack

LEMMA StopCalls ==
  ASSUME TypeOK, GraphKnown, NEW u \in Unit
  PROVE  /\ \A x \in Range(expand_stop(u)) \ {NoCall} :
              x = call(x.unit, "Stop", TRUE) /\ x.unit \in case.loaded /\ x.kind = "Stop" /\ x.soft
              /\ <<u, x.unit>> \in StopsNext
         /\ \A q \in StopsNext : q[1] = u => call(q[2], "Stop", TRUE) \in Range(expand_stop(u))
<1> DEFINE S == DepEdge \X Unit
           fwd == graph.forward[u]
           rev == graph.reverse[u]
           B == {"BindsTo", "PartOf"}
           P == {"PropagatesStopTo"}
           back == calls_to(rev, B, "Stop")
           on == calls_to(fwd, P, "Stop")
<1>1. fwd \in Seq(S) /\ rev \in Seq(S) /\ case.loaded \subseteq Unit
  BY CaseType
<1>2. Range(expand_stop(u)) = Range(back) \cup Range(on)
  <2>1. "Stop" \in JobType
    BY DEF JobType
  <2>2. back \in Seq(Call) /\ on \in Seq(Call)
    BY <1>1, <2>1, CallsToType
  <2>3. expand_stop(u) = back \o on
    BY DEF expand_stop
  <2> HIDE DEF back, on
  <2> QED BY <2>2, <2>3, RangeConcat
<1> HIDE DEF S
<1>3. ASSUME NEW x \in Range(back), x # NoCall
      PROVE  \E v \in case.loaded : x = call(v, "Stop", TRUE) /\ <<u, v>> \in PulledBack(B)
  <2> HIDE DEF B
  <2>0. \A y \in Range(back) \ {NoCall} :
          \E e \in Range(rev) : e[1] \in B /\ e[2] \in case.loaded /\ y = call(e[2], "Stop", TRUE)
    BY <1>1, CallsToCalls DEF S, call
  <2>1. PICK e \in Range(rev) : e[1] \in B /\ e[2] \in case.loaded /\ x = call(e[2], "Stop", TRUE)
    BY <1>3, <2>0
  <2> DEFINE r == <<e[2], e[1], u>>
  <2>2. r[1] = e[2] /\ r[2] = e[1] /\ r[3] = u
    OBVIOUS
  <2>3. r \in edges(graph)
    BY EdgeLists
  <2> HIDE DEF r
  <2>4. <<u, e[2]>> \in PulledBack(B)
    BY <2>1, <2>2, <2>3, PullPairs
  <2> QED BY <2>1, <2>4
<1>4. ASSUME NEW x \in Range(on), x # NoCall
      PROVE  \E v \in case.loaded : x = call(v, "Stop", TRUE) /\ <<u, v>> \in Pulls(P)
  <2> HIDE DEF P
  <2>0. \A y \in Range(on) \ {NoCall} :
          \E e \in Range(fwd) : e[1] \in P /\ e[2] \in case.loaded /\ y = call(e[2], "Stop", TRUE)
    BY <1>1, CallsToCalls DEF S, call
  <2>1. PICK e \in Range(fwd) : e[1] \in P /\ e[2] \in case.loaded /\ x = call(e[2], "Stop", TRUE)
    BY <1>4, <2>0
  <2> DEFINE r == <<u, e[1], e[2]>>
  <2>2. r[1] = u /\ r[2] = e[1] /\ r[3] = e[2]
    OBVIOUS
  <2>3. r \in edges(graph)
    BY EdgeLists
  <2> HIDE DEF r
  <2>4. <<u, e[2]>> \in Pulls(P)
    BY <2>1, <2>2, <2>3, PullPairs
  <2> QED BY <2>1, <2>4
<1>5. ASSUME NEW x \in Range(expand_stop(u)), x # NoCall
      PROVE  x = call(x.unit, "Stop", TRUE) /\ x.unit \in case.loaded /\ x.kind = "Stop" /\ x.soft
             /\ <<u, x.unit>> \in StopsNext
  <2>1. PICK v \in case.loaded : x = call(v, "Stop", TRUE) /\ <<u, v>> \in StopsNext
    <3> HIDE DEF back, on
    <3> QED BY <1>2, <1>3, <1>4, <1>5 DEF StopsNext
  <2> QED BY <1>1, <2>1, CallFields DEF call
<1>6. ASSUME NEW q \in StopsNext, q[1] = u
      PROVE  call(q[2], "Stop", TRUE) \in Range(expand_stop(u))
  <2>1. CASE q \in PulledBack(B)
    <3> HIDE DEF B
    <3>1. PICK r \in edges(graph) : r[2] \in B /\ r[1] \in case.loaded /\ q[1] = r[3] /\ q[2] = r[1]
      BY <2>1, PullPairs
    <3> DEFINE e == <<r[2], r[1]>>
    <3>2. e[1] = r[2] /\ e[2] = r[1]
      OBVIOUS
    <3>3. e \in Range(rev)
      BY <1>6, <3>1, EdgeLists
    <3> HIDE DEF e
    <3>4. call(e[2], "Stop", TRUE) \in Range(back)
      BY <1>1, <3>1, <3>2, <3>3, CallsToCalls DEF S
    <3> QED BY <1>2, <3>1, <3>2, <3>4
  <2>2. CASE q \in Pulls(P)
    <3> HIDE DEF P
    <3>1. PICK r \in edges(graph) : r[2] \in P /\ r[3] \in case.loaded /\ q[1] = r[1] /\ q[2] = r[3]
      BY <2>2, PullPairs
    <3> DEFINE e == <<r[2], r[3]>>
    <3>2. e[1] = r[2] /\ e[2] = r[3]
      OBVIOUS
    <3>3. e \in Range(fwd)
      BY <1>6, <3>1, EdgeLists
    <3> HIDE DEF e
    <3>4. call(e[2], "Stop", TRUE) \in Range(on)
      BY <1>1, <3>1, <3>2, <3>3, CallsToCalls DEF S
    <3> QED BY <1>2, <3>1, <3>2, <3>4
  <2> QED BY <1>6, <2>1, <2>2 DEF StopsNext
<1> QED BY <1>5, <1>6

LEMMA ReloadCalls ==
  ASSUME TypeOK, GraphKnown, NEW u \in Unit
  PROVE  /\ \A x \in Range(expand_reload(u)) \ {NoCall} :
              x.unit \in case.loaded /\ x.kind = "Reload" /\ x.soft /\ <<u, x.unit>> \in ReloadsNext
         /\ \A q \in ReloadsNext : q[1] = u => call(q[2], "Reload", TRUE) \in Range(expand_reload(u))
<1> DEFINE S == DepEdge \X Unit
           fwd == graph.forward[u]
           P == {"PropagatesReloadTo"}
           on == calls_to(fwd, P, "Reload")
<1>1. fwd \in Seq(S) /\ case.loaded \subseteq Unit
  BY CaseType
<1>2. expand_reload(u) = on
  BY DEF expand_reload
<1> HIDE DEF S
<1>3. ASSUME NEW x \in Range(on), x # NoCall
      PROVE  x.unit \in case.loaded /\ x.kind = "Reload" /\ x.soft /\ <<u, x.unit>> \in Pulls(P)
  <2> HIDE DEF P
  <2>0. \A y \in Range(on) \ {NoCall} :
          \E e \in Range(fwd) : e[1] \in P /\ e[2] \in case.loaded /\ y = call(e[2], "Reload", TRUE)
    BY <1>1, CallsToCalls DEF S, call
  <2>1. PICK e \in Range(fwd) : e[1] \in P /\ e[2] \in case.loaded /\ x = call(e[2], "Reload", TRUE)
    BY <1>3, <2>0
  <2> DEFINE r == <<u, e[1], e[2]>>
  <2>2. r[1] = u /\ r[2] = e[1] /\ r[3] = e[2]
    OBVIOUS
  <2>3. r \in edges(graph)
    BY EdgeLists
  <2> HIDE DEF r
  <2>4. <<u, e[2]>> \in Pulls(P)
    BY <2>1, <2>2, <2>3, PullPairs
  <2>5. x.unit = e[2] /\ x.kind = "Reload" /\ x.soft
    BY <1>1, <2>1, CallFields DEF call
  <2> QED BY <2>1, <2>4, <2>5
<1>4. ASSUME NEW q \in Pulls(P), q[1] = u
      PROVE  call(q[2], "Reload", TRUE) \in Range(on)
  <2> HIDE DEF P
  <2>1. PICK r \in edges(graph) : r[2] \in P /\ r[3] \in case.loaded /\ q[1] = r[1] /\ q[2] = r[3]
    BY <1>4, PullPairs
  <2> DEFINE e == <<r[2], r[3]>>
  <2>2. e[1] = r[2] /\ e[2] = r[3]
    OBVIOUS
  <2>3. e \in Range(fwd)
    BY <1>4, <2>1, EdgeLists
  <2> HIDE DEF e
  <2>4. call(e[2], "Reload", TRUE) \in Range(on)
    BY <1>1, <2>1, <2>2, <2>3, CallsToCalls DEF S
  <2> QED BY <2>1, <2>2, <2>4
<1> QED BY <1>2, <1>3, <1>4 DEF ReloadsNext

LEMMA RestartCalls ==
  ASSUME TypeOK, NEW u \in Unit
  PROVE  \A x \in Range(expand_stop_propagation(u)) \ {NoCall} :
           x.unit \in case.loaded /\ x.kind = "TryRestart" /\ x.soft
<1> DEFINE S == DepEdge \X Unit
           rev == graph.reverse[u]
           P == {"PartOf"}
           on == calls_to(rev, P, "TryRestart")
<1>1. rev \in Seq(S) /\ case.loaded \subseteq Unit
  BY CaseType
<1> HIDE DEF S
<1>2. ASSUME NEW x \in Range(on), x # NoCall
      PROVE  x.unit \in case.loaded /\ x.kind = "TryRestart" /\ x.soft
  <2> HIDE DEF P
  <2>0. \A y \in Range(on) \ {NoCall} :
          \E e \in Range(rev) : e[1] \in P /\ e[2] \in case.loaded /\ y = call(e[2], "TryRestart", TRUE)
    BY <1>1, CallsToCalls DEF S, call
  <2>1. PICK e \in Range(rev) : e[1] \in P /\ e[2] \in case.loaded /\ x = call(e[2], "TryRestart", TRUE)
    BY <1>2, <2>0
  <2> QED BY <1>1, <2>1, CallFields DEF call
<1>3. expand_stop_propagation(u) = on
  BY DEF expand_stop_propagation
<1> HIDE DEF on
<1> QED BY <1>2, <1>3

\* The jobs whose calls are those of a start.
Spreading == {"Start", "Restart", "TryRestart", "ReloadOrStart"}

\* Each call that a job makes, and the edge that it follows.
LEMMA ExpandCalls ==
  ASSUME TypeOK, GraphKnown, NEW u \in Unit, NEW k \in JobType,
         NEW x \in Range(expand(u, k)), x # NoCall
  PROVE  \/ /\ k \in Spreading
            /\ \E r \in edges(graph) :
                 /\ r[1] = u /\ r[2] \in DOMAIN Pulled /\ (r[2] \in OnlyLoaded => r[3] \in case.loaded)
                 /\ x.unit = r[3] /\ x.kind = Pulled[r[2]] /\ (x.soft <=> r[2] \in Soft)
         \/ k \in {"Restart", "TryRestart"} /\ x.unit \in case.loaded /\ x.kind = "TryRestart" /\ x.soft
         \/ k = "Stop" /\ x.unit \in case.loaded /\ x.kind = "Stop" /\ x.soft /\ <<u, x.unit>> \in StopsNext
         \/ k = "Reload" /\ x.unit \in case.loaded /\ x.kind = "Reload" /\ x.soft
            /\ <<u, x.unit>> \in ReloadsNext
<1> DEFINE start == expand_start(u)
           again == expand_stop_propagation(u)
<1>1. ASSUME x \in Range(start)
      PROVE  \E r \in edges(graph) :
                 /\ r[1] = u /\ r[2] \in DOMAIN Pulled /\ (r[2] \in OnlyLoaded => r[3] \in case.loaded)
                 /\ x.unit = r[3] /\ x.kind = Pulled[r[2]] /\ (x.soft <=> r[2] \in Soft)
  <2>1. PICK r \in edges(graph) :
           /\ r[1] = u /\ r[2] \in DOMAIN Pulled /\ (r[2] \in OnlyLoaded => r[3] \in case.loaded)
           /\ x = [unit |-> r[3], kind |-> Pulled[r[2]], soft |-> r[2] \in Soft]
    BY <1>1, StartCalls DEF call
  <2> QED BY <2>1
<1>2. ASSUME x \in Range(again)
      PROVE  x.unit \in case.loaded /\ x.kind = "TryRestart" /\ x.soft
  BY <1>2, RestartCalls
<1>3. Range(start \o again) = Range(start) \cup Range(again)
  <2>1. "TryRestart" \in JobType
    BY DEF JobType
  <2>2. again \in Seq(Call)
    BY <2>1, CaseType, CallsToType DEF expand_stop_propagation
  <2>3. start \in Seq(Call)
    <3> DEFINE fwd == graph.forward[u]
    <3>1. fwd \in Seq(DepEdge \X Unit)
      BY CaseType
    <3>2. start \in Seq(Call)
      BY StartType
    <3> QED BY <3>2
  <2> HIDE DEF start, again
  <2> QED BY <2>2, <2>3, RangeConcat
<1>4. Range(<<>>) = {}
  BY DEF Range
<1>5. CASE k \in {"Start", "ReloadOrStart"} /\ expand(u, k) = start
  BY <1>1, <1>5 DEF Spreading
<1>6. CASE k \in {"Restart", "TryRestart"} /\ expand(u, k) = start \o again
  <2>1. x \in Range(start) \/ x \in Range(again)
    BY <1>3, <1>6
  <2> QED BY <1>1, <1>2, <1>6, <2>1 DEF Spreading
<1>7. CASE k = "Stop" /\ expand(u, k) = expand_stop(u)
  BY <1>7, StopCalls
<1>8. CASE k = "Reload" /\ expand(u, k) = expand_reload(u)
  BY <1>8, ReloadCalls
<1>9. CASE expand(u, k) = <<>>
  BY <1>4, <1>9
<1>10. \/ k \in {"Start", "ReloadOrStart"} /\ expand(u, k) = start
       \/ k \in {"Restart", "TryRestart"} /\ expand(u, k) = start \o again
       \/ k = "Stop" /\ expand(u, k) = expand_stop(u)
       \/ k = "Reload" /\ expand(u, k) = expand_reload(u)
       \/ expand(u, k) = <<>>
  <2> HIDE DEF start, again
  <2> QED BY DEF expand, start, again
<1> QED BY <1>5, <1>6, <1>7, <1>8, <1>9, <1>10

-----------------------------------------------------------------------------
(* Which errors reach the request                                          *)

HardReach == Reach(case.root, Pulls(HardPulls))

\* A call whose error would reach the request is one for a unit that the root
\* needs, if that is not loaded or has needs of its own.
Needed(x) ==
  ~x.soft => /\ x.unit \notin case.loaded => MissesHard
             /\ x.unit \in case.loaded /\ x.kind \in Spreading => x.unit \in HardReach

FailureInv ==
  /\ \A x \in Waiting(stack) : x.soft => x.unit \in case.loaded
  /\ \A x \in HardCalls(stack) : Needed(x)
  /\ result = "NotLoaded" => case.root \notin case.loaded \/ MissesHard

\* The request and the graph do not change.
Known == case \in Cases /\ graph = graph_of(case)

LEMMA KnownGraph ==
  ASSUME Known
  PROVE  GraphKnown /\ case.active \subseteq case.loaded
BY BuildGraph, CasesAssumption DEF Known, GraphKnown

LEMMA Unchanged == Next => case' = case /\ graph' = graph
BY DEF Next, begin, call_fails, merge_job, add_job, pass_edge, return, add_isolate_stops,
       apply_mode, sort_jobs

LEMMA SingleFrame ==
  ASSUME NEW f \in Frame
  PROVE  /\ Waiting(<<f>>) = {x \in Call \ {NoCall} : x \in Range(f.calls)}
         /\ HardCalls(<<f>>) \subseteq Waiting(<<f>>)
<1> DEFINE s == <<f>>
<1>1. DOMAIN s = 1 .. 1 /\ s[1] = f
  OBVIOUS
<1> HIDE DEF s
<1>2. 1 \in 1 .. 1 /\ \A i \in 1 .. 1 : i = 1
  OBVIOUS
<1> QED BY <1>1, <1>2 DEF Waiting, HardCalls, s

\* The first call is the one for the root.
LEMMA RootCall ==
  ASSUME TypeOK, NEW s, s = <<frame(<<call(case.root, case.kind, FALSE)>>, FALSE)>>
  PROVE  LET x == [unit |-> case.root, kind |-> case.kind, soft |-> FALSE]
         IN Waiting(s) = {x} /\ HardCalls(s) \subseteq {x}
<1> DEFINE x == [unit |-> case.root, kind |-> case.kind, soft |-> FALSE]
           calls == <<x>>
           f == [calls |-> calls, soft |-> FALSE]
<1>1. x \in Call \ {NoCall}
  <2>1. x.unit = case.root /\ NoCall.unit = None /\ case.root # None
    BY CaseType, CasesAssumption DEF NoCall, call
  <2> QED BY <2>1, CaseType DEF Call
<1> HIDE DEF x
<1>2. calls \in Seq(Call) /\ Range(calls) = {x}
  BY <1>1 DEF Range
<1> HIDE DEF calls
<1>3. f \in Frame /\ f.calls = calls
  BY <1>2 DEF Frame
<1>4. s = <<f>>
  BY DEF frame, call, f, calls, x
<1> HIDE DEF f
<1>5. Waiting(s) = {x} /\ HardCalls(s) \subseteq {x}
  BY <1>1, <1>2, <1>3, <1>4, SingleFrame
<1> QED BY <1>5 DEF x

\* The calls of add_isolate_stops.
LEMMA IsolateCalls ==
  ASSUME Inv, Known, add_isolate_stops
  PROVE  /\ HardCalls(stack') \subseteq Waiting(stack')
         /\ \A x \in Waiting(stack') : x.kind = "Stop" /\ x.soft /\ x.unit \in case.loaded /\ to_stop(x.unit)
         /\ \A u \in Unit : to_stop(u) => \E x \in Waiting(stack') : x.unit = u
<1> DEFINE nodes == graph.nodes
           one(i) == IF to_stop(nodes[i]) THEN call(nodes[i], "Stop", TRUE) ELSE NoCall
           calls == [i \in DOMAIN nodes |-> one(i)]
           f == frame(calls, FALSE)
<1>1. stack' = <<f>>
  BY DEF add_isolate_stops
<1>2. Len(nodes) \in Nat /\ DOMAIN nodes = 1 .. Len(nodes)
      /\ \A i \in 1 .. Len(nodes) : nodes[i] \in Unit
  BY CaseType, LenProperties, ElementOfSeq DEF Inv
<1>3. "Stop" \in JobType /\ NoCall \in Call
  BY DEF JobType, Call
<1>4. \A i \in 1 .. Len(nodes) : call(nodes[i], "Stop", TRUE) \in Call
  BY <1>2, <1>3, CallType
<1>5. calls \in [1 .. Len(nodes) -> Call]
  BY <1>2, <1>3, <1>4
<1>6. DOMAIN calls = DOMAIN nodes /\ \A i \in DOMAIN nodes : calls[i] = one(i)
  OBVIOUS
<1> HIDE DEF calls
<1>7. f \in Frame /\ f.calls = calls
  <2>1. calls \in Seq(Call)
    BY <1>2, <1>5, FunctionIsSeq
  <2> QED BY <2>1 DEF frame, Frame
<1> HIDE DEF f
<1>8. Waiting(stack') = {x \in Call \ {NoCall} : x \in Range(calls)} /\ HardCalls(stack') \subseteq Waiting(stack')
  BY <1>1, <1>7, SingleFrame
<1>9. case.active \subseteq case.loaded /\ case.loaded \subseteq Range(nodes)
  BY KnownGraph DEF GraphKnown, GraphOf
<1>10. ASSUME NEW x \in Waiting(stack')
       PROVE  x.kind = "Stop" /\ x.soft /\ x.unit \in case.loaded /\ to_stop(x.unit)
  <2>1. PICK i \in DOMAIN nodes : x = one(i) /\ x # NoCall
    BY <1>6, <1>8 DEF Range
  <2>2. to_stop(nodes[i]) /\ x = [unit |-> nodes[i], kind |-> "Stop", soft |-> TRUE]
    BY <2>1 DEF call
  <2>3. x.unit = nodes[i] /\ x.kind = "Stop" /\ x.soft
    BY <2>2
  <2>4. nodes[i] \in case.active
    BY <2>2 DEF to_stop
  <2> QED BY <1>9, <2>2, <2>3, <2>4
<1>11. ASSUME NEW u \in Unit, to_stop(u)
       PROVE  \E x \in Waiting(stack') : x.unit = u
  <2>1. u \in Range(nodes)
    BY <1>9, <1>11 DEF to_stop
  <2>2. PICK i \in DOMAIN nodes : u = nodes[i]
    BY <2>1 DEF Range
  <2> DEFINE x == call(u, "Stop", TRUE)
  <2>3. x \in Call /\ x # NoCall /\ x.unit = u
    BY <1>3, CallType, CallFields
  <2>4. x \in Range(calls)
    BY <1>6, <1>11, <2>2 DEF Range
  <2> HIDE DEF x
  <2> QED BY <1>8, <2>3, <2>4
<1> QED BY <1>8, <1>10, <1>11

\* What a new job adds to the stack.
LEMMA AddedCalls ==
  ASSUME Inv, add_job
  PROVE  LET t == expand(NextCall.unit, NextCall.kind)
         IN /\ NextCall \in Waiting(stack) /\ NextCall \in Call \ {NoCall} /\ stack # <<>>
            /\ NextCall.unit \in Unit /\ NextCall.kind \in JobType
            /\ \A x \in Waiting(stack) : x \in Waiting(stack') \/ x = NextCall
            /\ \A x \in Waiting(stack') : x \in Waiting(stack) \/ x \in Range(t) \ {NoCall}
            /\ \A x \in Range(t) \ {NoCall} : x \in Waiting(stack')
            /\ \A x \in HardCalls(stack') : \/ x \in HardCalls(stack)
                                            \/ /\ x \in Range(t) \ {NoCall} /\ ~NextCall.soft
                                               /\ NextCall \in HardCalls(stack)
<1> DEFINE t == expand(NextCall.unit, NextCall.kind)
           f == [calls |-> t, soft |-> NextCall.soft]
<1>1. stack # <<>> /\ Top.calls # <<>> /\ NextCall # NoCall /\ stack' = Append(Taken, f)
  BY DEF add_job, Calling, frame
<1>2. NextCall \in Call /\ Taken \in Seq(Frame)
  BY <1>1, CallTaken DEF Inv
<1>3. NextCall.unit \in Unit /\ NextCall.kind \in JobType /\ NextCall.soft \in BOOLEAN
  BY <1>1, <1>2 DEF Call
<1>4. t \in Seq(Call)
  BY <1>3, ExpandType DEF Inv
<1> HIDE DEF t
<1>5. f \in Frame /\ f.calls = t /\ f.soft = NextCall.soft
  BY <1>3, <1>4 DEF Frame
<1> HIDE DEF f
<1>6. /\ \A x \in Call \ {NoCall} : x \in Waiting(stack) <=> x \in Waiting(Taken) \/ x = NextCall
      /\ HardCalls(Taken) \subseteq HardCalls(stack)
      /\ NextCall # NoCall /\ Exposed(stack, Len(stack)) => NextCall \in HardCalls(stack)
      /\ Exposed(Taken, Len(Taken)) => Exposed(stack, Len(stack))
  BY <1>1, TakenCalls DEF Inv
<1>7. /\ \A x \in Call \ {NoCall} : x \in Waiting(stack') <=> x \in Waiting(Taken) \/ x \in Range(t)
      /\ \A x \in HardCalls(stack') \ HardCalls(Taken) :
           x \in Range(t) /\ ~NextCall.soft /\ Exposed(Taken, Len(Taken))
  BY <1>1, <1>2, <1>5, PushedCalls
<1>8. \A s : Waiting(s) \subseteq Call \ {NoCall} /\ HardCalls(s) \subseteq Call \ {NoCall}
  BY DEF Waiting, HardCalls
<1>9. Range(t) \subseteq Call
  BY <1>4, LenProperties, ElementOfSeq DEF Range
<1>10. \A x \in HardCalls(stack') : \/ x \in HardCalls(stack)
                                    \/ /\ x \in Range(t) \ {NoCall} /\ ~NextCall.soft
                                       /\ NextCall \in HardCalls(stack)
  BY <1>1, <1>6, <1>7, <1>8
<1> QED BY <1>1, <1>2, <1>3, <1>6, <1>7, <1>8, <1>9, <1>10 DEF t

\* The other steps of the expansion only take calls away.
LEMMA FewerCalls ==
  ASSUME Inv, merge_job \/ pass_edge \/ return \/ (call_fails /\ UNCHANGED <<phase, result>>)
  PROVE  /\ Waiting(stack') \subseteq Waiting(stack) /\ HardCalls(stack') \subseteq HardCalls(stack)
         /\ pass_edge \/ return => Waiting(stack') = Waiting(stack)
         /\ merge_job => /\ NextCall \in Waiting(stack) /\ NextCall.unit \in Unit
                         /\ NextCall.kind \in JobType
                         /\ \A x \in Waiting(stack) : x \in Waiting(stack') \/ x = NextCall
<1>1. \A s : Waiting(s) \subseteq Call \ {NoCall} /\ HardCalls(s) \subseteq Call \ {NoCall}
  BY DEF Waiting, HardCalls
<1>2. TypeOK
  BY DEF Inv
<1>3. ASSUME merge_job \/ pass_edge
      PROVE  /\ Waiting(stack') \subseteq Waiting(stack) /\ HardCalls(stack') \subseteq HardCalls(stack)
             /\ pass_edge => Waiting(stack') = Waiting(stack)
             /\ merge_job => /\ NextCall \in Waiting(stack) /\ NextCall.unit \in Unit
                             /\ NextCall.kind \in JobType
                             /\ \A x \in Waiting(stack) : x \in Waiting(stack') \/ x = NextCall
  <2>1. stack # <<>> /\ Top.calls # <<>> /\ stack' = Taken
        /\ (pass_edge => NextCall = NoCall) /\ (merge_job => NextCall # NoCall)
    BY <1>3 DEF merge_job, pass_edge, Calling
  <2>2. /\ \A x \in Call \ {NoCall} : x \in Waiting(stack) <=> x \in Waiting(stack') \/ x = NextCall
        /\ HardCalls(stack') \subseteq HardCalls(stack)
    BY <1>2, <2>1, TakenCalls
  <2>3. NextCall \in Call
    BY <1>2, <2>1, CallTaken
  <2>4. NextCall # NoCall => NextCall.unit \in Unit /\ NextCall.kind \in JobType
    BY <2>3 DEF Call
  <2> QED BY <1>1, <2>1, <2>2, <2>3, <2>4
<1>4. CASE return
  <2>1. stack # <<>> /\ Top.calls = <<>> /\ stack' = Below
    BY <1>4 DEF return
  <2>2. ~merge_job /\ ~pass_edge
    BY <2>1 DEF merge_job, pass_edge, Calling
  <2> QED BY <1>2, <2>1, <2>2, ReturnedCalls
<1>5. CASE call_fails /\ UNCHANGED <<phase, result>>
  <2>1. result # "NotLoaded"
    BY <1>5 DEF call_fails, Calling, Inv, TypeOK
  <2>2. stack # <<>> /\ Calling /\ NextCall.unit \notin case.loaded
    BY <1>5 DEF call_fails, Calling
  <2>3. PICK i \in DOMAIN stack : stack' = SubSeq(stack, 1, i - 1)
    BY <1>5, <2>1 DEF call_fails, answer
  <2>4. stack \in Seq(Frame) /\ i - 1 \in 0 .. Len(stack)
    BY <1>2, LenProperties DEF TypeOK, Frame
  <2>5. Waiting(stack') \subseteq Waiting(stack) /\ HardCalls(stack') \subseteq HardCalls(stack)
    BY <2>3, <2>4, LowerCalls
  <2>6. ~merge_job /\ ~pass_edge /\ ~return
    BY <2>2 DEF merge_job, pass_edge, return, Calling
  <2> QED BY <2>5, <2>6
<1> QED BY <1>3, <1>4, <1>5

\* A unit that is reached leads only to units that are reached.
LEMMA HardReachClosed ==
  ASSUME TypeOK, GraphKnown
  PROVE  /\ case.root \in HardReach
         /\ \A q \in Pulls(HardPulls) : q[1] \in HardReach => q[2] \in HardReach
<1> DEFINE R == Pulls(HardPulls)
<1>1. case.root \in Unit /\ R \subseteq Unit \X Unit
  BY CaseType, PullPairs
<1> HIDE DEF R
<1>2. case.root \in Reach(case.root, R) /\ Closed(Reach(case.root, R), R)
  BY <1>1, ReachLeast, ReachClosed
<1> QED BY <1>2 DEF HardReach, Closed, R

\* An error that comes out of the calls of a needed unit is one that the root needs.
LEMMA NeededCalls ==
  ASSUME TypeOK, GraphKnown, NEW u \in Unit, NEW k \in JobType,
         NEW x \in Range(expand(u, k)), x # NoCall
  PROVE  /\ x.soft => x.unit \in case.loaded
         /\ (k \in Spreading => u \in HardReach) => Needed(x)
<1>1. \/ k \in Spreading /\ \E r \in edges(graph) :
            /\ r[1] = u /\ r[2] \in DOMAIN Pulled /\ (r[2] \in OnlyLoaded => r[3] \in case.loaded)
            /\ x.unit = r[3] /\ x.kind = Pulled[r[2]] /\ (x.soft <=> r[2] \in Soft)
      \/ x.unit \in case.loaded /\ x.soft
  BY ExpandCalls
<1>2. CASE k \in Spreading /\ \E r \in edges(graph) :
            /\ r[1] = u /\ r[2] \in DOMAIN Pulled /\ (r[2] \in OnlyLoaded => r[3] \in case.loaded)
            /\ x.unit = r[3] /\ x.kind = Pulled[r[2]] /\ (x.soft <=> r[2] \in Soft)
  <2>1. PICK r \in edges(graph) :
            /\ r[1] = u /\ r[2] \in DOMAIN Pulled /\ (r[2] \in OnlyLoaded => r[3] \in case.loaded)
            /\ x.unit = r[3] /\ x.kind = Pulled[r[2]] /\ (x.soft <=> r[2] \in Soft)
    BY <1>2
  <2>2. x.soft => x.unit \in case.loaded
    BY <2>1 DEF Soft, OnlyLoaded
  <2>3. ASSUME u \in HardReach, ~x.soft, x.unit \notin case.loaded
        PROVE  MissesHard
    <3>1. r[2] \in HardPulls \cup {"Requisite"}
      BY <2>1, <2>3 DEF Soft, OnlyLoaded, HardPulls, Pulled
    <3> QED BY <2>1, <2>3, <3>1 DEF MissesHard, HardReach
  <2>4. ASSUME u \in HardReach, ~x.soft, x.unit \in case.loaded, x.kind \in Spreading
        PROVE  x.unit \in HardReach
    <3>1. r[2] \in HardPulls
      BY <2>1, <2>4 DEF Soft, HardPulls, Pulled, Spreading
    <3> DEFINE q == <<r[1], r[3]>>
    <3>2. q \in Pulls(HardPulls) /\ q[1] = r[1] /\ q[2] = r[3]
      BY <2>1, <2>4, <3>1, PullPairs
    <3> HIDE DEF q
    <3> QED BY <2>1, <2>4, <3>2, HardReachClosed
  <2> QED BY <1>2, <2>2, <2>3, <2>4 DEF Needed
<1>3. CASE x.unit \in case.loaded /\ x.soft
  BY <1>3 DEF Needed
<1> QED BY <1>1, <1>2, <1>3

LEMMA FailureInit == Init => FailureInv
<1> SUFFICES ASSUME Init PROVE FailureInv
  OBVIOUS
<1> QED BY EmptyStack DEF Init, FailureInv

LEMMA FailureStep ==
  ASSUME Inv, Known, FailureInv, Next
  PROVE  FailureInv'
<1>1. case' = case /\ graph' = graph
  BY Unchanged
<1>2. GraphKnown /\ TypeOK /\ case.active \subseteq case.loaded
  BY KnownGraph DEF Inv
<1>3. (MissesHard' <=> MissesHard) /\ HardReach' = HardReach
  BY <1>1 DEF MissesHard, HardReach, Pulls
<1>4. SUFFICES /\ \A x \in Waiting(stack') : x.soft => x.unit \in case.loaded
               /\ \A x \in HardCalls(stack') : Needed(x)
               /\ result' = "NotLoaded" => case.root \notin case.loaded \/ MissesHard
  <2>1. \A x : Needed(x)' <=> Needed(x)
    BY <1>1, <1>3 DEF Needed
  <2> QED BY <1>1, <1>3, <2>1 DEF FailureInv
<1>5. /\ \A x \in Waiting(stack) : x.soft => x.unit \in case.loaded
      /\ \A x \in HardCalls(stack) : Needed(x)
      /\ result = "NotLoaded" => case.root \notin case.loaded \/ MissesHard
  BY DEF FailureInv
<1>6. CASE begin
  <2>1. CASE answer(refusal) /\ UNCHANGED stack
    <3>1. stack' = stack /\ (result' = "NotLoaded" => case.root \notin case.loaded)
      BY <2>1 DEF answer, refusal
    <3> QED BY <1>5, <3>1
  <2>2. CASE stack' = <<frame(<<call(case.root, case.kind, FALSE)>>, FALSE)>> /\ UNCHANGED result
    <3> DEFINE x == [unit |-> case.root, kind |-> case.kind, soft |-> FALSE]
    <3>1. Waiting(stack') = {x} /\ HardCalls(stack') \subseteq {x}
      BY <1>2, <2>2, RootCall
    <3>2. x.unit = case.root /\ ~x.soft
      OBVIOUS
    <3>3. case.root \in case.loaded
      BY <1>6, <2>2 DEF begin, refusal, answer, Inv, TypeOK
    <3>4. Needed(x)
      BY <1>2, <3>2, <3>3, HardReachClosed DEF Needed
    <3> HIDE DEF x
    <3> QED BY <1>5, <2>2, <3>1, <3>2, <3>4
  <2> QED BY <1>6, <2>1, <2>2 DEF begin
<1>7. CASE call_fails
  <2>1. Calling /\ stack # <<>> /\ Top.calls # <<>> /\ NextCall # NoCall
        /\ NextCall.unit \notin case.loaded
    BY <1>7 DEF call_fails, Calling
  <2>2. CASE UNCHANGED <<phase, result>>
    BY <1>5, <1>7, <2>2, FewerCalls
  <2>3. CASE (\A i \in DOMAIN stack : ~stack[i].soft) /\ answer("NotLoaded") /\ stack' = <<>>
    <3>1. Exposed(stack, Len(stack))
      BY <1>2, <2>3, LenProperties DEF Exposed, TypeOK
    <3>2. NextCall \in HardCalls(stack) /\ NextCall \in Waiting(stack)
      <4>1. NextCall \in Call
        BY <1>2, <2>1, CallTaken
      <4> QED BY <1>2, <2>1, <3>1, <4>1, TakenCalls
    <3>3. MissesHard
      BY <1>5, <2>1, <3>2 DEF Needed
    <3> QED BY <2>3, <3>3, EmptyStack
  <2> QED BY <1>7, <2>2, <2>3 DEF call_fails
<1>8. CASE merge_job \/ pass_edge \/ return
  <2>1. result' = result
    BY <1>8 DEF merge_job, pass_edge, return
  <2> QED BY <1>5, <1>8, <2>1, FewerCalls
<1>9. CASE add_job
  <2> DEFINE t == expand(NextCall.unit, NextCall.kind)
  <2>1. /\ NextCall \in Waiting(stack) /\ NextCall.unit \in Unit /\ NextCall.kind \in JobType
        /\ \A x \in Waiting(stack') : x \in Waiting(stack) \/ x \in Range(t) \ {NoCall}
        /\ \A x \in HardCalls(stack') : \/ x \in HardCalls(stack)
                                        \/ /\ x \in Range(t) \ {NoCall} /\ ~NextCall.soft
                                           /\ NextCall \in HardCalls(stack)
    BY <1>9, AddedCalls
  <2>2. NextCall.unit \in case.loaded /\ result' = result
    BY <1>9 DEF add_job
  <2>3. \A x \in Range(t) \ {NoCall} :
          /\ x.soft => x.unit \in case.loaded
          /\ (NextCall.kind \in Spreading => NextCall.unit \in HardReach) => Needed(x)
    BY <1>2, <2>1, NeededCalls
  <2>4. NextCall \in HardCalls(stack) /\ ~NextCall.soft =>
          (NextCall.kind \in Spreading => NextCall.unit \in HardReach)
    BY <1>5, <2>2 DEF Needed
  <2> HIDE DEF t
  <2> QED BY <1>5, <2>1, <2>2, <2>3, <2>4
<1>10. CASE add_isolate_stops
  <2>1. result' = result
    BY <1>10 DEF add_isolate_stops
  <2> QED BY <1>5, <1>10, <2>1, IsolateCalls DEF Needed
<1>11. CASE apply_mode \/ sort_jobs
  <2>1. stack' = stack /\ (result' = result \/ result' # "NotLoaded")
    BY <1>11 DEF apply_mode, sort_jobs, answer
  <2> QED BY <1>5, <2>1
<1> QED BY <1>6, <1>7, <1>8, <1>9, <1>10, <1>11 DEF Next

-----------------------------------------------------------------------------
(* What Isolate stops                                                      *)

Isolating == case.mode = "Isolate" /\ case.kind \notin {"Restart", "TryRestart"}

Kept == {"Wants", "Requires", "BindsTo", "Upholds", "Requisite", "PartOf", "After", "Before"}

\* Calls that leave the root's closure only stop or reload.
StaysInside(u, k) ==
  k \notin {"Restart", "TryRestart"} /\ (u \in dep_closure \/ k \in {"Stop", "Reload"})

\* A unit to stop has the job Stop, or a call for it waits.
StopsInv ==
  Isolating =>
    /\ \A x \in Waiting(stack) : StaysInside(x.unit, x.kind)
    /\ \A u \in DOMAIN jobs \ dep_closure : jobs[u] \in {"Stop", "Reload"}
    /\ phase = "isolate" => \A x \in Waiting(stack) : x.kind = "Stop" /\ x.unit \in case.loaded
    /\ phase \in {"isolate", "sort"} \/ (result = "ok" /\ refusal = "none") =>
         \A u \in Unit : to_stop(u) => \/ u \in DOMAIN jobs /\ jobs[u] = "Stop"
                                       \/ \E x \in Waiting(stack) : x.unit = u

LEMMA DepClosureClosed ==
  ASSUME TypeOK, GraphKnown
  PROVE  /\ case.root \in dep_closure
         /\ \A r \in edges(graph) : r[2] \in Kept /\ r[1] \in dep_closure => r[3] \in dep_closure
<1> DEFINE R == {<<e[1], e[3]>> : e \in {x \in edges(graph) : x[2] \in Kept}}
<1>1. \A r \in edges(graph) : r[1] \in Unit /\ r[3] \in Unit
  BY EdgeLists
<1>2. R \subseteq Unit \X Unit
  BY <1>1
<1>3. dep_closure = Reach(case.root, R)
  BY DEF dep_closure, Kept
<1>4. ASSUME NEW r \in edges(graph), r[2] \in Kept
      PROVE  \E q \in R : q[1] = r[1] /\ q[2] = r[3]
  <2> DEFINE q == <<r[1], r[3]>>
  <2>1. q[1] = r[1] /\ q[2] = r[3] /\ q \in R
    BY <1>4
  <2> HIDE DEF q, R
  <2> QED BY <2>1
<1> HIDE DEF R
<1>5. case.root \in Reach(case.root, R) /\ Closed(Reach(case.root, R), R)
  BY <1>2, CaseType, ReachLeast, ReachClosed
<1> QED BY <1>3, <1>4, <1>5 DEF Closed

LEMMA InsideCalls ==
  ASSUME TypeOK, GraphKnown, NEW u \in Unit, NEW k \in JobType, StaysInside(u, k),
         NEW x \in Range(expand(u, k)), x # NoCall
  PROVE  StaysInside(x.unit, x.kind) /\ (k = "Stop" => x.kind = "Stop" /\ x.unit \in case.loaded)
<1>1. CASE k \in Spreading /\ \E r \in edges(graph) :
            /\ r[1] = u /\ r[2] \in DOMAIN Pulled
            /\ x.unit = r[3] /\ x.kind = Pulled[r[2]]
  <2>1. PICK r \in edges(graph) : /\ r[1] = u /\ r[2] \in DOMAIN Pulled
                                  /\ x.unit = r[3] /\ x.kind = Pulled[r[2]]
    BY <1>1
  <2>2. u \in dep_closure /\ k # "Stop"
    BY <1>1 DEF StaysInside, Spreading
  <2>3. CASE r[2] = "Conflicts"
    BY <2>1, <2>2, <2>3 DEF Pulled, StaysInside
  <2>4. CASE r[2] # "Conflicts"
    <3>1. r[2] \in Kept /\ Pulled[r[2]] \in {"Start", "VerifyActive"}
      BY <2>1, <2>4 DEF Pulled, Kept
    <3>2. x.unit \in dep_closure
      BY <2>1, <2>2, <3>1, DepClosureClosed
    <3> QED BY <2>1, <2>2, <3>1, <3>2 DEF StaysInside
  <2> QED BY <2>3, <2>4
<1>2. CASE x.unit \in case.loaded /\ x.kind \in {"Stop", "Reload"} /\ x.kind = k
  BY <1>2 DEF StaysInside
<1> QED BY <1>1, <1>2, ExpandCalls DEF StaysInside

LEMMA MergeStops ==
  /\ \A k, l \in {"Stop", "Reload"} : merge_kinds(k, l) \in {"Stop", "Reload"}
  /\ \A k \in {"Stop", "Reload"} : merge_kinds(k, "Stop") = "Stop"
  /\ \A u : \A k \in {"Start", "Stop", "Reload"} : collapsed(u, k) = k
  /\ \A k \in {"Start", "Stop", "Reload"} : merge_kinds(k, k) = k
<1>1. \A k, l \in {"Stop", "Reload"} : merge_kinds(k, l) \in {"Stop", "Reload"}
  BY DEF merge_kinds
<1>2. merge_kinds("Stop", "Stop") = "Stop" /\ merge_kinds("Reload", "Stop") = "Stop"
  BY DEF merge_kinds
<1>3. \A u : \A k \in {"Start", "Stop", "Reload"} : collapsed(u, k) = k
  BY DEF collapsed
<1>4. \A k \in {"Start", "Stop", "Reload"} : merge_kinds(k, k) = k
  BY DEF merge_kinds
<1> QED BY <1>1, <1>2, <1>3, <1>4

LEMMA StopsStep ==
  ASSUME Inv, Known, StopsInv, Next
  PROVE  StopsInv'
<1>1. case' = case /\ graph' = graph
  BY Unchanged
<1>2. GraphKnown /\ TypeOK
  BY KnownGraph DEF Inv
<1>3. SUFFICES ASSUME Isolating
      PROVE  /\ \A x \in Waiting(stack') : StaysInside(x.unit, x.kind)
             /\ \A u \in DOMAIN jobs' \ dep_closure : jobs'[u] \in {"Stop", "Reload"}
             /\ phase' = "isolate" => \A x \in Waiting(stack') : x.kind = "Stop" /\ x.unit \in case.loaded
             /\ phase' \in {"isolate", "sort"} \/ (result' = "ok" /\ refusal = "none") =>
                  \A u \in Unit : to_stop(u) => \/ u \in DOMAIN jobs' /\ jobs'[u] = "Stop"
                                                \/ \E x \in Waiting(stack') : x.unit = u
  <2>1. dep_closure' = dep_closure /\ (Isolating' <=> Isolating) /\ refusal' = refusal
    BY <1>1 DEF dep_closure, Isolating, refusal
  <2>2. /\ \A u, k : StaysInside(u, k)' <=> StaysInside(u, k)
        /\ \A u : to_stop(u)' <=> to_stop(u)
    BY <1>1, <2>1 DEF StaysInside, to_stop
  <2> QED BY <1>1, <2>1, <2>2 DEF StopsInv
<1>4. /\ \A x \in Waiting(stack) : StaysInside(x.unit, x.kind)
      /\ \A u \in DOMAIN jobs \ dep_closure : jobs[u] \in {"Stop", "Reload"}
      /\ phase = "isolate" => \A x \in Waiting(stack) : x.kind = "Stop" /\ x.unit \in case.loaded
      /\ phase \in {"isolate", "sort"} \/ (result = "ok" /\ refusal = "none") =>
           \A u \in Unit : to_stop(u) => \/ u \in DOMAIN jobs /\ jobs[u] = "Stop"
                                         \/ \E x \in Waiting(stack) : x.unit = u
  BY <1>3 DEF StopsInv
<1>5. \A u : to_stop(u) => u \notin dep_closure
  BY DEF to_stop
<1>6. phase = "begin" => DOMAIN jobs = {}
  BY DEF Inv
<1>7. CASE begin
  <2>1. jobs' = jobs /\ phase = "begin" /\ phase' \notin {"isolate", "sort"}
        /\ ~ (result' = "ok" /\ refusal = "none")
    BY <1>7 DEF begin, answer, Inv, TypeOK
  <2>2. CASE UNCHANGED stack
    BY <1>4, <1>6, <2>1, <2>2
  <2>3. CASE stack' = <<frame(<<call(case.root, case.kind, FALSE)>>, FALSE)>>
    <3> DEFINE x == [unit |-> case.root, kind |-> case.kind, soft |-> FALSE]
    <3>1. Waiting(stack') = {x}
      BY <1>2, <2>3, RootCall
    <3>2. StaysInside(x.unit, x.kind)
      BY <1>2, <1>3, DepClosureClosed DEF Isolating, StaysInside
    <3> HIDE DEF x
    <3> QED BY <1>6, <2>1, <3>1, <3>2
  <2> QED BY <1>7, <2>2, <2>3 DEF begin
<1>8. CASE call_fails
  <2>1. jobs' = jobs /\ Calling /\ stack # <<>> /\ Top.calls # <<>> /\ NextCall # NoCall
        /\ NextCall.unit \notin case.loaded /\ result = "none"
    BY <1>8 DEF call_fails, Calling, Inv, TypeOK
  <2>2. phase # "isolate"
    <3>1. NextCall \in Waiting(stack)
      BY <1>2, <2>1, CallTaken, TakenCalls
    <3> QED BY <1>4, <2>1, <3>1
  <2>3. phase = "expand"
    BY <2>1, <2>2 DEF Inv
  <2>4. CASE UNCHANGED <<phase, result>>
    BY <1>4, <1>8, <2>1, <2>3, <2>4, FewerCalls
  <2>5. CASE answer("NotLoaded") /\ stack' = <<>>
    BY <1>4, <2>1, <2>5, EmptyStack DEF answer
  <2> QED BY <1>8, <2>4, <2>5 DEF call_fails
<1>9. CASE merge_job
  <2> DEFINE u == NextCall.unit
  <2>1. u \in DOMAIN jobs /\ jobs' = [jobs EXCEPT ![u] = merge_kinds(@, collapsed(u, NextCall.kind))]
        /\ UNCHANGED <<phase, result>>
    BY <1>9 DEF merge_job
  <2>2. /\ Waiting(stack') \subseteq Waiting(stack) /\ NextCall \in Waiting(stack)
        /\ \A x \in Waiting(stack) : x \in Waiting(stack') \/ x = NextCall
    BY <1>9, FewerCalls
  <2>3. DOMAIN jobs' = DOMAIN jobs /\ jobs'[u] = merge_kinds(jobs[u], collapsed(u, NextCall.kind))
        /\ \A v \in DOMAIN jobs : v # u => jobs'[v] = jobs[v]
    BY <2>1 DEF Inv, TypeOK
  <2>4. u \notin dep_closure => jobs'[u] \in {"Stop", "Reload"}
    <3> SUFFICES ASSUME u \notin dep_closure PROVE jobs'[u] \in {"Stop", "Reload"}
      OBVIOUS
    <3>1. NextCall.kind \in {"Stop", "Reload"} /\ jobs[u] \in {"Stop", "Reload"}
      BY <1>4, <2>1, <2>2 DEF StaysInside
    <3> QED BY <2>3, <3>1, MergeStops
  <2>5. phase = "isolate" /\ u \notin dep_closure => jobs'[u] = "Stop"
    <3> SUFFICES ASSUME phase = "isolate", u \notin dep_closure PROVE jobs'[u] = "Stop"
      OBVIOUS
    <3>1. NextCall.kind = "Stop" /\ jobs[u] \in {"Stop", "Reload"}
      BY <1>4, <2>1, <2>2
    <3> QED BY <2>3, <3>1, MergeStops
  <2>6. phase \in {"expand", "isolate"} /\ result = "none"
    BY <1>9 DEF merge_job, Calling, Inv, TypeOK
  <2>7. ASSUME phase' \in {"isolate", "sort"} \/ (result' = "ok" /\ refusal = "none"),
               NEW v \in Unit, to_stop(v)
        PROVE  \/ v \in DOMAIN jobs' /\ jobs'[v] = "Stop"
               \/ \E x \in Waiting(stack') : x.unit = v
    <3>1. phase = "isolate" /\ v \notin dep_closure
      BY <1>5, <2>1, <2>6, <2>7
    <3>2. CASE v = u
      BY <2>1, <2>3, <2>5, <3>1, <3>2
    <3>3. CASE v # u
      BY <1>4, <2>2, <2>3, <2>7, <3>1, <3>3
    <3> QED BY <3>2, <3>3
  <2> HIDE DEF u
  <2> QED BY <1>4, <2>1, <2>2, <2>3, <2>4, <2>7
<1>10. CASE add_job
  <2> DEFINE u == NextCall.unit
             kind == NextCall.kind
             t == expand(u, kind)
  <2>1. u \notin DOMAIN jobs /\ UNCHANGED <<phase, result>>
        /\ jobs' = [v \in DOMAIN jobs \cup {u} |-> IF v = u THEN collapsed(u, kind) ELSE jobs[v]]
    BY <1>10 DEF add_job
  <2>2. /\ NextCall \in Waiting(stack) /\ u \in Unit /\ kind \in JobType
        /\ \A x \in Waiting(stack) : x \in Waiting(stack') \/ x = NextCall
        /\ \A x \in Waiting(stack') : x \in Waiting(stack) \/ x \in Range(t) \ {NoCall}
    BY <1>10, AddedCalls
  <2>3. StaysInside(u, kind)
    BY <1>4, <2>2
  <2>4. \A x \in Range(t) \ {NoCall} :
          /\ StaysInside(x.unit, x.kind)
          /\ kind = "Stop" => x.kind = "Stop" /\ x.unit \in case.loaded
    BY <1>2, <2>2, <2>3, InsideCalls
  <2>5. phase \in {"expand", "isolate"} /\ result = "none"
    BY <1>10 DEF add_job, Calling, Inv, TypeOK
  <2> HIDE DEF t
  <2>6. DOMAIN jobs' = DOMAIN jobs \cup {u} /\ jobs'[u] = collapsed(u, kind)
        /\ \A v \in DOMAIN jobs : jobs'[v] = jobs[v]
    BY <2>1
  <2>7. u \notin dep_closure => jobs'[u] \in {"Stop", "Reload"}
    BY <2>3, <2>6, MergeStops DEF StaysInside
  <2>8. phase = "isolate" => kind = "Stop" /\ jobs'[u] = "Stop"
    BY <1>4, <2>2, <2>6, MergeStops
  <2>9. ASSUME phase' \in {"isolate", "sort"} \/ (result' = "ok" /\ refusal = "none"),
               NEW v \in Unit, to_stop(v)
        PROVE  \/ v \in DOMAIN jobs' /\ jobs'[v] = "Stop"
               \/ \E x \in Waiting(stack') : x.unit = v
    <3>1. phase = "isolate"
      BY <2>1, <2>5, <2>9
    <3>2. CASE v = u
      BY <2>6, <2>8, <3>1, <3>2
    <3>3. CASE v # u
      BY <1>4, <2>2, <2>6, <2>9, <3>1, <3>3
    <3> QED BY <3>2, <3>3
  <2> HIDE DEF u, kind
  <2>10. \A x \in Waiting(stack') : StaysInside(x.unit, x.kind)
    <3> SUFFICES ASSUME NEW x \in Waiting(stack') PROVE StaysInside(x.unit, x.kind)
      OBVIOUS
    <3>1. x \in Waiting(stack) \/ x \in Range(t) \ {NoCall}
      BY <2>2
    <3>2. CASE x \in Waiting(stack)
      BY <1>4, <3>2
    <3>3. CASE x \in Range(t) \ {NoCall}
      BY <2>4, <3>3
    <3> QED BY <3>1, <3>2, <3>3
  <2>11. \A v \in DOMAIN jobs' \ dep_closure : jobs'[v] \in {"Stop", "Reload"}
    BY <1>4, <2>6, <2>7
  <2>12. phase' = "isolate" => \A x \in Waiting(stack') : x.kind = "Stop" /\ x.unit \in case.loaded
    <3> SUFFICES ASSUME phase' = "isolate", NEW x \in Waiting(stack')
                 PROVE  x.kind = "Stop" /\ x.unit \in case.loaded
      OBVIOUS
    <3>1. x \in Waiting(stack) \/ x \in Range(t) \ {NoCall}
      BY <2>2
    <3>2. phase = "isolate" /\ kind = "Stop"
      BY <2>1, <2>8
    <3>3. CASE x \in Waiting(stack)
      BY <1>4, <3>2, <3>3
    <3>4. CASE x \in Range(t) \ {NoCall}
      BY <2>4, <3>2, <3>4
    <3> QED BY <3>1, <3>3, <3>4
  <2> QED BY <2>9, <2>10, <2>11, <2>12
<1>11. CASE pass_edge \/ return
  <2>1. UNCHANGED <<jobs, phase, result>> /\ Waiting(stack') = Waiting(stack)
    <3>1. UNCHANGED <<jobs, phase, result>>
      BY <1>11 DEF pass_edge, return
    <3>2. Waiting(stack') = Waiting(stack)
      BY <1>11, FewerCalls
    <3> QED BY <3>1, <3>2
  <2> QED BY <1>4, <2>1
<1>12. CASE add_isolate_stops
  <2>1. jobs' = jobs
    BY <1>12 DEF add_isolate_stops
  <2>2. /\ \A x \in Waiting(stack') : x.kind = "Stop" /\ x.unit \in case.loaded
        /\ \A u \in Unit : to_stop(u) => \E x \in Waiting(stack') : x.unit = u
    BY <1>12, IsolateCalls
  <2> QED BY <1>4, <2>1, <2>2 DEF StaysInside
<1>13. CASE apply_mode
  <2>1. /\ UNCHANGED <<stack, jobs>> /\ phase' # "isolate" /\ phase = "isolate"
        /\ (phase' = "sort" \/ result' = "WouldReplaceFail") /\ result' # "ok"
    BY <1>3, <1>13 DEF apply_mode, answer, Isolating, Inv, TypeOK
  <2> QED BY <1>4, <2>1
<1>14. CASE sort_jobs
  <2>1. UNCHANGED <<stack, jobs>> /\ phase' = "done" /\ phase = "sort"
    BY <1>14 DEF sort_jobs, answer
  <2> QED BY <1>4, <2>1
<1> QED BY <1>7, <1>8, <1>9, <1>10, <1>11, <1>12, <1>13, <1>14 DEF Next

-----------------------------------------------------------------------------
(* The jobs are those of the units that are reached                        *)

\* Requests whose jobs are all of one kind.
Plain ==
  /\ case.mode \notin {"Isolate", "IgnoreDependencies"}
  /\ case.kind \in {"Start", "Stop", "Reload"}
  /\ case.kind = "Start" => NoMissing /\ NoNegative

\* From which unit to which such a request goes on.
Following ==
  IF case.kind = "Stop" THEN StopsNext
  ELSE IF case.kind = "Reload" THEN ReloadsNext ELSE Pulls(Pulling)

Reached == Reach(case.root, Following)
Belongs(u, k) == u \in case.loaded /\ u \in Reached /\ k = case.kind

\* Every job, and every call, belongs to the request; and what a unit with a job
\* leads to has a job, or a call for it waits.
ClosureInv ==
  Plain =>
    /\ phase # "isolate"
    /\ \A x \in Waiting(stack) : Belongs(x.unit, x.kind)
    /\ \A u \in DOMAIN jobs : Belongs(u, jobs[u])
    /\ phase \in {"expand", "sort"} \/ result = "ok" =>
         \A v \in Unit :
           v = case.root \/ (\E q \in Following : q[1] \in DOMAIN jobs /\ q[2] = v) =>
             v \in DOMAIN jobs \/ \E x \in Waiting(stack) : x.unit = v

LEMMA FollowingPairs ==
  ASSUME TypeOK, GraphKnown
  PROVE  Following \subseteq Unit \X Unit
BY PullPairs DEF Following, StopsNext, ReloadsNext

LEMMA ReachedClosed ==
  ASSUME TypeOK, GraphKnown
  PROVE  /\ case.root \in Reached
         /\ \A q \in Following : q[1] \in Reached => q[2] \in Reached
         /\ \A T : case.root \in T /\ Closed(T, Following) => Reached \subseteq T
<1>1. case.root \in Unit /\ Following \subseteq Unit \X Unit
  BY CaseType, FollowingPairs
<1>2. Closed(Reached, Following)
  BY <1>1, ReachClosed DEF Reached
<1> QED BY <1>1, <1>2, ReachLeast DEF Reached, Closed

\* The calls of a job go where the request goes on.
LEMMA FollowingCalls ==
  ASSUME TypeOK, GraphKnown, Plain, NEW u \in Unit, u \in Reached
  PROVE  /\ \A x \in Range(expand(u, case.kind)) \ {NoCall} : Belongs(x.unit, x.kind)
         /\ \A q \in Following : q[1] = u =>
              \E x \in Range(expand(u, case.kind)) \ {NoCall} : x.unit = q[2]
<1>1. case.kind \in JobType /\ case.loaded \subseteq Unit
  BY CaseType
<1>2. ASSUME NEW x \in Range(expand(u, case.kind)), x # NoCall
      PROVE  x.kind = case.kind /\ x.unit \in case.loaded /\ <<u, x.unit>> \in Following
  <2>1. CASE case.kind = "Stop"
    BY <1>1, <1>2, <2>1, ExpandCalls DEF Following, Spreading
  <2>2. CASE case.kind = "Reload"
    BY <1>1, <1>2, <2>2, ExpandCalls DEF Following, Spreading
  <2>3. CASE case.kind = "Start"
    <3>1. PICK r \in edges(graph) :
            /\ r[1] = u /\ r[2] \in DOMAIN Pulled /\ (r[2] \in OnlyLoaded => r[3] \in case.loaded)
            /\ x.unit = r[3] /\ x.kind = Pulled[r[2]]
      BY <1>1, <1>2, <2>3, ExpandCalls
    <3>2. (r[2] \in HardPulls => r[3] \in case.loaded) /\ r[2] \notin {"Conflicts", "Requisite"}
      BY <2>3 DEF Plain, NoMissing, NoNegative
    <3>3. r[2] \in Pulling /\ r[3] \in case.loaded /\ Pulled[r[2]] = "Start"
      BY <3>1, <3>2 DEF Pulled, OnlyLoaded, HardPulls, Pulling
    <3>4. <<r[1], r[3]>> \in Pulls(Pulling)
      BY <3>3, PullPairs
    <3> QED BY <2>3, <3>1, <3>3, <3>4 DEF Following
  <2> QED BY <2>1, <2>2, <2>3 DEF Plain
<1>3. ASSUME NEW x \in Range(expand(u, case.kind)), x # NoCall
      PROVE  Belongs(x.unit, x.kind)
  <2> DEFINE q == <<u, x.unit>>
  <2>1. q \in Following /\ q[1] = u /\ q[2] = x.unit
    BY <1>2, <1>3
  <2> HIDE DEF q
  <2> QED BY <1>2, <1>3, <2>1, ReachedClosed DEF Belongs
<1>4. ASSUME NEW q \in Following, q[1] = u
      PROVE  \E x \in Range(expand(u, case.kind)) \ {NoCall} : x.unit = q[2]
  <2>1. q[2] \in Unit
    BY FollowingPairs
  <2>2. CASE case.kind = "Stop"
    <3>1. expand(u, case.kind) = expand_stop(u)
      BY <2>2 DEF expand, Plain
    <3>2. call(q[2], "Stop", TRUE) \in Range(expand_stop(u))
      BY <1>4, <2>2, StopCalls DEF Following
    <3>3. call(q[2], "Stop", TRUE).unit = q[2] /\ call(q[2], "Stop", TRUE) # NoCall
      <4>1. NoCall.unit = None /\ q[2] # None
        BY <2>1, CasesAssumption DEF NoCall, call
      <4> QED BY <4>1 DEF call
    <3> QED BY <3>1, <3>2, <3>3
  <2>3. CASE case.kind = "Reload"
    <3>1. expand(u, case.kind) = expand_reload(u)
      BY <2>3 DEF expand, Plain
    <3>2. call(q[2], "Reload", TRUE) \in Range(expand_reload(u))
      BY <1>4, <2>3, ReloadCalls DEF Following
    <3>3. call(q[2], "Reload", TRUE).unit = q[2] /\ call(q[2], "Reload", TRUE) # NoCall
      <4>1. NoCall.unit = None /\ q[2] # None
        BY <2>1, CasesAssumption DEF NoCall, call
      <4> QED BY <4>1 DEF call
    <3> QED BY <3>1, <3>2, <3>3
  <2>4. CASE case.kind = "Start"
    <3>1. expand(u, case.kind) = expand_start(u)
      BY <2>4 DEF expand, Plain
    <3>2. q \in Pulls(Pulling)
      BY <1>4, <2>4 DEF Following
    <3>3. PICK r \in edges(graph) : r[2] \in Pulling /\ r[3] \in case.loaded /\ q[1] = r[1] /\ q[2] = r[3]
      BY <3>2, PullPairs
    <3>4. call(r[3], Pulled[r[2]], r[2] \in Soft) \in Range(expand_start(u))
      <4>1. r[2] \in DOMAIN Pulled
        BY <3>3 DEF Pulling, Pulled
      <4> QED BY <1>4, <3>3, <4>1, StartCalls
    <3>5. call(r[3], Pulled[r[2]], r[2] \in Soft).unit = r[3]
          /\ call(r[3], Pulled[r[2]], r[2] \in Soft) # NoCall
      <4>1. NoCall.unit = None /\ r[3] # None
        BY <2>1, <3>3, CasesAssumption DEF NoCall, call
      <4> QED BY <4>1 DEF call
    <3> QED BY <3>1, <3>3, <3>4, <3>5
  <2> QED BY <2>2, <2>3, <2>4 DEF Plain
<1> QED BY <1>3, <1>4

LEMMA ClosureStep ==
  ASSUME Inv, Known, ClosureInv, Next
  PROVE  ClosureInv'
<1>1. case' = case /\ graph' = graph
  BY Unchanged
<1>2. GraphKnown /\ TypeOK
  BY KnownGraph DEF Inv
<1>0. Plain => phase # "isolate" /\ phase' # "isolate"
  BY DEF ClosureInv, Plain, Next, begin, call_fails, merge_job, add_job, pass_edge, return,
     add_isolate_stops, apply_mode, sort_jobs, answer
<1> DEFINE Led(v, D) == v = case.root \/ \E q \in Following : q[1] \in D /\ q[2] = v
<1>3. SUFFICES ASSUME Plain
      PROVE  /\ \A x \in Waiting(stack') : Belongs(x.unit, x.kind)
             /\ \A u \in DOMAIN jobs' : Belongs(u, jobs'[u])
             /\ phase' \in {"expand", "sort"} \/ result' = "ok" =>
                  \A v \in Unit : Led(v, DOMAIN jobs') =>
                    v \in DOMAIN jobs' \/ \E x \in Waiting(stack') : x.unit = v
  <2>1. Following' = Following /\ (Plain' <=> Plain)
    BY <1>1 DEF Following, StopsNext, ReloadsNext, Pulls, PulledBack, Plain, NoMissing, NoNegative
  <2>2. Reached' = Reached
    BY <1>1, <2>1 DEF Reached
  <2>3. \A u, k : Belongs(u, k)' <=> Belongs(u, k)
    BY <1>1, <2>2 DEF Belongs
  <2> QED BY <1>1, <1>0, <2>1, <2>3 DEF ClosureInv
<1>4. /\ \A x \in Waiting(stack) : Belongs(x.unit, x.kind)
      /\ \A u \in DOMAIN jobs : Belongs(u, jobs[u])
      /\ phase \in {"expand", "sort"} \/ result = "ok" =>
           \A v \in Unit : Led(v, DOMAIN jobs) =>
             v \in DOMAIN jobs \/ \E x \in Waiting(stack) : x.unit = v
  BY <1>3 DEF ClosureInv
<1>5. case.kind \in {"Start", "Stop", "Reload"} /\ case.mode # "Isolate"
  BY <1>3 DEF Plain
<1>6. CASE begin
  <2>1. jobs' = jobs /\ phase = "begin" /\ DOMAIN jobs = {}
    BY <1>6 DEF begin, answer, Inv
  <2>2. CASE refusal # "none" /\ answer(refusal) /\ UNCHANGED stack
    <3>1. result' # "ok" /\ phase' = "done"
      BY <1>5, <2>2 DEF refusal, answer
    <3> QED BY <1>4, <2>1, <2>2, <3>1
  <2>3. CASE refusal = "none" /\ stack' = <<frame(<<call(case.root, case.kind, FALSE)>>, FALSE)>>
    <3> DEFINE x == [unit |-> case.root, kind |-> case.kind, soft |-> FALSE]
    <3>1. Waiting(stack') = {x}
      BY <1>2, <2>3, RootCall
    <3>2. case.root \in case.loaded
      BY <2>3 DEF refusal
    <3>3. x.unit = case.root /\ x.kind = case.kind
      OBVIOUS
    <3> HIDE DEF x
    <3>4. Belongs(x.unit, x.kind)
      BY <1>2, <3>2, <3>3, ReachedClosed DEF Belongs
    <3> QED BY <2>1, <3>1, <3>3, <3>4
  <2> QED BY <1>6, <2>2, <2>3 DEF begin
<1>7. ~call_fails
  <2> SUFFICES ASSUME call_fails PROVE FALSE
    OBVIOUS
  <2>1. stack # <<>> /\ Top.calls # <<>> /\ NextCall # NoCall /\ NextCall.unit \notin case.loaded
    BY DEF call_fails, Calling
  <2>2. NextCall \in Waiting(stack)
    BY <1>2, <2>1, CallTaken, TakenCalls
  <2> QED BY <1>4, <2>1, <2>2 DEF Belongs
<1>8. CASE merge_job
  <2> DEFINE u == NextCall.unit
  <2>1. u \in DOMAIN jobs /\ jobs' = [jobs EXCEPT ![u] = merge_kinds(@, collapsed(u, NextCall.kind))]
        /\ UNCHANGED <<phase, result>>
    BY <1>8 DEF merge_job
  <2>2. /\ Waiting(stack') \subseteq Waiting(stack) /\ NextCall \in Waiting(stack)
        /\ \A x \in Waiting(stack) : x \in Waiting(stack') \/ x = NextCall
    BY <1>8, FewerCalls
  <2>3. NextCall.kind = case.kind /\ jobs[u] = case.kind
    BY <1>4, <2>1, <2>2 DEF Belongs
  <2>4. jobs' = jobs
    <3>1. merge_kinds(jobs[u], collapsed(u, NextCall.kind)) = jobs[u]
      BY <1>5, <2>3, MergeStops
    <3> QED BY <2>1, <3>1 DEF Inv, TypeOK
  <2> HIDE DEF u
  <2>5. \A v \in Unit : \A x \in Waiting(stack) : x.unit = v =>
          v \in DOMAIN jobs \/ \E y \in Waiting(stack') : y.unit = v
    BY <2>1, <2>2 DEF u
  <2> HIDE DEF Led
  <2> QED BY <1>4, <2>1, <2>2, <2>4, <2>5
<1>9. CASE add_job
  <2> DEFINE u == NextCall.unit
             t == expand(u, NextCall.kind)
  <2>1. u \notin DOMAIN jobs /\ UNCHANGED <<phase, result>>
        /\ jobs' = [v \in DOMAIN jobs \cup {u} |-> IF v = u THEN collapsed(u, NextCall.kind) ELSE jobs[v]]
    BY <1>9 DEF add_job
  <2>2. /\ NextCall \in Waiting(stack) /\ u \in Unit
        /\ \A x \in Waiting(stack) : x \in Waiting(stack') \/ x = NextCall
        /\ \A x \in Waiting(stack') : x \in Waiting(stack) \/ x \in Range(t) \ {NoCall}
        /\ \A x \in Range(t) \ {NoCall} : x \in Waiting(stack')
    BY <1>9, AddedCalls
  <2>3. NextCall.kind = case.kind /\ u \in Reached /\ u \in case.loaded
    BY <1>4, <2>2 DEF Belongs
  <2>4. /\ \A x \in Range(t) \ {NoCall} : Belongs(x.unit, x.kind)
        /\ \A q \in Following : q[1] = u => \E x \in Range(t) \ {NoCall} : x.unit = q[2]
    BY <1>2, <1>3, <2>2, <2>3, FollowingCalls
  <2> HIDE DEF t
  <2>5. DOMAIN jobs' = DOMAIN jobs \cup {u} /\ jobs'[u] = case.kind
        /\ \A v \in DOMAIN jobs : jobs'[v] = jobs[v]
    BY <1>5, <2>1, <2>3, MergeStops
  <2> HIDE DEF u
  <2>6. \A x \in Waiting(stack') : Belongs(x.unit, x.kind)
    <3> SUFFICES ASSUME NEW x \in Waiting(stack') PROVE Belongs(x.unit, x.kind)
      OBVIOUS
    <3>1. x \in Waiting(stack) \/ x \in Range(t) \ {NoCall}
      BY <2>2
    <3> QED BY <1>4, <2>4, <3>1
  <2>7. \A v \in DOMAIN jobs' : Belongs(v, jobs'[v])
    BY <1>4, <2>3, <2>5 DEF Belongs
  <2>8. ASSUME phase' \in {"expand", "sort"} \/ result' = "ok", NEW v \in Unit, Led(v, DOMAIN jobs')
        PROVE  v \in DOMAIN jobs' \/ \E x \in Waiting(stack') : x.unit = v
    <3>1. CASE Led(v, DOMAIN jobs)
      <4>1. v \in DOMAIN jobs \/ \E x \in Waiting(stack) : x.unit = v
        BY <1>4, <2>1, <2>8, <3>1
      <4> QED BY <2>2, <2>5, <4>1 DEF u
    <3>2. CASE \E q \in Following : q[1] = u /\ q[2] = v
      <4>1. \E x \in Range(t) \ {NoCall} : x.unit = v
        BY <2>4, <3>2
      <4> QED BY <2>2, <4>1
    <3> QED BY <2>5, <2>8, <3>1, <3>2
  <2> HIDE DEF Led
  <2> QED BY <2>6, <2>7, <2>8
<1>10. CASE pass_edge \/ return
  <2>1. UNCHANGED <<jobs, phase, result>> /\ Waiting(stack') = Waiting(stack)
    <3>1. UNCHANGED <<jobs, phase, result>>
      BY <1>10 DEF pass_edge, return
    <3>2. Waiting(stack') = Waiting(stack)
      BY <1>10, FewerCalls
    <3> QED BY <3>1, <3>2
  <2> QED BY <1>4, <2>1
<1>11. ~add_isolate_stops
  BY <1>5 DEF add_isolate_stops
<1>12. CASE apply_mode
  <2>1. UNCHANGED <<stack, jobs>> /\ phase = "expand"
    BY <1>3, <1>12, <1>0 DEF apply_mode
  <2> QED BY <1>4, <2>1
<1>13. CASE sort_jobs
  <2>1. UNCHANGED <<stack, jobs>> /\ phase' = "done" /\ phase = "sort"
    BY <1>13 DEF sort_jobs, answer
  <2> QED BY <1>4, <2>1
<1> QED BY <1>6, <1>7, <1>8, <1>9, <1>10, <1>11, <1>12, <1>13 DEF Next

-----------------------------------------------------------------------------
(* What the answer says                                                    *)

AnswerInv == Inv /\ Known /\ FailureInv /\ StopsInv /\ ClosureInv

LEMMA AnswerInit == Init => AnswerInv
<1> SUFFICES ASSUME Init PROVE AnswerInv
  OBVIOUS
<1>1. /\ case \in Cases /\ graph = graph_of(case) /\ phase = "begin" /\ stack = <<>>
      /\ jobs = <<>> /\ result = "none"
  BY DEF Init
<1>2. Waiting(stack) = {} /\ DOMAIN jobs = {}
  BY <1>1, EmptyStack
<1>3. Known
  BY <1>1 DEF Known
<1>4. StopsInv
  BY <1>1, <1>2 DEF StopsInv
<1>5. ClosureInv
  BY <1>1, <1>2 DEF ClosureInv
<1> QED BY <1>3, <1>4, <1>5, InitInv, FailureInit DEF AnswerInv

LEMMA AnswerStep == AnswerInv /\ [Next]_vars => AnswerInv'
<1> SUFFICES ASSUME AnswerInv, [Next]_vars PROVE AnswerInv'
  OBVIOUS
<1>1. Inv /\ Known /\ FailureInv /\ StopsInv /\ ClosureInv
  BY DEF AnswerInv
<1>2. Inv'
  BY <1>1, StepInv
<1>3. CASE Next
  <2>1. Known'
    BY <1>1, <1>3, Unchanged DEF Known, graph_of
  <2> QED BY <1>1, <1>2, <1>3, <2>1, FailureStep, StopsStep, ClosureStep DEF AnswerInv
<1>4. CASE UNCHANGED vars
  <2>1. /\ case' = case /\ graph' = graph /\ phase' = phase /\ stack' = stack /\ jobs' = jobs
        /\ result' = result /\ cancel' = cancel
    BY <1>4 DEF vars
  <2>2. Known'
    BY <1>1, <2>1 DEF Known, graph_of
  <2>3. FailureInv'
    BY <1>1, <2>1 DEF FailureInv, Needed, MissesHard, HardReach, Pulls
  <2>4. dep_closure' = dep_closure
    BY <2>1 DEF dep_closure
  <2>5. StopsInv'
    BY <1>1, <2>1, <2>4 DEF StopsInv, Isolating, StaysInside, to_stop, refusal
  <2>6. Following' = Following /\ (Plain' <=> Plain)
    BY <2>1 DEF Following, StopsNext, ReloadsNext, Pulls, PulledBack, Plain, NoMissing, NoNegative
  <2>7. Reached' = Reached
    BY <2>1, <2>6 DEF Reached
  <2>8. ClosureInv'
    BY <1>1, <2>1, <2>6, <2>7 DEF ClosureInv, Belongs
  <2> QED BY <1>2, <2>2, <2>3, <2>5, <2>8 DEF AnswerInv
<1> QED BY <1>3, <1>4

LEMMA AnswerFailures == AnswerInv => FailsOnlyForHard
BY DEF AnswerInv, FailureInv, FailsOnlyForHard

\* An answer is there only when no call waits.
LEMMA NothingWaits ==
  ASSUME AnswerInv, result = "ok"
  PROVE  TypeOK /\ GraphKnown /\ case.active \subseteq Unit /\ Waiting(stack) = {}
<1>1. TypeOK /\ stack = <<>>
  BY DEF AnswerInv, Inv, TypeOK
<1>2. GraphKnown /\ case.active \subseteq case.loaded
  BY KnownGraph DEF AnswerInv
<1> QED BY <1>1, <1>2, EmptyStack, CaseType

LEMMA AnswerStops == AnswerInv => IsolateStops
<1> SUFFICES ASSUME AnswerInv, result = "ok", case.mode = "Isolate", refusal = "none",
                    case.kind \notin {"Restart", "TryRestart"},
                    NEW u \in case.active, u \notin dep_closure \cup case.spared
             PROVE  u \in DOMAIN jobs /\ jobs[u] = "Stop"
  BY DEF IsolateStops
<1>1. u \in Unit /\ Waiting(stack) = {} /\ GraphKnown
  BY NothingWaits
<1>2. to_stop(u)
  BY <1>1 DEF to_stop, GraphKnown, GraphOf
<1> QED BY <1>1, <1>2 DEF AnswerInv, StopsInv, Isolating

LEMMA AnswerClosure == AnswerInv => JobsAreClosure
<1> SUFFICES ASSUME AnswerInv, result = "ok", Plain
             PROVE  jobs = [u \in Reached |-> case.kind]
  <2>1. Plain /\ case.kind = "Stop" =>
          Reached = Reach(case.root, PulledBack({"BindsTo", "PartOf"}) \cup Pulls({"PropagatesStopTo"}))
    BY DEF Reached, Following, StopsNext
  <2>2. Plain /\ case.kind = "Reload" => Reached = Reach(case.root, Pulls({"PropagatesReloadTo"}))
    BY DEF Reached, Following, ReloadsNext
  <2>3. Plain /\ case.kind = "Start" => Reached = Reach(case.root, Pulls(Pulling))
    BY DEF Reached, Following
  <2> QED BY <2>1, <2>2, <2>3 DEF JobsAreClosure, Plain
<1> DEFINE T == DOMAIN jobs
<1>1. TypeOK /\ GraphKnown /\ Waiting(stack) = {}
  BY NothingWaits
<1>2. jobs \in [T -> JobType]
  BY <1>1 DEF TypeOK
<1>3. /\ \A u \in T : u \in Reached /\ jobs[u] = case.kind
      /\ \A v \in Unit : v = case.root \/ (\E q \in Following : q[1] \in T /\ q[2] = v) => v \in T
  BY <1>1 DEF AnswerInv, ClosureInv, Belongs
<1>4. case.root \in Unit /\ \A q \in Following : q[2] \in Unit
  BY <1>1, CaseType, FollowingPairs
<1> HIDE DEF T
<1>5. case.root \in T /\ \A q \in Following : q[1] \in T => q[2] \in T
  BY <1>3, <1>4
<1>6. Reached \subseteq T
  BY <1>1, <1>5, ReachedClosed DEF Closed
<1>7. T = Reached
  BY <1>3, <1>6
<1> QED BY <1>2, <1>3, <1>7

-----------------------------------------------------------------------------
(* Theorems                                                                *)

THEOREM Invariant == Spec => []Inv
  BY InitInv, StepInv, PTL DEF Spec

\* Every job is well typed and its unit is loaded (transaction.rs:207-225).
THEOREM TypeCorrect == Spec => []TypeOK
<1>1. Inv => TypeOK
  BY DEF Inv
<1> QED
  BY <1>1, Invariant, PTL

\* The recursion is never deeper than there are units with jobs, whatever cycles
\* the dependencies have (transaction.rs:222-225).
THEOREM DepthBounded == Spec => []RecursionBounded
<1>1. Inv => RecursionBounded
  BY DEF Inv
<1> QED
  BY <1>1, Invariant, PTL

\* No job is dropped during the expansion, and a restart stays a restart
\* (transaction.rs:469-489).
THEOREM RestartKept == Spec => RestartStays
<1> DEFINE Stays == \A u \in DOMAIN jobs :
                      u \in DOMAIN jobs' /\ (jobs[u] = "Restart" => jobs'[u] = "Restart")
<1>1. Inv /\ [Next]_vars => [Stays]_vars
  <2> SUFFICES ASSUME Inv, Next PROVE Stays
    OBVIOUS
  <2>1. CASE jobs' = jobs
    BY <2>1
  <2>2. CASE merge_job
    <3> DEFINE u == NextCall.unit
    <3>1. stack # <<>> /\ Top.calls # <<>> /\ NextCall # NoCall /\ u \in DOMAIN jobs
          /\ jobs' = [jobs EXCEPT ![u] = merge_kinds(@, collapsed(u, NextCall.kind))]
      BY <2>2 DEF merge_job, Calling
    <3>2. NextCall.kind \in JobType
      BY <3>1, CallTaken DEF Inv, Call
    <3>3. collapsed(u, NextCall.kind) \in JobType
      BY <3>2, CollapsedType
    <3>4. jobs[u] = "Restart" => jobs'[u] = "Restart"
      BY <3>1, <3>3, MergeRestart DEF Inv, TypeOK
    <3> QED
      BY <3>1, <3>4 DEF Inv, TypeOK
  <2>3. CASE add_job
    BY <2>3 DEF add_job
  <2> QED
    BY <2>1, <2>2, <2>3 DEF Next, begin, call_fails, pass_edge, return, add_isolate_stops,
         apply_mode, sort_jobs
<1> QED
  BY <1>1, Invariant, PTL DEF Spec, RestartStays

THEOREM Answers == Spec => []AnswerInv
  BY AnswerInit, AnswerStep, PTL DEF Spec

\* A request that fails for a unit that is not loaded needs that unit: no error
\* gets past Wants= or Upholds= (transaction.rs:268-286).
THEOREM FailuresAreNeeded == Spec => []FailsOnlyForHard
  BY AnswerFailures, Answers, PTL

\* Isolate leaves no active unit running that is outside dep_closure, as the code
\* computes it, and has not opted out (transaction.rs:366-418).
THEOREM IsolateIsComplete == Spec => []IsolateStops
  BY AnswerStops, Answers, PTL

\* The recursion adds the jobs of the units that the root leads to, all of them
\* and no others, whatever cycles there are (transaction.rs:207-298).
THEOREM JobsAreThoseReached == Spec => []JobsAreClosure
  BY AnswerClosure, Answers, PTL
=============================================================================
