------------------------------ MODULE DepGraph ------------------------------
(***************************************************************************)
(* The dependency graph that DepGraph::build makes of the loaded unit files *)
(* (systeml-deps, graph.rs).                                                *)
(*                                                                         *)
(* A line of a unit file is <<unit, directive, target>>.  The code reads    *)
(* the units, and for each directive its targets, in the order of its       *)
(* IndexMaps; here that order is the one of Names.                          *)
(***************************************************************************)
EXTENDS Ordering, SequencesExt

CONSTANT Names       \* all unit names, each once, in the order they are read

Unit == Range(Names)

\* The order in which add_unit_edges, add_install_reverse_edges and
\* add_implicit_edges read a unit.
Dependencies ==
  <<"Wants", "Requires", "Requisite", "BindsTo", "PartOf", "Upholds", "Conflicts",
    "OnFailure", "OnSuccess", "PropagatesReloadTo", "PropagatesStopTo", "After", "Before">>
Installs == <<"WantedBy", "RequiredBy", "UpheldBy">>
\* Unit= of a timer or a path, Service= of a socket.
Directives == Dependencies \o Installs \o <<"Unit">>

DepEdge == Range(Dependencies)

Graph ==
  [forward : [Unit -> Seq(DepEdge \X Unit)], reverse : [Unit -> Seq(DepEdge \X Unit)],
   nodes : Seq(Unit), ignore_on_isolate : SUBSET Unit]

\* [Install] WantedBy=foo of bar is the edge "foo Wants bar".
InstallEdge == [WantedBy |-> "Wants", RequiredBy |-> "Requires", UpheldBy |-> "Upholds"]

\* All lines that unit files may have, in the order in which they are read: by
\* unit, then by directive, then by target.
Lines ==
  LET n == Len(Names)
      d == Len(Directives)
  IN [i \in 1 .. n * d * n |->
        <<Names[((i - 1) \div (d * n)) + 1], Directives[(((i - 1) \div n) % d) + 1],
          Names[((i - 1) % n) + 1]>>]

\* A list keeps the first of two equal entries.
push(list, x) == IF Contains(list, x) THEN list ELSE Append(list, x)

\* Both ends become nodes; the edge enters both adjacency lists once.
add_edge(g, e) ==
  [g EXCEPT !.forward[e[1]] = push(@, <<e[2], e[3]>>),
            !.reverse[e[3]] = push(@, <<e[2], e[1]>>),
            !.nodes = push(push(@, e[1]), e[3])]

\* The edges of one line.  DefaultDependencies=no turns [Install] off.
add_line(plain, g, l) ==
  CASE l[2] \in DOMAIN InstallEdge ->
         IF l[1] \in plain THEN g ELSE add_edge(g, <<l[3], InstallEdge[l[2]], l[1]>>)
    [] l[2] = "Unit" ->
         add_edge(add_edge(g, <<l[1], "Wants", l[3]>>), <<l[1], "Before", l[3]>>)
    [] OTHER -> add_edge(g, l)

\* DepGraph::build: the loaded units are nodes, and their lines are read in order.
build(loaded, lines, plain, spared) ==
  LET listed[n \in 0 .. Len(Names)] ==
        IF n = 0 THEN <<>>
        ELSE IF Names[n] \in loaded THEN Append(listed[n - 1], Names[n]) ELSE listed[n - 1]
      seeded == [forward |-> [u \in Unit |-> <<>>], reverse |-> [u \in Unit |-> <<>>],
                 nodes |-> listed[Len(Names)], ignore_on_isolate |-> spared \cap loaded]
      read[n \in 0 .. Len(Lines)] ==
        IF n = 0 THEN seeded
        ELSE IF Lines[n] \in lines THEN add_line(plain, read[n - 1], Lines[n]) ELSE read[n - 1]
  IN read[Len(Lines)]

\* The edges of a graph, as a set.
edges(g) == UNION {{<<u, e[1], e[2]>> : e \in Range(g.forward[u])} : u \in Unit}

\* What is reached from `start` over a relation between units.
Reach(start, R) ==
  LET reach[n \in 0 .. Cardinality(Unit)] ==
        IF n = 0 THEN {start}
        ELSE LET S == reach[n - 1] IN S \cup {r[2] : r \in {x \in R : x[1] \in S}}
  IN reach[Cardinality(Unit)]

=============================================================================
