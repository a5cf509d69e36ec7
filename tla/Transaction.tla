---------------------------- MODULE Transaction ----------------------------
(***************************************************************************)
(* Transaction::build (systeml-deps, transaction.rs): the jobs that one     *)
(* request entails.                                                         *)
(*                                                                         *)
(* add_job_and_deps and the expand_* functions call each other recursively; *)
(* here the recursion is a stack of frames, each with the calls that its    *)
(* function has still to make.  One step is one call or one return.         *)
(***************************************************************************)
EXTENDS DepGraph

CONSTANTS
  Cases,       \* the requests to answer, each with the manager it meets
  None         \* no unit

JobType == {"Start", "Stop", "Restart", "TryRestart", "Reload", "ReloadOrStart",
            "VerifyActive", "Nop"}
JobMode == {"Fail", "Replace", "ReplaceIrreversibly", "Isolate", "Flush",
            "IgnoreDependencies", "IgnoreRequirements"}
ExistingJob == [unit : Unit, kind : JobType]

\* The unit files, what the manager knows of the units, and the request.
Case ==
  [lines : SUBSET (Unit \X Range(Directives) \X Unit), plain : SUBSET Unit,
   spared : SUBSET Unit, loaded : SUBSET Unit, active : SUBSET Unit,
   allow_isolate : SUBSET Unit, existing : SUBSET ExistingJob,
   root : Unit, kind : JobType, mode : JobMode]

ASSUME CasesAssumption ==
  /\ Names \in Seq(Unit) /\ IsInjective(Names) /\ IsFiniteSet(Unit) /\ None \notin Unit
  /\ Cases \subseteq Case
  /\ \A c \in Cases : c.active \subseteq c.loaded /\ \A l \in c.lines : l[1] \in c.loaded

graph_of(c) == build(c.loaded, c.lines, c.plain, c.spared)

VARIABLES
  case,      \* the request, one of Cases
  graph,     \* the dependency graph of its unit files
  phase,     \* where build is
  stack,     \* what the recursion has still to do
  jobs,      \* the job of each unit that has one
  names,     \* these units in the order of their first job
  result,    \* "ok", or the error
  cancel,    \* existing jobs to cancel
  order      \* the order of the jobs

vars == <<case, graph, phase, stack, jobs, names, result, cancel, order>>

-----------------------------------------------------------------------------
(* The tables of the code                                                  *)

results_in_active(kind) ==
  kind \in {"Start", "Restart", "ReloadOrStart", "Reload", "VerifyActive"}

\* Mutant: the later request wins.
merge_later(a, b) == IF b = "Nop" THEN a ELSE b
\* The job of a unit that is asked for twice.
merge_kinds(a, b) ==
  CASE b = "Nop" -> a
    [] a = "Nop" -> b
    [] a = b -> a
    [] {a, b} = {"Start", "Stop"} \/ "Restart" \in {a, b} -> "Restart"
    [] {a, b} = {"Start", "Reload"} -> "ReloadOrStart"
    [] a = "VerifyActive" /\ results_in_active(b) -> b
    [] b = "VerifyActive" /\ results_in_active(a) -> a
    [] \/ a = "TryRestart" /\ results_in_active(b)
       \/ b = "TryRestart" /\ results_in_active(a) -> "Restart"
    [] OTHER -> b

\* What starting a unit asks of its targets; a soft call's error is swallowed.
Pulled == [Requires |-> "Start", BindsTo |-> "Start", Wants |-> "Start", Upholds |-> "Start",
           Requisite |-> "VerifyActive", Conflicts |-> "Stop"]
\* Mutant: an error below Wants= is passed on.
Soft_upholds == {"Upholds"}
Soft == {"Wants", "Upholds"}
OnlyLoaded == {"Wants", "Upholds", "Conflicts"}

call(u, kind, soft) == [unit |-> u, kind |-> kind, soft |-> soft]
\* An edge that the loop over the edges passes by.
NoCall == [unit |-> None, kind |-> "Nop", soft |-> TRUE]

\* Soft calls for one kind of job to the loaded ends of some edges.
calls_to(list, dep_edges, kind) ==
  [i \in DOMAIN list |->
     IF list[i][1] \in dep_edges /\ list[i][2] \in case.loaded THEN call(list[i][2], kind, TRUE)
     ELSE NoCall]

expand_start(u) ==
  LET list == graph.forward[u]
  IN [i \in DOMAIN list |->
        IF list[i][1] \in DOMAIN Pulled /\ (list[i][1] \in OnlyLoaded => list[i][2] \in case.loaded)
        THEN call(list[i][2], Pulled[list[i][1]], list[i][1] \in Soft)
        ELSE NoCall]

\* Mutant: PartOf= is forgotten.
expand_stop_bound(u) ==
  calls_to(graph.reverse[u], {"BindsTo"}, "Stop")
    \o calls_to(graph.forward[u], {"PropagatesStopTo"}, "Stop")
expand_stop(u) ==
  calls_to(graph.reverse[u], {"BindsTo", "PartOf"}, "Stop")
    \o calls_to(graph.forward[u], {"PropagatesStopTo"}, "Stop")

expand_stop_propagation(u) == calls_to(graph.reverse[u], {"PartOf"}, "TryRestart")

expand_reload(u) == calls_to(graph.forward[u], {"PropagatesReloadTo"}, "Reload")

\* The calls that add_job_and_deps makes for a unit's first job.
expand(u, kind) ==
  IF case.mode = "IgnoreDependencies" THEN <<>>
  ELSE CASE kind \in {"Start", "ReloadOrStart"} -> expand_start(u)
         [] kind = "Restart" \/ (kind = "TryRestart" /\ u \in case.active) ->
              expand_start(u) \o expand_stop_propagation(u)
         [] kind = "Stop" -> expand_stop(u)
         [] kind = "Reload" -> expand_reload(u)
         [] OTHER -> <<>>

\* What Isolate does not stop.
dep_closure ==
  Reach(case.root, {<<e[1], e[3]>> : e \in {x \in edges(graph) :
    x[2] \in {"Wants", "Requires", "BindsTo", "Upholds", "Requisite", "PartOf", "After", "Before"}}})

-----------------------------------------------------------------------------
(* Steps                                                                   *)

\* A frame: the calls left, and whether its caller swallows its error.
frame(calls, soft) == [calls |-> calls, soft |-> soft]

answer(r) == result' = r /\ phase' = "done"

Init ==
  /\ case \in Cases
  /\ graph = graph_of(case)
  /\ phase = "begin"
  /\ stack = <<>>
  /\ jobs = <<>>
  /\ names = <<>>
  /\ result = "none"
  /\ cancel = {}
  /\ order = <<>>

\* The checks before the expansion.
refusal ==
  IF case.kind = "VerifyActive" /\ case.root \in case.active THEN "ok"
  ELSE IF case.root \notin case.loaded THEN "NotLoaded"
  ELSE IF case.mode = "Isolate" /\ case.root \notin case.allow_isolate THEN "IsolateNotAllowed"
  ELSE "none"

begin ==
  /\ phase = "begin"
  /\ \/ refusal # "none" /\ answer(refusal) /\ UNCHANGED stack
     \/ /\ refusal = "none"
        /\ stack' = <<frame(<<call(case.root, case.kind, FALSE)>>, FALSE)>>
        /\ phase' = "expand"
        /\ UNCHANGED result
  /\ UNCHANGED <<case, graph, jobs, names, cancel, order>>

Top == stack[Len(stack)]
Below == SubSeq(stack, 1, Len(stack) - 1)
NextCall == Head(Top.calls)
Calling == stack # <<>> /\ Top.calls # <<>> /\ NextCall # NoCall
\* The stack once the next call has been taken.
Taken == Append(Below, [Top EXCEPT !.calls = Tail(@)])

\* TryRestart of an inactive unit is no job, but keeps its place in the order.
collapsed(u, kind) == IF kind = "TryRestart" /\ u \notin case.active THEN "Nop" ELSE kind

\* add_job_and_deps on a unit that is not loaded: the error goes up through the
\* functions that pass it on with `?`, to the first that swallows it.
call_fails ==
  /\ Calling
  /\ NextCall.unit \notin case.loaded
  /\ \/ /\ \A i \in DOMAIN stack : ~stack[i].soft
        /\ answer("NotLoaded")
        /\ stack' = <<>>
     \/ \E i \in DOMAIN stack :
          /\ stack[i].soft
          /\ \A k \in i + 1 .. Len(stack) : ~stack[k].soft
          /\ stack' = SubSeq(stack, 1, i - 1)
          /\ UNCHANGED <<phase, result>>
  /\ UNCHANGED <<case, graph, jobs, names, cancel, order>>

\* Mutant: a unit is expanded each time it is asked for.
merge_job_expanding ==
  /\ Calling
  /\ LET u == NextCall.unit
     IN /\ u \in DOMAIN jobs
        /\ jobs' = [jobs EXCEPT ![u] = merge_kinds(@, collapsed(u, NextCall.kind))]
        /\ stack' = Append(Taken, frame(expand(u, NextCall.kind), NextCall.soft))
  /\ UNCHANGED <<case, graph, phase, names, result, cancel, order>>
\* insert_job merges with the unit's job; nothing is expanded again.
merge_job ==
  /\ Calling
  /\ LET u == NextCall.unit
     IN /\ u \in case.loaded
        /\ u \in DOMAIN jobs
        /\ jobs' = [jobs EXCEPT ![u] = merge_kinds(@, collapsed(u, NextCall.kind))]
  /\ stack' = Taken
  /\ UNCHANGED <<case, graph, phase, names, result, cancel, order>>

\* insert_job on a unit without a job, then its dependencies.
add_job ==
  /\ Calling
  /\ LET u == NextCall.unit
         kind == NextCall.kind
     IN /\ u \in case.loaded
        /\ u \notin DOMAIN jobs
        /\ jobs' = [v \in DOMAIN jobs \cup {u} |-> IF v = u THEN collapsed(u, kind) ELSE jobs[v]]
        /\ names' = Append(names, u)
        /\ stack' = Append(Taken, frame(expand(u, kind), NextCall.soft))
  /\ UNCHANGED <<case, graph, phase, result, cancel, order>>

\* The loop passes an edge by.
pass_edge ==
  /\ stack # <<>>
  /\ Top.calls # <<>>
  /\ NextCall = NoCall
  /\ stack' = Taken
  /\ UNCHANGED <<case, graph, phase, jobs, names, result, cancel, order>>

\* A function has made all its calls.
return ==
  /\ stack # <<>>
  /\ Top.calls = <<>>
  /\ stack' = Below
  /\ UNCHANGED <<case, graph, phase, jobs, names, result, cancel, order>>

\* Mutant: units that have a job already are left alone.
to_stop_idle(u) == u \in case.active \ DOMAIN jobs /\ u \notin dep_closure \cup graph.ignore_on_isolate
\* The units that Isolate stops (active units are loaded).
to_stop(u) == u \in case.active /\ u \notin dep_closure \cup graph.ignore_on_isolate

add_isolate_stops ==
  /\ phase = "expand"
  /\ stack = <<>>
  /\ case.mode = "Isolate"
  /\ LET nodes == graph.nodes
     IN stack' = <<frame([i \in DOMAIN nodes |->
                            IF to_stop(nodes[i]) THEN call(nodes[i], "Stop", TRUE) ELSE NoCall],
                         FALSE)>>
  /\ phase' = "isolate"
  /\ UNCHANGED <<case, graph, jobs, names, result, cancel, order>>

\* Existing jobs that the new ones contradict.
replaced == {ej \in case.existing : ej.unit \in DOMAIN jobs /\ jobs[ej.unit] # ej.kind}

apply_mode ==
  /\ \/ phase = "expand" /\ case.mode # "Isolate"
     \/ phase = "isolate"
  /\ stack = <<>>
  /\ IF case.mode = "Fail" /\ replaced # {}
     THEN answer("WouldReplaceFail") /\ UNCHANGED cancel
     ELSE /\ cancel' = CASE case.mode = "Flush" -> case.existing
                         [] case.mode = "Fail" -> {}
                         [] OTHER -> replaced
          /\ phase' = "sort"
          /\ UNCHANGED result
  /\ UNCHANGED <<case, graph, stack, jobs, names, order>>

\* The ordering edges, as topo_order gets them.
ordering == {e \in edges(graph) : e[2] \in OrderingEdge}

\* The jobs in start order: what topo_order promises (StartOrder).
sort_jobs ==
  /\ phase = "sort"
  /\ IF case.mode = "IgnoreRequirements"
     THEN answer("ok") /\ order' = names
     ELSE \/ /\ Deadlocked(DOMAIN jobs, ordering)
             /\ answer("Cycle")
             /\ UNCHANGED order
          \/ \E o \in StartOrders(DOMAIN jobs, ordering) : answer("ok") /\ order' = o
  /\ UNCHANGED <<case, graph, stack, jobs, names, cancel>>

Next ==
  \/ begin \/ call_fails \/ merge_job \/ add_job \/ pass_edge \/ return
  \/ add_isolate_stops \/ apply_mode \/ sort_jobs

Spec == Init /\ [][Next]_vars

-----------------------------------------------------------------------------
(* Properties                                                              *)

Call == [unit : Unit, kind : JobType, soft : BOOLEAN] \cup {NoCall}

TypeOK ==
  /\ case \in Case /\ graph \in Graph
  /\ phase \in {"begin", "expand", "isolate", "sort", "done"}
  /\ stack \in Seq([calls : Seq(Call), soft : BOOLEAN])
  /\ DOMAIN jobs \subseteq case.loaded /\ jobs \in [DOMAIN jobs -> JobType]
  /\ result \in {"none", "ok", "NotLoaded", "IsolateNotAllowed", "WouldReplaceFail", "Cycle"}
  /\ result # "none" <=> phase = "done"
  /\ names \in Seq(Unit) /\ order \in Seq(Unit)
  /\ cancel \subseteq case.existing

\* Dependency cycles do not feed the recursion: a unit is expanded once
\* (transaction.rs:222-225).
RecursionBounded == Len(stack) <= Cardinality(DOMAIN jobs) + 1

\* A job, once there, is not dropped, and a restart stays one whatever it is
\* merged with (transaction.rs:469-489).
RestartStays ==
  [][\A u \in DOMAIN jobs : u \in DOMAIN jobs' /\ (jobs[u] = "Restart" => jobs'[u] = "Restart")]_vars

Pulls(dep_edges) ==
  {<<e[1], e[3]>> : e \in {x \in edges(graph) : x[2] \in dep_edges /\ x[3] \in case.loaded}}
PulledBack(dep_edges) ==
  {<<e[3], e[1]>> : e \in {x \in edges(graph) : x[2] \in dep_edges /\ x[1] \in case.loaded}}

Pulling == {"Requires", "BindsTo", "Wants", "Upholds"}
HardPulls == {"Requires", "BindsTo"}

\* A unit that is not loaded and that the root needs, directly or through others.
MissesHard ==
  \E e \in edges(graph) : /\ e[1] \in Reach(case.root, Pulls(HardPulls))
                          /\ e[2] \in HardPulls \cup {"Requisite"}
                          /\ e[3] \notin case.loaded

NoMissing == \A e \in edges(graph) : e[2] \in HardPulls => e[3] \in case.loaded
NoNegative == \A e \in edges(graph) : e[2] \notin {"Conflicts", "Requisite"}

\* The jobs are exactly those of the units reached from the root, each of the
\* root's kind (transaction.rs:10-17).  For a start this is so when no unit is
\* missing, and none is stopped or verified beside those that are started.
JobsAreClosure ==
  result = "ok" /\ case.mode \notin {"Isolate", "IgnoreDependencies"} =>
    /\ case.kind = "Stop" =>
         jobs = [u \in Reach(case.root, PulledBack({"BindsTo", "PartOf"})
                                          \cup Pulls({"PropagatesStopTo"})) |-> "Stop"]
    /\ case.kind = "Reload" =>
         jobs = [u \in Reach(case.root, Pulls({"PropagatesReloadTo"})) |-> "Reload"]
    /\ case.kind = "Start" /\ NoMissing /\ NoNegative =>
         jobs = [u \in Reach(case.root, Pulls(Pulling)) |-> "Start"]

\* A request fails for a missing unit only if the root needs that unit
\* (transaction.rs:268-286): an error below a soft pull stays there.
FailsOnlyForHard ==
  result = "NotLoaded" => case.root \notin case.loaded \/ MissesHard

\* Isolate stops every active unit outside dep_closure that has not opted out,
\* whatever other job the expansion had for it (transaction.rs:366-418).  What is kept
\* is what the code keeps.  Its comments promise to stop more, "everything loaded" that
\* is not active too, and to keep less: nothing for a Requisite= or a PartOf=
\* (transaction.rs:26-27, 362-365).
\* Not so if the root is restarted: try-restarts then pull in units from outside.
IsolateStops ==
  /\ result = "ok" /\ case.mode = "Isolate" /\ refusal = "none"
  /\ case.kind \notin {"Restart", "TryRestart"}
  =>
    \A u \in case.active \ (dep_closure \cup case.spared) : u \in DOMAIN jobs /\ jobs[u] = "Stop"

=============================================================================
