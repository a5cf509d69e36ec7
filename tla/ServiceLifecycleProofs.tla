------------------------ MODULE ServiceLifecycleProofs ------------------------
(***************************************************************************)
(* Theorems about ServiceLifecycle, for every value of its constants: any   *)
(* service type, any pattern of requests and faults, patient clients or     *)
(* not, and any number of jobs and of daemon reloads.                       *)
(***************************************************************************)
EXTENDS ServiceLifecycle, TLAPS

\* What TypeOK leaves open and the steps rely on: whoever works with a runner, a
\* pid or a job works with one that exists.
OwnedTask == {t \in Task : t.pc # "none" => t.gen \in Gen}
OwnedSup == {s \in Sup : /\ s.pc # "none" => s.gen \in Gen
                         /\ s.pc = "wait" => s.child \in Job}
OpServed ==
  /\ op.pc \in {"exec_stop", "wait", "wait_killed", "final"} =>
       services \in Gen /\ op.job \in Job
  /\ op.pc = "wait" => op.pid \in Proc
  /\ op.pc = "take_child" => services \in Gen

TypeInv ==
  /\ TypeOK
  /\ task \in [Job -> OwnedTask]
  /\ sup \in [Job -> OwnedSup]
  /\ OpServed

-----------------------------------------------------------------------------
(* What the helpers of the actions preserve                                *)

LEMMA FirstGen ==
  /\ 1 \in Gen /\ NoRunner \in OptGen /\ 0 \notin Gen
  /\ NoJob \in OptJob /\ 0 \notin Job /\ NoProc \in OptProc
BY LifecycleAssumption DEF Gen, Job, OptJob, OptGen, OptProc, NoJob, NoProc, NoRunner

LEMMA Atoms ==
  /\ \A s \in {"inactive", "activating", "active", "deactivating", "failed"} : s \in ActiveState
  /\ NoProc \in OptJob /\ NoJob \in OptJob /\ \A j \in Job : j \in OptJob
  /\ NoProc \in OptProc /\ \A p \in Proc : p \in OptProc
BY DEF ActiveState, OptJob, OptProc, NoProc, NoJob

\* What a job spawns and what that forks are processes, each of its own.
LEMMA Processes ==
  /\ \A j \in Job : j \in Proc /\ j \in OptProc /\ Forked(j) \in Proc /\ Forked(j) \in OptProc
  /\ \A j \in OptJob : j \in OptProc
BY LifecycleAssumption DEF Job, Proc, OptJob, OptProc, Forked, NoJob, NoProc

LEMMA NextJob == ASSUME njobs \in OptJob, njobs < MaxJobs PROVE njobs + 1 \in Job
BY LifecycleAssumption DEF OptJob, Job, NoJob

\* Fields of a runner, a task and a supervisor.
LEMMA RunnerFields ==
  ASSUME NEW f \in [Gen -> Runner], NEW g \in Gen, NEW s \in ActiveState, NEW b \in BOOLEAN
  PROVE  [f EXCEPT ![g].stopping = b, ![g].state = s] \in [Gen -> Runner]
BY DEF Runner

LEMMA TaskFields ==
  ASSUME NEW t \in OwnedTask, t.gen \in Gen, NEW pc \in TaskPc, NEW seen \in ActiveState
  PROVE  [t EXCEPT !.pc = pc, !.seen = seen] \in OwnedTask
BY DEF OwnedTask, Task

LEMMA SupFields ==
  ASSUME NEW s \in OwnedSup, s.gen \in Gen, NEW pc \in SupPc, NEW child \in OptJob,
         NEW target \in OptProc, NEW seen \in ActiveState
  PROVE  /\ (pc = "wait" => child \in Job) =>
              [s EXCEPT !.pc = pc, !.child = child, !.target = target] \in OwnedSup
         /\ pc # "wait" => [s EXCEPT !.pc = pc, !.child = child, !.seen = seen] \in OwnedSup
         /\ pc # "wait" => [s EXCEPT !.pc = pc] \in OwnedSup
BY DEF OwnedSup, Sup

\* The waiters for the manager's lock.
LEMMA AppendTyped ==
  ASSUME NEW who \in {"task", "sup"}, NEW j \in Job, queue \in Seq({"task", "sup"} \X Job)
  PROVE  Append(queue, <<who, j>>) \in Seq({"task", "sup"} \X Job)
OBVIOUS

\* A task that exists moves on.
LEMMA TaskMoves ==
  ASSUME NEW j \in Job, NEW pc \in TaskPc, task \in [Job -> OwnedTask],
         task[j].pc # "none", TaskTo(j, pc)
  PROVE  task' \in [Job -> OwnedTask]
BY DEF TaskTo, OwnedTask, Task

\* start() gives up: the task moves on, the runner takes the state.
LEMMA TaskFails ==
  ASSUME NEW j \in Job, NEW state \in ActiveState, task \in [Job -> OwnedTask],
         runner \in [Gen -> Runner], task[j].pc # "none", start_fails(j, state)
  PROVE  task' \in [Job -> OwnedTask] /\ runner' \in [Gen -> Runner]
<1>1. task' \in [Job -> OwnedTask]
  BY DEF start_fails, OwnedTask, Task, TaskPc
<1>2. runner' \in [Gen -> Runner]
  BY DEF start_fails, OwnedTask, Task, Runner
<1>3. QED
  BY <1>1, <1>2

\* The start half of a start or a restart.
LEMMA TaskSpawned ==
  ASSUME NEW j \in Job, services \in OptGen, task \in [Job -> OwnedTask],
         spawn_service_start(j)
  PROVE  task' \in [Job -> OwnedTask]
<1>1. services \in Gen
  BY DEF spawn_service_start, OptGen
<1>2. [NoTask EXCEPT !.pc = "clear", !.gen = services] \in OwnedTask
  BY <1>1 DEF NoTask, OwnedTask, Task, TaskPc, ActiveState, OptGen
<1>3. QED
  BY <1>2 DEF spawn_service_start

LEMMA JobsTyped ==
  ASSUME NEW j \in Job, NEW outcome \in Outcome, job \in [Job -> JobRecord],
         JobRemoved(j, outcome)
  PROVE  job' \in [Job -> JobRecord]
BY DEF JobRemoved, JobRecord

LEMMA Marked ==
  ASSUME NEW s \in ActiveState, status \in ActiveState \cup {"absent"},
         (status = "absent" <=> services = NoRunner), mark_state(s)
  PROVE  status' \in ActiveState \cup {"absent"} /\ (status' = "absent" <=> services = NoRunner)
BY DEF mark_state, ActiveState

\* The end of run_stop keeps everything typed.
LEMMA StopEnds ==
  ASSUME TypeOK, task \in [Job -> OwnedTask], op.job \in Job,
         NEW kind, run_stop_ends(op.job, kind)
  PROVE  /\ status' \in ActiveState \cup {"absent"}
         /\ (status' = "absent" <=> services = NoRunner)
         /\ job' \in [Job -> JobRecord]
         /\ task' \in [Job -> OwnedTask]
<1>0. /\ status \in ActiveState \cup {"absent"} /\ (status = "absent" <=> services = NoRunner)
      /\ job \in [Job -> JobRecord] /\ services \in OptGen
  BY DEF TypeOK
<1>1. {"done", "lost"} \subseteq Outcome /\ {"inactive", "activating"} \subseteq ActiveState
  BY DEF Outcome, ActiveState
<1>2. CASE kind = "restart" /\ services # NoRunner
  <2>1. spawn_service_start(op.job) /\ job' = job
    BY <1>2 DEF run_stop_ends
  <2>2. mark_state("activating")
    BY <2>1 DEF spawn_service_start
  <2>3. QED
    BY <1>0, <1>1, <2>1, <2>2, TaskSpawned, Marked
<1>3. CASE ~(kind = "restart" /\ services # NoRunner)
  <2>1. task' = task /\ mark_state("inactive")
        /\ (JobRemoved(op.job, "done") \/ JobRemoved(op.job, "lost"))
    BY <1>3 DEF run_stop_ends
  <2>2. QED
    BY <1>0, <1>1, <2>1, JobsTyped, Marked
<1>4. QED
  BY <1>2, <1>3

LEMMA TypeInit == Init => TypeInv
<1> SUFFICES ASSUME Init PROVE TypeInv
  OBVIOUS
<1>1. NewRunner \in Runner /\ Idle \in Op
  BY FirstGen, Atoms DEF NewRunner, Runner, Idle, Op, ActiveState, OpPc
<1>2. NoTask \in OwnedTask /\ NoTask \in Task
  BY FirstGen DEF NoTask, OwnedTask, Task, ActiveState, TaskPc
<1>3. NoSup \in OwnedSup /\ NoSup \in Sup
  BY FirstGen, Atoms DEF NoSup, OwnedSup, Sup, ActiveState, SupPc
<1>4. job \in [Job -> JobRecord] /\ proc \in [Proc -> ProcState]
  BY DEF Init, JobRecord, Outcome, ProcState
<1>5. TypeOK
  BY <1>1, <1>2, <1>3, <1>4, FirstGen DEF Init, TypeOK, ActiveState, NoRunner, OptGen, Gen, NoJob
<1>6. OpServed
  BY DEF Init, OpServed, Idle
<1>7. QED
  BY <1>2, <1>3, <1>5, <1>6 DEF TypeInv, Init

-----------------------------------------------------------------------------
(* Every step keeps TypeInv                                                *)

LEMMA TypeRequests ==
  ASSUME TypeInv,
         start_unit \/ reload_unit \/ (\E kind \in {"stop", "restart"} : stop_unit(kind))
  PROVE  TypeInv'
<1>0. /\ status \in ActiveState \cup {"absent"} /\ (status = "absent" <=> services = NoRunner)
      /\ services \in OptGen /\ runner \in [Gen -> Runner] /\ njobs \in OptJob
      /\ job \in [Job -> JobRecord] /\ task \in [Job -> OwnedTask] /\ op \in Op
  BY DEF TypeInv, TypeOK
<1>1. CASE start_unit
  <2>1. njobs + 1 \in Job /\ njobs' = njobs + 1
    BY <1>0, <1>1, NextJob DEF start_unit, Request, alloc_job_id
  <2>2. job' \in [Job -> JobRecord]
    BY <1>0, <1>1, <2>1 DEF start_unit, alloc_job_id, JobRecord, Outcome
  <2>3. /\ status' \in ActiveState \cup {"absent"} /\ (status' = "absent" <=> services = NoRunner)
        /\ task' \in [Job -> OwnedTask]
    <3>1. CASE spawn_service_start(njobs + 1)
      <4>1. mark_state("activating") /\ "activating" \in ActiveState
        BY <3>1 DEF spawn_service_start, ActiveState
      <4>2. QED
        BY <1>0, <2>1, <3>1, <4>1, TaskSpawned, Marked
    <3>2. CASE UNCHANGED <<status, task>>
      BY <1>0, <3>2
    <3>3. QED
      BY <1>1, <3>1, <3>2 DEF start_unit
  <2>4. UNCHANGED <<type, services, ngens, runner, proc, killed, sup, op, queue>>
    BY <1>1 DEF start_unit, rvars, pvars
  <2>5. task' \in [Job -> Task] /\ njobs' \in OptJob
    BY <2>1, <2>3 DEF OwnedTask, OptJob
  <2>6. TypeOK'
    BY <2>2, <2>3, <2>4, <2>5 DEF TypeInv, TypeOK
  <2>7. QED
    BY <2>3, <2>4, <2>6 DEF TypeInv, OpServed
<1>2. CASE reload_unit
  <2>1. njobs + 1 \in Job /\ njobs' = njobs + 1
    BY <1>0, <1>2, NextJob DEF reload_unit, Request, alloc_job_id
  <2>2. \E outcome \in {"skipped", "done", "failed"} : alloc_job_id("reload", outcome)
    BY <1>2 DEF reload_unit
  <2>3. job' \in [Job -> JobRecord]
    BY <1>0, <2>1, <2>2 DEF alloc_job_id, JobRecord, Outcome
  <2>4. njobs' \in OptJob
    BY <2>1 DEF OptJob
  <2>5. UNCHANGED <<type, status, services, ngens, runner, proc, killed, task, sup, op, queue>>
    BY <1>2 DEF reload_unit, rvars, pvars
  <2>6. TypeOK'
    BY <2>3, <2>4, <2>5 DEF TypeInv, TypeOK
  <2>7. QED
    BY <2>5, <2>6 DEF TypeInv, OpServed
<1>3. ASSUME NEW kind \in {"stop", "restart"}, stop_unit(kind) PROVE TypeInv'
  <2>1. njobs + 1 \in Job /\ njobs' = njobs + 1
    BY <1>0, <1>3, NextJob DEF stop_unit, Request
  <2>2. job' \in [Job -> JobRecord]
    BY <1>0, <1>3, <2>1 DEF stop_unit, JobRecord, Outcome
  <2>3. CASE services = NoRunner
    <3>1. mark_state("inactive") /\ "inactive" \in ActiveState
          /\ UNCHANGED <<runner, op>>
      BY <1>3, <2>3 DEF stop_unit, ActiveState
    <3>2. status' \in ActiveState \cup {"absent"} /\ (status' = "absent" <=> services = NoRunner)
      BY <1>0, <3>1, Marked
    <3>3. UNCHANGED <<type, services, ngens, proc, killed, task, sup, queue>>
      BY <1>3 DEF stop_unit, pvars
    <3>4. TypeOK'
      BY <2>1, <2>2, <3>1, <3>2, <3>3 DEF TypeInv, TypeOK, OptJob
    <3>5. QED
      BY <3>1, <3>3, <3>4 DEF TypeInv, OpServed
  <2>4. CASE services # NoRunner
    <3>0. services \in Gen
      BY <1>0, <2>4 DEF OptGen
    <3>1. runner' \in [Gen -> Runner]
      <4>1. runner' = [runner EXCEPT ![services].stopping = TRUE,
                                     ![services].state = "deactivating"]
        BY <1>3, <2>4 DEF stop_unit
      <4>2. QED
        BY <1>0, <3>0, <4>1, Atoms, RunnerFields
    <3>2. op' = [pc |-> "exec_stop", job |-> njobs + 1, pid |-> NoProc]
      BY <1>3, <2>4 DEF stop_unit
    <3>3. op' \in Op
      BY <2>1, <3>2, Atoms DEF Op, OpPc
    <3>5. UNCHANGED <<type, status, services, ngens, proc, killed, task, sup, queue>>
      BY <1>3, <2>4 DEF stop_unit, pvars
    <3>6. TypeOK'
      BY <2>1, <2>2, <3>1, <3>3, <3>5 DEF TypeInv, TypeOK, OptJob
    <3>7. OpServed'
      BY <2>1, <3>0, <3>2, <3>5 DEF OpServed
    <3>8. QED
      BY <3>5, <3>6, <3>7 DEF TypeInv
  <2>5. QED
    BY <2>3, <2>4
<1>4. QED
  BY <1>1, <1>2, <1>3

LEMMA TypeStop ==
  ASSUME TypeInv,
         stop_signals \/ stop_env_error \/ stop_sees_exit \/ stop_times_out \/ stop_final
  PROVE  TypeInv'
<1>0. /\ runner \in [Gen -> Runner] /\ proc \in [Proc -> ProcState]
      /\ job \in [Job -> JobRecord] /\ task \in [Job -> OwnedTask] /\ op \in Op /\ killed \subseteq Proc
  BY DEF TypeInv, TypeOK
<1>1. services \in Gen /\ op.job \in Job
  BY DEF TypeInv, OpServed, stop_signals, stop_env_error, stop_sees_exit, stop_times_out, stop_final
<1>2. CASE stop_signals
  <2>1. UNCHANGED <<type, status, services, ngens, runner, proc, killed, njobs, job, task,
                    sup, queue>>
    BY <1>2 DEF stop_signals, rvars, pvars, jvars
  <2>2. runner[services].main_pid \in OptProc
    BY <1>0, <1>1 DEF Runner
  <2>3. op' \in Op /\ op'.job = op.job /\ (op'.pc = "wait" => op'.pid \in Proc)
        /\ op'.pc # "take_child"
    BY <1>0, <1>2, <2>2 DEF stop_signals, nothing_to_wait, Op, OpPc, OptProc, NoProc
  <2>4. TypeOK'
    BY <2>1, <2>3 DEF TypeInv, TypeOK
  <2>5. OpServed'
    BY <1>1, <2>1, <2>3 DEF OpServed
  <2>6. QED
    BY <2>1, <2>4, <2>5 DEF TypeInv
<1>3. CASE stop_env_error \/ stop_final
  <2>1. /\ run_stop_ends(op.job, job[op.job].kind)
        /\ UNCHANGED <<type, services, ngens, proc, killed, njobs, sup, queue>>
    BY <1>3 DEF stop_env_error, stop_final, rvars, pvars
  <2>2. /\ status' \in ActiveState \cup {"absent"} /\ (status' = "absent" <=> services = NoRunner)
        /\ job' \in [Job -> JobRecord] /\ task' \in [Job -> OwnedTask]
    BY <1>0, <1>1, <2>1, StopEnds DEF TypeInv
  <2>3. runner' \in [Gen -> Runner]
    BY <1>0, <1>1, <1>3, Atoms DEF stop_env_error, stop_final, rvars, Runner, ActiveState
  <2>4. op' = Idle /\ Idle \in Op
    BY <2>1, Atoms DEF run_stop_ends, Idle, Op, OpPc
  <2>5. task' \in [Job -> Task]
    BY <2>2 DEF OwnedTask
  <2>6. TypeOK'
    BY <2>1, <2>2, <2>3, <2>4, <2>5 DEF TypeInv, TypeOK
  <2>7. QED
    BY <2>1, <2>2, <2>4, <2>6 DEF TypeInv, OpServed, Idle
<1>4. CASE stop_sees_exit
  <2>1. UNCHANGED <<type, status, services, ngens, runner, killed, njobs, job, task, sup,
                    queue>>
    BY <1>4 DEF stop_sees_exit, rvars, jvars
  <2>2. proc' \in [Proc -> ProcState]
    BY <1>0, <1>4 DEF stop_sees_exit, ProcState
  <2>3. op' \in Op /\ op'.job = op.job /\ op'.pc = "final"
    BY <1>0, <1>4 DEF stop_sees_exit, Op, OpPc
  <2>4. TypeOK'
    BY <2>1, <2>2, <2>3 DEF TypeInv, TypeOK
  <2>5. QED
    BY <1>1, <2>1, <2>3, <2>4 DEF TypeInv, OpServed
<1>5. CASE stop_times_out
  <2>1. UNCHANGED <<type, status, services, ngens, runner, proc, njobs, job, task, sup,
                    queue>>
    BY <1>5 DEF stop_times_out, rvars, jvars
  <2>2. op.pid \in Proc
    BY <1>5 DEF stop_times_out, TypeInv, OpServed
  <2>3. killed' \subseteq Proc
    BY <1>0, <1>5, <2>2 DEF stop_times_out
  <2>4. op' \in Op /\ op'.job = op.job /\ op'.pc \in {"wait_killed", "final"}
    BY <1>0, <1>5 DEF stop_times_out, Op, OpPc
  <2>5. TypeOK'
    BY <2>1, <2>3, <2>4 DEF TypeInv, TypeOK
  <2>6. QED
    BY <1>1, <2>1, <2>4, <2>5 DEF TypeInv, OpServed
<1>6. QED
  BY <1>2, <1>3, <1>4, <1>5

LEMMA TypeReload ==
  ASSUME TypeInv, daemon_reload \/ reload_takes_child \/ reload_removes_unit
  PROVE  TypeInv'
<1>0. /\ runner \in [Gen -> Runner] /\ op \in Op /\ ngens \in Gen /\ services \in OptGen
      /\ services <= ngens
      /\ status \in ActiveState \cup {"absent"} /\ (status = "absent" <=> services = NoRunner)
  BY DEF TypeInv, TypeOK
<1>1. CASE daemon_reload
  <2>1. /\ ngens + 1 \in Gen /\ ngens' = ngens + 1 /\ services' \in {services, ngens + 1}
        /\ services' # NoRunner
    BY <1>0, <1>1, LifecycleAssumption DEF daemon_reload, Gen, NoRunner
  <2>2. NewRunner \in Runner
    BY Atoms DEF NewRunner, Runner, ActiveState
  <2>3. services # NoRunner => services \in Gen
    BY <1>0 DEF OptGen
  <2>4. runner' \in [Gen -> Runner]
    BY <1>0, <1>1, <2>1, <2>2, <2>3 DEF daemon_reload, NewRunner, Runner
  <2>5. status' \in ActiveState \cup {"absent"} /\ status' # "absent"
    BY <1>0, <1>1 DEF daemon_reload, ActiveState
  <2>6. op' = op \/ op' = [pc |-> "take_child", job |-> NoJob, pid |-> NoProc]
    BY <1>1 DEF daemon_reload
  <2>7. op' \in Op /\ op'.pc \in {"idle", "take_child"}
    BY <1>0, <1>1, <2>6, Atoms DEF daemon_reload, Served, Unlocked, Op, OpPc
  <2>8. UNCHANGED <<type, proc, killed, njobs, job, task, sup, queue>>
    BY <1>1 DEF daemon_reload, pvars, jvars
  <2>9. services' \in Gen
    BY <2>1, <2>3
  <2>10. services' \in OptGen /\ services' <= ngens'
    BY <1>0, <2>1, <2>9, LifecycleAssumption DEF OptGen, Gen
  <2>11. TypeOK'
    BY <2>1, <2>4, <2>5, <2>7, <2>8, <2>10 DEF TypeInv, TypeOK
  <2>12. QED
    BY <2>7, <2>8, <2>9, <2>11 DEF TypeInv, OpServed
<1>2. CASE reload_takes_child
  <2>1. services \in Gen
    BY <1>2 DEF reload_takes_child, TypeInv, OpServed
  <2>2. runner' \in [Gen -> Runner]
    BY <1>0, <1>2, <2>1, Atoms DEF reload_takes_child, Runner
  <2>3. op' = Idle /\ Idle \in Op
    BY <1>2, Atoms DEF reload_takes_child, Idle, Op, OpPc
  <2>4. /\ UNCHANGED <<type, status, ngens, proc, killed, njobs, job, task, sup, queue>>
        /\ services' = ngens
    BY <1>2 DEF reload_takes_child, pvars, jvars
  <2>5. services # NoRunner /\ ngens \in OptGen /\ ngens # NoRunner /\ ngens <= ngens
    BY <1>0, <2>1, FirstGen, LifecycleAssumption DEF OptGen, Gen, NoRunner
  <2>6. TypeOK'
    BY <1>0, <2>2, <2>3, <2>4, <2>5 DEF TypeInv, TypeOK
  <2>7. QED
    BY <2>3, <2>4, <2>6 DEF TypeInv, OpServed, Idle
<1>3. CASE reload_removes_unit
  <2>1. UNCHANGED <<type, ngens, runner, proc, killed, njobs, job, task, sup, op, queue>>
    BY <1>3 DEF reload_removes_unit, pvars, jvars
  <2>2. services' = NoRunner /\ status' = "absent" /\ op.pc = "idle"
    BY <1>3 DEF reload_removes_unit, Served, Unlocked
  <2>3. NoRunner \in OptGen /\ NoRunner <= ngens
    BY <1>0, LifecycleAssumption DEF OptGen, Gen, NoRunner
  <2>4. TypeOK'
    BY <2>1, <2>2, <2>3 DEF TypeInv, TypeOK
  <2>5. QED
    BY <2>1, <2>2, <2>4 DEF TypeInv, OpServed
<1>4. QED
  BY <1>1, <1>2, <1>3

LEMMA TypeStartTask ==
  ASSUME TypeInv, NEW j \in Job, StartTask(j)
  PROVE  TypeInv'
<1>0. /\ status \in ActiveState \cup {"absent"} /\ (status = "absent" <=> services = NoRunner)
      /\ runner \in [Gen -> Runner] /\ proc \in [Proc -> ProcState]
      /\ job \in [Job -> JobRecord] /\ task \in [Job -> OwnedTask] /\ sup \in [Job -> OwnedSup]
      /\ queue \in Seq({"task", "sup"} \X Job)
  BY DEF TypeInv, TypeOK
<1>1. task[j].pc # "none"
  BY DEF StartTask, TaskAt, start_begins, start_prepares, start_executes, start_stores_child,
    start_waits_ready, start_awaits_oneshot, start_activates, start_returns, start_publishes,
    start_ends
<1>2. task[j].gen \in Gen /\ task[j].seen \in ActiveState
  BY <1>0, <1>1 DEF OwnedTask, Task
<1>3. {"pre", "exec", "await", "child", "ready", "activate", "read", "publish", "removed",
       "done"} \subseteq TaskPc /\ {"inactive", "failed"} \subseteq ActiveState
  BY DEF TaskPc, ActiveState
\* start_aborts keeps the state of the runner.
<1>4. ASSUME start_aborts(j)
      PROVE  task' \in [Job -> OwnedTask] /\ runner' \in [Gen -> Runner]
  <2>1. runner[task[j].gen].state \in ActiveState
    BY <1>0, <1>2 DEF Runner
  <2>2. QED
    BY <1>0, <1>1, <1>4, <2>1, TaskFails DEF start_aborts
<1>5. ASSUME task' \in [Job -> OwnedTask], runner' \in [Gen -> Runner],
             proc' \in [Proc -> ProcState],
             UNCHANGED <<type, status, services, ngens, killed, njobs, job, sup, op, queue>>
      PROVE  TypeInv'
  <2>1. task' \in [Job -> Task]
    BY <1>5 DEF OwnedTask
  <2>2. TypeOK'
    BY <1>5, <2>1 DEF TypeInv, TypeOK
  <2>3. QED
    BY <1>5, <2>2 DEF TypeInv, OpServed
<1>6. CASE start_begins(j)
  <2>1. TaskTo(j, "pre")
    BY <1>6 DEF start_begins
  <2>2. runner' \in [Gen -> Runner]
    <3>1. runner' = [runner EXCEPT ![task[j].gen].stopping = FALSE,
                                   ![task[j].gen].state = "activating"]
      BY <1>0, <1>2, <1>6 DEF start_begins, clear_stop
    <3>2. QED
      BY <1>0, <1>2, <3>1, Atoms, RunnerFields
  <2>3. UNCHANGED <<type, status, services, ngens, proc, killed, njobs, job, sup, op, queue>>
    BY <1>6 DEF start_begins, pvars, jvars
  <2>4. QED
    BY <1>0, <1>1, <1>3, <1>5, <2>1, <2>2, <2>3, TaskMoves
<1>7. CASE start_prepares(j)
  <2>1. \/ TaskTo(j, "exec") /\ UNCHANGED runner
        \/ start_aborts(j)
        \/ \E s \in {"inactive", "failed"} : start_fails(j, s)
    BY <1>7 DEF start_prepares
  <2>2. task' \in [Job -> OwnedTask] /\ runner' \in [Gen -> Runner]
    BY <1>0, <1>1, <1>3, <1>4, <2>1, TaskMoves, TaskFails
  <2>3. UNCHANGED <<type, status, services, ngens, proc, killed, njobs, job, sup, op, queue>>
    BY <1>7 DEF start_prepares, pvars, jvars
  <2>4. QED
    BY <1>0, <1>5, <2>2, <2>3
<1>8. CASE start_executes(j)
  <2>1. \/ start_aborts(j)
        \/ Tracked(j) /\ (TaskTo(j, "child") \/ TaskTo(j, "activate"))
        \/ (TaskTo(j, "activate") \/ TaskTo(j, "await")) /\ UNCHANGED runner
        \/ start_fails(j, "failed")
    BY <1>8 DEF start_executes, pid_file_missing
  <2>2. ASSUME Tracked(j) PROVE runner' \in [Gen -> Runner]
    BY <1>0, <1>2, <2>2, Processes DEF Tracked, Runner
  <2>3. task' \in [Job -> OwnedTask] /\ runner' \in [Gen -> Runner]
    BY <1>0, <1>1, <1>3, <1>4, <2>1, <2>2, TaskMoves, TaskFails
  <2>4. proc' \in [Proc -> ProcState]
    BY <1>0, <1>8 DEF start_executes, pid_file_missing, Spawned, ProcState
  <2>5. UNCHANGED <<type, status, services, ngens, killed, njobs, job, sup, op, queue>>
    BY <1>8 DEF start_executes, jvars
  <2>6. QED
    BY <1>5, <2>3, <2>4, <2>5
<1>9. CASE start_stores_child(j)
  <2>1. TaskTo(j, "ready") \/ TaskTo(j, "activate")
    BY <1>9 DEF start_stores_child
  <2>2. runner' \in [Gen -> Runner]
    BY <1>0, <1>2, <1>9, Atoms DEF start_stores_child, Runner
  <2>3. UNCHANGED <<type, status, services, ngens, proc, killed, njobs, job, sup, op, queue>>
    BY <1>9 DEF start_stores_child, pvars, jvars
  <2>4. QED
    BY <1>0, <1>1, <1>3, <1>5, <2>1, <2>2, <2>3, TaskMoves
<1>10. CASE start_waits_ready(j)
  <2>1. \/ TaskTo(j, "activate") /\ UNCHANGED runner
        \/ start_aborts(j)
    BY <1>10 DEF start_waits_ready
  <2>2. task' \in [Job -> OwnedTask] /\ runner' \in [Gen -> Runner]
    BY <1>0, <1>1, <1>3, <1>4, <2>1, TaskMoves
  <2>3. UNCHANGED <<type, status, services, ngens, proc, killed, njobs, job, sup, op, queue>>
    BY <1>10 DEF start_waits_ready, pvars, jvars
  <2>4. QED
    BY <1>0, <1>5, <2>2, <2>3
<1>11. CASE start_awaits_oneshot(j)
  <2>1. \/ TaskTo(j, "activate") /\ UNCHANGED runner
        \/ start_fails(j, "failed")
        \/ start_aborts(j)
    BY <1>11 DEF start_awaits_oneshot
  <2>2. task' \in [Job -> OwnedTask] /\ runner' \in [Gen -> Runner]
    BY <1>0, <1>1, <1>3, <1>4, <2>1, TaskMoves, TaskFails
  <2>3. proc' \in [Proc -> ProcState]
    BY <1>0, <1>11 DEF start_awaits_oneshot, ProcState
  <2>4. UNCHANGED <<type, status, services, ngens, killed, njobs, job, sup, op, queue>>
    BY <1>11 DEF start_awaits_oneshot, jvars
  <2>5. QED
    BY <1>5, <2>2, <2>3, <2>4
<1>12. CASE start_activates(j)
  <2>1. TaskTo(j, "read")
    BY <1>12 DEF start_activates
  <2>2. StateWhenStarted \in ActiveState
    BY DEF StateWhenStarted, ActiveState
  <2>3. runner' \in [Gen -> Runner]
    BY <1>0, <1>2, <1>12, <2>2 DEF start_activates, Runner
  <2>4. UNCHANGED <<type, status, services, ngens, proc, killed, njobs, job, sup, op, queue>>
    BY <1>12 DEF start_activates, pvars, jvars
  <2>5. QED
    BY <1>0, <1>1, <1>3, <1>5, <2>1, <2>3, <2>4, TaskMoves
<1>13. CASE start_returns(j)
  <2>1. runner[task[j].gen].state \in ActiveState
    BY <1>0, <1>2 DEF Runner
  <2>2. task' \in [Job -> OwnedTask]
    <3>. DEFINE s == runner[task[j].gen].state
    <3>1. task' = [task EXCEPT ![j] = [@ EXCEPT !.pc = "publish", !.seen = s]]
      BY <1>0, <1>13 DEF start_returns
    <3>. HIDE DEF s
    <3>2. [task[j] EXCEPT !.pc = "publish", !.seen = s] \in OwnedTask
      <4>1. s \in ActiveState
        BY <2>1 DEF s
      <4>2. QED
        BY <1>0, <1>2, <1>3, <4>1, TaskFields
    <3>3. QED
      BY <1>0, <3>1, <3>2
  <2>3. queue' \in Seq({"task", "sup"} \X Job)
    BY <1>0, <1>13, AppendTyped DEF start_returns, Queue
  <2>4. UNCHANGED <<type, status, services, ngens, runner, proc, killed, njobs, job, sup, op>>
    BY <1>13 DEF start_returns, rvars, pvars, jvars
  <2>5. TypeOK'
    BY <2>2, <2>3, <2>4 DEF TypeInv, TypeOK, OwnedTask
  <2>6. QED
    BY <2>2, <2>4, <2>5 DEF TypeInv, OpServed
<1>14. CASE start_publishes(j)
  <2>1. TaskTo(j, "removed")
    BY <1>14 DEF start_publishes
  <2>2. task' \in [Job -> OwnedTask]
    BY <1>0, <1>1, <1>3, <2>1, TaskMoves
  <2>3. [NoSup EXCEPT !.pc = "take", !.gen = task[j].gen] \in OwnedSup
    BY <1>2, Atoms DEF NoSup, OwnedSup, Sup, SupPc, ActiveState, OptGen
  <2>4. sup' \in [Job -> OwnedSup]
    BY <1>0, <1>14, <2>3 DEF start_publishes
  <2>5. queue' \in Seq({"task", "sup"} \X Job)
    BY <1>0, <1>14 DEF start_publishes, Granted
  <2>6. status' \in ActiveState \cup {"absent"} /\ (status' = "absent" <=> services = NoRunner)
    BY <1>0, <1>2, <1>14, Marked DEF start_publishes
  <2>7. UNCHANGED <<type, services, ngens, runner, proc, killed, njobs, job, op>>
    BY <1>14 DEF start_publishes, rvars, pvars, jvars
  <2>8. TypeOK'
    BY <2>2, <2>4, <2>5, <2>6, <2>7 DEF TypeInv, TypeOK, OwnedTask, OwnedSup
  <2>9. QED
    BY <2>2, <2>4, <2>7, <2>8 DEF TypeInv, OpServed
<1>15. CASE start_ends(j)
  <2>1. TaskTo(j, "done") /\ (JobRemoved(j, "failed") \/ JobRemoved(j, "done"))
    BY <1>15 DEF start_ends
  <2>2. task' \in [Job -> OwnedTask]
    BY <1>0, <1>1, <1>3, <2>1, TaskMoves
  <2>3. job' \in [Job -> JobRecord]
    BY <1>0, <2>1, JobsTyped DEF Outcome
  <2>4. UNCHANGED <<type, status, services, ngens, runner, proc, killed, njobs, sup, op, queue>>
    BY <1>15 DEF start_ends, rvars, pvars
  <2>5. TypeOK'
    BY <2>2, <2>3, <2>4 DEF TypeInv, TypeOK, OwnedTask
  <2>6. QED
    BY <2>2, <2>4, <2>5 DEF TypeInv, OpServed
<1>16. QED
  BY <1>6, <1>7, <1>8, <1>9, <1>10, <1>11, <1>12, <1>13, <1>14, <1>15 DEF StartTask

LEMMA TypeSupervisor ==
  ASSUME TypeInv, NEW j \in Job, Supervisor(j)
  PROVE  TypeInv'
<1>0. /\ status \in ActiveState \cup {"absent"} /\ (status = "absent" <=> services = NoRunner)
      /\ runner \in [Gen -> Runner] /\ proc \in [Proc -> ProcState]
      /\ sup \in [Job -> OwnedSup] /\ queue \in Seq({"task", "sup"} \X Job)
  BY DEF TypeInv, TypeOK
<1>1. sup[j].pc # "none"
  BY DEF Supervisor, SupAt, wait_for_exit, wait_direct_child, poll_pid_gone, supervise_checks,
    supervise_marks
<1>2. sup[j].gen \in Gen /\ sup[j].seen \in ActiveState
  BY <1>0, <1>1 DEF OwnedSup, Sup
<1>3. CASE wait_for_exit(j)
  <2>. DEFINE g == sup[j].gen
              c == IF Direct THEN runner[g].child ELSE NoProc
  <2>1. c \in OptJob /\ c \in OptProc /\ runner[g].main_pid \in OptProc /\ NoProc \in OptJob
    BY <1>0, <1>2, Atoms, Processes DEF Runner
  <2>2. runner' \in [Gen -> Runner]
    BY <1>0, <1>2, <1>3, <2>1 DEF wait_for_exit, Runner
  <2>3. sup' \in [Job -> OwnedSup]
    <3>1. c # NoProc => c \in Job
      BY <2>1 DEF OptJob, NoProc, NoJob
    <3>2. sup' = [sup EXCEPT ![j] =
            [@ EXCEPT !.pc = IF c # NoProc THEN "wait"
                             ELSE IF runner[g].main_pid # NoProc THEN "poll" ELSE "done",
                      !.child = c,
                      !.target = IF c # NoProc THEN c ELSE runner[g].main_pid]]
      BY <1>3 DEF wait_for_exit
    <3>3. ASSUME NEW pc \in SupPc, NEW child \in OptJob, NEW target \in OptProc,
                 pc = "wait" => child \in Job
          PROVE  [sup[j] EXCEPT !.pc = pc, !.child = child, !.target = target] \in OwnedSup
      BY <1>0, <1>2, <3>3, SupFields
    <3>4. {"wait", "poll", "done"} \subseteq SupPc
      BY DEF SupPc
    <3>5. QED
      BY <1>0, <2>1, <3>1, <3>2, <3>3, <3>4
  <2>4. UNCHANGED <<type, status, services, ngens, proc, killed, njobs, job, task, op, queue>>
    BY <1>3 DEF wait_for_exit, pvars, jvars
  <2>5. TypeOK'
    BY <2>2, <2>3, <2>4 DEF TypeInv, TypeOK, OwnedSup
  <2>6. QED
    BY <2>3, <2>4, <2>5 DEF TypeInv, OpServed
<1>4. CASE wait_direct_child(j)
  <2>1. proc' \in [Proc -> ProcState]
    BY <1>0, <1>4 DEF wait_direct_child, ProcState
  <2>2. sup' \in [Job -> OwnedSup]
    <3>1. "exited" \in SupPc
      BY DEF SupPc
    <3>2. ASSUME NEW s \in ActiveState
          PROVE  [sup[j] EXCEPT !.pc = "exited", !.child = NoProc, !.seen = s] \in OwnedSup
      BY <1>0, <1>2, <3>1, Atoms, SupFields
    <3>3. PICK s \in ActiveState :
            sup' = [sup EXCEPT ![j] = [@ EXCEPT !.pc = "exited", !.child = NoProc, !.seen = s]]
      BY <1>4, Atoms DEF wait_direct_child
    <3>4. QED
      BY <1>0, <3>2, <3>3
  <2>3. UNCHANGED <<type, status, services, ngens, runner, killed, njobs, job, task, op, queue>>
    BY <1>4 DEF wait_direct_child, rvars, jvars
  <2>4. TypeOK'
    BY <2>1, <2>2, <2>3 DEF TypeInv, TypeOK, OwnedSup
  <2>5. QED
    BY <2>2, <2>3, <2>4 DEF TypeInv, OpServed
<1>5. CASE poll_pid_gone(j)
  <2>1. sup' \in [Job -> OwnedSup]
    BY <1>0, <1>2, <1>5 DEF poll_pid_gone, OwnedSup, Sup, SupPc
  <2>2. UNCHANGED <<type, status, services, ngens, runner, proc, killed, njobs, job, task, op, queue>>
    BY <1>5 DEF poll_pid_gone, rvars, pvars, jvars
  <2>3. TypeOK'
    BY <2>1, <2>2 DEF TypeInv, TypeOK, OwnedSup
  <2>4. QED
    BY <2>1, <2>2, <2>3 DEF TypeInv, OpServed
<1>6. CASE supervise_checks(j)
  <2>1. \/ sup' = [sup EXCEPT ![j].pc = "done"] /\ UNCHANGED <<runner, queue>>
        \/ /\ Queue("sup", j)
           /\ sup' = [sup EXCEPT ![j].pc = "mark"]
           /\ runner' = [runner EXCEPT ![sup[j].gen].state = sup[j].seen,
                                       ![sup[j].gen].main_pid = NoProc]
    BY <1>6 DEF supervise_checks
  <2>2. sup' \in [Job -> OwnedSup]
    <3>1. "done" \in SupPc /\ "mark" \in SupPc
      BY DEF SupPc
    <3>2. ASSUME NEW pc \in {"done", "mark"} PROVE [sup[j] EXCEPT !.pc = pc] \in OwnedSup
      BY <1>0, <1>2, <3>1, Atoms, SupFields
    <3>3. QED
      BY <1>0, <2>1, <3>2
  <2>3. runner' \in [Gen -> Runner]
    <3>1. CASE UNCHANGED runner
      BY <1>0, <3>1
    <3>2. ASSUME NEW s \in ActiveState,
                 runner' = [runner EXCEPT ![sup[j].gen].state = s,
                                          ![sup[j].gen].main_pid = NoProc]
          PROVE  runner' \in [Gen -> Runner]
      BY <1>0, <1>2, <3>2, Atoms DEF Runner
    <3>3. QED
      BY <1>2, <2>1, <3>1, <3>2
  <2>4. queue' \in Seq({"task", "sup"} \X Job)
    BY <1>0, <2>1, AppendTyped DEF Queue
  <2>5. UNCHANGED <<type, status, services, ngens, proc, killed, njobs, job, task, op>>
    BY <1>6 DEF supervise_checks, pvars, jvars
  <2>6. TypeOK'
    BY <2>2, <2>3, <2>4, <2>5 DEF TypeInv, TypeOK, OwnedSup
  <2>7. QED
    BY <2>2, <2>5, <2>6 DEF TypeInv, OpServed
<1>7. CASE supervise_marks(j)
  <2>1. sup' \in [Job -> OwnedSup]
    <3>1. [sup[j] EXCEPT !.pc = "done"] \in OwnedSup
      BY <1>0, <1>2 DEF OwnedSup, Sup, SupPc
    <3>2. QED
      BY <1>0, <1>7, <3>1 DEF supervise_marks
  <2>2. queue' \in Seq({"task", "sup"} \X Job)
    BY <1>0, <1>7 DEF supervise_marks, Granted
  <2>3. status' \in ActiveState \cup {"absent"} /\ (status' = "absent" <=> services = NoRunner)
    BY <1>0, <1>2, <1>7, Marked DEF supervise_marks
  <2>4. UNCHANGED <<type, services, ngens, runner, proc, killed, njobs, job, task, op>>
    BY <1>7 DEF supervise_marks, rvars, pvars, jvars
  <2>5. TypeOK'
    BY <2>1, <2>2, <2>3, <2>4 DEF TypeInv, TypeOK, OwnedSup
  <2>6. QED
    BY <2>1, <2>4, <2>5 DEF TypeInv, OpServed
<1>8. QED
  BY <1>3, <1>4, <1>5, <1>6, <1>7 DEF Supervisor

LEMMA TypeProcess ==
  ASSUME TypeInv, NEW p \in Proc, process_exits(p) \/ orphan_reaped(p) \/ process_forks(p)
  PROVE  TypeInv'
<1>1. proc \in [Proc -> ProcState]
  BY DEF TypeInv, TypeOK
<1>2. proc' \in [Proc -> ProcState]
  BY <1>1 DEF process_exits, orphan_reaped, process_forks, ProcState
<1>3. UNCHANGED <<type, status, services, ngens, runner, killed, njobs, job, task, sup, op, queue>>
  BY DEF process_exits, orphan_reaped, process_forks, rvars, jvars
<1>4. TypeOK'
  BY <1>2, <1>3 DEF TypeInv, TypeOK
<1>5. QED
  BY <1>3, <1>4 DEF TypeInv, OpServed

LEMMA TypeMainPid ==
  ASSUME TypeInv, NEW j \in Job, start_hears_main_pid(j)
  PROVE  TypeInv'
<1>1. runner \in [Gen -> Runner] /\ task[j].gen \in Gen
  BY DEF TypeInv, TypeOK, OwnedTask, start_hears_main_pid, TaskAt
<1>2. PICK p \in OptProc : runner' = [runner EXCEPT ![task[j].gen].main_pid = p]
  BY Processes DEF start_hears_main_pid
<1>3. runner' \in [Gen -> Runner]
  BY <1>1, <1>2 DEF Runner
<1>4. UNCHANGED <<type, status, services, ngens, proc, killed, njobs, job, task, sup, op, queue>>
  BY DEF start_hears_main_pid, pvars, jvars
<1>5. TypeOK'
  BY <1>3, <1>4 DEF TypeInv, TypeOK
<1>6. QED
  BY <1>4, <1>5 DEF TypeInv, OpServed

LEMMA TypeStep == TypeInv /\ [Next]_vars => TypeInv'
<1> SUFFICES ASSUME TypeInv, [Next]_vars PROVE TypeInv'
  OBVIOUS
<1>1. CASE Manager
  BY <1>1, TypeRequests, TypeStop, TypeReload DEF Manager
<1>2. ASSUME NEW j \in Job, StartTask(j) PROVE TypeInv'
  BY <1>2, TypeStartTask
<1>3. ASSUME NEW j \in Job, Supervisor(j) PROVE TypeInv'
  BY <1>3, TypeSupervisor
<1>4. ASSUME NEW p \in Proc, process_exits(p) \/ orphan_reaped(p) \/ process_forks(p)
      PROVE  TypeInv'
  BY <1>4, TypeProcess
<1>5. ASSUME NEW j \in Job, start_hears_main_pid(j) PROVE TypeInv'
  BY <1>5, TypeMainPid
<1>6. CASE UNCHANGED vars
  BY <1>6 DEF TypeInv, TypeOK, OpServed, vars, rvars, pvars, jvars
<1>7. QED
  BY <1>1, <1>2, <1>3, <1>4, <1>5, <1>6, Processes DEF Next

\* The variables keep their types, and a unit has a status exactly while it has a
\* runner, whatever requests, faults and reloads do (manager.rs, runner.rs).
THEOREM TypeCorrect == Spec => []TypeOK
<1>1. TypeInv => TypeOK
  BY DEF TypeInv
<1>2. QED
  BY TypeInit, TypeStep, <1>1, PTL DEF Spec

-----------------------------------------------------------------------------
(* Job accounting                                                          *)

\* Who works for which job: inductive once the reload is known to work for none.
Accounts ==
  /\ \A j \in Job : j <= njobs <=> job[j].outcome # "none"
  /\ \A j \in Job : Pending(j) <=> TaskActive(j) \/ op.job = j
  /\ \A j \in Job : ~(TaskActive(j) /\ op.job = j)
  /\ op.pc = "idle" => op.job = NoJob

AccountInv == Accounts /\ (op.pc = "take_child" => op.job = NoJob)

\* What a lost job takes: a start half, and a unit that a reload has removed.
LostInv ==
  /\ services = NoRunner => May("remove")
  /\ \A j \in Job : job[j].outcome = "lost" =>
       job[j].kind \in {"start", "restart"} /\ May("remove")

FinalKept == \A j \in Job : ~Pending(j) /\ job[j].outcome # "none" => job'[j] = job[j]

LEMMA AccountInit == Init => AccountInv
<1> SUFFICES ASSUME Init PROVE AccountInv
  OBVIOUS
<1>1. njobs = 0 /\ op = Idle /\ \A j \in Job : ~(j <= njobs)
  BY LifecycleAssumption DEF Init, Job
<1>2. \A j \in Job : job[j].outcome = "none" /\ task[j].pc = "none" /\ op.job # j
  BY FirstGen DEF Init, NoTask, Idle, NoJob
<1>3. QED
  BY <1>1, <1>2 DEF AccountInv, Accounts, Pending, TaskActive, Idle

\* A step that neither allocates nor ends a job, and hands none over.
LEMMA AccountQuiet ==
  ASSUME AccountInv, UNCHANGED <<njobs, job>>, op'.job = op.job,
         op'.pc \in {"idle", "take_child"} => op'.job = NoJob,
         \A j \in Job : (TaskActive(j)' <=> TaskActive(j))
  PROVE  AccountInv' /\ FinalKept
BY DEF AccountInv, FinalKept, Accounts, Pending

\* The next job id is new: nothing works for it, and nothing was announced.
LEMMA Fresh ==
  ASSUME TypeInv, AccountInv, njobs < MaxJobs
  PROVE  /\ njobs + 1 \in Job
         /\ job[njobs + 1].outcome = "none"
         /\ ~TaskActive(njobs + 1)
         /\ op.job # njobs + 1
         /\ \A j \in Job : j # njobs + 1 => (j <= njobs + 1 <=> j <= njobs)
<1>1. njobs + 1 \in Job
  BY NextJob DEF TypeInv, TypeOK
<1>2. ~(njobs + 1 <= njobs) /\ \A j \in Job : j # njobs + 1 => (j <= njobs + 1 <=> j <= njobs)
  <2>1. njobs \in Nat /\ Job \subseteq Nat
    BY LifecycleAssumption DEF TypeInv, TypeOK, OptJob, Job, NoJob
  <2>2. QED
    BY <2>1
<1>3. QED
  BY <1>1, <1>2 DEF AccountInv, Accounts, Pending

\* A step that allocates the next job: its outcome says who works for it.
LEMMA AccountAlloc ==
  ASSUME TypeInv, AccountInv, njobs < MaxJobs, njobs' = njobs + 1,
         NEW n \in Job, n = njobs + 1,
         NEW kind, NEW outcome, outcome # "none",
         job' = [job EXCEPT ![n] = [kind |-> kind, outcome |-> outcome]],
         \A j \in Job : j # n => (TaskActive(j)' <=> TaskActive(j)),
         op.job = NoJob, op'.job \in {NoJob, n},
         op'.pc \in {"idle", "take_child"} => op'.job = NoJob,
         outcome = "pending" <=> TaskActive(n)' \/ op'.job = n,
         ~(TaskActive(n)' /\ op'.job = n)
  PROVE  AccountInv' /\ FinalKept
<1>1. job \in [Job -> JobRecord]
  BY DEF TypeInv, TypeOK
<1>2. job[n].outcome = "none" /\ \A j \in Job : j # n => (j <= njobs' <=> j <= njobs)
  BY Fresh
<1>3. \A j \in Job : j # n => job'[j] = job[j] /\ op'.job # j /\ op.job # j
  BY <1>1, FirstGen DEF NoJob
<1>4. job'[n].outcome = outcome /\ n <= njobs'
  BY <1>1, LifecycleAssumption DEF Job
<1>5. ASSUME NEW j \in Job
      PROVE  /\ j <= njobs' <=> job'[j].outcome # "none"
             /\ job'[j].outcome = "pending" <=> TaskActive(j)' \/ op'.job = j
             /\ ~(TaskActive(j)' /\ op'.job = j)
  <2>1. CASE j = n
    BY <1>4, <2>1
  <2>2. CASE j # n
    BY <1>2, <1>3, <2>2 DEF AccountInv, Accounts, Pending
  <2>3. QED
    BY <2>1, <2>2
<1>6. FinalKept
  BY <1>2, <1>3 DEF FinalKept
<1>7. QED
  BY <1>5, <1>6 DEF AccountInv, Accounts, Pending

\* A step that ends the job j, for which its actor works no longer.
LEMMA AccountEnd ==
  ASSUME TypeInv, AccountInv, NEW j \in Job, Pending(j), UNCHANGED njobs,
         NEW outcome, outcome \notin {"none", "pending"}, JobRemoved(j, outcome),
         \A i \in Job : i # j => (TaskActive(i)' <=> TaskActive(i)),
         ~TaskActive(j)', op'.job # j,
         \A i \in Job : i # j => (op'.job = i <=> op.job = i),
         op'.pc \in {"idle", "take_child"} => op'.job = NoJob
  PROVE  AccountInv' /\ FinalKept
<1>1. job \in [Job -> JobRecord]
  BY DEF TypeInv, TypeOK
<1>2. \A i \in Job : i # j => job'[i] = job[i]
  BY <1>1 DEF JobRemoved
<1>3. job'[j].outcome = outcome
  BY <1>1 DEF JobRemoved, JobRecord
<1>4. \A i \in Job : i <= njobs' <=> job'[i].outcome # "none"
  BY <1>2, <1>3 DEF AccountInv, Accounts, Pending
<1>5. \A i \in Job : Pending(i)' <=> (TaskActive(i)' \/ op'.job = i)
  BY <1>2, <1>3 DEF AccountInv, Accounts, Pending
<1>6. \A i \in Job : ~(TaskActive(i)' /\ op'.job = i)
  BY DEF AccountInv, Accounts
<1>7. FinalKept
  BY <1>2 DEF FinalKept
<1>8. QED
  BY <1>4, <1>5, <1>6, <1>7 DEF AccountInv, Accounts

\* The task of job j has just been spawned.
LEMMA SpawnedActive ==
  ASSUME TypeInv, NEW j \in Job, spawn_service_start(j)
  PROVE  TaskActive(j)' /\ \A i \in Job : i # j => (TaskActive(i)' <=> TaskActive(i))
<1>1. task \in [Job -> OwnedTask]
  BY DEF TypeInv
<1>2. task' = [task EXCEPT ![j] = [NoTask EXCEPT !.pc = "clear", !.gen = services]]
  BY DEF spawn_service_start
<1>3. task'[j].pc = "clear" /\ \A i \in Job : i # j => task'[i] = task[i]
  BY <1>1, <1>2 DEF NoTask
<1>4. QED
  BY <1>3 DEF TaskActive

LEMMA AccountRequests ==
  ASSUME TypeInv, AccountInv,
         start_unit \/ reload_unit \/ (\E kind \in {"stop", "restart"} : stop_unit(kind))
  PROVE  AccountInv' /\ FinalKept
<1>1. njobs < MaxJobs /\ op.job = NoJob /\ op.pc = "idle"
  BY DEF start_unit, reload_unit, stop_unit, Request, Served, Unlocked, AccountInv, Accounts
<1>2. PICK n \in Job : n = njobs + 1 /\ ~TaskActive(n) /\ NoJob # n
  BY <1>1, Fresh, FirstGen DEF NoJob
<1>3. CASE start_unit
  <2>1. UNCHANGED op /\ njobs' = njobs + 1
    BY <1>3 DEF start_unit, alloc_job_id
  <2>2. CASE spawn_service_start(njobs + 1) /\ alloc_job_id("start", "pending")
    <3>1. job' = [job EXCEPT ![n] = [kind |-> "start", outcome |-> "pending"]]
      BY <1>2, <2>2 DEF alloc_job_id
    <3>2. TaskActive(n)' /\ \A j \in Job : j # n => (TaskActive(j)' <=> TaskActive(j))
      BY <1>2, <2>2, SpawnedActive
    <3>3. QED
      BY <1>1, <1>2, <2>1, <3>1, <3>2, AccountAlloc
  <2>3. CASE alloc_job_id("start", "lost") /\ UNCHANGED <<status, task>>
    <3>1. job' = [job EXCEPT ![n] = [kind |-> "start", outcome |-> "lost"]]
      BY <1>2, <2>3 DEF alloc_job_id
    <3>2. \A j \in Job : (TaskActive(j)' <=> TaskActive(j))
      BY <2>3 DEF TaskActive
    <3>3. QED
      BY <1>1, <1>2, <2>1, <3>1, <3>2, AccountAlloc
  <2>4. QED
    BY <1>3, <2>2, <2>3 DEF start_unit
<1>4. CASE reload_unit
  <2>1. PICK outcome \in {"skipped", "done", "failed"} : alloc_job_id("reload", outcome)
    BY <1>4 DEF reload_unit
  <2>2. UNCHANGED op /\ \A j \in Job : (TaskActive(j)' <=> TaskActive(j))
    BY <1>4 DEF reload_unit, TaskActive
  <2>3. /\ njobs' = njobs + 1
        /\ job' = [job EXCEPT ![n] = [kind |-> "reload", outcome |-> outcome]]
    BY <1>2, <2>1 DEF alloc_job_id
  <2>4. QED
    BY <1>1, <1>2, <2>2, <2>3, AccountAlloc
<1>5. ASSUME NEW kind \in {"stop", "restart"}, stop_unit(kind)
      PROVE  AccountInv' /\ FinalKept
  <2>1. njobs' = njobs + 1 /\ \A j \in Job : (TaskActive(j)' <=> TaskActive(j))
    BY <1>5 DEF stop_unit, TaskActive
  <2>2. CASE services = NoRunner
    <3>1. PICK outcome \in {"done", "lost"} :
            job' = [job EXCEPT ![n] = [kind |-> kind, outcome |-> outcome]]
      BY <1>2, <1>5, <2>2 DEF stop_unit
    <3>2. UNCHANGED op
      BY <1>5, <2>2 DEF stop_unit
    <3>3. QED
      BY <1>1, <1>2, <2>1, <3>1, <3>2, AccountAlloc
  <2>3. CASE services # NoRunner
    <3>1. job' = [job EXCEPT ![n] = [kind |-> kind, outcome |-> "pending"]]
      BY <1>2, <1>5, <2>3 DEF stop_unit
    <3>2. op'.job = n /\ op'.pc = "exec_stop"
      BY <1>2, <1>5, <2>3 DEF stop_unit
    <3>3. QED
      BY <1>1, <1>2, <2>1, <3>1, <3>2, AccountAlloc
  <2>4. QED
    BY <2>2, <2>3
<1>6. QED
  BY <1>3, <1>4, <1>5

LEMMA AccountStop ==
  ASSUME TypeInv, AccountInv,
         stop_signals \/ stop_env_error \/ stop_sees_exit \/ stop_times_out \/ stop_final
  PROVE  AccountInv' /\ FinalKept
<1>1. PICK j \in Job : op \in Op /\ op.job = j /\ Pending(j) /\ ~TaskActive(j)
  BY DEF TypeInv, TypeOK, OpServed, AccountInv, Accounts, stop_signals, stop_env_error,
    stop_sees_exit, stop_times_out, stop_final
<1>2. CASE stop_signals \/ stop_sees_exit \/ stop_times_out
  <2>1. UNCHANGED <<njobs, job, task>>
    BY <1>2 DEF stop_signals, stop_sees_exit, stop_times_out, jvars
  <2>2. op'.job = op.job /\ op'.pc \in {"wait", "wait_killed", "final"}
    BY <1>1, <1>2 DEF stop_signals, stop_sees_exit, stop_times_out, Op
  <2>3. \A i \in Job : (TaskActive(i)' <=> TaskActive(i))
    BY <2>1 DEF TaskActive
  <2>4. QED
    BY <2>1, <2>2, <2>3, AccountQuiet
<1>3. CASE stop_env_error \/ stop_final
  <2>1. run_stop_ends(op.job, job[op.job].kind) /\ UNCHANGED njobs
    BY <1>3 DEF stop_env_error, stop_final
  <2>2. op'.pc = "idle" /\ op'.job = NoJob /\ NoJob \notin Job
    BY <2>1, FirstGen DEF run_stop_ends, Idle, NoJob
  <2>3. CASE spawn_service_start(j) /\ UNCHANGED job
    <3>1. TaskActive(j)' /\ \A i \in Job : i # j => (TaskActive(i)' <=> TaskActive(i))
      BY <2>3, SpawnedActive
    <3>2. \A i \in Job : Pending(i)' <=> Pending(i)
      BY <2>3 DEF Pending
    <3>3. Accounts'
      BY <1>1, <2>1, <2>2, <2>3, <3>1, <3>2 DEF AccountInv, Accounts
    <3>4. QED
      BY <2>2, <2>3, <3>3 DEF AccountInv, FinalKept
  <2>4. CASE (JobRemoved(j, "done") \/ JobRemoved(j, "lost")) /\ UNCHANGED task
    <3>1. \A i \in Job : TaskActive(i)' <=> TaskActive(i)
      BY <2>4 DEF TaskActive
    <3>2. op'.job # j /\ \A i \in Job : i # j => (op'.job = i <=> op.job = i)
      BY <1>1, <2>2
    <3>3. PICK outcome \in {"done", "lost"} : JobRemoved(j, outcome)
      BY <2>4
    <3>4. QED
      BY <1>1, <2>1, <2>2, <3>1, <3>2, <3>3, AccountEnd
  <2>5. QED
    BY <1>1, <2>1, <2>3, <2>4 DEF run_stop_ends
<1>4. QED
  BY <1>2, <1>3

LEMMA AccountReload ==
  ASSUME TypeInv, AccountInv, daemon_reload \/ reload_takes_child \/ reload_removes_unit
  PROVE  AccountInv' /\ FinalKept
<1>1. op.job = NoJob
  BY DEF daemon_reload, reload_takes_child, reload_removes_unit, Served, Unlocked, AccountInv,
    Accounts
<1>2. op'.job = NoJob
  BY <1>1 DEF daemon_reload, reload_takes_child, reload_removes_unit, Idle
<1>3. UNCHANGED <<njobs, job, task>>
  BY DEF daemon_reload, reload_takes_child, reload_removes_unit, jvars
<1>4. \A j \in Job : (TaskActive(j)' <=> TaskActive(j))
  BY <1>3 DEF TaskActive
<1>5. QED
  BY <1>1, <1>2, <1>3, <1>4, AccountQuiet

LEMMA AccountStartTask ==
  ASSUME TypeInv, AccountInv, NEW j \in Job, StartTask(j)
  PROVE  AccountInv' /\ FinalKept
<1>1. task \in [Job -> OwnedTask]
  BY DEF TypeInv
<1>2. CASE start_ends(j)
  <2>1. TaskActive(j) /\ Pending(j) /\ op.job # j
    BY <1>2 DEF start_ends, TaskAt, TaskActive, AccountInv, Accounts
  <2>2. task' = [task EXCEPT ![j].pc = "done"] /\ UNCHANGED <<njobs, op>>
    BY <1>2 DEF start_ends, TaskTo
  <2>3. ~TaskActive(j)' /\ \A i \in Job : i # j => (TaskActive(i)' <=> TaskActive(i))
    BY <1>1, <2>2 DEF TaskActive, OwnedTask, Task
  <2>4. PICK outcome \in {"failed", "done"} : JobRemoved(j, outcome)
    BY <1>2 DEF start_ends
  <2>5. op'.pc \in {"idle", "take_child"} => op'.job = NoJob
    BY <2>2 DEF AccountInv, Accounts
  <2>6. QED
    BY <2>1, <2>2, <2>3, <2>4, <2>5, AccountEnd
<1>3. CASE ~start_ends(j)
  <2>1. UNCHANGED <<njobs, job, op>>
    BY <1>3 DEF StartTask, start_begins, start_prepares, start_executes, start_stores_child,
      start_waits_ready, start_awaits_oneshot, start_activates, start_returns,
      start_publishes, jvars
  <2>2. TaskActive(j)
    BY <1>3 DEF TaskActive, StartTask, TaskAt, start_begins, start_prepares, start_executes,
      start_stores_child, start_waits_ready, start_awaits_oneshot, start_activates,
      start_returns, start_publishes
  <2>3. TaskActive(j)' /\ \A i \in Job : i # j => (TaskActive(i)' <=> TaskActive(i))
    <3>1. ASSUME NEW pc \in TaskPc, pc \notin {"none", "done"}, TaskTo(j, pc)
          PROVE  TaskActive(j)' /\ \A i \in Job : i # j => (TaskActive(i)' <=> TaskActive(i))
      BY <1>1, <3>1 DEF TaskActive, TaskTo, OwnedTask, Task
    <3>2. ASSUME NEW state, start_fails(j, state)
          PROVE  TaskActive(j)' /\ \A i \in Job : i # j => (TaskActive(i)' <=> TaskActive(i))
      BY <1>1, <3>2 DEF TaskActive, start_fails, OwnedTask, Task
    <3>3. CASE start_returns(j)
      <4>1. task' = [task EXCEPT ![j] = [@ EXCEPT !.pc = "publish",
                                                  !.seen = runner[task[j].gen].state]]
        BY <1>1, <3>3 DEF start_returns
      <4>2. task'[j].pc = "publish" /\ \A i \in Job : i # j => task'[i] = task[i]
        BY <1>1, <4>1 DEF OwnedTask, Task
      <4>3. QED
        BY <4>2 DEF TaskActive
    <3>4. CASE ~start_returns(j)
      <4>1. \/ \E pc \in {"pre", "exec", "await", "child", "ready", "activate", "read",
                          "removed"} : TaskTo(j, pc)
            \/ \E state : start_fails(j, state)
        BY <1>3, <3>4 DEF StartTask, start_begins, start_prepares, start_executes,
          pid_file_missing, start_aborts, start_stores_child, start_waits_ready,
          start_awaits_oneshot, start_activates, start_publishes
      <4>2. QED
        BY <3>1, <3>2, <4>1 DEF TaskPc
    <3>5. QED
      BY <3>3, <3>4
  <2>4. op'.pc \in {"idle", "take_child"} => op'.job = NoJob
    BY <2>1 DEF AccountInv, Accounts
  <2>5. QED
    BY <2>1, <2>2, <2>3, <2>4, AccountQuiet
<1>4. QED
  BY <1>2, <1>3

LEMMA AccountStep ==
  ASSUME TypeInv, AccountInv, [Next]_vars
  PROVE  AccountInv' /\ FinalKept
<1>1. CASE Manager
  BY <1>1, AccountRequests, AccountStop, AccountReload DEF Manager
<1>2. ASSUME NEW j \in Job, StartTask(j) PROVE AccountInv' /\ FinalKept
  BY <1>2, AccountStartTask
<1>3. ASSUME UNCHANGED <<njobs, job, task, op>> PROVE AccountInv' /\ FinalKept
  <2>1. \A j \in Job : (TaskActive(j)' <=> TaskActive(j))
    BY <1>3 DEF TaskActive
  <2>2. QED
    BY <1>3, <2>1, AccountQuiet DEF AccountInv, Accounts
<1>4. ASSUME NEW j \in Job, Supervisor(j) PROVE UNCHANGED <<njobs, job, task, op>>
  BY <1>4 DEF Supervisor, wait_for_exit, wait_direct_child, poll_pid_gone, supervise_checks,
    supervise_marks, jvars
<1>5. ASSUME NEW p, process_exits(p) \/ orphan_reaped(p) \/ process_forks(p)
                    \/ start_hears_main_pid(p)
      PROVE  UNCHANGED <<njobs, job, task, op>>
  BY <1>5 DEF process_exits, orphan_reaped, process_forks, start_hears_main_pid, jvars
<1>6. CASE UNCHANGED vars
  BY <1>3, <1>6 DEF vars, jvars
<1>7. QED
  BY <1>1, <1>2, <1>3, <1>4, <1>5, <1>6 DEF Next

\* A job is lost only by the start half, and only where there is no runner.
LEMMA LostStep ==
  ASSUME TypeInv, AccountInv, LostInv, [Next]_vars
  PROVE  LostInv'
<1>0. job \in [Job -> JobRecord] /\ type' = type
  <2>1. job \in [Job -> JobRecord]
    BY DEF TypeInv, TypeOK
  <2>2. ASSUME Manager PROVE type' = type
    BY <2>2 DEF Manager, start_unit, reload_unit, stop_unit, stop_signals, stop_env_error,
      stop_sees_exit, stop_times_out, stop_final, daemon_reload, reload_takes_child,
      reload_removes_unit
  <2>3. ASSUME NEW j \in Job, StartTask(j) PROVE type' = type
    BY <2>3 DEF StartTask, start_begins, start_prepares, start_executes, start_stores_child,
      start_waits_ready, start_awaits_oneshot, start_activates, start_returns, start_publishes,
      start_ends
  <2>4. ASSUME NEW j \in Job, Supervisor(j) PROVE type' = type
    BY <2>4 DEF Supervisor, wait_for_exit, wait_direct_child, poll_pid_gone, supervise_checks,
      supervise_marks
  <2>5. QED
    BY <2>1, <2>2, <2>3, <2>4 DEF Next, vars, start_hears_main_pid, process_forks,
      process_exits, orphan_reaped
<1>1. May("remove")' <=> May("remove")
  BY <1>0 DEF May
<1>2. ASSUME UNCHANGED <<job, services>> PROVE LostInv'
  BY <1>1, <1>2 DEF LostInv
\* The job that a step allocates or ends is not lost, or it may be.
<1>3. ASSUME NEW j \in Job, NEW r, job' = [job EXCEPT ![j] = r], UNCHANGED services,
             r.outcome = "lost" => r.kind \in {"start", "restart"} /\ services = NoRunner
      PROVE  LostInv'
  BY <1>0, <1>1, <1>3 DEF LostInv
<1>4. ASSUME start_unit \/ reload_unit \/ (\E kind \in {"stop", "restart"} : stop_unit(kind))
      PROVE  LostInv'
  <2>1. njobs < MaxJobs
    BY <1>4 DEF start_unit, reload_unit, stop_unit, Request
  <2>2. njobs + 1 \in Job
    BY <2>1, Fresh
  <2>3. UNCHANGED services
    BY <1>4 DEF start_unit, reload_unit, stop_unit, rvars
  <2>4. PICK r : /\ job' = [job EXCEPT ![njobs + 1] = r]
                 /\ r.outcome = "lost" => r.kind \in {"start", "restart"} /\ services = NoRunner
    <3>1. CASE start_unit
      BY <3>1 DEF start_unit, alloc_job_id
    <3>2. CASE reload_unit
      <4>1. PICK outcome \in {"skipped", "done", "failed"} : alloc_job_id("reload", outcome)
        BY <3>2 DEF reload_unit
      <4>. DEFINE r == [kind |-> "reload", outcome |-> outcome]
      <4>2. r.outcome = outcome
        OBVIOUS
      <4>3. job' = [job EXCEPT ![njobs + 1] = r] /\ r.outcome # "lost"
        BY <4>1, <4>2 DEF alloc_job_id
      <4>. HIDE DEF r
      <4>4. QED
        BY <4>3
    <3>3. ASSUME NEW kind \in {"stop", "restart"}, stop_unit(kind)
          PROVE  \E r : /\ job' = [job EXCEPT ![njobs + 1] = r]
                        /\ r.outcome = "lost" =>
                             r.kind \in {"start", "restart"} /\ services = NoRunner
      BY <3>3 DEF stop_unit
    <3>4. QED
      BY <1>4, <3>1, <3>2, <3>3
  <2>5. QED
    BY <1>3, <2>2, <2>3, <2>4
<1>5. ASSUME NEW j \in Job, NEW outcome, JobRemoved(j, outcome), UNCHANGED services,
             outcome = "lost" => job[j].kind = "restart" /\ services = NoRunner
      PROVE  LostInv'
  <2>1. job' = [job EXCEPT ![j] = [job[j] EXCEPT !.outcome = outcome]]
    BY <1>5 DEF JobRemoved
  <2>2. /\ [job[j] EXCEPT !.outcome = outcome].outcome = outcome
        /\ [job[j] EXCEPT !.outcome = outcome].kind = job[j].kind
    BY <1>0 DEF JobRecord
  <2>3. QED
    BY <1>3, <1>5, <2>1, <2>2
<1>6. CASE stop_env_error \/ stop_final
  <2>1. op.job \in Job /\ run_stop_ends(op.job, job[op.job].kind) /\ UNCHANGED services
    BY <1>6 DEF stop_env_error, stop_final, TypeInv, OpServed, rvars
  <2>2. CASE UNCHANGED job
    BY <1>2, <2>1, <2>2
  <2>3. CASE job[op.job].kind = "restart" /\ services = NoRunner /\ JobRemoved(op.job, "lost")
    BY <1>5, <2>1, <2>3
  <2>4. CASE JobRemoved(op.job, "done")
    BY <1>5, <2>1, <2>4
  <2>5. QED
    BY <2>1, <2>2, <2>3, <2>4 DEF run_stop_ends
<1>7. CASE stop_signals \/ stop_sees_exit \/ stop_times_out
  BY <1>2, <1>7 DEF stop_signals, stop_sees_exit, stop_times_out, rvars, jvars
<1>8. CASE daemon_reload \/ reload_takes_child
  <2>1. ngens \in Nat /\ ngens # 0 /\ services \in OptGen
    BY LifecycleAssumption DEF TypeInv, TypeOK, Gen
  <2>2. services' # NoRunner
    BY <1>8, <2>1 DEF daemon_reload, reload_takes_child, NoRunner, OptGen, Gen
  <2>3. UNCHANGED job
    BY <1>8 DEF daemon_reload, reload_takes_child, jvars
  <2>4. QED
    BY <1>1, <2>2, <2>3 DEF LostInv
<1>9. CASE reload_removes_unit
  <2>1. May("remove") /\ UNCHANGED job
    BY <1>9 DEF reload_removes_unit, jvars
  <2>2. QED
    BY <1>1, <2>1 DEF LostInv
<1>10. ASSUME NEW j \in Job, StartTask(j) PROVE LostInv'
  <2>1. CASE start_ends(j)
    <3>1. PICK outcome \in {"failed", "done"} : JobRemoved(j, outcome)
      BY <2>1 DEF start_ends
    <3>2. UNCHANGED services
      BY <2>1 DEF start_ends, rvars
    <3>3. QED
      BY <1>5, <3>1, <3>2
  <2>2. CASE ~start_ends(j)
    <3>1. UNCHANGED <<job, services>>
      BY <1>10, <2>2 DEF StartTask, start_begins, start_prepares, start_executes,
        start_stores_child, start_waits_ready, start_awaits_oneshot, start_activates,
        start_returns, start_publishes, jvars, rvars
    <3>2. QED
      BY <1>2, <3>1
  <2>3. QED
    BY <2>1, <2>2
<1>11. ASSUME NEW j \in Job, Supervisor(j) PROVE UNCHANGED <<job, services>>
  BY <1>11 DEF Supervisor, wait_for_exit, wait_direct_child, poll_pid_gone, supervise_checks,
    supervise_marks, jvars, rvars
<1>12. ASSUME NEW p, process_exits(p) \/ orphan_reaped(p) \/ process_forks(p)
                     \/ start_hears_main_pid(p)
       PROVE  UNCHANGED <<job, services>>
  BY <1>12 DEF process_exits, orphan_reaped, process_forks, start_hears_main_pid, jvars, rvars
<1>13. ASSUME Manager PROVE LostInv'
  BY <1>4, <1>6, <1>7, <1>8, <1>9, <1>13 DEF Manager
<1>14. CASE UNCHANGED vars
  BY <1>2, <1>14 DEF vars, jvars, rvars
<1>15. QED
  BY <1>2, <1>10, <1>11, <1>12, <1>13, <1>14 DEF Next

\* A job that is announced and not removed is in one actor's hands, and none works for
\* one that is over.  The one exception: the start half of a start or restart of a unit
\* that a reload has found removed is dropped by a `?`, after JobNew (run_stop and
\* spawn_service_start, manager.rs:583 and 679).
THEOREM JobsAccounted == Spec => []JobAccounting
<1>1. Init => TypeInv /\ AccountInv /\ LostInv
  <2>1. Init => services # NoRunner /\ \A j \in Job : job[j].outcome = "none"
    BY DEF Init, NoRunner
  <2>2. QED
    BY <2>1, TypeInit, AccountInit DEF LostInv
<1>2. TypeInv /\ AccountInv /\ LostInv /\ [Next]_vars => (TypeInv /\ AccountInv /\ LostInv)'
  BY TypeStep, AccountStep, LostStep
<1>3. TypeInv /\ AccountInv /\ LostInv => JobAccounting
  BY DEF AccountInv, LostInv, Accounts, JobAccounting
<1>4. QED
  BY <1>1, <1>2, <1>3, PTL DEF Spec

\* JobRemoved is sent at most once for a job: an outcome is final (run_stop's
\* job_removed, and the one at the end of spawn_service_start's task).
THEOREM JobsFinal == Spec => JobFinal
<1>1. Init => TypeInv /\ AccountInv
  BY TypeInit, AccountInit
<1>2. TypeInv /\ AccountInv /\ [Next]_vars => (TypeInv /\ AccountInv)'
  BY TypeStep, AccountStep
<1>3. TypeInv /\ AccountInv /\ [Next]_vars =>
        [\A j \in Job : ~Pending(j) /\ job[j].outcome # "none" => job'[j] = job[j]]_vars
  BY AccountStep DEF FinalKept
<1>4. QED
  BY <1>1, <1>2, <1>3, PTL DEF Spec, JobFinal

-----------------------------------------------------------------------------
(* A stop ends its process                                                 *)

\* Who waits after SIGKILL has sent it.
KillInv == SendSigkill /\ KillSignals /\ op.pc = "wait_killed" => op.pid \in killed

LEMMA KillStep ==
  ASSUME TypeInv, KillInv, [Next]_vars
  PROVE  /\ KillInv'
         /\ SendSigkill /\ KillSignals =>
              (op.pc \in {"wait", "wait_killed"} /\ op'.pc = "final" /\ ~WaitsForOther =>
                 proc'[op.pid] # "alive" \/ op.pid \in killed')
<1>1. op \in Op /\ proc \in [Proc -> ProcState] /\ runner \in [Gen -> Runner]
  BY DEF TypeInv, TypeOK
<1>2. CASE stop_sees_exit
  <2>1. op'.pc = "final" /\ killed' = killed /\ op.pc \in {"wait", "wait_killed"}
    BY <1>1, <1>2 DEF stop_sees_exit, Op
  <2>2. CASE op.pc = "wait_killed"
    BY <2>1, <2>2 DEF KillInv
  <2>3. CASE op.pc = "wait" /\ runner[services].child = NoProc
    BY <1>2, <2>1, <2>3 DEF stop_sees_exit, KillInv
  <2>4. CASE op.pc = "wait" /\ runner[services].child # NoProc
    <3>1. services \in Gen /\ runner[services].child \in Proc
      BY <1>1, <2>4, Processes DEF TypeInv, OpServed, Runner, OptJob, NoProc, NoJob
    <3>2. proc'[runner[services].child] = "gone"
      BY <1>1, <1>2, <2>4, <3>1 DEF stop_sees_exit
    <3>3. QED
      BY <2>1, <2>4, <3>2 DEF KillInv, WaitsForOther
  <2>5. QED
    BY <2>1, <2>2, <2>3, <2>4
<1>3. CASE stop_times_out
  BY <1>1, <1>3 DEF stop_times_out, sigkill_sent, KillInv, Op
<1>4. CASE ~stop_sees_exit /\ ~stop_times_out
  <2>1. CASE op.pc \in {"wait", "wait_killed"}
    <3>1. ASSUME Manager PROVE FALSE
      BY <1>4, <2>1, <3>1 DEF Manager, start_unit, reload_unit, stop_unit, Request, Served, Unlocked,
        stop_signals, stop_env_error, stop_final, daemon_reload, reload_takes_child,
        reload_removes_unit
    <3>2. ASSUME NEW j \in Job, StartTask(j) PROVE UNCHANGED <<op, killed>>
      BY <3>2 DEF StartTask, start_begins, start_prepares, start_executes, start_stores_child,
        start_waits_ready, start_awaits_oneshot, start_activates, start_returns, start_publishes,
        start_ends, pvars
    <3>3. ASSUME NEW j \in Job, Supervisor(j) PROVE UNCHANGED <<op, killed>>
      BY <3>3 DEF Supervisor, wait_for_exit, wait_direct_child, poll_pid_gone, supervise_checks,
        supervise_marks, pvars
    <3>4. ASSUME NEW p, process_exits(p) \/ orphan_reaped(p) \/ process_forks(p)
                        \/ start_hears_main_pid(p)
          PROVE  UNCHANGED <<op, killed>>
      BY <3>4 DEF process_exits, orphan_reaped, process_forks, start_hears_main_pid, pvars
    <3>5. UNCHANGED <<op, killed>>
      BY <3>1, <3>2, <3>3, <3>4 DEF Next, vars, pvars
    <3>6. QED
      BY <2>1, <3>5 DEF KillInv
  <2>2. CASE op.pc \notin {"wait", "wait_killed"}
    <3>1. ASSUME Manager PROVE op'.pc # "wait_killed"
      <4>1. CASE stop_signals
        BY <1>1, <4>1 DEF stop_signals, Op
      <4>2. QED
        BY <1>4, <2>2, <3>1, <4>1 DEF Manager, start_unit, reload_unit, stop_unit, stop_env_error,
          stop_final, run_stop_ends, daemon_reload, reload_takes_child, reload_removes_unit, Idle
    <3>2. ASSUME UNCHANGED op PROVE op'.pc # "wait_killed"
      BY <2>2, <3>2
    <3>3. ASSUME NEW j \in Job, StartTask(j) PROVE UNCHANGED op
      BY <3>3 DEF StartTask, start_begins, start_prepares, start_executes, start_stores_child,
        start_waits_ready, start_awaits_oneshot, start_activates, start_returns, start_publishes,
        start_ends
    <3>4. ASSUME NEW j \in Job, Supervisor(j) PROVE UNCHANGED op
      BY <3>4 DEF Supervisor, wait_for_exit, wait_direct_child, poll_pid_gone, supervise_checks,
        supervise_marks
    <3>5. ASSUME NEW p, process_exits(p) \/ orphan_reaped(p) \/ process_forks(p)
                        \/ start_hears_main_pid(p)
          PROVE  UNCHANGED op
      BY <3>5 DEF process_exits, orphan_reaped, process_forks, start_hears_main_pid
    <3>6. op'.pc # "wait_killed"
      BY <3>1, <3>2, <3>3, <3>4, <3>5 DEF Next, vars
    <3>7. QED
      BY <2>2, <3>6 DEF KillInv
  <2>3. QED
    BY <2>1, <2>2
<1>5. QED
  BY <1>2, <1>3, <1>4

\* With SendSIGKILL= and a KillMode= other than none, a stop leaves the process that it
\* signalled dead or killed, whoever has its Child (runner.rs:473-485), unless the
\* runner has the pid of one process and the Child of another (WaitsForOther).
THEOREM StopsKill == ASSUME SendSigkill, KillSignals PROVE Spec => StopKills
<1>1. Init => TypeInv /\ KillInv
  BY TypeInit DEF Init, KillInv, Idle
<1>2. TypeInv /\ KillInv /\ [Next]_vars => (TypeInv /\ KillInv)'
  BY TypeStep, KillStep
<1>3. TypeInv /\ KillInv /\ [Next]_vars =>
        [op.pc \in {"wait", "wait_killed"} /\ op'.pc = "final" /\ ~WaitsForOther =>
           proc'[op.pid] # "alive" \/ op.pid \in killed']_vars
  BY KillStep
<1>4. QED
  BY <1>1, <1>2, <1>3, PTL DEF Spec, StopKills

=============================================================================
