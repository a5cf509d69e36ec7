-------------------------- MODULE ServiceLifecycle --------------------------
(***************************************************************************)
(* One .service unit of the SystemL daemon: the Manager's job calls, the   *)
(* background start tasks, the ServiceRunner they drive, the supervisor    *)
(* tasks that watch for process exit, and the processes themselves.        *)
(*                                                                         *)
(* Who runs concurrently.  Every Manager method holds the manager's write  *)
(* lock from its first step to its last, so at most one of them is in      *)
(* progress: `op` is that method, "idle" when the lock is free.  A start   *)
(* task (spawn_service_start) and a supervisor (supervise) run without the *)
(* lock and take it only to publish a state.  All of them share the        *)
(* runner's fields, each behind a mutex of its own.                        *)
(*                                                                         *)
(* A start job spawns at most one process, one start task and one          *)
(* supervisor, so all three are named by the job.  daemon_reload replaces  *)
(* the runner: `services` is the generation that the map holds, and tasks  *)
(* and supervisors keep the generation they were spawned with.             *)
(*                                                                         *)
(* A notify service may fork a daemon and name it as its main process      *)
(* (MAINPID=); the daemon is named by the job too.  It leads a process     *)
(* group of its own.                                                       *)
(*                                                                         *)
(* Left out: the sub-state strings and STATUS= messages, Exec* commands    *)
(* other than through their outcome, process groups beyond their leaders,  *)
(* and the recycling of pids by the kernel.                                *)
(***************************************************************************)
EXTENDS Naturals, Sequences, FiniteSets

CONSTANTS
  Types,            \* the service types a behaviour may be about (chosen once)
  Commands,         \* for each type, the requests that clients send
  Faults,           \* for each type, what may go wrong: see the actions that test for it
  KillSignals,      \* TRUE unless KillMode=none
  SendSigkill,      \* SendSIGKILL=
  RemainAfterExit,  \* RemainAfterExit=
  Patient,          \* assumed of clients: they wait for JobRemoved, and start what is down
  Prompt,           \* assumed of timing: a runnable supervisor is polled before other steps
  MaxJobs,          \* bound: job ids allocated in a behaviour
  MaxGens           \* bound: runners built in a behaviour

ASSUME LifecycleAssumption ==
  /\ MaxJobs \in Nat \ {0}
  /\ MaxGens \in Nat \ {0}
  /\ Types \subseteq {"simple", "notify", "forking", "oneshot", "dbus"}
  /\ Types \subseteq DOMAIN Commands \cap DOMAIN Faults
  /\ {KillSignals, SendSigkill, RemainAfterExit, Patient, Prompt} \subseteq BOOLEAN

Job == 1 .. MaxJobs
Gen == 1 .. MaxGens
Forked(p) == MaxJobs + p          \* the daemon that the process of job p forks
Proc == 1 .. MaxJobs + MaxJobs    \* what the jobs spawn, and what that forks
NoJob == 0
NoProc == 0
NoRunner == 0

ActiveState == {"inactive", "activating", "active", "deactivating", "failed"}

VARIABLES
  type,      \* Type= of the unit
  status,    \* Manager.status of the unit, "absent" when it has no entry
  services,  \* Manager.services: the runner generation, NoRunner when removed
  ngens,     \* runners built so far
  runner,    \* the fields of each ServiceRunner
  proc,      \* the processes
  killed,    \* processes that were sent SIGKILL
  njobs,     \* job ids allocated so far
  job,       \* kind and outcome of each job
  task,      \* the start task of each job
  sup,       \* the supervisor of each job
  op,        \* the Manager method that holds the write lock
  queue      \* tasks and supervisors queued for the write lock, first come first

rvars == <<services, ngens, runner>>
jvars == <<njobs, job>>
pvars == <<proc, killed>>
vars == <<type, status, rvars, pvars, jvars, task, sup, op, queue>>

May(fault) == fault \in Faults[type]

Direct == type \in {"simple", "notify"}
Supervised == type \notin {"oneshot", "dbus"}

TaskPc == {"none", "clear", "pre", "exec", "await", "child", "ready",
           "activate", "read", "publish", "removed", "done"}
SupPc == {"none", "take", "wait", "poll", "exited", "mark", "done"}
OpPc == {"idle", "exec_stop", "wait", "wait_killed", "final", "take_child"}
Outcome == {"none", "pending", "done", "failed", "skipped", "lost"}
ProcState == {"none", "alive", "zombie", "gone"}

OptJob == Job \cup {NoJob}       \* an optional job, or the Child of what it spawned
OptProc == Proc \cup {NoProc}
OptGen == Gen \cup {NoRunner}
Runner == [state : ActiveState, main_pid : OptProc, child : OptJob, stopping : BOOLEAN]
JobRecord == [kind : {"none", "start", "stop", "restart", "reload"}, outcome : Outcome]
Task == [pc : TaskPc, gen : OptGen, seen : ActiveState, err : BOOLEAN]
Sup == [pc : SupPc, gen : OptGen, target : OptProc, child : OptJob, seen : ActiveState]
Op == [pc : OpPc, job : OptJob, pid : OptProc]

NewRunner == [state |-> "inactive", main_pid |-> NoProc, child |-> NoProc,
              stopping |-> FALSE]
NoTask == [pc |-> "none", gen |-> NoRunner, seen |-> "inactive", err |-> FALSE]
NoSup == [pc |-> "none", gen |-> NoRunner, target |-> NoProc, child |-> NoProc,
          seen |-> "inactive"]
Idle == [pc |-> "idle", job |-> NoJob, pid |-> NoProc]

Init ==
  /\ type \in Types
  /\ status = "inactive"
  /\ services = 1
  /\ ngens = 1
  /\ runner = [g \in Gen |-> NewRunner]
  /\ proc = [p \in Proc |-> "none"]
  /\ killed = {}
  /\ njobs = 0
  /\ job = [j \in Job |-> [kind |-> "none", outcome |-> "none"]]
  /\ task = [j \in Job |-> NoTask]
  /\ sup = [j \in Job |-> NoSup]
  /\ op = Idle
  /\ queue = <<>>

Alive(p) == p \in Proc /\ proc[p] = "alive"
Unreaped(p) == p \in Proc /\ proc[p] \in {"alive", "zombie"}
Unlocked == op.pc = "idle"

\* tokio's RwLock is a fair queue: a late waiter does not overtake.
Queue(who, j) == queue' = Append(queue, <<who, j>>)
Granted(who, j) ==
  /\ Unlocked
  /\ queue # <<>>
  /\ Head(queue) = <<who, j>>
  /\ queue' = Tail(queue)

\* stop() keeps the child mutex of its runner while it waits for the exit.
ChildLocked(g) == op.pc \in {"wait", "wait_killed"} /\ g = services

TaskActive(j) == task[j].pc \notin {"none", "done"}
SupActive(s) == sup[s].pc \notin {"none", "done"}

\* A runner is dropped with its last Arc: the map's, a task's, a supervisor's.
Referenced(g) ==
  \/ g = services
  \/ \E j \in Job : TaskActive(j) /\ task[j].gen = g
  \/ \E s \in Job : SupActive(s) /\ sup[s].gen = g

\* A handle that nobody holds has been dropped: tokio reaps its process.
HandleHeld(p) ==
  \/ \E g \in Gen : runner[g].child = p /\ Referenced(g)
  \/ \E s \in Job : sup[s].child = p
  \/ p \in Job /\ task[p].pc \in {"await", "child"}

mark_state(s) == status' = IF status = "absent" THEN status ELSE s

alloc_job_id(kind, outcome) ==
  /\ njobs' = njobs + 1
  /\ job' = [job EXCEPT ![njobs + 1] = [kind |-> kind, outcome |-> outcome]]

JobRemoved(j, outcome) == job' = [job EXCEPT ![j].outcome = outcome]

Pending(j) == job[j].outcome = "pending"

\* A client's request is served when the manager's write lock is free.  It may
\* have queued before the waiters of `queue`; a patient client's has not.  Clients
\* need not be patient: systemlctl returns with the reply, timers start at any time.
Served(kind) ==
  /\ Unlocked
  /\ kind \in Commands[type]
  /\ Patient => /\ queue = <<>>
                /\ \A j \in Job : ~Pending(j)
                /\ kind = "start" => status \in {"inactive", "failed"}

Request(kind) == Served(kind) /\ njobs < MaxJobs

-----------------------------------------------------------------------------
(* Requests to the Manager                                                 *)

\* The locked half of a start: publish Activating and hand the work to a task.
\* Without a runner it fails after JobNew, so no JobRemoved ever follows.
spawn_service_start(j) ==
  /\ services # NoRunner
  /\ mark_state("activating")
  /\ task' = [task EXCEPT ![j] = [NoTask EXCEPT !.pc = "clear", !.gen = services]]

start_unit ==
  /\ Request("start")
  /\ \/ /\ spawn_service_start(njobs + 1)
        /\ alloc_job_id("start", "pending")
     \/ /\ services = NoRunner
        /\ alloc_job_id("start", "lost")
        /\ UNCHANGED <<status, task>>
  /\ UNCHANGED <<type, rvars, pvars, sup, op, queue>>

reload_unit ==
  /\ Request("reload")
  /\ \E outcome \in IF services = NoRunner THEN {"skipped"}
                    ELSE {"done"} \cup {"failed" : f \in Faults[type] \cap {"env"}} :
       alloc_job_id("reload", outcome)
  /\ UNCHANGED <<type, status, rvars, pvars, task, sup, op, queue>>

\* Mutant: restart_unit announces the job's end before its start half.
run_stop_ends_announcing(j, kind) ==
  /\ op' = Idle
  /\ mark_state("inactive")
  /\ JobRemoved(j, "done")
  /\ IF kind = "restart" /\ services # NoRunner
       THEN task' = [task EXCEPT ![j] = [NoTask EXCEPT !.pc = "clear", !.gen = services]]
       ELSE UNCHANGED task

\* The end of run_stop: the job is removed, or its start half is spawned.
run_stop_ends(j, kind) ==
  /\ op' = Idle
  /\ IF kind = "restart"
       THEN IF services = NoRunner
              THEN /\ mark_state("inactive")
                   /\ JobRemoved(j, "lost")
                   /\ UNCHANGED task
              ELSE spawn_service_start(j) /\ UNCHANGED job
       ELSE /\ mark_state("inactive")
            /\ JobRemoved(j, "done")
            /\ UNCHANGED task

\* stop_unit and restart_unit up to the first await of stop().
stop_unit(kind) ==
  /\ kind \in {"stop", "restart"}
  /\ Request(kind)
  /\ njobs' = njobs + 1
  /\ \/ /\ services = NoRunner
        /\ job' = [job EXCEPT ![njobs + 1] =
             [kind |-> kind, outcome |-> IF kind = "stop" THEN "done" ELSE "lost"]]
        /\ mark_state("inactive")
        /\ UNCHANGED <<runner, op, queue>>
     \/ /\ services # NoRunner
        /\ job' = [job EXCEPT ![njobs + 1] = [kind |-> kind, outcome |-> "pending"]]
        /\ runner' = [runner EXCEPT ![services].stopping = TRUE,
                                    ![services].state = "deactivating"]
        /\ op' = [pc |-> "exec_stop", job |-> njobs + 1, pid |-> NoProc]
        /\ UNCHANGED status
  /\ UNCHANGED <<type, services, ngens, pvars, task, sup, queue>>

\* Mutant: the signal is sent and nobody waits.
no_wait(pid) == TRUE
\* stop() waits for an exit only when the runner knows a main pid.
nothing_to_wait(pid) == pid = NoProc

\* ExecStop= has run: read main_pid and signal it.
stop_signals ==
  /\ op.pc = "exec_stop"
  /\ LET pid == runner[services].main_pid
     IN op' = [op EXCEPT !.pc = IF nothing_to_wait(pid) THEN "final" ELSE "wait",
                         !.pid = pid]
  /\ UNCHANGED <<type, status, rvars, pvars, jvars, task, sup, queue>>

\* Mutant: run_stop propagates the error, and JobRemoved is skipped.
stop_env_error_propagates ==
  /\ op.pc = "exec_stop"
  /\ May("stop_env")
  /\ op' = Idle
  /\ mark_state("inactive")
  /\ UNCHANGED <<type, rvars, pvars, jvars, task, sup, queue>>

\* resolve_environment failed inside stop(): run_stop ignores the error.
stop_env_error ==
  /\ op.pc = "exec_stop"
  /\ May("stop_env")
  /\ run_stop_ends(op.job, job[op.job].kind)
  /\ UNCHANGED <<type, rvars, pvars, njobs, sup, queue>>

\* The wait sees an exit: of the Child when the runner has it, else of the pid.
stop_sees_exit ==
  LET child == runner[services].child
  IN /\ op.pc \in {"wait", "wait_killed"}
     /\ IF child # NoProc
          THEN /\ proc[child] # "alive"
               /\ proc' = [proc EXCEPT ![child] = "gone"]
          ELSE /\ op.pc = "wait"
               /\ proc[op.pid] = "gone"
               /\ UNCHANGED proc
     /\ op' = [op EXCEPT !.pc = "final"]
     /\ UNCHANGED <<type, status, rvars, killed, jvars, task, sup, queue>>

\* Mutants: SIGKILL only for a process whose Child is at hand; no SIGKILL at all.
sigkill_needs_child(child) == SendSigkill /\ KillSignals /\ child # NoProc
sigkill_forgotten(child) == FALSE
\* Whether SIGKILL reaches the main process, with or without a Child.
sigkill_sent(child) == SendSigkill /\ KillSignals

\* TimeoutStopSec= expires.  After SIGKILL only a Child is waited for.
stop_times_out ==
  /\ op.pc = "wait"
  /\ May("stubborn")
  /\ LET child == runner[services].child
     IN /\ IF child # NoProc THEN Alive(child) ELSE Unreaped(op.pid)
        /\ killed' = IF sigkill_sent(child) THEN killed \cup {op.pid} ELSE killed
        /\ op' = [op EXCEPT !.pc = IF SendSigkill /\ child # NoProc
                                     THEN "wait_killed" ELSE "final"]
  /\ UNCHANGED <<type, status, rvars, proc, jvars, task, sup, queue>>

\* ExecStopPost= has run: forget the process and publish the final state.
stop_final ==
  /\ op.pc = "final"
  /\ runner' = [runner EXCEPT ![services] =
       [@ EXCEPT !.state = "inactive", !.main_pid = NoProc, !.child = NoProc]]
  /\ run_stop_ends(op.job, job[op.job].kind)
  /\ UNCHANGED <<type, services, ngens, pvars, njobs, sup, queue>>

\* daemon_reload of a unit whose file is still there: the new runner copies
\* state and pid, then takes the child handle out of the old one and replaces it.
daemon_reload ==
  /\ Served("daemon_reload")
  /\ ngens < MaxGens
  /\ ngens' = ngens + 1
  /\ services' = IF services = NoRunner THEN ngens + 1 ELSE services
  /\ runner' = [runner EXCEPT ![ngens + 1] =
       IF services = NoRunner THEN NewRunner
       ELSE [NewRunner EXCEPT !.state = runner[services].state,
                              !.main_pid = runner[services].main_pid]]
  /\ status' = IF status = "absent" THEN "inactive" ELSE status
  /\ op' = IF services = NoRunner THEN op
           ELSE [pc |-> "take_child", job |-> NoJob, pid |-> NoProc]
  /\ UNCHANGED <<type, pvars, jvars, task, sup, queue>>

reload_takes_child ==
  /\ op.pc = "take_child"
  /\ runner' = [runner EXCEPT ![ngens].child = runner[services].child,
                              ![services].child = NoProc]
  /\ services' = ngens
  /\ op' = Idle
  /\ UNCHANGED <<type, status, ngens, pvars, jvars, task, sup, queue>>

\* daemon_reload of a unit whose file is gone.
reload_removes_unit ==
  /\ Served("daemon_reload")
  /\ May("remove")
  /\ services # NoRunner
  /\ services' = NoRunner
  /\ status' = "absent"
  /\ UNCHANGED <<type, ngens, runner, pvars, jvars, task, sup, op, queue>>

-----------------------------------------------------------------------------
(* The start task: ServiceRunner::start, then publish and JobRemoved       *)

TaskAt(j, pc) == task[j].pc = pc
TaskTo(j, pc) == task' = [task EXCEPT ![j].pc = pc]

\* start() returns early with an error, leaving the runner in `state`.
start_fails(j, state) ==
  /\ task' = [task EXCEPT ![j].pc = "read", ![j].err = TRUE]
  /\ runner' = [runner EXCEPT ![task[j].gen].state = state]

\* start() returns through `?`: the runner's state stays what it was.
start_aborts(j) == start_fails(j, runner[task[j].gen].state)

\* Mutant: the stop flag of the previous lifecycle survives.
keep_stop(stopping) == stopping
\* A fresh start begins unflagged.
clear_stop(stopping) == FALSE

start_begins(j) ==
  /\ TaskAt(j, "clear")
  /\ runner' = [runner EXCEPT ![task[j].gen].stopping = clear_stop(@),
                              ![task[j].gen].state = "activating"]
  /\ TaskTo(j, "pre")
  /\ UNCHANGED <<type, status, services, ngens, pvars, jvars, sup, op, queue>>

\* Environment, ExecCondition= and ExecStartPre=.
start_prepares(j) ==
  /\ TaskAt(j, "pre")
  /\ \/ TaskTo(j, "exec") /\ UNCHANGED runner
     \/ May("env") /\ start_aborts(j)
     \/ May("condition") /\ start_fails(j, "inactive")
     \/ May("pre") /\ start_fails(j, "failed")
  /\ UNCHANGED <<type, status, services, ngens, pvars, jvars, sup, op, queue>>

Spawned(j) == proc' = [proc EXCEPT ![j] = "alive"]
\* Mutant: the pid of the new process is not recorded.
Untracked(j) == UNCHANGED runner
Tracked(j) == runner' = [runner EXCEPT ![task[j].gen].main_pid = j]

\* A daemon whose PIDFile= never appears: failed, or active without a pid when
\* GuessMainPID= lets the start go on.
pid_file_missing(j) ==
  /\ May("pidfile")
  /\ Spawned(j)
  /\ \/ start_fails(j, "failed")
     \/ TaskTo(j, "activate") /\ UNCHANGED runner

start_executes(j) ==
  /\ TaskAt(j, "exec")
  /\ \/ /\ May("spawn")
        /\ start_aborts(j)
        /\ UNCHANGED proc
     \/ /\ type \in {"simple", "notify"}
        /\ Spawned(j)
        /\ Tracked(j)
        /\ TaskTo(j, "child")
     \/ /\ type = "forking"
        /\ \/ Spawned(j) /\ Tracked(j) /\ TaskTo(j, "activate")
           \/ pid_file_missing(j)
     \/ /\ type = "oneshot"
        /\ Spawned(j)
        /\ TaskTo(j, "await")
        /\ UNCHANGED runner
     \/ /\ type = "dbus"
        /\ start_fails(j, "failed")
        /\ UNCHANGED proc
  /\ UNCHANGED <<type, status, services, ngens, killed, jvars, sup, op, queue>>

\* The Child is stored; one that was there is dropped.
start_stores_child(j) ==
  /\ TaskAt(j, "child")
  /\ ~ChildLocked(task[j].gen)
  /\ runner' = [runner EXCEPT ![task[j].gen].child = j]
  /\ TaskTo(j, IF type = "notify" THEN "ready" ELSE "activate")
  /\ UNCHANGED <<type, status, services, ngens, pvars, jvars, sup, op, queue>>

\* MAINPID=, from the service, names the process itself or what it has forked.
start_hears_main_pid(j) ==
  /\ TaskAt(j, "ready")
  /\ May("mainpid")
  /\ \E p \in {j, Forked(j)} :
       /\ proc[p] # "none"
       /\ runner' = [runner EXCEPT ![task[j].gen].main_pid = p]
  /\ UNCHANGED <<type, status, services, ngens, pvars, jvars, task, sup, op, queue>>

\* READY=1, or TimeoutStartSec= without it.
start_waits_ready(j) ==
  /\ TaskAt(j, "ready")
  /\ \/ TaskTo(j, "activate") /\ UNCHANGED runner
     \/ May("notify") /\ start_aborts(j)
  /\ UNCHANGED <<type, status, services, ngens, pvars, jvars, sup, op, queue>>

\* A Type=oneshot command exits, or TimeoutStartSec= kills it.
start_awaits_oneshot(j) ==
  /\ TaskAt(j, "await")
  /\ proc' = [proc EXCEPT ![j] = "gone"]
  /\ \/ proc[j] = "zombie" /\ TaskTo(j, "activate") /\ UNCHANGED runner
     \/ proc[j] = "zombie" /\ May("oneshot") /\ start_fails(j, "failed")
     \/ May("timeout") /\ start_aborts(j)
  /\ UNCHANGED <<type, status, services, ngens, killed, jvars, sup, op, queue>>

StateWhenStarted ==
  IF type = "oneshot" /\ ~RemainAfterExit THEN "inactive" ELSE "active"

start_activates(j) ==
  /\ TaskAt(j, "activate")
  /\ runner' = [runner EXCEPT ![task[j].gen].state = StateWhenStarted]
  /\ TaskTo(j, "read")
  /\ UNCHANGED <<type, status, services, ngens, pvars, jvars, sup, op, queue>>

\* start() has returned, after ExecStartPost=: the task reads the runner's
\* state, and only then queues for the manager's lock.
start_returns(j) ==
  /\ TaskAt(j, "read")
  /\ task' = [task EXCEPT ![j].pc = "publish",
                          ![j].seen = runner[task[j].gen].state]
  /\ Queue("task", j)
  /\ UNCHANGED <<type, status, rvars, pvars, jvars, sup, op>>

\* With the lock: publish the state read before, attach a supervisor.
start_publishes(j) ==
  /\ TaskAt(j, "publish")
  /\ Granted("task", j)
  /\ mark_state(task[j].seen)
  /\ sup' = IF task[j].seen = "active" /\ Supervised
              THEN [sup EXCEPT ![j] = [NoSup EXCEPT !.pc = "take", !.gen = task[j].gen]]
              ELSE sup
  /\ TaskTo(j, "removed")
  /\ UNCHANGED <<type, rvars, pvars, jvars, op>>

start_ends(j) ==
  /\ TaskAt(j, "removed")
  /\ JobRemoved(j, IF task[j].err THEN "failed" ELSE "done")
  /\ TaskTo(j, "done")
  /\ UNCHANGED <<type, status, rvars, pvars, njobs, sup, op, queue>>

-----------------------------------------------------------------------------
(* The supervisor: supervise and wait_for_exit                             *)

SupAt(j, pc) == sup[j].pc = pc

\* Own the Child if the runner has it, else fall back to polling its pid;
\* with neither there is nothing to watch.
wait_for_exit(j) ==
  LET g == sup[j].gen
      c == IF Direct THEN runner[g].child ELSE NoProc
  IN /\ SupAt(j, "take")
     /\ ~ChildLocked(g)
     /\ runner' = IF c = NoProc THEN runner ELSE [runner EXCEPT ![g].child = NoProc]
     /\ sup' = [sup EXCEPT ![j] =
          [@ EXCEPT !.pc = IF c # NoProc THEN "wait"
                           ELSE IF runner[g].main_pid # NoProc THEN "poll" ELSE "done",
                    !.child = c,
                    !.target = IF c # NoProc THEN c ELSE runner[g].main_pid]]
     /\ UNCHANGED <<type, status, services, ngens, pvars, jvars, task, op, queue>>

\* Child::wait returns an exit status: success, or anything else.
wait_direct_child(j) ==
  /\ SupAt(j, "wait")
  /\ proc[sup[j].child] # "alive"
  /\ proc' = [proc EXCEPT ![sup[j].child] = "gone"]
  /\ \E s \in {"inactive", "failed"} :
       sup' = [sup EXCEPT ![j] = [@ EXCEPT !.pc = "exited", !.child = NoProc, !.seen = s]]
  /\ UNCHANGED <<type, status, rvars, killed, jvars, task, op, queue>>

\* kill(pid, 0) fails.  It tells no exit status: the exit counts as clean.
poll_pid_gone(j) ==
  /\ SupAt(j, "poll")
  /\ proc[sup[j].target] = "gone"
  /\ sup' = [sup EXCEPT ![j].pc = "exited"]
  /\ UNCHANGED <<type, status, rvars, pvars, jvars, task, op, queue>>

is_stopping(g) == runner[g].stopping

\* is_stopping() leaves the final state to stop(); otherwise write it here.
supervise_checks(j) ==
  LET g == sup[j].gen
  IN /\ SupAt(j, "exited")
     /\ \/ /\ is_stopping(g)
           /\ sup' = [sup EXCEPT ![j].pc = "done"]
           /\ UNCHANGED <<runner, queue>>
        \/ /\ ~is_stopping(g)
           /\ Queue("sup", j)
           /\ sup' = [sup EXCEPT ![j].pc = "mark"]
           /\ runner' = [runner EXCEPT ![g].state = sup[j].seen, ![g].main_pid = NoProc]
     /\ UNCHANGED <<type, status, services, ngens, pvars, jvars, task, op>>

supervise_marks(j) ==
  /\ SupAt(j, "mark")
  /\ Granted("sup", j)
  /\ mark_state(sup[j].seen)
  /\ sup' = [sup EXCEPT ![j].pc = "done"]
  /\ UNCHANGED <<type, rvars, pvars, jvars, task, op>>

-----------------------------------------------------------------------------
(* The operating system                                                    *)

\* A notify service forks a daemon before it is ready: later, MAINPID= goes unheard.
process_forks(p) ==
  /\ May("mainpid")
  /\ TaskAt(p, "ready")
  /\ Alive(p)
  /\ proc[Forked(p)] = "none"
  /\ proc' = [proc EXCEPT ![Forked(p)] = "alive"]
  /\ UNCHANGED <<type, status, rvars, killed, jvars, task, sup, op, queue>>

\* A process exits.  A forked daemon is no child of ours: it leaves no zombie.
process_exits(p) ==
  /\ Alive(p)
  /\ proc' = [proc EXCEPT ![p] = IF type = "forking" \/ p \notin Job THEN "gone" ELSE "zombie"]
  /\ UNCHANGED <<type, status, rvars, killed, jvars, task, sup, op, queue>>

\* tokio's orphan queue reaps a child whose handle has been dropped.
orphan_reaped(p) ==
  /\ proc[p] = "zombie"
  /\ ~HandleHeld(p)
  /\ proc' = [proc EXCEPT ![p] = "gone"]
  /\ UNCHANGED <<type, status, rvars, killed, jvars, task, sup, op, queue>>

-----------------------------------------------------------------------------
Manager ==
  \/ start_unit
  \/ reload_unit
  \/ \E kind \in {"stop", "restart"} : stop_unit(kind)
  \/ stop_signals
  \/ stop_env_error
  \/ stop_sees_exit
  \/ stop_times_out
  \/ stop_final
  \/ daemon_reload
  \/ reload_takes_child
  \/ reload_removes_unit

StartTask(j) ==
  \/ start_begins(j)
  \/ start_prepares(j)
  \/ start_executes(j)
  \/ start_stores_child(j)
  \/ start_waits_ready(j)
  \/ start_awaits_oneshot(j)
  \/ start_activates(j)
  \/ start_returns(j)
  \/ start_publishes(j)
  \/ start_ends(j)

Supervisor(j) ==
  \/ wait_for_exit(j)
  \/ wait_direct_child(j)
  \/ poll_pid_gone(j)
  \/ supervise_checks(j)
  \/ supervise_marks(j)

\* With Prompt, a supervisor that has just been spawned, or whose wait has just
\* returned, is polled before anything else happens.  tokio does not promise this; it
\* is what a client sees whose next request takes longer than a task switch.
Due(j) == Prompt /\ (SupAt(j, "exited") \/ (SupAt(j, "take") /\ ~ChildLocked(sup[j].gen)))

Next ==
  \/ /\ \A j \in Job : ~Due(j)
     /\ \/ Manager
        \/ \E j \in Job : StartTask(j) \/ start_hears_main_pid(j)
        \/ \E p \in Job : process_forks(p)
        \/ \E p \in Proc : process_exits(p) \/ orphan_reaped(p)
  \/ \E j \in Job : ((\A i \in Job : ~Due(i)) \/ Due(j)) /\ Supervisor(j)

Spec == Init /\ [][Next]_vars

\* What the scheduler owes: tokio polls every woken task and its RwLock is a
\* fair queue; a killed process dies and a timeout expires, however many datagrams
\* come before it.  Nothing is owed by clients, nor by a process that nobody has killed.
Fairness ==
  /\ WF_vars(\/ stop_signals \/ stop_sees_exit \/ stop_times_out \/ stop_final
             \/ reload_takes_child)
  /\ \A j \in Job : SF_vars(StartTask(j)) /\ SF_vars(Supervisor(j))
  /\ \A p \in Proc : WF_vars(p \in killed /\ process_exits(p)) /\ WF_vars(orphan_reaped(p))

FairSpec == Spec /\ Fairness

-----------------------------------------------------------------------------
(* Properties                                                              *)

\* The values of the variables, and that the status and the runner of the unit
\* come and go together (Manager.status and Manager.services are two maps).
TypeOK ==
  /\ type \in Types
  /\ status \in ActiveState \cup {"absent"}
  /\ services \in OptGen /\ ngens \in Gen /\ services <= ngens
  /\ status = "absent" <=> services = NoRunner
  /\ runner \in [Gen -> Runner]
  /\ proc \in [Proc -> ProcState]
  /\ killed \subseteq Proc
  /\ njobs \in OptJob
  /\ job \in [Job -> JobRecord]
  /\ task \in [Job -> Task]
  /\ sup \in [Job -> Sup]
  /\ op \in Op
  /\ queue \in Seq({"task", "sup"} \X Job)

\* A job that JobNew has announced is in the hands of exactly one actor, the method that
\* holds the lock or its start task, until JobRemoved, and no actor works for a job that
\* is over.  The `?` of spawn_service_start (manager.rs:583, 679) breaks this: it drops
\* the start or restart of a unit that has no runner, announced and never removed.  That
\* takes a unit whose file a reload has found removed; no other job is lost.
JobAccounting ==
  /\ \A j \in Job : j <= njobs <=> job[j].outcome # "none"
  /\ \A j \in Job : Pending(j) <=> TaskActive(j) \/ op.job = j
  /\ \A j \in Job : ~(TaskActive(j) /\ op.job = j)
  /\ op.pc = "idle" => op.job = NoJob
  /\ \A j \in Job : job[j].outcome = "lost" =>
       job[j].kind \in {"start", "restart"} /\ May("remove")

\* JobRemoved is sent at most once for a job, with one outcome.
JobFinal ==
  [][\A j \in Job : ~Pending(j) /\ job[j].outcome # "none" => job'[j] = job[j]]_vars

\* Every live process is one that stop() can still signal: the main pid of the
\* runner in the map, or the command that a start task is waiting for.
NoOrphan ==
  \A p \in Proc : Alive(p) /\ p \notin killed =>
    \/ services # NoRunner /\ runner[services].main_pid = p
    \/ p \in Job /\ TaskAt(p, "await")

\* When every job is over and the last one was a stop, the unit is down: no
\* state published late contradicts the stop, and no process has survived it.
StoppedIsDown ==
  (/\ njobs > 0
   /\ \A j \in Job : ~Pending(j)
   /\ job[njobs] = [kind |-> "stop", outcome |-> "done"])
  => /\ status \in {"inactive", "failed", "absent"}
     /\ \A p \in Proc : Alive(p) => p \in killed

\* stop() owns the final state transition, so that the supervisor of the process that it
\* stops does not write a competing Inactive or Failed (runner.rs:442-443).
SupervisorHonoursStop ==
  [][\A s, j \in Job : job[j].kind \in {"stop", "restart"} /\ s < j =>
       ~(SupAt(s, "exited") /\ sup'[s].pc = "mark")]_vars

\* A daemon named by MAINPID=, or two starts that overlap, may leave the runner with the
\* pid of one process and the Child of another: stop() signals the one and waits for the
\* other.
WaitsForOther ==
  op.pc \in {"wait", "wait_killed"} /\ runner[services].child \notin {NoProc, op.pid}

\* When stop() has finished with the process that it signalled, that process has exited
\* or was sent SIGKILL, whether a supervisor, a reload or stop() has its Child
\* (runner.rs:473-485).
StopKills ==
  [][op.pc \in {"wait", "wait_killed"} /\ op'.pc = "final" /\ ~WaitsForOther =>
       proc'[op.pid] # "alive" \/ op.pid \in killed']_vars

\* No job is forgotten: JobRemoved follows JobNew, whatever clients do meanwhile,
\* unless the job waits for a command that never ends, or stop() has killed a process
\* and waits, under the lock, for another one.
JobsFinish ==
  \A j \in Job :
    Pending(j) ~> \/ ~Pending(j)
                  \/ TaskAt(j, "await") /\ Alive(j)
                  \/ op.pc = "wait_killed" /\ WaitsForOther

\* A unit whose processes are all dead does not stay active (supervise.rs:18-21).
CrashDetected ==
  (status = "active" /\ \A p \in Proc : ~Alive(p))
    ~> (status # "active" \/ \E p \in Proc : Alive(p))

=============================================================================
