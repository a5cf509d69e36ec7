-------------------------------- MODULE Bus --------------------------------
(***************************************************************************)
(* The bus between clients and the manager (systeml-bus), and the commands *)
(* of systemlctl that go through it.  One connection per client: accepted, *)
(* given an object for every unit of the moment, and later subscribed to   *)
(* the manager's events, which a bridge forwards as signals.  Calls take   *)
(* the manager's lock; the start of a service goes on in a task of its     *)
(* own, without it.  The runner behind a service is ServiceLifecycle's     *)
(* subject: here a start, stop or reload of it takes any time and a start  *)
(* leaves any of the states it can.                                        *)
(***************************************************************************)
EXTENDS Integers, Sequences, FiniteSets, SequencesExt, FiniteSetsExt

CONSTANTS
  Services, Others,   \* unit names: services, and timers, sockets, paths, targets
  Installed,          \* units whose files can be loaded when the daemon starts
  Clients,            \* one systemlctl process at a time each
  Commands,           \* per client, what it may be asked: [cmd, units]
  Capacity,           \* of the broadcast channel (1024)
  MaxCommands         \* bound: commands of systemlctl run

Units == Services \cup Others

ASSUME BusAssumption ==
  /\ Services \cap Others = {} /\ IsFiniteSet(Units) /\ Installed \subseteq Units
  /\ "free" \notin Clients
  /\ Capacity \in Nat \ {0} /\ MaxCommands \in Nat
  /\ \A c \in Clients : Commands[c] \subseteq
       [cmd : {"start", "stop", "restart", "reload", "is-active", "daemon-reload", "watch"},
        units : Seq(Units)]

VARIABLES
  units,       \* Manager.units: never shrinks
  status,      \* Manager.status: a state, or Unlisted; a listed service has a runner
  lock,        \* the client whose call keeps the manager's write lock, or Free
  next_job_id,
  tasks,       \* starts of services on their way: [id, unit, done]
  conn,        \* per client: "closed", "accepted", "serving" or "listening"
  objects,     \* units with an object on the connection
  inbox,       \* what the connection's receiver of the broadcast channel holds
  overtaken,   \* events were dropped from it, and the bridge does not know yet
  lagged,      \* history: ... and it was told
  told,        \* history: jobs whose JobNew, but not JobRemoved, went to the client
  job,         \* what the client's process is doing: [cmd, units, todo, call, failed, all_active]
  exit,        \* exit status of the client's last command, or NoExit
  was_active,  \* history: units that were active at some time of the command
  refused,     \* history: jobs that were announced and then refused
  story,       \* history: per job, the events sent about it
  last,        \* history: per unit, the last StateChanged or UnitNew about it
  hung,        \* jobs whose process never ends: what waits for it waits for ever
  commands     \* bound

manager == <<units, status, next_job_id, tasks, refused>>
channel == <<inbox, overtaken, story, last>>
connection == <<conn, objects, lagged, told>>
client == <<job, exit, commands>>
vars == <<manager, channel, lock, connection, client, was_active, hung>>

JobIds == 1 .. MaxCommands * 2
Free == "free"
Unlisted == "unlisted"
NoExit == -1
Idle == [cmd |-> "none", units |-> <<>>, todo |-> <<>>, call |-> "none", failed |-> FALSE,
         all_active |-> TRUE]
States == {"inactive", "activating", "active", "failed"}

Event(is, u, id, s) == [is |-> is, unit |-> u, id |-> id, state |-> s]
JobNew(u, id) == Event("JobNew", u, id, Unlisted)
JobRemoved(u, id) == Event("JobRemoved", u, id, Unlisted)
StateChanged(u, s) == Event("StateChanged", u, 0, s)
UnitNew(u) == Event("UnitNew", u, 0, Unlisted)
UnitRemoved(u) == Event("UnitRemoved", u, 0, Unlisted)

Init ==
  /\ units = Installed
  /\ status = [u \in Units |-> IF u \in Installed THEN "inactive" ELSE Unlisted]
  /\ lock = Free /\ next_job_id = 1 /\ tasks = {}
  /\ conn = [c \in Clients |-> "closed"]
  /\ objects = [c \in Clients |-> {}]
  /\ inbox = [c \in Clients |-> <<>>] /\ told = [c \in Clients |-> {}]
  /\ overtaken = [c \in Clients |-> FALSE] /\ lagged = [c \in Clients |-> FALSE]
  /\ story = [id \in JobIds |-> <<>>]
  /\ last = [u \in Units |-> UnitNew(u)]
  /\ job = [c \in Clients |-> Idle] /\ exit = [c \in Clients |-> NoExit]
  /\ was_active = [c \in Clients |-> {}]
  /\ refused = {} /\ hung = {} /\ commands = 0

-----------------------------------------------------------------------------
(* Events and states                                                       *)

\* The events of a log about a job, in their order, and the latest that tells a client
\* what status a unit has.
About(log, id) ==
  LET at == {i \in DOMAIN log : log[i].id = id}
      nth(n) == CHOOSE i \in at : Cardinality({j \in at : j <= i}) = n
  IN [n \in 1 .. Cardinality(at) |-> log[nth(n)]]
Latest(log, u, before) ==
  LET at == {i \in DOMAIN log : log[i].unit = u /\ log[i].is \in {"StateChanged", "UnitNew"}}
  IN IF at = {} THEN before ELSE log[Max(at)]

\* The channel keeps Capacity events; a receiver that is further behind loses the oldest.
Send(log) ==
  /\ inbox' = [c \in Clients |->
       LET all == inbox[c] \o log
       IN IF conn[c] # "listening" THEN <<>>
          ELSE IF Len(all) > Capacity THEN SubSeq(all, Len(all) - Capacity + 1, Len(all)) ELSE all]
  /\ overtaken' = [c \in Clients |->
       conn[c] = "listening" /\ (overtaken[c] \/ Len(inbox[c] \o log) > Capacity)]
  /\ story' = [id \in JobIds |-> story[id] \o About(log, id)]
  /\ last' = [u \in Units |-> Latest(log, u, last[u])]

\* mark_state: the event is sent even when the unit has no status (any more).
Marked(u, s) == IF status[u] = Unlisted THEN status ELSE [status EXCEPT ![u] = s]

Active(st) == {u \in Units : st[u] = "active"}
RecordActive ==
  was_active' = [c \in Clients |-> IF job[c].cmd = "is-active"
                                   THEN was_active[c] \cup Active(status') ELSE {}]

-----------------------------------------------------------------------------
(* Methods of the Manager object.  A call may have to wait for the lock, and *)
(* may keep it while it waits for a process.  systemlctl calls for one unit  *)
(* after the other, prints "Started u", and gives up at the first error.     *)

Asked(c, call) ==
  /\ conn[c] = "serving" /\ job[c].call = call
  /\ job[c].todo # <<>> /\ ~job[c].failed
Unit(c) == Head(job[c].todo)
Done(c) == [job[c] EXCEPT !.todo = Tail(@), !.call = job[c].cmd]
Answer(c) == job' = [job EXCEPT ![c] = Done(c)]
Refuse(c) == job' = [job EXCEPT ![c].failed = TRUE]

alloc_job_id == next_job_id' = next_job_id + 1

\* Mutant: the end of the job is announced when the task has only begun.
StartPart_early(c, st, log, id) ==
  LET u == Unit(c)
  IN IF u \in Others
     THEN /\ status' = IF st[u] = Unlisted THEN st ELSE [st EXCEPT ![u] = "active"]
          /\ Send(log \o <<StateChanged(u, "active"), JobRemoved(u, id)>>)
          /\ Answer(c)
          /\ UNCHANGED <<tasks, refused>>
     ELSE IF st[u] = Unlisted
     THEN /\ status' = st /\ Send(log)
          /\ refused' = refused \cup {id}
          /\ Refuse(c)
          /\ UNCHANGED tasks
     ELSE /\ status' = [st EXCEPT ![u] = "activating"]
          /\ Send(log \o <<StateChanged(u, "activating"), JobRemoved(u, id)>>)
          /\ tasks' = tasks \cup {[id |-> id, unit |-> u, done |-> FALSE]}
          /\ Answer(c)
          /\ UNCHANGED refused

\* A service is started by a task; everything else is active at once.
StartPart(c, st, log, id) ==
  LET u == Unit(c)
  IN IF u \in Others
     THEN /\ status' = IF st[u] = Unlisted THEN st ELSE [st EXCEPT ![u] = "active"]
          /\ Send(log \o <<StateChanged(u, "active"), JobRemoved(u, id)>>)
          /\ Answer(c)
          /\ UNCHANGED <<tasks, refused>>
     ELSE IF st[u] = Unlisted
     THEN /\ status' = st /\ Send(log)
          /\ refused' = refused \cup {id}
          /\ Refuse(c)
          /\ UNCHANGED tasks
     ELSE /\ status' = [st EXCEPT ![u] = "activating"]
          /\ Send(Append(log, StateChanged(u, "activating")))
          /\ tasks' = tasks \cup {[id |-> id, unit |-> u, done |-> FALSE]}
          /\ Answer(c)
          /\ UNCHANGED refused

start_unit(c) ==
  /\ Asked(c, "start") /\ lock = Free
  /\ alloc_job_id
  /\ StartPart(c, status, <<JobNew(Unit(c), next_job_id)>>, next_job_id)
  /\ RecordActive
  /\ UNCHANGED <<units, lock, connection, exit, commands, hung>>

\* stop, restart and reload announce the job, then wait for the service under the lock.
take_lock(c) ==
  /\ lock = Free
  /\ \E call \in {"stop", "restart", "reload"} : Asked(c, call)
  /\ alloc_job_id
  /\ Send(<<JobNew(Unit(c), next_job_id)>>)
  /\ lock' = c
  /\ UNCHANGED <<units, status, tasks, refused, connection, client, was_active, hung>>

OwnId(c) == next_job_id - 1

\* Nothing limits a oneshot command (ExecStop=, ExecStopPost=, ExecReload=, ExecStart= of
\* Type=oneshot), a forking service's parent, or the wait after SIGKILL.
hangs(id) ==
  /\ \/ \E c \in Clients : lock = c /\ id = OwnId(c) /\ Unit(c) \in Services
     \/ \E task \in tasks : task.id = id /\ ~task.done
  /\ hung' = hung \cup {id}
  /\ UNCHANGED <<manager, channel, lock, connection, client, was_active>>

\* Mutant: the stop waits, under the lock, for a start of the unit to be over.
stop_unit_waits(c) ==
  /\ lock = c /\ OwnId(c) \notin hung /\ Asked(c, "stop")
  /\ \A task \in tasks : task.unit # Unit(c)
  /\ status' = Marked(Unit(c), "inactive")
  /\ Send(<<StateChanged(Unit(c), "inactive"), JobRemoved(Unit(c), OwnId(c))>>)
  /\ lock' = Free
  /\ Answer(c)
  /\ UNCHANGED <<units, next_job_id, tasks, refused, connection, exit, commands, was_active, hung>>

stop_unit(c) ==
  /\ lock = c /\ OwnId(c) \notin hung /\ Asked(c, "stop")
  /\ status' = Marked(Unit(c), "inactive")
  /\ Send(<<StateChanged(Unit(c), "inactive"), JobRemoved(Unit(c), OwnId(c))>>)
  /\ lock' = Free
  /\ Answer(c)
  /\ UNCHANGED <<units, next_job_id, tasks, refused, connection, exit, commands,
                 was_active, hung>>

restart_unit(c) ==
  /\ lock = c /\ OwnId(c) \notin hung /\ Asked(c, "restart")
  /\ StartPart(c, Marked(Unit(c), "inactive"), <<StateChanged(Unit(c), "inactive")>>, OwnId(c))
  /\ lock' = Free
  /\ RecordActive
  /\ UNCHANGED <<units, next_job_id, connection, exit, commands, hung>>

reload_unit(c) ==
  /\ lock = c /\ OwnId(c) \notin hung /\ Asked(c, "reload")
  /\ Send(<<JobRemoved(Unit(c), OwnId(c))>>)
  /\ lock' = Free
  /\ Answer(c)
  /\ UNCHANGED <<units, status, next_job_id, tasks, refused, connection, exit, commands,
                 was_active, hung>>

\* What a reload finds is up to home-manager and the user. A unit that has gone is
\* announced as removed again by every later reload.
ReloadEvents(found) ==
  SetToSeq({UnitRemoved(u) : u \in units \ found}) \o SetToSeq({UnitNew(u) : u \in found})

daemon_reload(c) ==
  /\ Asked(c, "daemon-reload") /\ lock = Free
  /\ \E found \in SUBSET Units :
       /\ status' = [u \in Units |-> IF u \notin found THEN Unlisted
                                     ELSE IF status[u] = Unlisted THEN "inactive" ELSE status[u]]
       /\ units' = units \cup found
       /\ Send(ReloadEvents(found))
  /\ Answer(c)
  /\ UNCHANGED <<lock, next_job_id, tasks, refused, connection, exit, commands, was_active, hung>>

\* GetUnit answers for every unit that was ever loaded; LoadUnit, which the client
\* falls back on, for every name. So the client gets a path, of an object or not.
get_or_load_unit(c) ==
  /\ Asked(c, "is-active") /\ lock = Free
  /\ job' = [job EXCEPT ![c].call = "Get"]
  /\ UNCHANGED <<manager, channel, lock, connection, exit, commands, was_active, hung>>

\* Mutant: only the last unit decides the exit status.
active_state_last(c) ==
  /\ Asked(c, "Get")
  /\ IF Unit(c) \in objects[c]
     THEN /\ lock = Free
          /\ job' = [job EXCEPT ![c] =
                       [Done(c) EXCEPT !.all_active = status[Unit(c)] = "active"]]
     ELSE Refuse(c)
  /\ UNCHANGED <<manager, channel, lock, connection, exit, commands, was_active, hung>>

\* ActiveState of the unit's object; a unit without status is inactive.
active_state(c) ==
  /\ Asked(c, "Get")
  /\ IF Unit(c) \in objects[c]
     THEN /\ lock = Free
          /\ job' = [job EXCEPT ![c] =
                       [Done(c) EXCEPT !.all_active = @ /\ status[Unit(c)] = "active"]]
     ELSE Refuse(c)
  /\ UNCHANGED <<manager, channel, lock, connection, exit, commands, was_active, hung>>

-----------------------------------------------------------------------------
(* Tasks of the manager                                                    *)

\* The start of a service ends: its state is published under the lock ...
service_started(task) ==
  /\ lock = Free /\ task \in tasks /\ ~task.done /\ task.id \notin hung
  /\ \E s \in {"active", "failed", "inactive"} :
       /\ status' = Marked(task.unit, s)
       /\ Send(<<StateChanged(task.unit, s)>>)
  /\ tasks' = (tasks \ {task}) \cup {[task EXCEPT !.done = TRUE]}
  /\ RecordActive
  /\ UNCHANGED <<units, next_job_id, refused, lock, connection, client, hung>>

\* Mutant: nobody is told of the end of a start.
job_removed_silent(task) ==
  /\ task \in tasks /\ task.done
  /\ tasks' = tasks \ {task}
  /\ UNCHANGED <<units, status, next_job_id, refused, channel, lock, connection, client, was_active, hung>>

\* ... and the end of the job announced after the lock is given up.
job_removed(task) ==
  /\ task \in tasks /\ task.done
  /\ Send(<<JobRemoved(task.unit, task.id)>>)
  /\ tasks' = tasks \ {task}
  /\ UNCHANGED <<units, status, next_job_id, refused, lock, connection, client,
                 was_active, hung>>

\* Mutant: the exit is not announced.
service_exits_silent(u) ==
  /\ lock = Free /\ status[u] = "active"
  /\ \E s \in {"inactive", "failed"} : status' = [status EXCEPT ![u] = s]
  /\ UNCHANGED <<units, next_job_id, tasks, refused, channel, lock, connection, client, was_active, hung>>

\* The supervisor sees a service exit.
service_exits(u) ==
  /\ lock = Free /\ status[u] = "active"
  /\ \E s \in {"inactive", "failed"} :
       /\ status' = [status EXCEPT ![u] = s]
       /\ Send(<<StateChanged(u, s)>>)
  /\ UNCHANGED <<units, next_job_id, tasks, refused, lock, connection, client,
                 was_active, hung>>

-----------------------------------------------------------------------------
(* Connections                                                             *)

\* serve_connection: one object per unit known now. Units that come later get none.
serve_connection(c) ==
  /\ conn[c] = "accepted" /\ lock = Free
  /\ objects' = [objects EXCEPT ![c] = units]
  /\ conn' = [conn EXCEPT ![c] = "serving"]
  /\ UNCHANGED <<manager, channel, lock, lagged, told, client, was_active, hung>>

\* Of the clients only "watch" listens: systemlctl passes over the signals it is sent.
subscribe(c) ==
  /\ conn[c] = "serving" /\ job[c].cmd = "watch" /\ lock = Free
  /\ conn' = [conn EXCEPT ![c] = "listening"]
  /\ UNCHANGED <<manager, channel, lock, objects, lagged, told, client, was_active, hung>>

\* StateChanged has no signal of its own.
forward(c) ==
  /\ conn[c] = "listening" /\ ~overtaken[c] /\ inbox[c] # <<>>
  /\ inbox' = [inbox EXCEPT ![c] = Tail(@)]
  /\ LET e == Head(inbox[c])
     IN told' = [told EXCEPT ![c] = CASE e.is = "JobNew" -> @ \cup {e.id}
                                      [] e.is = "JobRemoved" -> @ \ {e.id}
                                      [] OTHER -> @]
  /\ UNCHANGED <<manager, overtaken, story, last, lock, conn, objects, lagged, client, was_active, hung>>

\* Lagged: the bridge goes on with the events that are left.
lag(c) ==
  /\ conn[c] = "listening" /\ overtaken[c]
  /\ overtaken' = [overtaken EXCEPT ![c] = FALSE]
  /\ lagged' = [lagged EXCEPT ![c] = TRUE]
  /\ UNCHANGED <<manager, inbox, story, last, lock, conn, objects, told, client, was_active, hung>>

-----------------------------------------------------------------------------
(* systemlctl                                                              *)

connect(c, x) ==
  /\ job[c] = Idle
  /\ x.cmd = "watch" \/ commands < MaxCommands
  /\ commands' = IF x.cmd = "watch" THEN commands ELSE commands + 1
  /\ job' = [job EXCEPT ![c] = [Idle EXCEPT !.cmd = x.cmd, !.units = x.units, !.todo = x.units,
                                             !.call = x.cmd]]
  /\ exit' = [exit EXCEPT ![c] = NoExit]
  /\ conn' = [conn EXCEPT ![c] = "accepted"]
  /\ was_active' = [was_active EXCEPT ![c] = IF x.cmd = "is-active" THEN Active(status) ELSE {}]
  /\ UNCHANGED <<manager, channel, lock, objects, lagged, told, hung>>

\* The end of the process, after the last unit or the first error. A client of
\* another kind stays, for the signals ("watch").
leave(c) ==
  /\ conn[c] = "serving" /\ job[c].cmd # "watch"
  /\ \/ job[c].failed /\ exit' = [exit EXCEPT ![c] = 1]
     \/ /\ job[c].todo = <<>>
        /\ exit' = [exit EXCEPT ![c] = IF job[c].all_active THEN 0 ELSE 3]
  /\ job' = [job EXCEPT ![c] = Idle]
  /\ conn' = [conn EXCEPT ![c] = "closed"]
  /\ objects' = [objects EXCEPT ![c] = {}]
  /\ was_active' = [was_active EXCEPT ![c] = {}]
  /\ UNCHANGED <<manager, channel, lock, lagged, told, commands, hung>>

-----------------------------------------------------------------------------
Call(c) ==
  \/ start_unit(c) \/ take_lock(c) \/ stop_unit(c) \/ restart_unit(c) \/ reload_unit(c)
  \/ daemon_reload(c) \/ get_or_load_unit(c) \/ active_state(c)
Bridge(c) == subscribe(c) \/ forward(c) \/ lag(c)
Tasks == [id : 1 .. next_job_id - 1, unit : Services, done : BOOLEAN]

Next ==
  \/ \E c \in Clients : \/ Call(c) \/ leave(c) \/ serve_connection(c) \/ Bridge(c)
                        \/ \E x \in Commands[c] : connect(c, x)
  \/ \E task \in tasks : service_started(task) \/ job_removed(task)
  \/ \E id \in 1 .. next_job_id - 1 : hangs(id)
  \/ \E u \in Services : service_exits(u)

Spec == Init /\ [][Next]_vars

\* The runtime polls every task that is ready, and its lock is fair. Nothing is assumed of
\* the processes waited for: any of them may hang.
Fairness ==
  /\ \A c \in Clients : /\ WF_vars(serve_connection(c) \/ Call(c) \/ leave(c))
                        /\ WF_vars(Bridge(c))
  /\ WF_vars(\E task \in tasks : service_started(task) \/ job_removed(task))

FairSpec == Spec /\ Fairness

-----------------------------------------------------------------------------
\* Every job is announced once, its end at most once and later, for the same unit; a job
\* that has not ended is on its way in a task or a call, or was refused. Ids are given
\* out under the lock, ends announced by tasks without it.
JobsPaired ==
  \A id \in JobIds :
    LET said == story[id]
        running == \/ id \in refused \/ \E task \in tasks : task.id = id
                   \/ lock # Free /\ id = OwnId(lock)
    IN \/ said = <<>> /\ id >= next_job_id
       \/ \E u \in Units : \/ said = <<JobNew(u, id)>> /\ running
                           \/ said = <<JobNew(u, id), JobRemoved(u, id)>> /\ ~running

\* Who follows StateChanged knows the status of a unit: the last one since the unit was
\* last loaded tells it. Tasks, calls and reloads write the two together under the lock.
EventsTellStatus ==
  \A u \in Units :
    status[u] # Unlisted /\ last[u].is = "StateChanged" => last[u].state = status[u]

\* `systemlctl is-active` exits with 0 only when each of its units was active at some
\* time while it ran, whatever other clients, reloads and exits came in between.
IsActiveTruthful ==
  [][\A c \in Clients :
       (job[c].cmd = "is-active" /\ exit[c] = NoExit /\ exit'[c] = 0) =>
         \A i \in DOMAIN job[c].units : job[c].units[i] \in was_active[c]]_vars

Owed(c, id) == id \in told[c] /\ id \notin refused /\ ~lagged[c]

\* A process that never ends stalls its own job, and under the lock everything that
\* needs the lock: the starts that have not published their state yet, and every call.
KeptForEver == lock # Free /\ OwnId(lock) \in hung
Stalled(id) == id \in hung \/ (KeptForEver /\ \E task \in tasks : task.id = id /\ ~task.done)

\* A connection that was told of a job is told of its end, if the job was not refused,
\* no process stalls it and the bridge was not overtaken.
HearsTheEnd ==
  \A id \in JobIds :
    (\E c \in Clients : Owed(c, id)) ~> (Stalled(id) \/ \A c \in Clients : ~Owed(c, id))

\* Every command of systemlctl comes to its end, unless a call waits under the lock for a
\* process that never ends. Calls, tasks and the bridge never wait for each other in a
\* circle.
CommandsEnd ==
  \A c \in Clients :
    (job[c] # Idle /\ job[c].cmd # "watch") ~> (conn[c] = "closed" \/ KeptForEver)

=============================================================================
