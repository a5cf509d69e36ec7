------------------------------ MODULE BusProofs ------------------------------
(***************************************************************************)
(* Theorems about Bus, for any units, clients and commands, any capacity of *)
(* the channel, and any order of calls, tasks, exits and reloads.           *)
(***************************************************************************)
EXTENDS Bus, OrderingProofs

-----------------------------------------------------------------------------
(* What a log tells about a job and about a unit                           *)

LEMMA Literal ==
  ASSUME NEW f
  PROVE  /\ f = [n \in 1 .. 0 |-> f[n]] => f = <<>>
         /\ f = [n \in 1 .. 1 |-> f[n]] => f = <<f[1]>>
         /\ f = [n \in 1 .. 2 |-> f[n]] => f = <<f[1], f[2]>>
OBVIOUS

\* A log with no event about a job, with one, and with two.
LEMMA AboutNone ==
  ASSUME NEW log, NEW id, \A i \in DOMAIN log : log[i].id # id
  PROVE  About(log, id) = <<>>
<1>1. {i \in DOMAIN log : log[i].id = id} = {} /\ Cardinality({}) = 0
  BY FS_EmptySet
<1>2. 1 .. 0 = {}
  OBVIOUS
<1> DEFINE nth(n) == CHOOSE i \in {j \in DOMAIN log : log[j].id = id} :
                       Cardinality({j \in {h \in DOMAIN log : log[h].id = id} : j <= i}) = n
<1>3. About(log, id) = [n \in 1 .. 0 |-> log[nth(n)]]
  BY <1>1 DEF About
<1> HIDE DEF nth
<1>4. About(log, id) = [n \in 1 .. 0 |-> About(log, id)[n]]
  BY <1>3
<1> QED BY <1>4, Literal

LEMMA AboutOne ==
  ASSUME NEW log, NEW id, DOMAIN log \subseteq Nat, NEW k \in DOMAIN log, log[k].id = id,
         \A i \in DOMAIN log : i # k => log[i].id # id
  PROVE  About(log, id) = <<log[k]>>
<1> DEFINE at == {i \in DOMAIN log : log[i].id = id}
           nth(n) == CHOOSE i \in at : Cardinality({j \in at : j <= i}) = n
<1>1. at = {k} /\ Cardinality({k}) = 1
  BY FS_Singleton
<1>2. {j \in at : j <= k} = {k}
  BY <1>1
<1>3. nth(1) = k
  BY <1>1, <1>2
<1>4. About(log, id) = [n \in 1 .. 1 |-> log[nth(n)]]
  BY <1>1 DEF About
<1> HIDE DEF nth
<1>5. About(log, id) = [n \in 1 .. 1 |-> About(log, id)[n]] /\ About(log, id)[1] = log[k]
  BY <1>3, <1>4
<1> QED BY <1>5, Literal

LEMMA AboutTwo ==
  ASSUME NEW log, NEW id, DOMAIN log \subseteq Nat, NEW k \in DOMAIN log, log[k].id = id,
         NEW m \in DOMAIN log, log[m].id = id, k < m,
         \A i \in DOMAIN log : i # k /\ i # m => log[i].id # id
  PROVE  About(log, id) = <<log[k], log[m]>>
<1> DEFINE at == {i \in DOMAIN log : log[i].id = id}
           nth(n) == CHOOSE i \in at : Cardinality({j \in at : j <= i}) = n
<1>1. k \in Nat /\ m \in Nat /\ at = {k, m} /\ k # m
  OBVIOUS
<1>2. Cardinality({k}) = 1 /\ IsFiniteSet({k}) /\ {k} \cup {m} = {k, m}
  BY FS_Singleton
<1>3. Cardinality({k, m}) = 2
  BY <1>1, <1>2, FS_AddElement
<1>4. {j \in at : j <= k} = {k} /\ {j \in at : j <= m} = {k, m}
  BY <1>1
<1> DEFINE upto(i) == {j \in at : j <= i}
<1>5. Cardinality(upto(k)) = 1 /\ Cardinality(upto(m)) = 2
  BY <1>2, <1>3, <1>4
<1>7. nth(1) = k /\ nth(2) = m
  <2>1. \A i \in at : i = k \/ i = m
    BY <1>1
  <2> HIDE DEF upto
  <2>2. \A i \in at : (Cardinality(upto(i)) = 1 <=> i = k) /\ (Cardinality(upto(i)) = 2 <=> i = m)
    BY <1>1, <1>5, <2>1
  <2> HIDE DEF at
  <2>3. \A n : nth(n) = CHOOSE i \in at : Cardinality(upto(i)) = n
    BY DEF upto
  <2> HIDE DEF nth
  <2> QED BY <1>1, <2>2, <2>3
<1>6. About(log, id) = [n \in 1 .. 2 |-> log[nth(n)]]
  BY <1>1, <1>3 DEF About
<1> HIDE DEF nth
<1>8. /\ About(log, id) = [n \in 1 .. 2 |-> About(log, id)[n]]
      /\ About(log, id)[1] = log[k] /\ About(log, id)[2] = log[m]
  BY <1>6, <1>7
<1> QED BY <1>8, Literal

Tells(e, u) == e.unit = u /\ e.is \in {"StateChanged", "UnitNew"}

LEMMA LatestNone ==
  ASSUME NEW log, NEW u, NEW before, \A i \in DOMAIN log : ~Tells(log[i], u)
  PROVE  Latest(log, u, before) = before
BY DEF Latest, Tells

LEMMA LatestLast ==
  ASSUME NEW log, NEW u, NEW before, DOMAIN log \subseteq Nat,
         NEW k \in DOMAIN log, Tells(log[k], u), \A i \in DOMAIN log : Tells(log[i], u) => i <= k
  PROVE  Latest(log, u, before) = log[k]
<1> DEFINE at == {i \in DOMAIN log : log[i].unit = u /\ log[i].is \in {"StateChanged", "UnitNew"}}
<1>1. k \in at /\ \A i \in at : k >= i /\ i \in Nat
  BY DEF Tells
<1> HIDE DEF at
<1>2. Max(at) = k
  BY <1>1 DEF Max
<1>3. Latest(log, u, before) = log[Max(at)]
  BY <1>1 DEF Latest, at
<1> QED BY <1>2, <1>3

LEMMA LatestOf ==
  ASSUME NEW E, NEW log \in Seq(E), NEW u, NEW before,
         NEW k \in DOMAIN log, Tells(log[k], u)
  PROVE  \E i \in DOMAIN log : Tells(log[i], u) /\ Latest(log, u, before) = log[i]
<1> DEFINE at == {i \in DOMAIN log : log[i].unit = u /\ log[i].is \in {"StateChanged", "UnitNew"}}
<1>1. Len(log) \in Nat /\ at \subseteq 0 .. Len(log) /\ at # {}
  BY LenProperties DEF Tells
<1>2. \A i \in at : Tells(log[i], u) /\ i \in DOMAIN log
  BY DEF Tells
<1>3. Latest(log, u, before) = log[Max(at)]
  BY <1>1 DEF Latest
<1> HIDE DEF at
<1>4. PICK m \in at : \A i \in at : m >= i
  BY <1>1, Greatest
<1>5. Max(at) \in at
  BY <1>4 DEF Max
<1> QED BY <1>2, <1>3, <1>5

-----------------------------------------------------------------------------
(* The inductive invariant                                                 *)

Cmds == {"start", "stop", "restart", "reload", "is-active", "daemon-reload", "watch"}

JobRecord == [cmd : Cmds \cup {"none"}, units : Seq(Units), todo : Seq(Units),
              call : Cmds \cup {"Get", "none"}, failed : BOOLEAN, all_active : BOOLEAN]

\* A client calls what its command says; is-active asks for an object first.
Calls(j) == j.call = j.cmd \/ (j.cmd = "is-active" /\ j.call = "Get")

Holds(j) == j.call \in {"stop", "restart", "reload"} /\ j.todo # <<>> /\ ~j.failed

TypeOK ==
  /\ units \subseteq Units
  /\ status \in [Units -> States \cup {Unlisted}]
  /\ next_job_id \in Nat \ {0}
  /\ tasks \subseteq Tasks
  /\ refused \subseteq 1 .. next_job_id - 1
  /\ lock \in Clients \cup {Free}
  /\ conn \in [Clients -> {"closed", "accepted", "serving", "listening"}]
  /\ job \in [Clients -> JobRecord]
  /\ exit \in [Clients -> Int]
  /\ was_active \in [Clients -> SUBSET Units]

ClientsOK ==
  /\ \A c \in Clients : Calls(job[c])
  /\ lock # Free => conn[lock] = "serving" /\ Holds(job[lock]) /\ next_job_id > 1

\* A job is on its way in one place: a task, a call that holds the lock, or among
\* those that were refused.
InCall(id) == lock # Free /\ id = OwnId(lock)
InTask(id) == \E task \in tasks : task.id = id
Running(id) == id \in refused \/ InTask(id) \/ InCall(id)

JobPlaces ==
  /\ \A task \in tasks : task.id \notin refused /\ ~InCall(task.id)
  /\ \A t1, t2 \in tasks : t1.id = t2.id => t1 = t2
  /\ lock # Free => OwnId(lock) \notin refused

Begun(u, id) == <<JobNew(u, id)>>
Ended(u, id) == <<JobNew(u, id), JobRemoved(u, id)>>

Stories ==
  /\ \A id \in JobIds : id >= next_job_id => story[id] = <<>>
  /\ \A id \in JobIds : id < next_job_id =>
       \E u \in Units : \/ story[id] = Begun(u, id) /\ Running(id)
                        \/ story[id] = Ended(u, id) /\ ~Running(id)
  /\ \A task \in tasks : task.id \in JobIds => story[task.id] = Begun(task.unit, task.id)
  /\ lock # Free /\ OwnId(lock) \in JobIds =>
       story[OwnId(lock)] = Begun(Unit(lock), OwnId(lock))

\* What is-active has asked for so far was active at some time, as long as it says so.
Truthful(c) ==
  LET j == job[c]
      asked == Len(j.units) - Len(j.todo)
  IN j.cmd = "is-active" =>
       /\ Active(status) \subseteq was_active[c]
       /\ Len(j.todo) <= Len(j.units)
       /\ \A i \in 1 .. Len(j.todo) : j.todo[i] = j.units[asked + i]
       /\ j.all_active => \A i \in 1 .. asked : j.units[i] \in was_active[c]

IsActiveInv == \A c \in Clients : Truthful(c)

TypeInv == TypeOK /\ ClientsOK
JobsInv == JobPlaces /\ Stories

LEMMA Atoms ==
  /\ \A x \in {"inactive", "activating", "active", "failed"} : x \in States /\ x # Unlisted
  /\ Free \notin Clients
BY BusAssumption DEF States, Unlisted, Free

LEMMA ClientAt ==
  ASSUME TypeInv, NEW c \in Clients
  PROVE  job[c] \in JobRecord /\ Calls(job[c])
BY DEF TypeInv, TypeOK, ClientsOK

\* A client that calls for a unit.
LEMMA AskedType ==
  ASSUME TypeInv, NEW c \in Clients, NEW call, Asked(c, call)
  PROVE  /\ conn[c] = "serving" /\ Unit(c) \in Units
         /\ Done(c) \in JobRecord /\ Done(c).cmd = job[c].cmd /\ Done(c).call = job[c].cmd
         /\ Done(c).todo = Tail(job[c].todo) /\ Done(c).units = job[c].units
         /\ Done(c).failed = FALSE /\ Done(c).all_active = job[c].all_active
         /\ Calls(Done(c)) /\ Calls([job[c] EXCEPT !.failed = TRUE])
         /\ [job[c] EXCEPT !.failed = TRUE] \in JobRecord
<1>1. job[c] \in JobRecord /\ Calls(job[c])
  BY ClientAt
<1>2. job[c].todo \in Seq(Units) /\ job[c].todo # <<>> /\ conn[c] = "serving" /\ job[c].failed = FALSE
  BY <1>1 DEF Asked, JobRecord
<1>3. Head(job[c].todo) \in Units /\ Tail(job[c].todo) \in Seq(Units)
  BY <1>2, HeadTailProperties
<1>4. Done(c) = [job[c] EXCEPT !.todo = Tail(job[c].todo), !.call = job[c].cmd]
  BY DEF Done
<1>5. Done(c) \in JobRecord
  BY <1>1, <1>3, <1>4 DEF JobRecord
<1>6. /\ Done(c).cmd = job[c].cmd /\ Done(c).call = job[c].cmd
      /\ Done(c).todo = Tail(job[c].todo) /\ Done(c).units = job[c].units
      /\ Done(c).failed = FALSE /\ Done(c).all_active = job[c].all_active
  BY <1>1, <1>2, <1>4 DEF JobRecord
<1>7. /\ [job[c] EXCEPT !.failed = TRUE] \in JobRecord
      /\ [job[c] EXCEPT !.failed = TRUE].cmd = job[c].cmd
      /\ [job[c] EXCEPT !.failed = TRUE].call = job[c].call
  BY <1>1 DEF JobRecord
<1> QED BY <1>2, <1>3, <1>5, <1>6, <1>7, <1>1 DEF Unit, Calls

\* What the client asked for is its command, or the object of its unit.
LEMMA AskedCmd ==
  ASSUME TypeInv, NEW c \in Clients, NEW call, Asked(c, call)
  PROVE  /\ call # "Get" => job[c].cmd = call
         /\ call = "Get" => job[c].cmd = "is-active"
<1>1. job[c] \in JobRecord /\ Calls(job[c]) /\ job[c].call = call
  BY ClientAt DEF Asked
<1> QED BY <1>1 DEF Calls, JobRecord, Cmds

LEMMA MarkedType ==
  ASSUME status \in [Units -> States \cup {Unlisted}], NEW u, NEW x \in States
  PROVE  Marked(u, x) \in [Units -> States \cup {Unlisted}]
BY DEF Marked

\* The end of an action that changes the record of one client, without the lock.
LEMMA OneClient ==
  ASSUME TypeInv, NEW c \in Clients, NEW j \in JobRecord, Calls(j),
         job' = [job EXCEPT ![c] = j], UNCHANGED conn,
         lock' = Free \/ (lock' = lock /\ lock # c /\ next_job_id' = next_job_id)
  PROVE  ClientsOK' /\ job' \in [Clients -> JobRecord]
<1>1. job \in [Clients -> JobRecord] /\ lock \in Clients \cup {Free}
  BY DEF TypeInv, TypeOK
<1>2. \A d \in Clients : job'[d] = IF d = c THEN j ELSE job[d]
  BY <1>1
<1>3. \A d \in Clients : Calls(job[d])
  BY DEF TypeInv, ClientsOK
<1>4. lock' # Free => lock' = lock /\ lock \in Clients /\ job'[lock] = job[lock]
  BY <1>1, <1>2
<1>5. \A d \in Clients : Calls(job'[d])
  BY <1>2, <1>3
<1> QED BY <1>1, <1>4, <1>5 DEF ClientsOK, TypeInv

LEMMA SameClients ==
  ASSUME TypeInv, UNCHANGED <<job, conn, next_job_id>>, lock' = lock \/ lock' = Free
  PROVE  ClientsOK'
BY DEF TypeInv, ClientsOK

LEMMA StartPartType ==
  ASSUME TypeInv, NEW c \in Clients, NEW call, Asked(c, call), NEW log, NEW id,
         NEW st \in [Units -> States \cup {Unlisted}],
         next_job_id' \in Nat, next_job_id <= next_job_id', id \in 1 .. next_job_id' - 1,
         UNCHANGED conn, lock' = Free,
         StartPart(c, st, log, id)
  PROVE  /\ status' \in [Units -> States \cup {Unlisted}]
         /\ tasks' \subseteq Tasks' /\ refused' \subseteq 1 .. next_job_id' - 1
         /\ job' \in [Clients -> JobRecord] /\ ClientsOK'
<1> DEFINE u == Unit(c)
<1>1. /\ u \in Units /\ Done(c) \in JobRecord /\ Calls(Done(c))
      /\ [job[c] EXCEPT !.failed = TRUE] \in JobRecord /\ Calls([job[c] EXCEPT !.failed = TRUE])
  BY AskedType
<1>2. next_job_id \in Nat /\ tasks \subseteq Tasks /\ refused \subseteq 1 .. next_job_id - 1
  BY DEF TypeInv, TypeOK
<1>3. job' = [job EXCEPT ![c] = Done(c)] \/ job' = [job EXCEPT ![c] = [job[c] EXCEPT !.failed = TRUE]]
  <2>1. Answer(c) \/ Refuse(c)
    BY DEF StartPart
  <2>2. job \in [Clients -> JobRecord]
    BY DEF TypeInv, TypeOK
  <2> QED BY <2>1, <2>2 DEF Answer, Refuse
<1>4. ClientsOK' /\ job' \in [Clients -> JobRecord]
  BY <1>1, <1>3, OneClient
<1>5. status' \in [Units -> States \cup {Unlisted}]
  BY <1>1, Atoms DEF StartPart
<1>6. Tasks \subseteq Tasks'
  BY <1>2 DEF Tasks
<1>7. tasks' \subseteq Tasks'
  <2>1. u \notin Others => u \in Services
    BY <1>1 DEF Units
  <2>2. u \in Services => [id |-> id, unit |-> u, done |-> FALSE] \in Tasks'
    BY DEF Tasks
  <2> QED BY <1>2, <1>6, <2>1, <2>2 DEF StartPart
<1>8. refused' \subseteq 1 .. next_job_id' - 1
  <2>1. \A n \in Nat : next_job_id <= n => 1 .. next_job_id - 1 \subseteq 1 .. n - 1
    BY <1>2
  <2>2. refused' = refused \/ refused' = refused \cup {id}
    BY DEF StartPart
  <2> QED BY <1>2, <2>1, <2>2
<1> QED BY <1>4, <1>5, <1>7, <1>8

LEMMA RecordType ==
  ASSUME TypeInv, RecordActive
  PROVE  was_active' \in [Clients -> SUBSET Units]
<1>1. was_active \in [Clients -> SUBSET Units] /\ Active(status') \subseteq Units
  BY DEF TypeInv, TypeOK, Active
<1> QED BY <1>1 DEF RecordActive

\* The rest of TypeOK, for a step that touches neither jobs nor tasks.
LEMMA SameTasks ==
  ASSUME TypeInv, UNCHANGED <<next_job_id, tasks, refused>>
  PROVE  /\ next_job_id' \in Nat \ {0} /\ tasks' \subseteq Tasks'
         /\ refused' \subseteq 1 .. next_job_id' - 1
BY DEF TypeInv, TypeOK, Tasks

LEMMA CallType ==
  ASSUME TypeInv, NEW c \in Clients, Call(c)
  PROVE  TypeInv'
<1>1. TypeOK /\ ClientsOK /\ next_job_id \in Nat \ {0} /\ status \in [Units -> States \cup {Unlisted}]
      /\ tasks \subseteq Tasks /\ refused \subseteq 1 .. next_job_id - 1
  BY DEF TypeInv, TypeOK
<1>2. ASSUME start_unit(c) PROVE TypeInv'
  <2>1. /\ Asked(c, "start") /\ lock' = Free /\ next_job_id' = next_job_id + 1
        /\ StartPart(c, status, <<JobNew(Unit(c), next_job_id)>>, next_job_id)
        /\ RecordActive /\ UNCHANGED <<units, conn, exit>>
    BY <1>2 DEF start_unit, alloc_job_id, connection
  <2>2. next_job_id' \in Nat \ {0} /\ next_job_id <= next_job_id' /\ next_job_id \in 1 .. next_job_id' - 1
    BY <1>1, <2>1
  <2>3. /\ status' \in [Units -> States \cup {Unlisted}]
        /\ tasks' \subseteq Tasks' /\ refused' \subseteq 1 .. next_job_id' - 1
        /\ job' \in [Clients -> JobRecord] /\ ClientsOK'
    BY <1>1, <2>1, <2>2, StartPartType
  <2> QED BY <1>1, <2>1, <2>2, <2>3, RecordType DEF TypeInv, TypeOK
<1>3. ASSUME take_lock(c) PROVE TypeInv'
  <2>1. PICK call \in {"stop", "restart", "reload"} : Asked(c, call)
    BY <1>3 DEF take_lock
  <2>2. /\ lock' = c /\ next_job_id' = next_job_id + 1
        /\ UNCHANGED <<units, status, tasks, refused, conn, job, exit, was_active>>
    BY <1>3 DEF take_lock, alloc_job_id, connection, client
  <2>3. Tasks \subseteq Tasks' /\ 1 .. next_job_id - 1 \subseteq 1 .. next_job_id' - 1
        /\ next_job_id' \in Nat \ {0}
    BY <1>1, <2>2 DEF Tasks
  <2>4. ClientsOK'
    BY <1>1, <2>1, <2>2 DEF ClientsOK, Asked, Holds
  <2>5. refused' \subseteq 1 .. next_job_id' - 1 /\ tasks' \subseteq Tasks'
    BY <1>1, <2>2, <2>3
  <2> QED BY <1>1, <2>2, <2>3, <2>4, <2>5 DEF TypeInv, TypeOK
<1>4. ASSUME stop_unit(c) PROVE TypeInv'
  <2>1. Asked(c, "stop") /\ lock' = Free /\ status' = Marked(Unit(c), "inactive")
        /\ job' = [job EXCEPT ![c] = Done(c)]
        /\ UNCHANGED <<units, next_job_id, tasks, refused, conn, exit, was_active>>
    BY <1>4 DEF stop_unit, Answer, connection
  <2>2. ClientsOK' /\ job' \in [Clients -> JobRecord]
    BY <2>1, AskedType, OneClient
  <2>3. status' \in [Units -> States \cup {Unlisted}]
    BY <1>1, <2>1, Atoms, MarkedType
  <2> QED BY <1>1, <2>1, <2>2, <2>3, SameTasks DEF TypeInv, TypeOK
<1>5. ASSUME restart_unit(c) PROVE TypeInv'
  <2>1. /\ Asked(c, "restart") /\ lock = c /\ lock' = Free /\ next_job_id' = next_job_id
        /\ StartPart(c, Marked(Unit(c), "inactive"), <<StateChanged(Unit(c), "inactive")>>, OwnId(c))
        /\ RecordActive /\ UNCHANGED <<units, conn, exit>>
    BY <1>5 DEF restart_unit, connection
  <2>2. CASE next_job_id > 1
    <3>1. OwnId(c) \in 1 .. next_job_id' - 1 /\ next_job_id' \in Nat \ {0} /\ next_job_id <= next_job_id'
      BY <1>1, <2>1, <2>2 DEF OwnId
    <3>2. Marked(Unit(c), "inactive") \in [Units -> States \cup {Unlisted}]
      BY <1>1, Atoms, MarkedType
    <3>3. /\ status' \in [Units -> States \cup {Unlisted}]
          /\ tasks' \subseteq Tasks' /\ refused' \subseteq 1 .. next_job_id' - 1
          /\ job' \in [Clients -> JobRecord] /\ ClientsOK'
      BY <2>1, <3>1, <3>2, StartPartType
    <3> QED BY <1>1, <2>1, <3>1, <3>3, RecordType DEF TypeInv, TypeOK
  <2>3. lock # Free => next_job_id > 1
    BY DEF TypeInv, ClientsOK
  <2> QED BY <2>1, <2>2, <2>3, Atoms
<1>6. ASSUME reload_unit(c) PROVE TypeInv'
  <2>1. Asked(c, "reload") /\ lock' = Free /\ job' = [job EXCEPT ![c] = Done(c)]
        /\ UNCHANGED <<units, status, next_job_id, tasks, refused, conn, exit, was_active>>
    BY <1>6 DEF reload_unit, Answer, connection
  <2>2. ClientsOK' /\ job' \in [Clients -> JobRecord]
    BY <2>1, AskedType, OneClient
  <2> QED BY <1>1, <2>1, <2>2, SameTasks DEF TypeInv, TypeOK
<1>7. ASSUME daemon_reload(c) PROVE TypeInv'
  <2>1. /\ Asked(c, "daemon-reload") /\ lock = Free /\ lock' = Free /\ job' = [job EXCEPT ![c] = Done(c)]
        /\ UNCHANGED <<next_job_id, tasks, refused, conn, exit, was_active>>
    BY <1>7 DEF daemon_reload, Answer, connection
  <2>2. ClientsOK' /\ job' \in [Clients -> JobRecord]
    BY <2>1, AskedType, OneClient
  <2>3. status' \in [Units -> States \cup {Unlisted}] /\ units' \subseteq Units
    BY <1>1, <1>7, Atoms DEF daemon_reload, TypeOK
  <2> QED BY <1>1, <2>1, <2>2, <2>3, SameTasks DEF TypeInv, TypeOK
<1>8. ASSUME get_or_load_unit(c) PROVE TypeInv'
  <2> DEFINE j == [job[c] EXCEPT !.call = "Get"]
  <2>1. /\ Asked(c, "is-active") /\ lock = Free
        /\ job' = [job EXCEPT ![c].call = "Get"]
        /\ UNCHANGED <<units, status, next_job_id, tasks, refused, lock, conn, exit, was_active>>
    BY <1>8 DEF get_or_load_unit, connection, manager
  <2>2. job[c] \in JobRecord /\ job[c].cmd = "is-active"
    BY <2>1, AskedCmd, ClientAt
  <2>3. j \in JobRecord /\ Calls(j)
    BY <2>2 DEF JobRecord, Calls
  <2>4. job' = [job EXCEPT ![c] = j]
    BY <1>1, <2>1 DEF TypeOK
  <2>5. ClientsOK' /\ job' \in [Clients -> JobRecord]
    BY <2>1, <2>3, <2>4, OneClient
  <2> QED BY <1>1, <2>1, <2>5, SameTasks DEF TypeInv, TypeOK
<1>9. ASSUME active_state(c) PROVE TypeInv'
  <2>1. /\ Asked(c, "Get")
        /\ UNCHANGED <<units, status, next_job_id, tasks, refused, lock, conn, exit, was_active>>
    BY <1>9 DEF active_state, connection, manager
  <2>2. lock # c
    <3>1. lock = c => Holds(job[c])
      BY Atoms DEF TypeInv, ClientsOK
    <3> QED BY <2>1, <3>1 DEF Holds, Asked
  <2>3. PICK j \in JobRecord : Calls(j) /\ job' = [job EXCEPT ![c] = j]
    <3>1. CASE Refuse(c)
      <4>1. job' = [job EXCEPT ![c] = [job[c] EXCEPT !.failed = TRUE]]
        BY <1>1, <3>1 DEF Refuse, TypeOK
      <4> QED BY <2>1, <4>1, AskedType
    <3>2. CASE ~Refuse(c)
      <4> DEFINE all == Done(c).all_active /\ status[Unit(c)] = "active"
                 j == [Done(c) EXCEPT !.all_active = all]
      <4>1. job' = [job EXCEPT ![c] = j]
        BY <1>9, <3>2 DEF active_state
      <4>2. Done(c) \in JobRecord /\ Calls(Done(c)) /\ all \in BOOLEAN
        BY <2>1, AskedType
      <4> HIDE DEF all
      <4>3. j \in JobRecord /\ Calls(j)
        BY <4>2 DEF JobRecord, Calls
      <4> QED BY <4>1, <4>3
    <3> QED BY <3>1, <3>2
  <2>4. ClientsOK' /\ job' \in [Clients -> JobRecord]
    BY <2>1, <2>2, <2>3, OneClient
  <2> QED BY <1>1, <2>1, <2>4, SameTasks DEF TypeInv, TypeOK
<1> QED BY <1>2, <1>3, <1>4, <1>5, <1>6, <1>7, <1>8, <1>9 DEF Call

LEMMA OthersType ==
  ASSUME TypeInv,
         \/ \E c \in Clients : \/ leave(c) \/ serve_connection(c) \/ Bridge(c)
                               \/ \E x \in Commands[c] : connect(c, x)
         \/ \E task \in tasks : service_started(task) \/ job_removed(task)
         \/ \E u \in Services : service_exits(u)
         \/ UNCHANGED <<manager, channel, lock, connection, client, was_active>>
  PROVE  TypeInv'
<1>1. /\ TypeOK /\ ClientsOK /\ next_job_id \in Nat \ {0}
      /\ status \in [Units -> States \cup {Unlisted}] /\ job \in [Clients -> JobRecord]
      /\ conn \in [Clients -> {"closed", "accepted", "serving", "listening"}]
      /\ exit \in [Clients -> Int] /\ lock \in Clients \cup {Free}
      /\ was_active \in [Clients -> SUBSET Units]
      /\ tasks \subseteq Tasks /\ refused \subseteq 1 .. next_job_id - 1
  BY DEF TypeInv, TypeOK
<1>2. Idle \in JobRecord /\ Calls(Idle) /\ ~Holds(Idle)
  BY DEF Idle, JobRecord, Calls, Holds
<1>3. \A c \in Clients : job[c] \in JobRecord /\ Calls(job[c])
  BY ClientAt
<1>4. lock # Free => lock \in Clients /\ conn[lock] = "serving" /\ Holds(job[lock]) /\ next_job_id > 1
                       /\ job[lock].cmd = job[lock].call
  BY <1>1, <1>3 DEF ClientsOK, Holds, Calls
<1>5. ASSUME NEW c \in Clients, leave(c) PROVE TypeInv'
  <2>1. /\ job[c].failed \/ job[c].todo = <<>>
        /\ job' = [job EXCEPT ![c] = Idle] /\ conn' = [conn EXCEPT ![c] = "closed"]
        /\ was_active' = [was_active EXCEPT ![c] = {}]
        /\ UNCHANGED <<units, status, next_job_id, tasks, refused, lock>>
    BY <1>5 DEF leave, manager
  <2>2. lock # c
    BY <1>4, <2>1, Atoms DEF Holds
  <2>3. ClientsOK'
    BY <1>1, <1>2, <1>3, <1>4, <2>1, <2>2 DEF ClientsOK
  <2>4. exit' \in [Clients -> Int]
    BY <1>1, <1>5 DEF leave
  <2> QED BY <1>1, <1>2, <2>1, <2>3, <2>4, SameTasks DEF TypeInv, TypeOK
<1>6. ASSUME NEW c \in Clients, serve_connection(c) PROVE TypeInv'
  <2>1. /\ conn[c] = "accepted" /\ conn' = [conn EXCEPT ![c] = "serving"]
        /\ UNCHANGED <<units, status, next_job_id, tasks, refused, lock, job, exit, was_active>>
    BY <1>6 DEF serve_connection, manager, client
  <2>2. ClientsOK'
    BY <1>1, <1>3, <1>4, <2>1 DEF ClientsOK
  <2> QED BY <1>1, <2>1, <2>2, SameTasks DEF TypeInv, TypeOK
<1>7. ASSUME NEW c \in Clients, subscribe(c) PROVE TypeInv'
  <2>1. /\ job[c].cmd = "watch" /\ conn' = [conn EXCEPT ![c] = "listening"]
        /\ UNCHANGED <<units, status, next_job_id, tasks, refused, lock, job, exit, was_active>>
    BY <1>7 DEF subscribe, manager, client
  <2>2. lock # c
    BY <1>4, <2>1, Atoms DEF Holds
  <2>3. ClientsOK'
    BY <1>1, <1>3, <1>4, <2>1, <2>2 DEF ClientsOK
  <2> QED BY <1>1, <2>1, <2>3, SameTasks DEF TypeInv, TypeOK
<1>8. ASSUME UNCHANGED <<units, status, next_job_id, tasks, refused, lock, job, exit, was_active, conn>>
      PROVE TypeInv'
  BY <1>1, <1>8, SameTasks, SameClients DEF TypeInv, TypeOK
<1>9. ASSUME NEW c \in Clients, forward(c) \/ lag(c) PROVE TypeInv'
  BY <1>8, <1>9 DEF forward, lag, manager, client
<1>10. ASSUME NEW c \in Clients, NEW x \in Commands[c], connect(c, x) PROVE TypeInv'
  <2> DEFINE j == [Idle EXCEPT !.cmd = x.cmd, !.units = x.units, !.todo = x.units, !.call = x.cmd]
  <2>1. /\ job[c] = Idle /\ job' = [job EXCEPT ![c] = j] /\ conn' = [conn EXCEPT ![c] = "accepted"]
        /\ exit' = [exit EXCEPT ![c] = NoExit]
        /\ UNCHANGED <<units, status, next_job_id, tasks, refused, lock>>
    BY <1>10 DEF connect, manager
  <2>2. x.cmd \in Cmds /\ x.units \in Seq(Units)
    BY BusAssumption DEF Cmds
  <2>3. j \in JobRecord /\ Calls(j)
    BY <2>2 DEF Idle, JobRecord, Calls
  <2>4. lock # c
    BY <1>2, <1>4, <2>1, Atoms
  <2> HIDE DEF j
  <2>5. ClientsOK'
    BY <1>1, <1>3, <1>4, <2>1, <2>3, <2>4 DEF ClientsOK
  <2>6. was_active' \in [Clients -> SUBSET Units]
    BY <1>1, <1>10 DEF connect, Active
  <2>7. exit' \in [Clients -> Int]
    BY <1>1, <2>1 DEF NoExit
  <2> QED BY <1>1, <2>1, <2>3, <2>5, <2>6, <2>7, SameTasks DEF TypeInv, TypeOK
<1>11. ASSUME NEW task \in tasks, service_started(task) PROVE TypeInv'
  <2>1. PICK x \in {"active", "failed", "inactive"} : status' = Marked(task.unit, x)
    BY <1>11 DEF service_started
  <2>2. /\ tasks' = (tasks \ {task}) \cup {[task EXCEPT !.done = TRUE]} /\ RecordActive
        /\ UNCHANGED <<units, next_job_id, refused, lock, job, exit, conn>>
    BY <1>11 DEF service_started, connection, client
  <2>3. status' \in [Units -> States \cup {Unlisted}]
    BY <1>1, <2>1, Atoms, MarkedType
  <2>4. [task EXCEPT !.done = TRUE] \in Tasks /\ Tasks' = Tasks
    BY <1>1, <2>2 DEF Tasks
  <2>5. tasks' \subseteq Tasks'
    BY <1>1, <2>2, <2>4
  <2> QED BY <1>1, <2>2, <2>3, <2>5, SameClients, RecordType DEF TypeInv, TypeOK
<1>12. ASSUME NEW task \in tasks, job_removed(task) PROVE TypeInv'
  <2>1. /\ tasks' \subseteq tasks
        /\ UNCHANGED <<units, status, next_job_id, refused, lock, job, exit, conn, was_active>>
    BY <1>12 DEF job_removed, connection, client
  <2>2. tasks' \subseteq Tasks'
    BY <1>1, <2>1 DEF Tasks
  <2> QED BY <1>1, <2>1, <2>2, SameClients DEF TypeInv, TypeOK
<1>13. ASSUME NEW u \in Services, service_exits(u) PROVE TypeInv'
  <2>1. PICK x \in {"inactive", "failed"} : status' = [status EXCEPT ![u] = x]
    BY <1>13 DEF service_exits
  <2>2. UNCHANGED <<units, next_job_id, tasks, refused, lock, job, exit, conn, was_active>>
    BY <1>13 DEF service_exits, connection, client
  <2>3. status' \in [Units -> States \cup {Unlisted}]
    BY <1>1, <2>1, Atoms
  <2> QED BY <1>1, <2>2, <2>3, SameTasks, SameClients DEF TypeInv, TypeOK
<1> QED
  BY <1>5, <1>6, <1>7, <1>8, <1>9, <1>10, <1>11, <1>12, <1>13
  DEF Bridge, manager, connection, client

LEMMA InitType == Init => TypeInv
<1> SUFFICES ASSUME Init PROVE TypeInv
  OBVIOUS
<1>1. Idle \in JobRecord /\ Calls(Idle)
  BY DEF Idle, JobRecord, Calls
<1>2. TypeOK
  BY <1>1, Atoms, BusAssumption DEF Init, TypeOK, NoExit, Tasks
<1>3. ClientsOK
  BY <1>1 DEF Init, ClientsOK
<1> QED BY <1>2, <1>3 DEF TypeInv

\* Who holds the lock is a client whose call has a unit left, and what a client calls
\* is what its command says (manager_iface.rs:128-176, systemlctl/src/main.rs:140-350).
THEOREM TypeCorrect == Spec => []TypeInv
<1>1. Init => TypeInv
  BY InitType
<1>2. TypeInv /\ [Next]_vars => TypeInv'
  BY CallType, OthersType DEF Next, hangs, vars
<1> QED BY <1>1, <1>2, PTL DEF Spec

-----------------------------------------------------------------------------
(* Events tell the status                                                  *)

LEMMA Latest1 ==
  ASSUME NEW e, NEW u, NEW before
  PROVE  Latest(<<e>>, u, before) = IF Tells(e, u) THEN e ELSE before
<1> DEFINE log == <<e>>
<1>1. DOMAIN log = {1} /\ log[1] = e
  OBVIOUS
<1> HIDE DEF log
<1>2. CASE Tells(e, u)
  BY <1>1, <1>2, LatestLast
<1>3. CASE ~Tells(e, u)
  BY <1>1, <1>3, LatestNone
<1> QED BY <1>2, <1>3 DEF log

LEMMA Latest2 ==
  ASSUME NEW e, NEW f, NEW u, NEW before
  PROVE  Latest(<<e, f>>, u, before) =
           IF Tells(f, u) THEN f ELSE IF Tells(e, u) THEN e ELSE before
<1> DEFINE log == <<e, f>>
<1>1. DOMAIN log = {1, 2} /\ log[1] = e /\ log[2] = f
  OBVIOUS
<1> HIDE DEF log
<1>2. CASE Tells(f, u)
  BY <1>1, <1>2, LatestLast
<1>3. CASE Tells(e, u) /\ ~Tells(f, u)
  BY <1>1, <1>3, LatestLast
<1>4. CASE ~Tells(e, u) /\ ~Tells(f, u)
  BY <1>1, <1>4, LatestNone
<1> QED BY <1>2, <1>3, <1>4 DEF log

LEMMA Latest3 ==
  ASSUME NEW e, NEW f, NEW g, NEW u, NEW before
  PROVE  Latest(<<e, f, g>>, u, before) =
           IF Tells(g, u) THEN g
           ELSE IF Tells(f, u) THEN f ELSE IF Tells(e, u) THEN e ELSE before
<1> DEFINE log == <<e, f, g>>
<1>1. DOMAIN log = {1, 2, 3} /\ log[1] = e /\ log[2] = f /\ log[3] = g
  OBVIOUS
<1> HIDE DEF log
<1>2. CASE Tells(g, u)
  BY <1>1, <1>2, LatestLast
<1>3. CASE Tells(f, u) /\ ~Tells(g, u)
  BY <1>1, <1>3, LatestLast
<1>4. CASE Tells(e, u) /\ ~Tells(f, u) /\ ~Tells(g, u)
  BY <1>1, <1>4, LatestLast
<1>5. CASE ~Tells(e, u) /\ ~Tells(f, u) /\ ~Tells(g, u)
  BY <1>1, <1>5, LatestNone
<1> QED BY <1>2, <1>3, <1>4, <1>5 DEF log

LEMMA EventFields ==
  ASSUME NEW u, NEW v, NEW id, NEW x
  PROVE  /\ ~Tells(JobNew(u, id), v) /\ ~Tells(JobRemoved(u, id), v) /\ ~Tells(UnitRemoved(u), v)
         /\ Tells(StateChanged(u, x), v) <=> u = v
         /\ Tells(UnitNew(u), v) <=> u = v
         /\ StateChanged(u, x).is = "StateChanged" /\ StateChanged(u, x).state = x
         /\ UnitNew(u).is = "UnitNew"
         /\ JobNew(u, id).id = id /\ JobRemoved(u, id).id = id /\ StateChanged(u, x).id = 0
         /\ UnitNew(u).id = 0 /\ UnitRemoved(u).id = 0
         /\ JobNew(u, id) # JobRemoved(u, id)
BY DEF Tells, JobNew, JobRemoved, StateChanged, UnitNew, UnitRemoved, Event

\* A service's start, stop or exit tells one unit's status, and only that changes.
TellsStatus(u, st, e) == st[u] # Unlisted /\ e.is = "StateChanged" => e.state = st[u]

LEMMA OneTold ==
  ASSUME EventsTellStatus, NEW u, NEW x, NEW st,
         \A v \in Units : v # u => st[v] = status[v],
         st[u] # Unlisted => st[u] = x
  PROVE  \A v \in Units :
           TellsStatus(v, st, IF u = v THEN StateChanged(u, x) ELSE last[v])
BY EventFields DEF TellsStatus, EventsTellStatus

LEMMA SendLast ==
  ASSUME NEW log, Send(log)
  PROVE  \A u \in Units : last'[u] = Latest(log, u, last[u])
BY DEF Send

LEMMA ShortLogs ==
  ASSUME NEW e, NEW f, NEW g
  PROVE  <<e>> \o <<f, g>> = <<e, f, g>> /\ Append(<<e>>, f) = <<e, f>>
<1> DEFINE S == {e, f, g}
<1>1. <<e>> \in Seq(S) /\ <<f, g>> \in Seq(S) /\ <<e, f, g>> \in Seq(S) /\ <<e, f>> \in Seq(S)
  OBVIOUS
<1>2. Len(<<e>>) = 1 /\ Len(<<f, g>>) = 2 /\ Len(<<e, f, g>>) = 3 /\ Len(<<e, f>>) = 2
  OBVIOUS
<1>3. /\ <<e>> \o <<f, g>> \in Seq(S) /\ Len(<<e>> \o <<f, g>>) = 3
      /\ \A i \in 1 .. 3 : (<<e>> \o <<f, g>>)[i] = IF i <= 1 THEN <<e>>[i] ELSE <<f, g>>[i - 1]
  BY <1>1, <1>2, ConcatProperties
<1>4. \A i \in 1 .. 3 : (<<e>> \o <<f, g>>)[i] = <<e, f, g>>[i]
  <2>1. (<<e>> \o <<f, g>>)[1] = e /\ (<<e>> \o <<f, g>>)[2] = f /\ (<<e>> \o <<f, g>>)[3] = g
    BY <1>3
  <2> QED BY <2>1
<1>5. <<e>> \o <<f, g>> = <<e, f, g>>
  BY <1>1, <1>2, <1>3, <1>4, SeqEqual
<1>6. Append(<<e>>, f) = <<e, f>>
  <2>1. /\ Append(<<e>>, f) \in Seq(S) /\ Len(Append(<<e>>, f)) = 2
        /\ Append(<<e>>, f)[1] = e /\ Append(<<e>>, f)[2] = f
    BY <1>1, <1>2, AppendProperties
  <2>2. \A i \in 1 .. 2 : Append(<<e>>, f)[i] = <<e, f>>[i]
    BY <2>1
  <2> QED BY <1>1, <1>2, <2>1, <2>2, SeqEqual
<1> QED BY <1>5, <1>6

LEMMA StartTells ==
  ASSUME TypeInv, EventsTellStatus, NEW c \in Clients, NEW call, Asked(c, call), NEW id,
         NEW e, NEW st,
         \/ e = JobNew(Unit(c), id) /\ st = status
         \/ e = StateChanged(Unit(c), "inactive") /\ st = Marked(Unit(c), "inactive"),
         StartPart(c, st, <<e>>, id)
  PROVE  EventsTellStatus'
<1> DEFINE u == Unit(c)
<1>1. u \in Units /\ status \in [Units -> States \cup {Unlisted}]
  BY AskedType DEF TypeInv, TypeOK
<1>2. st \in [Units -> States \cup {Unlisted}] /\ \A v \in Units : v # u => st[v] = status[v]
  BY <1>1, MarkedType, Atoms DEF Marked
<1>3. \A v \in Units : TellsStatus(v, st, IF Tells(e, v) THEN e ELSE last[v])
  <2>1. CASE e = JobNew(Unit(c), id) /\ st = status
    BY <2>1, EventFields DEF EventsTellStatus, TellsStatus
  <2>2. CASE e = StateChanged(u, "inactive") /\ st = Marked(u, "inactive")
    <3>1. st[u] # Unlisted => st[u] = "inactive"
      BY <1>1, <2>2 DEF Marked
    <3>2. \A v \in Units : TellsStatus(v, st, IF u = v THEN StateChanged(u, "inactive") ELSE last[v])
      BY <1>2, <3>1, OneTold
    <3> QED BY <2>2, <3>2, EventFields
  <2> QED BY <2>1, <2>2
<1>4. ASSUME NEW x, NEW v \in Units,
             status'[u] # Unlisted => status'[u] = x, v # u => status'[v] = st[v],
             last'[v] = IF v = u THEN StateChanged(u, x) ELSE IF Tells(e, v) THEN e ELSE last[v]
      PROVE  TellsStatus(v, status', last'[v])
  BY <1>3, <1>4, EventFields DEF TellsStatus
<1>5. CASE u \in Others
  <2>1. /\ status' = IF st[u] = Unlisted THEN st ELSE [st EXCEPT ![u] = "active"]
        /\ Send(<<e, StateChanged(u, "active"), JobRemoved(u, id)>>)
    BY <1>5, ShortLogs DEF StartPart
  <2>2. \A v \in Units : last'[v] = IF v = u THEN StateChanged(u, "active")
                                   ELSE IF Tells(e, v) THEN e ELSE last[v]
    <3> TAKE v \in Units
    <3>1. last'[v] = Latest(<<e, StateChanged(u, "active"), JobRemoved(u, id)>>, v, last[v])
      BY <2>1, SendLast
    <3> QED BY <3>1, Latest3, EventFields
  <2>3. /\ status'[u] # Unlisted => status'[u] = "active"
        /\ \A v \in Units : v # u => status'[v] = st[v]
    BY <1>1, <1>2, <2>1
  <2> QED BY <1>4, <2>2, <2>3 DEF EventsTellStatus, TellsStatus
<1>6. CASE u \notin Others /\ st[u] = Unlisted
  <2>1. status' = st /\ Send(<<e>>)
    BY <1>6 DEF StartPart
  <2>2. \A v \in Units : last'[v] = IF Tells(e, v) THEN e ELSE last[v]
    <3> TAKE v \in Units
    <3>1. last'[v] = Latest(<<e>>, v, last[v])
      BY <2>1, SendLast
    <3> QED BY <3>1, Latest1
  <2> QED BY <1>3, <2>1, <2>2 DEF EventsTellStatus, TellsStatus
<1>7. CASE u \notin Others /\ st[u] # Unlisted
  <2>1. /\ status' = [st EXCEPT ![u] = "activating"]
        /\ Send(<<e, StateChanged(u, "activating")>>)
    BY <1>7, ShortLogs DEF StartPart
  <2>2. \A v \in Units : last'[v] = IF v = u THEN StateChanged(u, "activating")
                                   ELSE IF Tells(e, v) THEN e ELSE last[v]
    <3> TAKE v \in Units
    <3>1. last'[v] = Latest(<<e, StateChanged(u, "activating")>>, v, last[v])
      BY <2>1, SendLast
    <3> QED BY <3>1, Latest2, EventFields
  <2>3. /\ status'[u] # Unlisted => status'[u] = "activating"
        /\ \A v \in Units : v # u => status'[v] = st[v]
    BY <1>1, <1>2, <2>1
  <2> QED BY <1>4, <2>2, <2>3 DEF EventsTellStatus, TellsStatus
<1> QED BY <1>5, <1>6, <1>7

\* A set as a sequence holds its elements.
LEMMA SetToSeqHolds ==
  ASSUME NEW S, IsFiniteSet(S)
  PROVE  SetToSeq(S) \in Seq(S) /\ \A x \in S : \E i \in DOMAIN SetToSeq(S) : SetToSeq(S)[i] = x
<1> DEFINE n == Cardinality(S)
<1>1. n \in Nat /\ ExistsBijection(1 .. n, S)
  BY FS_CardinalityType
<1>2. \E f \in [1 .. n -> S] : IsInjective(f)
  BY <1>1 DEF ExistsBijection, Bijection, Injection
<1>3. SetToSeq(S) \in [1 .. n -> S] /\ IsInjective(SetToSeq(S))
  BY <1>2 DEF SetToSeq
<1>4. SetToSeq(S) \in Seq(S)
  BY <1>1, <1>3, IsASeq
<1>5. SetToSeq(S) \in Injection(1 .. n, S) /\ IsFiniteSet(1 .. n) /\ Cardinality(1 .. n) = n
  BY <1>1, <1>3, FS_Interval DEF Injection
<1>6. SetToSeq(S) \in Surjection(1 .. n, S)
  BY <1>5, FS_Injection
<1> QED BY <1>3, <1>4, <1>6 DEF Surjection

LEMMA ReloadLog ==
  ASSUME TypeInv, NEW found \in SUBSET Units
  PROVE  LET log == ReloadEvents(found)
         IN /\ log \in Seq({UnitRemoved(u) : u \in units \ found} \cup {UnitNew(u) : u \in found})
            /\ \A u \in found : \E i \in DOMAIN log : log[i] = UnitNew(u)
<1> DEFINE A == {UnitRemoved(u) : u \in units \ found}
           B == {UnitNew(u) : u \in found}
           a == SetToSeq(A)
           b == SetToSeq(B)
<1>1. IsFiniteSet(A) /\ IsFiniteSet(B)
  <2>1. units \ found \in SUBSET Units /\ IsFiniteSet(Units)
    BY BusAssumption DEF TypeInv, TypeOK
  <2>2. IsFiniteSet(units \ found) /\ IsFiniteSet(found)
    BY <2>1, FS_Subset
  <2>3. [u \in units \ found |-> UnitRemoved(u)] \in Surjection(units \ found, A)
    BY DEF Surjection
  <2>4. [u \in found |-> UnitNew(u)] \in Surjection(found, B)
    BY DEF Surjection
  <2> HIDE DEF A, B
  <2> QED BY <2>2, <2>3, <2>4, FS_Surjection
<1> HIDE DEF A, B
<1>2. a \in Seq(A) /\ b \in Seq(B) /\ \A x \in B : \E i \in DOMAIN b : b[i] = x
  BY <1>1, SetToSeqHolds
<1> HIDE DEF a, b
<1>3. a \in Seq(A \cup B) /\ b \in Seq(A \cup B)
  BY <1>2, SeqMonotonic
<1>4. /\ a \o b \in Seq(A \cup B) /\ Len(a \o b) = Len(a) + Len(b)
      /\ \A i \in 1 .. Len(a) + Len(b) : (a \o b)[i] = IF i <= Len(a) THEN a[i] ELSE b[i - Len(a)]
  BY <1>3, ConcatProperties
<1>5. Len(a) \in Nat /\ Len(b) \in Nat /\ DOMAIN b = 1 .. Len(b) /\ DOMAIN (a \o b) = 1 .. Len(a) + Len(b)
  BY <1>2, <1>4, LenProperties
<1>6. ASSUME NEW x \in B PROVE \E i \in DOMAIN (a \o b) : (a \o b)[i] = x
  <2>1. PICK i \in 1 .. Len(b) : b[i] = x
    BY <1>2, <1>5
  <2>2. i + Len(a) \in 1 .. Len(a) + Len(b) /\ ~(i + Len(a) <= Len(a)) /\ (i + Len(a)) - Len(a) = i
    BY <1>5
  <2>3. (a \o b)[i + Len(a)] = x
    BY <1>4, <2>1, <2>2
  <2> QED BY <1>5, <2>2, <2>3
<1>7. ReloadEvents(found) = a \o b
  BY DEF ReloadEvents, a, b, A, B
<1> QED BY <1>4, <1>6, <1>7 DEF A, B

LEMMA ReloadTells ==
  ASSUME TypeInv, NEW c \in Clients, daemon_reload(c)
  PROVE  EventsTellStatus'
<1>1. PICK found \in SUBSET Units :
        /\ status' = [u \in Units |-> IF u \notin found THEN Unlisted
                                      ELSE IF status[u] = Unlisted THEN "inactive" ELSE status[u]]
        /\ Send(ReloadEvents(found))
  BY DEF daemon_reload
<1> DEFINE log == ReloadEvents(found)
           E == {UnitRemoved(u) : u \in units \ found} \cup {UnitNew(u) : u \in found}
<1>2. log \in Seq(E) /\ \A u \in found : \E i \in DOMAIN log : log[i] = UnitNew(u)
  BY ReloadLog
<1>3. \A e \in E : e.is # "StateChanged"
  BY DEF UnitRemoved, UnitNew, Event
<1> HIDE DEF log, E
<1>4. ASSUME NEW u \in found PROVE last'[u].is # "StateChanged"
  <2>1. last'[u] = Latest(log, u, last[u])
    BY <1>1, SendLast DEF log
  <2>2. PICK k \in DOMAIN log : log[k] = UnitNew(u)
    BY <1>2
  <2>3. Tells(log[k], u)
    BY <2>2, EventFields
  <2>4. PICK i \in DOMAIN log : last'[u] = log[i]
    BY <1>2, <2>1, <2>3, LatestOf
  <2>5. log[i] \in E
    BY <1>2, LenProperties, ElementOfSeq
  <2> QED BY <1>3, <2>4, <2>5
<1> QED BY <1>1, <1>4 DEF EventsTellStatus

LEMMA NextTells ==
  ASSUME TypeInv, EventsTellStatus, [Next]_vars
  PROVE  EventsTellStatus'
<1>1. status \in [Units -> States \cup {Unlisted}] /\ tasks \subseteq Tasks
  BY DEF TypeInv, TypeOK
<1>2. ASSUME UNCHANGED <<status, last>> PROVE EventsTellStatus'
  BY <1>2 DEF EventsTellStatus
<1>3. ASSUME NEW c \in Clients, start_unit(c) PROVE EventsTellStatus'
  BY <1>3, StartTells DEF start_unit
<1>4. ASSUME NEW c \in Clients, restart_unit(c) PROVE EventsTellStatus'
  BY <1>4, StartTells DEF restart_unit
<1>5. ASSUME NEW u \in Units, NEW e, ~(\E v \in Units : Tells(e, v)), Send(<<e>>), status' = status
      PROVE EventsTellStatus'
  <2>1. \A v \in Units : last'[v] = last[v]
    BY <1>5, SendLast, Latest1
  <2> QED BY <1>5, <2>1 DEF EventsTellStatus
<1>6. ASSUME NEW c \in Clients, take_lock(c) PROVE EventsTellStatus'
  <2>1. \E call : Asked(c, call)
    BY <1>6 DEF take_lock
  <2>2. Unit(c) \in Units /\ Send(<<JobNew(Unit(c), next_job_id)>>) /\ status' = status
    BY <1>6, <2>1, AskedType DEF take_lock
  <2>3. ~ \E v \in Units : Tells(JobNew(Unit(c), next_job_id), v)
    BY EventFields
  <2> QED BY <1>5, <2>2, <2>3
<1>7. ASSUME NEW c \in Clients, reload_unit(c) PROVE EventsTellStatus'
  <2>1. Unit(c) \in Units /\ Send(<<JobRemoved(Unit(c), OwnId(c))>>) /\ status' = status
    BY <1>7, AskedType DEF reload_unit
  <2>2. ~ \E v \in Units : Tells(JobRemoved(Unit(c), OwnId(c)), v)
    BY EventFields
  <2> QED BY <1>5, <2>1, <2>2
<1>8. ASSUME NEW task \in tasks, job_removed(task) PROVE EventsTellStatus'
  <2>1. task.unit \in Units
    BY <1>1 DEF Tasks, Units
  <2> QED BY <1>5, <1>8, <2>1, EventFields DEF job_removed
<1>9. ASSUME NEW u \in Units, NEW x,
             \A v \in Units : v # u => status'[v] = status[v],
             status'[u] # Unlisted => status'[u] = x,
             \A v \in Units : last'[v] = IF u = v THEN StateChanged(u, x) ELSE last[v]
      PROVE  EventsTellStatus'
  <2>1. \A v \in Units : TellsStatus(v, status', IF u = v THEN StateChanged(u, x) ELSE last[v])
    BY <1>9, OneTold
  <2> QED BY <1>9, <2>1 DEF EventsTellStatus, TellsStatus
<1>10. ASSUME NEW c \in Clients, stop_unit(c) PROVE EventsTellStatus'
  <2> DEFINE u == Unit(c)
  <2>1. u \in Units /\ status' = Marked(u, "inactive")
          /\ Send(<<StateChanged(u, "inactive"), JobRemoved(u, OwnId(c))>>)
    BY <1>10, AskedType DEF stop_unit
  <2>2. ASSUME NEW v \in Units
        PROVE last'[v] = IF u = v THEN StateChanged(u, "inactive") ELSE last[v]
    <3>1. last'[v] = Latest(<<StateChanged(u, "inactive"), JobRemoved(u, OwnId(c))>>, v, last[v])
      BY <2>1, SendLast
    <3> QED BY <3>1, Latest2, EventFields
  <2>3. /\ status'[u] # Unlisted => status'[u] = "inactive"
        /\ \A v \in Units : v # u => status'[v] = status[v]
    BY <1>1, <2>1 DEF Marked
  <2> QED BY <1>9, <2>1, <2>2, <2>3
<1>11. ASSUME NEW u \in Units, NEW x, Send(<<StateChanged(u, x)>>), 
              status' = Marked(u, x) \/ status' = [status EXCEPT ![u] = x]
       PROVE EventsTellStatus'
  <2>1. ASSUME NEW v \in Units
        PROVE last'[v] = IF u = v THEN StateChanged(u, x) ELSE last[v]
    <3>1. last'[v] = Latest(<<StateChanged(u, x)>>, v, last[v])
      BY <1>11, SendLast
    <3> QED BY <3>1, Latest1, EventFields
  <2>2. /\ status'[u] # Unlisted => status'[u] = x
        /\ \A v \in Units : v # u => status'[v] = status[v]
    BY <1>1, <1>11 DEF Marked
  <2> QED BY <1>9, <2>1, <2>2
<1>12. ASSUME NEW task \in tasks, service_started(task) PROVE EventsTellStatus'
  <2>1. task.unit \in Units
    BY <1>1 DEF Tasks, Units
  <2> QED BY <1>11, <1>12, <2>1 DEF service_started
<1>13. ASSUME NEW u \in Services, service_exits(u) PROVE EventsTellStatus'
  BY <1>11, <1>13 DEF service_exits, Units
<1>14. ASSUME NEW c \in Clients, daemon_reload(c) PROVE EventsTellStatus'
  BY <1>14, ReloadTells
<1>15. ASSUME NEW c \in Clients,
              \/ get_or_load_unit(c) \/ active_state(c) \/ leave(c) \/ serve_connection(c)
              \/ Bridge(c) \/ \E x \in Commands[c] : connect(c, x)
       PROVE EventsTellStatus'
  BY <1>2, <1>15 DEF get_or_load_unit, active_state, leave, serve_connection, Bridge, subscribe,
                     forward, lag, connect, manager, channel
<1>16. ASSUME UNCHANGED <<manager, channel>> PROVE EventsTellStatus'
  BY <1>2, <1>16 DEF manager, channel
<1> QED
  BY <1>3, <1>4, <1>6, <1>7, <1>8, <1>10, <1>12, <1>13, <1>14, <1>15, <1>16 DEF Next, Call, hangs, vars

\* The last StateChanged about a unit tells its status, whatever calls, tasks, exits and
\* reloads are interleaved: status and event are written under one lock
\* (manager.rs:152-164).
THEOREM StatusIsTold == Spec => []EventsTellStatus
<1>1. Init => EventsTellStatus
  BY DEF Init, EventsTellStatus, UnitNew, Event
<1>2. TypeInv /\ EventsTellStatus /\ [Next]_vars => EventsTellStatus'
  BY NextTells
<1> QED BY <1>1, <1>2, TypeCorrect, PTL DEF Spec

-----------------------------------------------------------------------------
(* Jobs are announced, and their ends                                      *)

LEMMA About1 ==
  ASSUME NEW e, NEW id
  PROVE  About(<<e>>, id) = IF e.id = id THEN <<e>> ELSE <<>>
<1> DEFINE log == <<e>>
<1>1. DOMAIN log = {1} /\ log[1] = e
  OBVIOUS
<1> HIDE DEF log
<1>2. CASE e.id = id
  BY <1>1, <1>2, AboutOne
<1>3. CASE e.id # id
  BY <1>1, <1>3, AboutNone
<1> QED BY <1>2, <1>3 DEF log

LEMMA About2 ==
  ASSUME NEW e, NEW f, NEW id, e.id # id \/ f.id # id
  PROVE  About(<<e, f>>, id) = IF e.id = id THEN <<e>> ELSE IF f.id = id THEN <<f>> ELSE <<>>
<1> DEFINE log == <<e, f>>
<1>1. DOMAIN log = {1, 2} /\ log[1] = e /\ log[2] = f
  OBVIOUS
<1> HIDE DEF log
<1>2. CASE e.id = id
  BY <1>1, <1>2, AboutOne
<1>3. CASE e.id # id /\ f.id = id
  BY <1>1, <1>3, AboutOne
<1>4. CASE e.id # id /\ f.id # id
  BY <1>1, <1>4, AboutNone
<1> QED BY <1>2, <1>3, <1>4 DEF log

LEMMA AboutLast ==
  ASSUME NEW e, NEW f, NEW id, e.id # id
  PROVE  About(<<e, f>>, id) = IF f.id = id THEN <<f>> ELSE <<>>
BY About2

LEMMA About3 ==
  ASSUME NEW e, NEW f, NEW g, NEW id, f.id # id
  PROVE  About(<<e, f, g>>, id) =
           IF e.id = id THEN IF g.id = id THEN <<e, g>> ELSE <<e>>
           ELSE IF g.id = id THEN <<g>> ELSE <<>>
<1> DEFINE log == <<e, f, g>>
<1>1. DOMAIN log = {1, 2, 3} /\ log[1] = e /\ log[2] = f /\ log[3] = g
  OBVIOUS
<1> HIDE DEF log
<1>2. CASE e.id = id /\ g.id = id
  BY <1>1, <1>2, AboutTwo
<1>3. CASE e.id = id /\ g.id # id
  BY <1>1, <1>3, AboutOne
<1>4. CASE e.id # id /\ g.id = id
  BY <1>1, <1>4, AboutOne
<1>5. CASE e.id # id /\ g.id # id
  BY <1>1, <1>5, AboutNone
<1> QED BY <1>2, <1>3, <1>4, <1>5 DEF log

LEMMA Concats ==
  ASSUME NEW e, NEW f
  PROVE  /\ <<>> \o <<>> = <<>> /\ <<e>> \o <<>> = <<e>> /\ <<e, f>> \o <<>> = <<e, f>>
         /\ <<>> \o <<e>> = <<e>> /\ <<>> \o <<e, f>> = <<e, f>>
         /\ <<e>> \o <<f>> = <<e, f>>
<1> DEFINE S == {e, f}
<1>1. <<>> \in Seq(S) /\ <<e>> \in Seq(S) /\ <<f>> \in Seq(S) /\ <<e, f>> \in Seq(S)
  OBVIOUS
<1>2. /\ <<>> \o <<>> = <<>> /\ <<e>> \o <<>> = <<e>> /\ <<e, f>> \o <<>> = <<e, f>>
      /\ <<>> \o <<e>> = <<e>> /\ <<>> \o <<e, f>> = <<e, f>>
  BY <1>1, ConcatEmptySeq
<1>3. /\ <<e>> \o <<f>> \in Seq(S) /\ Len(<<e>> \o <<f>>) = 2
      /\ (<<e>> \o <<f>>)[1] = e /\ (<<e>> \o <<f>>)[2] = f
  BY <1>1, ConcatProperties
<1>4. \A i \in 1 .. 2 : (<<e>> \o <<f>>)[i] = <<e, f>>[i]
  BY <1>3
<1>5. <<e>> \o <<f>> = <<e, f>>
  BY <1>1, <1>3, <1>4, SeqEqual
<1> QED BY <1>2, <1>5

LEMMA Ids == JobIds \subseteq Nat \ {0}
BY BusAssumption DEF JobIds

\* What a log adds to the story of a job.
LEMMA StoryNext ==
  ASSUME TypeInv, JobsInv, NEW log, Send(log), NEW id \in JobIds
  PROVE  /\ story'[id] = story[id] \o About(log, id)
         /\ About(log, id) = <<>> => story'[id] = story[id]
<1>1. story'[id] = story[id] \o About(log, id)
  BY DEF Send
<1>2. id >= next_job_id \/ id < next_job_id
  BY Ids DEF TypeInv, TypeOK
<1>3. story[id] = <<>> \/ \E u : story[id] = Begun(u, id) \/ story[id] = Ended(u, id)
  BY <1>2 DEF JobsInv, Stories
<1>4. story[id] \o <<>> = story[id]
  BY <1>3, Concats DEF Begun, Ended
<1> QED BY <1>1, <1>4

LEMMA TwoStories ==
  ASSUME NEW u, NEW v, NEW id
  PROVE  /\ Begun(u, id) # <<>> /\ Ended(v, id) # <<>> /\ Begun(u, id) # Ended(v, id)
         /\ Begun(u, id) = Begun(v, id) => u = v
<1>1. Len(Begun(u, id)) = 1 /\ Len(Ended(v, id)) = 2 /\ Len(<<>>) = 0
  BY DEF Begun, Ended
<1>2. Begun(u, id)[1].unit = u /\ Begun(v, id)[1].unit = v
  BY DEF Begun, JobNew, Event
<1>3. /\ Begun(u, id) # <<>> /\ Ended(v, id) # <<>> /\ Begun(u, id) # Ended(v, id)
  BY <1>1
<1>4. Begun(u, id) = Begun(v, id) => u = v
  BY <1>2
<1> QED BY <1>3, <1>4

\* A step that leaves the stories and the places of all jobs alone.
LEMMA JobsQuiet ==
  ASSUME TypeInv, JobsInv, \A id \in JobIds : story'[id] = story[id],
         UNCHANGED <<next_job_id, tasks, refused, lock>>,
         lock # Free => Unit(lock)' = Unit(lock)
  PROVE  JobsInv'
BY DEF JobsInv, JobPlaces, Stories, Running, InTask, InCall, OwnId

\* A job n, new or held by a call so far, has ended, was refused or went to a task.
LEMMA Settled ==
  ASSUME TypeInv, JobsInv, NEW n \in Nat, NEW u \in Units,
         n \notin refused, ~InTask(n), lock # Free => n = next_job_id - 1,
         lock' = Free, next_job_id' = n + 1, next_job_id \in {n, n + 1},
         \A id \in JobIds : id # n => story'[id] = story[id],
         \/ /\ n \in JobIds => story'[n] = Ended(u, n)
            /\ UNCHANGED <<tasks, refused>>
         \/ /\ n \in JobIds => story'[n] = Begun(u, n)
            /\ refused' = refused \cup {n} /\ UNCHANGED tasks
         \/ /\ n \in JobIds => story'[n] = Begun(u, n)
            /\ tasks' = tasks \cup {[id |-> n, unit |-> u, done |-> FALSE]} /\ UNCHANGED refused
  PROVE  JobsInv'
<1> DEFINE new == [id |-> n, unit |-> u, done |-> FALSE]
<1>1. next_job_id \in Nat /\ refused \subseteq 1 .. next_job_id - 1 /\ tasks \subseteq Tasks
  BY DEF TypeInv, TypeOK
<1>2. new.id = n /\ new.unit = u
  OBVIOUS
<1>3. ~InCall(n)' /\ \A id \in JobIds : ~InCall(id)'
  BY DEF InCall
<1>4. \A task \in tasks : task.id # n /\ task.id \in Nat
  BY <1>1 DEF InTask, Tasks
<1>5. \A id \in JobIds : id # n => (Running(id)' <=> Running(id))
  <2>1. ASSUME NEW id \in JobIds, id # n PROVE InTask(id)' <=> InTask(id)
    BY <1>2, <2>1 DEF InTask
  <2>2. ASSUME NEW id \in JobIds, id # n PROVE ~InCall(id)
    BY <2>2 DEF InCall, OwnId
  <2>3. ASSUME NEW id \in JobIds, id # n PROVE id \in refused' <=> id \in refused
    BY <2>3
  <2> QED BY <1>3, <2>1, <2>2, <2>3 DEF Running
<1>6. \A id \in JobIds : id \in Nat
  BY Ids
<1>7. JobPlaces'
  <2>1. \A task \in tasks' : task.id \notin refused' /\ ~InCall(task.id)'
    BY <1>2, <1>4 DEF JobsInv, JobPlaces, InCall
  <2>2. \A t1, t2 \in tasks' : t1.id = t2.id => t1 = t2
    <3> HIDE DEF new
    <3>1. \A t1, t2 \in tasks : t1.id = t2.id => t1 = t2
      BY DEF JobsInv, JobPlaces
    <3>2. tasks' = tasks \/ tasks' = tasks \cup {new}
      BY DEF new
    <3> QED BY <1>2, <1>4, <3>1, <3>2
  <2> QED BY <2>1, <2>2 DEF JobPlaces
<1>8. \A id \in JobIds : id >= next_job_id' => story'[id] = <<>>
  <2>1. \A id \in JobIds : id >= next_job_id' => id # n /\ id >= next_job_id
    BY <1>1, <1>6
  <2> QED BY <2>1 DEF JobsInv, Stories
<1>9. ASSUME NEW id \in JobIds, id < next_job_id'
      PROVE  \E v \in Units : \/ story'[id] = Begun(v, id) /\ Running(id)'
                              \/ story'[id] = Ended(v, id) /\ ~Running(id)'
  <2>1. CASE id # n
    <3>1. id < next_job_id
      BY <1>1, <1>6, <1>9, <2>1
    <3> QED BY <1>5, <2>1, <3>1 DEF JobsInv, Stories
  <2>2. CASE id = n
    <3>1. CASE story'[n] = Ended(u, n) /\ UNCHANGED <<tasks, refused>>
      <4>1. ~Running(n)'
        BY <1>3, <3>1 DEF Running, InTask
      <4> QED BY <2>2, <3>1, <4>1
    <3>2. CASE story'[n] = Begun(u, n) /\ refused' = refused \cup {n}
      <4>1. Running(n)'
        BY <3>2 DEF Running
      <4> QED BY <2>2, <3>2, <4>1
    <3>3. CASE story'[n] = Begun(u, n) /\ tasks' = tasks \cup {new}
      <4>1. Running(n)'
        BY <3>3, <1>2 DEF Running, InTask
      <4> QED BY <2>2, <3>3, <4>1
    <3> QED BY <2>2, <3>1, <3>2, <3>3
  <2> QED BY <2>1, <2>2
<1>10. ASSUME NEW task \in tasks', task.id \in JobIds
       PROVE  story'[task.id] = Begun(task.unit, task.id)
  <2>1. CASE task \in tasks
    BY <1>4, <1>10, <2>1 DEF JobsInv, Stories
  <2>2. CASE task \notin tasks
    <3>1. task = new /\ (n \in JobIds => story'[n] = Begun(u, n))
      BY <2>2
    <3> QED BY <1>2, <1>10, <3>1
  <2> QED BY <2>1, <2>2
<1>11. Stories'
  BY <1>8, <1>9, <1>10 DEF Stories
<1> QED BY <1>7, <1>11 DEF JobsInv

\* The start of a unit, on its own or as the second half of a restart.
LEMMA StartSettles ==
  ASSUME TypeInv, JobsInv, NEW c \in Clients, NEW call, Asked(c, call),
         NEW n \in Nat, NEW e, NEW st,
         \/ e = JobNew(Unit(c), n) /\ (n \in JobIds => story[n] = <<>>)
         \/ e.id = 0 /\ (n \in JobIds => story[n] = Begun(Unit(c), n)),
         StartPart(c, st, <<e>>, n),
         n \notin refused, ~InTask(n), lock # Free => n = next_job_id - 1,
         lock' = Free, next_job_id' = n + 1, next_job_id \in {n, n + 1}
  PROVE  JobsInv'
<1> DEFINE u == Unit(c)
<1>1. u \in Units /\ \A id \in JobIds : id # 0
  BY AskedType, Ids
<1>2. \A id \in JobIds : id # n => e.id # id
  BY <1>1, EventFields
<1>3. CASE u \in Others
  <2> DEFINE f == StateChanged(u, "active")
             g == JobRemoved(u, n)
             log == <<e, f, g>>
  <2>1. Send(log) /\ UNCHANGED <<tasks, refused>>
    BY <1>3, ShortLogs DEF StartPart
  <2>2. f.id = 0 /\ g.id = n
    BY EventFields
  <2> HIDE DEF f, g
  <2>5. \A id \in JobIds : About(log, id) = IF e.id = id THEN IF g.id = id THEN <<e, g>> ELSE <<e>>
                                            ELSE IF g.id = id THEN <<g>> ELSE <<>>
    BY <1>1, <2>2, About3
  <2> HIDE DEF log
  <2>3. ASSUME NEW id \in JobIds, id # n PROVE story'[id] = story[id]
    <3>1. About(log, id) = <<>>
      BY <1>2, <2>2, <2>3, <2>5
    <3> QED BY <2>1, <3>1, StoryNext
  <2>4. n \in JobIds => story'[n] = Ended(u, n)
    <3> SUFFICES ASSUME n \in JobIds PROVE story'[n] = Ended(u, n)
      OBVIOUS
    <3>1. story'[n] = story[n] \o About(log, n)
      BY <2>1, StoryNext
    <3>2. CASE e = JobNew(u, n) /\ story[n] = <<>>
      <4>1. About(log, n) = <<JobNew(u, n), JobRemoved(u, n)>>
        BY <2>2, <2>5, <3>2, EventFields DEF g
      <4> QED BY <3>1, <3>2, <4>1, Concats DEF Ended
    <3>3. CASE e.id = 0 /\ story[n] = Begun(u, n)
      <4>1. About(log, n) = <<JobRemoved(u, n)>>
        BY <1>1, <2>2, <2>5, <3>3 DEF g
      <4> QED BY <3>1, <3>3, <4>1, Concats DEF Begun, Ended
    <3> QED BY <3>2, <3>3
  <2> QED BY <1>1, <2>1, <2>3, <2>4, Settled
<1>4. ASSUME NEW log, log = <<e>> \/ log = <<e, StateChanged(u, "activating")>>, Send(log)
      PROVE  /\ \A id \in JobIds : id # n => story'[id] = story[id]
             /\ n \in JobIds => story'[n] = Begun(u, n)
  <2>1. StateChanged(u, "activating").id = 0
    BY EventFields
  <2>2. ASSUME NEW id \in JobIds PROVE About(log, id) = IF e.id = id THEN <<e>> ELSE <<>>
    <3>1. CASE log = <<e>>
      BY <3>1, About1
    <3>2. CASE log = <<e, StateChanged(u, "activating")>>
      <4>1. StateChanged(u, "activating").id # id
        BY <1>1, <2>1
      <4>2. About(<<e, StateChanged(u, "activating")>>, id) = IF e.id = id THEN <<e>> ELSE <<>>
        BY <4>1, About2
      <4> QED BY <3>2, <4>2
    <3> QED BY <1>4, <3>1, <3>2
  <2>3. \A id \in JobIds : id # n => story'[id] = story[id]
    BY <1>2, <1>4, <2>2, StoryNext
  <2>4. ASSUME n \in JobIds PROVE story'[n] = Begun(u, n)
    <3>1. story'[n] = story[n] \o About(log, n) /\ (About(log, n) = <<>> => story'[n] = story[n])
      BY <1>4, <2>4, StoryNext
    <3>2. CASE e = JobNew(u, n) /\ story[n] = <<>>
      <4>1. About(log, n) = <<JobNew(u, n)>>
        BY <2>2, <2>4, <3>2, EventFields
      <4> QED BY <3>1, <3>2, <4>1, Concats DEF Begun
    <3>3. CASE e.id = 0 /\ story[n] = Begun(u, n)
      BY <1>1, <2>2, <2>4, <3>1, <3>3
    <3> QED BY <2>4, <3>2, <3>3
  <2> QED BY <2>3, <2>4
<1>5. CASE u \notin Others /\ st[u] = Unlisted
  <2>1. Send(<<e>>) /\ refused' = refused \cup {n} /\ UNCHANGED tasks
    BY <1>5 DEF StartPart
  <2>2. /\ \A id \in JobIds : id # n => story'[id] = story[id]
        /\ n \in JobIds => story'[n] = Begun(u, n)
    BY <1>4, <2>1
  <2> QED BY <1>1, <2>1, <2>2, Settled
<1>6. CASE u \notin Others /\ st[u] # Unlisted
  <2>1. /\ Send(<<e, StateChanged(u, "activating")>>) /\ UNCHANGED refused
        /\ tasks' = tasks \cup {[id |-> n, unit |-> u, done |-> FALSE]}
    BY <1>6, ShortLogs DEF StartPart
  <2>2. /\ \A id \in JobIds : id # n => story'[id] = story[id]
        /\ n \in JobIds => story'[n] = Begun(u, n)
    BY <1>4, <2>1
  <2> QED BY <1>1, <2>1, <2>2, Settled
<1> QED BY <1>3, <1>5, <1>6

\* A call that holds the lock ends its job.
LEMMA HeldEnds ==
  ASSUME TypeInv, JobsInv, NEW c \in Clients, NEW call, Asked(c, call), lock = c, lock' = Free,
         UNCHANGED <<next_job_id, tasks, refused>>, NEW log, Send(log),
         \/ log = <<JobRemoved(Unit(c), OwnId(c))>>
         \/ log = <<StateChanged(Unit(c), "inactive"), JobRemoved(Unit(c), OwnId(c))>>
  PROVE  JobsInv'
<1> DEFINE u == Unit(c)
           n == OwnId(c)
           ev == StateChanged(u, "inactive")
           end == JobRemoved(u, n)
<1>1. /\ u \in Units /\ lock # Free /\ n \in Nat /\ n = next_job_id - 1 /\ next_job_id = n + 1
      /\ next_job_id' = n + 1
  <2>1. next_job_id \in Nat \ {0} /\ lock # Free
    BY Atoms DEF TypeInv, TypeOK
  <2>2. next_job_id > 1 /\ u \in Units
    BY <2>1, AskedType DEF TypeInv, ClientsOK, Holds, Asked
  <2> QED BY <2>1, <2>2 DEF OwnId
<1>2. n \notin refused /\ ~InTask(n)
  BY <1>1 DEF JobsInv, JobPlaces, InTask, InCall, OwnId
<1>3. n \in JobIds => story[n] = Begun(u, n)
  BY <1>1 DEF JobsInv, Stories, OwnId
<1>4. ev.id = 0 /\ end.id = n /\ \A id \in JobIds : id # 0
  BY EventFields, Ids
<1>5. \A id \in JobIds : About(log, id) = IF n = id THEN <<end>> ELSE <<>>
  <2> HIDE DEF ev, end
  <2>1. log = <<end>> \/ log = <<ev, end>>
    BY DEF ev, end
  <2>2. ASSUME NEW id \in JobIds
        PROVE  About(log, id) = IF n = id THEN <<end>> ELSE <<>>
    <3>1. ev.id # id
      BY <1>4
    <3>2. CASE log = <<end>>
      BY <1>4, <3>2, About1
    <3>3. CASE log = <<ev, end>>
      <4>1. About(<<ev, end>>, id) = IF end.id = id THEN <<end>> ELSE <<>>
        BY <3>1, AboutLast
      <4> QED BY <1>4, <3>3, <4>1
    <3> QED BY <2>1, <3>2, <3>3
  <2> HIDE DEF n
  <2> QED BY <2>2
<1>6. \A id \in JobIds : id # n => story'[id] = story[id]
  BY <1>5, StoryNext
<1>7. n \in JobIds => story'[n] = Ended(u, n)
  <2>1. n \in JobIds => story'[n] = story[n] \o <<end>>
    BY <1>5, StoryNext
  <2> QED BY <1>3, <2>1, Concats DEF Begun, Ended
<1> HIDE DEF n, u
<1> QED BY <1>1, <1>2, <1>6, <1>7, Settled

LEMMA CallsJobs ==
  ASSUME TypeInv, JobsInv, NEW c \in Clients, Call(c)
  PROVE  JobsInv'
<1>1. /\ next_job_id \in Nat \ {0} /\ refused \subseteq 1 .. next_job_id - 1 /\ tasks \subseteq Tasks
      /\ lock \in Clients \cup {Free} /\ job \in [Clients -> JobRecord]
  BY DEF TypeInv, TypeOK
<1>2. ~InTask(next_job_id) /\ next_job_id \notin refused
  BY <1>1 DEF InTask, Tasks
<1>3. next_job_id \in JobIds => story[next_job_id] = <<>>
  BY <1>1 DEF JobsInv, Stories
<1>4. ASSUME start_unit(c) PROVE JobsInv'
  <2>1. /\ Asked(c, "start") /\ lock = Free /\ lock' = Free /\ next_job_id' = next_job_id + 1
        /\ StartPart(c, status, <<JobNew(Unit(c), next_job_id)>>, next_job_id)
    BY <1>4 DEF start_unit, alloc_job_id
  <2> QED BY <1>1, <1>2, <1>3, <2>1, StartSettles
<1>5. ASSUME take_lock(c) PROVE JobsInv'
  <2> DEFINE n == next_job_id
             u == Unit(c)
  <2>1. PICK call : Asked(c, call)
    BY <1>5 DEF take_lock
  <2>2. /\ lock = Free /\ lock' = c /\ next_job_id' = n + 1 /\ Send(<<JobNew(u, n)>>)
        /\ UNCHANGED <<tasks, refused, job>> /\ u \in Units /\ c # Free
    BY <1>5, <2>1, AskedType, Atoms DEF take_lock, alloc_job_id, client
  <2>3. \A id \in JobIds : About(<<JobNew(u, n)>>, id) = IF n = id THEN <<JobNew(u, n)>> ELSE <<>>
    BY About1, EventFields
  <2>4. \A id \in JobIds : id # n => story'[id] = story[id]
    BY <2>2, <2>3, StoryNext
  <2>5. n \in JobIds => story'[n] = Begun(u, n)
    <3>1. n \in JobIds => story'[n] = story[n] \o <<JobNew(u, n)>>
      BY <2>2, <2>3, StoryNext
    <3> QED BY <1>3, <3>1, Concats DEF Begun
  <2>6. OwnId(lock)' = n /\ OwnId(c)' = n /\ Unit(lock)' = u /\ lock' # Free
    BY <1>1, <2>2 DEF OwnId, Unit
  <2>7. \A id : InCall(id)' <=> id = n
    BY <2>6 DEF InCall
  <2>8. \A id : ~InCall(id)
    BY <2>2 DEF InCall
  <2>9. \A id : (InTask(id)' <=> InTask(id)) /\ (id \in refused' <=> id \in refused)
    BY <2>2 DEF InTask
  <2>10. JobPlaces'
    <3>1. \A task \in tasks : task.id # n
      BY <1>2 DEF InTask
    <3> QED BY <1>2, <2>2, <2>6, <2>7, <3>1 DEF JobsInv, JobPlaces
  <2>11. \A id \in JobIds : id \in Nat
    BY Ids
  <2>12. \A id \in JobIds : id >= next_job_id' => story'[id] = <<>>
    <3>1. \A id \in JobIds : id >= next_job_id' => id # n /\ id >= next_job_id
      BY <1>1, <2>2, <2>11
    <3> QED BY <2>4, <3>1 DEF JobsInv, Stories
  <2>13. ASSUME NEW id \in JobIds, id < next_job_id'
         PROVE  \E v \in Units : \/ story'[id] = Begun(v, id) /\ Running(id)'
                                 \/ story'[id] = Ended(v, id) /\ ~Running(id)'
    <3>1. CASE id = n
      BY <2>2, <2>5, <2>7, <3>1 DEF Running
    <3>2. CASE id # n
      <4>1. id < next_job_id /\ (Running(id)' <=> Running(id))
        BY <1>1, <2>2, <2>7, <2>8, <2>9, <2>11, <2>13, <3>2 DEF Running
      <4> QED BY <2>4, <3>2, <4>1 DEF JobsInv, Stories
    <3> QED BY <3>1, <3>2
  <2>14. \A task \in tasks' : task.id \in JobIds => story'[task.id] = Begun(task.unit, task.id)
    <3>1. \A task \in tasks : task.id # n
      BY <1>2 DEF InTask
    <3> QED BY <2>2, <2>4, <3>1 DEF JobsInv, Stories
  <2> HIDE DEF n, u
  <2>15. Stories'
    BY <2>5, <2>6, <2>12, <2>13, <2>14 DEF Stories
  <2> QED BY <2>10, <2>15 DEF JobsInv
<1>6. ASSUME stop_unit(c) PROVE JobsInv'
  BY <1>6, HeldEnds DEF stop_unit
<1>7. ASSUME restart_unit(c) PROVE JobsInv'
  <2> DEFINE n == OwnId(c)
             e == StateChanged(Unit(c), "inactive")
  <2>1. /\ Asked(c, "restart") /\ lock = c /\ lock' = Free /\ next_job_id' = next_job_id
        /\ StartPart(c, Marked(Unit(c), "inactive"), <<e>>, n)
    BY <1>7 DEF restart_unit
  <2>2. lock # Free /\ n \in Nat /\ n = next_job_id - 1 /\ next_job_id = n + 1
    BY <2>1, Atoms DEF TypeInv, TypeOK, ClientsOK, OwnId
  <2>3. n \notin refused /\ ~InTask(n)
    BY <2>1, <2>2 DEF JobsInv, JobPlaces, InTask, InCall, OwnId
  <2>4. n \in JobIds => story[n] = Begun(Unit(c), n)
    BY <2>1, <2>2 DEF JobsInv, Stories, OwnId
  <2>5. e.id = 0
    BY EventFields
  <2> HIDE DEF n, e
  <2> QED BY <2>1, <2>2, <2>3, <2>4, <2>5, StartSettles
<1>8. ASSUME reload_unit(c) PROVE JobsInv'
  BY <1>8, HeldEnds DEF reload_unit
<1>9. ASSUME daemon_reload(c) PROVE JobsInv'
  <2>1. PICK found \in SUBSET Units : Send(ReloadEvents(found))
    BY <1>9 DEF daemon_reload
  <2>2. lock = Free /\ UNCHANGED <<next_job_id, tasks, refused, lock>>
    BY <1>9 DEF daemon_reload
  <2> DEFINE log == ReloadEvents(found)
             E == {UnitRemoved(u) : u \in units \ found} \cup {UnitNew(u) : u \in found}
  <2>3. log \in Seq(E)
    BY ReloadLog
  <2>4. \A e \in E : e.id = 0
    BY EventFields
  <2> HIDE DEF log, E
  <2>5. \A i \in DOMAIN log : log[i].id = 0
    BY <2>3, <2>4, LenProperties, ElementOfSeq
  <2>6. \A id \in JobIds : About(log, id) = <<>>
    BY <2>5, Ids, AboutNone
  <2>7. \A id \in JobIds : story'[id] = story[id]
    BY <2>1, <2>6, StoryNext DEF log
  <2> QED BY <2>2, <2>7, JobsQuiet
<1>10. ASSUME get_or_load_unit(c) \/ active_state(c) PROVE JobsInv'
  <2>1. UNCHANGED <<story, next_job_id, tasks, refused, lock>>
    BY <1>10 DEF get_or_load_unit, active_state, manager, channel
  <2>2. \A d \in Clients : d # c => job'[d] = job[d]
    BY <1>1, <1>10 DEF get_or_load_unit, active_state, Refuse
  <2>3. lock # Free => lock \in Clients /\ lock # c
    <3>1. Asked(c, "is-active") \/ Asked(c, "Get")
      BY <1>10 DEF get_or_load_unit, active_state
    <3>2. lock # Free => Holds(job[lock])
      BY DEF TypeInv, ClientsOK
    <3> QED BY <1>1, <3>1, <3>2 DEF Asked, Holds
  <2>4. lock # Free => Unit(lock)' = Unit(lock)
    BY <2>1, <2>2, <2>3 DEF Unit
  <2> QED BY <2>1, <2>4, JobsQuiet
<1> QED BY <1>4, <1>5, <1>6, <1>7, <1>8, <1>9, <1>10 DEF Call

\* The end of a task is the end of its job.
LEMMA TaskEnds ==
  ASSUME TypeInv, JobsInv, NEW task \in tasks, job_removed(task)
  PROVE  JobsInv'
<1> DEFINE n == task.id
           u == task.unit
           end == JobRemoved(u, n)
<1>1. /\ tasks \subseteq Tasks /\ tasks' = tasks \ {task} /\ Send(<<end>>)
      /\ UNCHANGED <<refused, next_job_id, lock, job>>
  BY DEF job_removed, TypeInv, TypeOK, client
<1>2. /\ n \notin refused /\ ~InCall(n) /\ \A other \in tasks : other.id = n => other = task
      /\ \A other \in tasks : other.id \notin refused /\ ~InCall(other.id)
      /\ \A t1, t2 \in tasks : t1.id = t2.id => t1 = t2
  BY DEF JobsInv, JobPlaces
<1>3. \A id : InCall(id)' <=> InCall(id)
  BY <1>1 DEF InCall, OwnId
<1>4. u \in Units
  BY <1>1 DEF Tasks, Units
<1>5. n \in JobIds => story[n] = Begun(u, n)
  BY DEF JobsInv, Stories
<1>6. \A id \in JobIds : About(<<end>>, id) = IF n = id THEN <<end>> ELSE <<>>
  BY About1, EventFields
<1>7. \A id \in JobIds : id # n => story'[id] = story[id]
  BY <1>1, <1>6, StoryNext
<1>8. n \in JobIds => story'[n] = Ended(u, n)
  <2>1. n \in JobIds => story'[n] = story[n] \o <<end>>
    BY <1>1, <1>6, StoryNext
  <2> QED BY <1>5, <2>1, Concats DEF Begun, Ended
<1>9. JobPlaces'
  <2>1. \A other \in tasks' : other.id \notin refused' /\ ~InCall(other.id)'
    BY <1>1, <1>2, <1>3
  <2>2. \A t1, t2 \in tasks' : t1.id = t2.id => t1 = t2
    BY <1>1, <1>2
  <2>3. (lock # Free => OwnId(lock) \notin refused)'
    BY <1>1 DEF JobsInv, JobPlaces, OwnId
  <2> QED BY <2>1, <2>2, <2>3 DEF JobPlaces
<1>10. ~Running(n)'
  <2>1. ~InTask(n)'
    BY <1>1, <1>2 DEF InTask
  <2> QED BY <1>1, <1>2, <1>3, <2>1 DEF Running
<1>11. \A id \in JobIds : id # n => (Running(id)' <=> Running(id))
  <2>1. \A id \in JobIds : id # n => (InTask(id)' <=> InTask(id))
    BY <1>1 DEF InTask
  <2> QED BY <1>1, <1>3, <2>1 DEF Running
<1>12. \A id \in JobIds : id >= next_job_id' => story'[id] = <<>>
  <2>1. n \in JobIds => ~(n >= next_job_id)
    BY <1>1 DEF Tasks, TypeInv, TypeOK
  <2> QED BY <1>1, <1>7, <2>1 DEF JobsInv, Stories
<1>13. ASSUME NEW id \in JobIds, id < next_job_id'
       PROVE  \E v \in Units : \/ story'[id] = Begun(v, id) /\ Running(id)'
                               \/ story'[id] = Ended(v, id) /\ ~Running(id)'
  <2>1. CASE id = n
    BY <1>4, <1>8, <1>10, <2>1
  <2>2. CASE id # n
    BY <1>1, <1>7, <1>11, <1>13, <2>2 DEF JobsInv, Stories
  <2> QED BY <2>1, <2>2
<1>14. \A other \in tasks' : other.id \in JobIds => story'[other.id] = Begun(other.unit, other.id)
  <2>1. \A other \in tasks' : other \in tasks /\ other.id # n
    BY <1>1, <1>2
  <2> QED BY <1>7, <2>1 DEF JobsInv, Stories
<1>15. lock' # Free /\ OwnId(lock)' \in JobIds =>
         story'[OwnId(lock)'] = Begun(Unit(lock)', OwnId(lock)')
  <2>1. lock # Free => OwnId(lock) # n
    BY <1>2 DEF InCall
  <2>2. OwnId(lock)' = OwnId(lock) /\ Unit(lock)' = Unit(lock)
    BY <1>1 DEF OwnId, Unit
  <2> QED BY <1>1, <1>7, <2>1, <2>2 DEF JobsInv, Stories
<1> HIDE DEF n, u
<1>16. Stories'
  BY <1>12, <1>13, <1>14, <1>15 DEF Stories
<1> QED BY <1>9, <1>16 DEF JobsInv

\* The state a task publishes is no event about its job.
LEMMA TaskGoesOn ==
  ASSUME TypeInv, JobsInv, NEW task \in tasks, service_started(task)
  PROVE  JobsInv'
<1> DEFINE new == [task EXCEPT !.done = TRUE]
<1>1. /\ tasks \subseteq Tasks /\ tasks' = (tasks \ {task}) \cup {new}
      /\ UNCHANGED <<refused, next_job_id, lock, job>>
  BY DEF service_started, TypeInv, TypeOK, client
<1>2. new.id = task.id /\ new.unit = task.unit
  BY <1>1 DEF Tasks
<1> HIDE DEF new
<1>3. PICK x : Send(<<StateChanged(task.unit, x)>>)
  BY DEF service_started
<1>4. \A id \in JobIds : About(<<StateChanged(task.unit, x)>>, id) = <<>>
  BY About1, EventFields, Ids
<1>5. \A id \in JobIds : story'[id] = story[id]
  BY <1>3, <1>4, StoryNext
<1>6. \A id : (InCall(id)' <=> InCall(id)) /\ (InTask(id)' <=> InTask(id))
  BY <1>1, <1>2 DEF InCall, OwnId, InTask
<1>7. \A id : Running(id)' <=> Running(id)
  BY <1>1, <1>6 DEF Running
<1>8. JobPlaces'
  <2>1. \A t1, t2 \in tasks : t1.id = t2.id => t1 = t2
    BY DEF JobsInv, JobPlaces
  <2>2. \A t1, t2 \in tasks' : t1.id = t2.id => t1 = t2
    BY <1>1, <1>2, <2>1
  <2>3. \A t1 \in tasks' : t1.id \notin refused' /\ ~InCall(t1.id)'
    BY <1>1, <1>2, <1>6 DEF JobsInv, JobPlaces
  <2>4. (lock # Free => OwnId(lock) \notin refused)'
    BY <1>1 DEF JobsInv, JobPlaces, OwnId
  <2> QED BY <2>2, <2>3, <2>4 DEF JobPlaces
<1>9. Stories'
  <2>1. OwnId(lock)' = OwnId(lock) /\ Unit(lock)' = Unit(lock)
    BY <1>1 DEF OwnId, Unit
  <2>2. \A t1 \in tasks' : t1.id \in JobIds => story'[t1.id] = Begun(t1.unit, t1.id)
    BY <1>1, <1>2, <1>5 DEF JobsInv, Stories
  <2> QED BY <1>1, <1>5, <1>7, <2>1, <2>2 DEF JobsInv, Stories
<1> QED BY <1>8, <1>9 DEF JobsInv

LEMMA OthersJobs ==
  ASSUME TypeInv, JobsInv,
         \/ \E c \in Clients : \/ leave(c) \/ serve_connection(c) \/ Bridge(c)
                               \/ \E x \in Commands[c] : connect(c, x)
         \/ \E task \in tasks : service_started(task) \/ job_removed(task)
         \/ \E u \in Services : service_exits(u)
         \/ UNCHANGED <<manager, channel, lock, connection, client, was_active>>
  PROVE  JobsInv'
<1>1. ASSUME UNCHANGED <<story, next_job_id, tasks, refused, lock, job>> PROVE JobsInv'
  BY <1>1, JobsQuiet DEF Unit
<1>2. ASSUME NEW c \in Clients, serve_connection(c) \/ Bridge(c) PROVE JobsInv'
  BY <1>1, <1>2 DEF serve_connection, Bridge, subscribe, forward, lag, manager, channel, client
<1>3. ASSUME NEW c \in Clients, lock # Free => lock # c,
             \A d \in Clients : d # c => job'[d] = job[d],
             UNCHANGED <<story, next_job_id, tasks, refused, lock>>
      PROVE  JobsInv'
  <2>1. lock # Free => Unit(lock)' = Unit(lock)
    BY <1>3 DEF TypeInv, TypeOK, Unit
  <2> QED BY <1>3, <2>1, JobsQuiet
<1>4. job \in [Clients -> JobRecord] /\ (lock # Free => Holds(job[lock]))
  BY DEF TypeInv, TypeOK, ClientsOK
<1>5. ASSUME NEW c \in Clients, leave(c) PROVE JobsInv'
  <2>1. ~Holds(job[c])
    BY <1>5 DEF leave, Holds
  <2>2. /\ UNCHANGED <<story, next_job_id, tasks, refused, lock>>
        /\ \A d \in Clients : d # c => job'[d] = job[d]
    BY <1>4, <1>5 DEF leave, manager, channel
  <2> QED BY <1>3, <1>4, <2>1, <2>2
<1>6. ASSUME NEW c \in Clients, NEW x \in Commands[c], connect(c, x) PROVE JobsInv'
  <2>1. ~Holds(job[c])
    <3>1. Idle.call = "none"
      BY DEF Idle
    <3> QED BY <1>6, <3>1 DEF connect, Holds
  <2>2. /\ UNCHANGED <<story, next_job_id, tasks, refused, lock>>
        /\ \A d \in Clients : d # c => job'[d] = job[d]
    BY <1>4, <1>6 DEF connect, manager, channel
  <2> QED BY <1>3, <1>4, <2>1, <2>2
<1>7. ASSUME NEW u \in Services, service_exits(u) PROVE JobsInv'
  <2>1. PICK x : Send(<<StateChanged(u, x)>>)
    BY <1>7 DEF service_exits
  <2>2. \A id \in JobIds : About(<<StateChanged(u, x)>>, id) = <<>>
    BY About1, EventFields, Ids
  <2>3. \A id \in JobIds : story'[id] = story[id]
    BY <2>1, <2>2, StoryNext
  <2>4. UNCHANGED <<next_job_id, tasks, refused, lock, job>>
    BY <1>7 DEF service_exits, client
  <2> QED BY <2>3, <2>4, JobsQuiet DEF Unit
<1>8. ASSUME UNCHANGED <<manager, channel, lock, connection, client, was_active>> PROVE JobsInv'
  BY <1>1, <1>8 DEF manager, channel, client
<1> QED BY <1>2, <1>5, <1>6, <1>7, <1>8, TaskEnds, TaskGoesOn

\* A job is announced once; its end at most once, later, for the same unit; and what
\* has not ended is on its way in exactly one place, or was refused: ids are given out
\* under the lock, ends announced by tasks without it (manager_iface.rs:128-176, manager.rs:561-710).
THEOREM JobsArePaired == Spec => []JobsPaired
<1>1. Init => JobsInv
  <2> SUFFICES ASSUME Init PROVE JobsInv
    OBVIOUS
  <2>1. JobPlaces
    BY DEF Init, JobPlaces
  <2>2. \A id \in JobIds : id >= next_job_id /\ story[id] = <<>>
    BY Ids DEF Init
  <2>3. \A id \in JobIds : ~(id < next_job_id)
    BY Ids DEF Init
  <2>4. Stories
    BY <2>2, <2>3 DEF Init, Stories
  <2> QED BY <2>1, <2>4 DEF JobsInv
<1>2. TypeInv /\ JobsInv /\ [Next]_vars => JobsInv'
  BY CallsJobs, OthersJobs DEF Next, hangs, vars
<1>3. TypeInv /\ JobsInv => JobsPaired
  <2> SUFFICES ASSUME TypeInv, JobsInv, NEW id \in JobIds
               PROVE \/ story[id] = <<>> /\ id >= next_job_id
                     \/ \E u \in Units : \/ story[id] = Begun(u, id) /\ Running(id)
                                         \/ story[id] = Ended(u, id) /\ ~Running(id)
    BY DEF JobsPaired, Begun, Ended, Running, InTask, InCall
  <2>1. id >= next_job_id \/ id < next_job_id
    BY Ids DEF TypeInv, TypeOK
  <2> QED BY <2>1 DEF JobsInv, Stories
<1> QED BY <1>1, <1>2, <1>3, TypeCorrect, PTL DEF Spec

-----------------------------------------------------------------------------
(* What is-active says was so                                              *)

\* A client whose process stands still stays truthful: nothing that was active at
\* some time of its command is forgotten, and what is active now is remembered.
LEMMA StaysTruthful ==
  ASSUME TypeInv, NEW c \in Clients, Truthful(c), job'[c] = job[c],
         \/ RecordActive
         \/ was_active'[c] = was_active[c] /\ Active(status') \subseteq Active(status)
  PROVE  Truthful(c)'
<1>1. job[c].cmd = "is-active" => /\ was_active[c] \subseteq was_active'[c]
                                  /\ Active(status') \subseteq was_active'[c]
  BY DEF RecordActive, Truthful
<1>2. job[c].units \in Seq(Units) /\ job[c].todo \in Seq(Units)
  BY ClientAt DEF JobRecord
<1> QED BY <1>1, <1>2 DEF Truthful

\* Other commands than is-active claim nothing.
LEMMA OtherCommand ==
  ASSUME NEW c \in Clients, job'[c].cmd # "is-active"
  PROVE  Truthful(c)'
BY DEF Truthful

LEMMA StartClaims ==
  ASSUME TypeInv, IsActiveInv, NEW c \in Clients, NEW call, Asked(c, call),
         call # "Get", call # "is-active", NEW st, NEW log, NEW id, StartPart(c, st, log, id),
         RecordActive
  PROVE  IsActiveInv'
<1>1. job[c].cmd # "is-active" /\ Done(c).cmd # "is-active"
  <2>1. job[c].cmd = call
    BY AskedCmd
  <2>2. Done(c).cmd = job[c].cmd
    BY AskedType
  <2> QED BY <2>1, <2>2
<1>2. job' = [job EXCEPT ![c] = Done(c)] \/ job' = [job EXCEPT ![c].failed = TRUE]
  BY DEF StartPart, Answer, Refuse
<1>3. job \in [Clients -> JobRecord] /\ job[c] \in JobRecord
  BY DEF TypeInv, TypeOK
<1>4. [job[c] EXCEPT !.failed = TRUE].cmd = job[c].cmd
  BY <1>3 DEF JobRecord
<1>5. job'[c].cmd # "is-active" /\ \A d \in Clients : d # c => job'[d] = job[d]
  BY <1>1, <1>2, <1>3, <1>4
<1>6. ASSUME NEW d \in Clients PROVE Truthful(d)'
  BY <1>5, OtherCommand, StaysTruthful DEF IsActiveInv
<1> QED BY <1>6 DEF IsActiveInv

\* A stop, a reload and a reload of the daemon make nothing active.
LEMMA QuietCallClaims ==
  ASSUME TypeInv, IsActiveInv, NEW c \in Clients, NEW call, Asked(c, call),
         call # "Get", call # "is-active", Answer(c), UNCHANGED was_active,
         Active(status') \subseteq Active(status)
  PROVE  IsActiveInv'
<1>1. job[c].cmd # "is-active" /\ Done(c).cmd # "is-active"
  <2>1. job[c].cmd = call
    BY AskedCmd
  <2>2. Done(c).cmd = job[c].cmd
    BY AskedType
  <2> QED BY <2>1, <2>2
<1>2. job'[c].cmd # "is-active" /\ \A d \in Clients : d # c => job'[d] = job[d]
  BY <1>1 DEF Answer, TypeInv, TypeOK
<1>3. ASSUME NEW d \in Clients PROVE Truthful(d)'
  BY <1>2, OtherCommand, StaysTruthful DEF IsActiveInv
<1> QED BY <1>3 DEF IsActiveInv

\* The answer for one unit more.
LEMMA AnswerClaims ==
  ASSUME TypeInv, IsActiveInv, NEW c \in Clients, active_state(c)
  PROVE  Truthful(c)'
<1> DEFINE j == job[c]
           u == Head(j.todo)
           asked == Len(j.units) - Len(j.todo)
<1>1. /\ j \in JobRecord /\ j.cmd = "is-active" /\ j.todo # <<>> /\ Asked(c, "Get")
      /\ j.units \in Seq(Units) /\ j.todo \in Seq(Units) /\ Unit(c) = u
      /\ UNCHANGED <<status, was_active>> /\ job \in [Clients -> JobRecord]
  BY ClientAt, AskedCmd DEF active_state, Asked, JobRecord, manager, Unit, TypeInv, TypeOK
<1>2. /\ Active(status) \subseteq was_active[c] /\ Len(j.todo) <= Len(j.units)
      /\ \A i \in 1 .. Len(j.todo) : j.todo[i] = j.units[asked + i]
      /\ j.all_active => \A i \in 1 .. asked : j.units[i] \in was_active[c]
  BY <1>1 DEF IsActiveInv, Truthful
<1>3. CASE job' = [job EXCEPT ![c].failed = TRUE]
  <2>1. /\ job'[c].cmd = j.cmd /\ job'[c].units = j.units /\ job'[c].todo = j.todo
        /\ job'[c].all_active = j.all_active
    BY <1>1, <1>3 DEF JobRecord
  <2> QED BY <1>1, <1>2, <2>1 DEF Truthful
<1>4. CASE job' = [job EXCEPT ![c] =
                     [Done(c) EXCEPT !.all_active = @ /\ status[Unit(c)] = "active"]]
  <2> DEFINE k == [Done(c) EXCEPT !.all_active = @ /\ status[Unit(c)] = "active"]
  <2>1. Done(c) \in JobRecord
    BY <1>1, AskedType
  <2>2. /\ k.cmd = j.cmd /\ k.units = j.units /\ k.todo = Tail(j.todo)
        /\ k.all_active => j.all_active /\ status[u] = "active"
    <3>1. /\ Done(c).cmd = j.cmd /\ Done(c).units = j.units /\ Done(c).todo = Tail(j.todo)
          /\ Done(c).all_active = j.all_active
      BY <1>1, AskedType
    <3>2. /\ k.cmd = Done(c).cmd /\ k.units = Done(c).units /\ k.todo = Done(c).todo
          /\ k.all_active = (Done(c).all_active /\ status[Unit(c)] = "active")
      BY <2>1 DEF JobRecord
    <3>3. Unit(c) = u
      BY DEF Unit
    <3> HIDE DEF k
    <3>4. k.cmd = j.cmd /\ k.units = j.units /\ k.todo = Tail(j.todo)
      BY <3>1, <3>2
    <3>5. k.all_active => j.all_active /\ status[u] = "active"
      BY <3>1, <3>2, <3>3
    <3> QED BY <3>4, <3>5
  <2>3. job'[c] = k
    BY <1>1, <1>4
  <2> HIDE DEF k
  <2>4. /\ Len(Tail(j.todo)) = Len(j.todo) - 1 /\ Len(j.todo) \in Nat \ {0} /\ Len(j.units) \in Nat
        /\ \A i \in 1 .. Len(Tail(j.todo)) : Tail(j.todo)[i] = j.todo[i + 1]
        /\ u = j.todo[1] /\ u \in Units
    BY <1>1, HeadTailProperties, LenProperties
  <2>11. /\ asked \in Int /\ asked + Len(j.todo) = Len(j.units) /\ Len(j.todo) <= Len(j.units)
         /\ Len(j.todo) \in Nat \ {0} /\ Len(j.units) \in Nat
    BY <1>2, <2>4
  <2>12. \A i \in 1 .. Len(j.todo) : j.todo[i] = j.units[asked + i]
    BY <1>2
  <2>13. j.all_active => \A i \in 1 .. asked : j.units[i] \in was_active[c]
    BY <1>2
  <2> DEFINE m == Len(k.units) - Len(k.todo)
  <2>14. m \in Int /\ m + Len(j.todo) = Len(j.units) + 1
    <3>1. Len(k.todo) = Len(j.todo) - 1 /\ Len(k.units) = Len(j.units)
      BY <2>2, <2>4
    <3>2. m = Len(j.units) - (Len(j.todo) - 1)
      BY <3>1
    <3> HIDE DEF m
    <3> QED BY <2>4, <3>2
  <2>10. Truthful(c)' <=>
           (k.cmd = "is-active" =>
              /\ Active(status') \subseteq was_active'[c]
              /\ Len(k.todo) <= Len(k.units)
              /\ \A i \in 1 .. Len(k.todo) : k.todo[i] = k.units[m + i]
              /\ k.all_active => \A i \in 1 .. m : k.units[i] \in was_active'[c])
    BY <2>3 DEF Truthful
  <2> HIDE DEF m, asked, j
  <2>5. k.all_active => u \in was_active[c]
    BY <1>2, <2>2, <2>4 DEF Active
  <2>6. j.units[asked + 1] = u
    BY <2>4, <2>11, <2>12
  <2>7. m = asked + 1 /\ asked \in Nat /\ Len(k.todo) <= Len(j.units)
    <3>1. Len(k.todo) = Len(j.todo) - 1
      BY <2>2, <2>4
    <3>2. asked \in Nat /\ Len(k.todo) <= Len(j.units)
      BY <2>11, <3>1
    <3>3. m = asked + 1
      BY <2>11, <2>14
    <3> QED BY <3>2, <3>3
  <2>8. \A i \in 1 .. Len(k.todo) : k.todo[i] = j.units[m + i]
    <3>1. ASSUME NEW i \in 1 .. Len(k.todo) PROVE k.todo[i] = j.units[m + i]
      <4>1. i + 1 \in 1 .. Len(j.todo) /\ asked + (i + 1) = m + i
        BY <2>2, <2>4, <2>7
      <4>2. k.todo[i] = j.todo[i + 1]
        BY <2>2, <2>4
      <4> QED BY <2>12, <4>1, <4>2
    <3> QED BY <3>1
  <2>9. k.all_active => \A i \in 1 .. m : j.units[i] \in was_active[c]
    <3>1. ASSUME k.all_active, NEW i \in 1 .. m PROVE j.units[i] \in was_active[c]
      <4>1. i \in 1 .. asked \/ i = asked + 1
        BY <2>7
      <4> QED BY <2>13, <2>2, <2>5, <2>6, <3>1, <4>1
    <3> QED BY <3>1
  <2> QED BY <1>1, <1>2, <2>2, <2>7, <2>8, <2>9, <2>10
<1>5. \/ job' = [job EXCEPT ![c].failed = TRUE]
      \/ job' = [job EXCEPT ![c] = [Done(c) EXCEPT !.all_active = @ /\ status[Unit(c)] = "active"]]
  BY DEF active_state, Refuse
<1> QED BY <1>3, <1>4, <1>5

LEMMA NextTruthful ==
  ASSUME TypeInv, IsActiveInv, [Next]_vars
  PROVE  IsActiveInv'
<1>1. /\ status \in [Units -> States \cup {Unlisted}] /\ job \in [Clients -> JobRecord]
      /\ was_active \in [Clients -> SUBSET Units]
  BY DEF TypeInv, TypeOK
<1>2. ASSUME \A d \in Clients : job'[d] = job[d],
             \/ RecordActive
             \/ was_active' = was_active /\ Active(status') \subseteq Active(status)
      PROVE  IsActiveInv'
  BY <1>2, StaysTruthful DEF IsActiveInv
<1>3. ASSUME NEW c \in Clients, Truthful(c)', status' = status,
             \A d \in Clients : d # c => job'[d] = job[d] /\ was_active'[d] = was_active[d]
      PROVE  IsActiveInv'
  <2>1. ASSUME NEW d \in Clients, d # c PROVE Truthful(d)'
    BY <1>3, <2>1, StaysTruthful DEF IsActiveInv
  <2> QED BY <1>3, <2>1 DEF IsActiveInv
<1>4. ASSUME NEW c \in Clients, start_unit(c) PROVE IsActiveInv'
  <2>1. Asked(c, "start") /\ RecordActive
        /\ StartPart(c, status, <<JobNew(Unit(c), next_job_id)>>, next_job_id)
    BY <1>4 DEF start_unit
  <2> QED BY <2>1, StartClaims
<1>5. ASSUME NEW c \in Clients, restart_unit(c) PROVE IsActiveInv'
  <2>1. Asked(c, "restart") /\ RecordActive
        /\ StartPart(c, Marked(Unit(c), "inactive"), <<StateChanged(Unit(c), "inactive")>>, OwnId(c))
    BY <1>5 DEF restart_unit
  <2> QED BY <2>1, StartClaims
<1>6. ASSUME NEW c \in Clients, take_lock(c) PROVE IsActiveInv'
  BY <1>2, <1>6 DEF take_lock, client
<1>7. ASSUME NEW c \in Clients, stop_unit(c) PROVE IsActiveInv'
  <2>1. Asked(c, "stop") /\ Answer(c) /\ UNCHANGED was_active /\ status' = Marked(Unit(c), "inactive")
    BY <1>7 DEF stop_unit
  <2>2. Active(status') \subseteq Active(status)
    BY <1>1, <2>1 DEF Active, Marked
  <2> QED BY <2>1, <2>2, QuietCallClaims
<1>8. ASSUME NEW c \in Clients, reload_unit(c) PROVE IsActiveInv'
  <2>1. Asked(c, "reload") /\ Answer(c) /\ UNCHANGED was_active /\ status' = status
    BY <1>8 DEF reload_unit
  <2> QED BY <2>1, QuietCallClaims
<1>9. ASSUME NEW c \in Clients, daemon_reload(c) PROVE IsActiveInv'
  <2>1. /\ Asked(c, "daemon-reload") /\ Answer(c) /\ UNCHANGED was_active
        /\ \E found \in SUBSET Units :
             status' = [u \in Units |-> IF u \notin found THEN Unlisted
                                        ELSE IF status[u] = Unlisted THEN "inactive" ELSE status[u]]
    BY <1>9 DEF daemon_reload
  <2>2. Active(status') \subseteq Active(status)
    BY <2>1 DEF Active, Unlisted
  <2> QED BY <2>1, <2>2, QuietCallClaims
<1>10. ASSUME NEW c \in Clients, get_or_load_unit(c) PROVE IsActiveInv'
  <2>1. /\ job' = [job EXCEPT ![c].call = "Get"] /\ UNCHANGED <<status, was_active>>
    BY <1>10 DEF get_or_load_unit, manager
  <2>2. /\ job'[c].cmd = job[c].cmd /\ job'[c].units = job[c].units /\ job'[c].todo = job[c].todo
        /\ job'[c].all_active = job[c].all_active
    BY <1>1, <2>1, ClientAt DEF JobRecord
  <2>3. Truthful(c)'
    BY <2>1, <2>2 DEF Truthful, IsActiveInv
  <2> QED BY <1>1, <1>3, <2>1, <2>3
<1>11. ASSUME NEW c \in Clients, active_state(c) PROVE IsActiveInv'
  <2>1. /\ \A d \in Clients : d # c => job'[d] = job[d]
        /\ UNCHANGED <<status, was_active>>
    BY <1>1, <1>11 DEF active_state, Refuse, manager
  <2> QED BY <1>3, <1>11, <2>1, AnswerClaims
<1>12. ASSUME NEW c \in Clients, leave(c) PROVE IsActiveInv'
  <2>1. Idle.cmd = "none"
    BY DEF Idle
  <2>2. /\ job' = [job EXCEPT ![c] = Idle] /\ was_active' = [was_active EXCEPT ![c] = {}]
        /\ status' = status
    BY <1>12 DEF leave, manager
  <2>3. job'[c].cmd = "none"
    BY <1>1, <2>1, <2>2
  <2> QED BY <1>1, <1>3, <2>2, <2>3, OtherCommand
<1>13. ASSUME NEW c \in Clients, NEW x \in Commands[c], connect(c, x) PROVE IsActiveInv'
  <2> DEFINE j == [Idle EXCEPT !.cmd = x.cmd, !.units = x.units, !.todo = x.units, !.call = x.cmd]
  <2>1. /\ job' = [job EXCEPT ![c] = j] /\ status' = status
        /\ was_active' = [was_active EXCEPT ![c] = IF x.cmd = "is-active" THEN Active(status) ELSE {}]
    BY <1>13 DEF connect, manager
  <2>2. x.units \in Seq(Units)
    BY BusAssumption
  <2>3. /\ j.cmd = x.cmd /\ j.units = x.units /\ j.todo = x.units /\ j.all_active = TRUE
        /\ job'[c] = j
    BY <1>1, <2>1 DEF Idle
  <2> HIDE DEF j
  <2>4. Len(j.units) \in Nat /\ Len(j.units) - Len(j.todo) = 0
        /\ \A i \in 1 .. Len(j.todo) : i \in Nat
    BY <2>2, <2>3, LenProperties
  <2>5. Truthful(c)'
    <3>1. j.cmd = "is-active" => Active(status') \subseteq was_active'[c]
      BY <1>1, <2>1, <2>3
    <3>2. \A i \in 1 .. Len(j.todo) : j.todo[i] = j.units[0 + i]
      BY <2>3, <2>4
    <3>3. \A i \in 1 .. 0 : j.units[i] \in was_active'[c]
      OBVIOUS
    <3> DEFINE m == Len(j.units) - Len(j.todo)
    <3>4. m = 0 /\ Len(j.todo) <= Len(j.units)
      BY <2>3, <2>4
    <3>5. Truthful(c)' <=>
            (j.cmd = "is-active" =>
               /\ Active(status') \subseteq was_active'[c]
               /\ Len(j.todo) <= Len(j.units)
               /\ \A i \in 1 .. Len(j.todo) : j.todo[i] = j.units[m + i]
               /\ j.all_active => \A i \in 1 .. m : j.units[i] \in was_active'[c])
      BY <2>3 DEF Truthful
    <3> HIDE DEF m
    <3> QED BY <3>1, <3>2, <3>3, <3>4, <3>5
  <2> QED BY <1>1, <1>3, <2>1, <2>5
<1>14. ASSUME NEW task \in tasks, service_started(task) PROVE IsActiveInv'
  BY <1>2, <1>14 DEF service_started, client
<1>15. ASSUME NEW task \in tasks, job_removed(task) PROVE IsActiveInv'
  BY <1>2, <1>15 DEF job_removed, client
<1>16. ASSUME NEW u \in Services, service_exits(u) PROVE IsActiveInv'
  <2>1. /\ UNCHANGED <<job, was_active>>
        /\ \E x \in {"inactive", "failed"} : status' = [status EXCEPT ![u] = x]
    BY <1>16 DEF service_exits, client
  <2>2. Active(status') \subseteq Active(status)
    BY <1>1, <2>1 DEF Active
  <2> QED BY <1>2, <2>1, <2>2
<1>17. ASSUME NEW c \in Clients, serve_connection(c) \/ Bridge(c) PROVE IsActiveInv'
  BY <1>2, <1>17 DEF serve_connection, Bridge, subscribe, forward, lag, manager, client
<1>18. ASSUME UNCHANGED <<manager, client, was_active>> PROVE IsActiveInv'
  BY <1>2, <1>18 DEF manager, client
<1> QED
  BY <1>4, <1>5, <1>6, <1>7, <1>8, <1>9, <1>10, <1>11, <1>12, <1>13, <1>14, <1>15, <1>16, <1>17, <1>18
  DEF Next, Call, hangs, vars

\* When is-active exits with 0, each of its units was active at some time of the command,
\* whatever other clients, reloads and exits came in between (systemlctl/src/main.rs:221-235).
THEOREM IsActiveIsTruthful == Spec => IsActiveTruthful
<1> DEFINE A == \A c \in Clients :
                  (job[c].cmd = "is-active" /\ exit[c] = NoExit /\ exit'[c] = 0) =>
                    \A i \in DOMAIN job[c].units : job[c].units[i] \in was_active[c]
<1>1. Init => IsActiveInv
  <2>1. Idle.cmd = "none"
    BY DEF Idle
  <2> QED BY <2>1 DEF Init, IsActiveInv, Truthful
<1>2. TypeInv /\ IsActiveInv /\ [Next]_vars => IsActiveInv'
  BY NextTruthful
<1>3. TypeInv /\ IsActiveInv /\ [Next]_vars => [A]_vars
  <2> SUFFICES ASSUME TypeInv, IsActiveInv, [Next]_vars, NEW c \in Clients,
                      job[c].cmd = "is-active", exit[c] = NoExit, exit'[c] = 0
               PROVE  \A i \in DOMAIN job[c].units : job[c].units[i] \in was_active[c]
    OBVIOUS
  <2>1. exit \in [Clients -> Int] /\ exit'[c] # exit[c]
    BY DEF TypeInv, TypeOK, NoExit
  <2>2. ~(\E d \in Clients : Call(d) \/ serve_connection(d) \/ Bridge(d))
    BY <2>1 DEF Call, start_unit, take_lock, stop_unit, restart_unit, reload_unit, daemon_reload,
                get_or_load_unit, active_state, serve_connection, Bridge, subscribe, forward, lag,
                client
  <2>3. ~(\E task \in tasks : service_started(task) \/ job_removed(task))
        /\ ~(\E u \in Services : service_exits(u)) /\ ~(UNCHANGED vars)
        /\ ~(\E id \in 1 .. next_job_id - 1 : hangs(id))
    BY <2>1 DEF service_started, job_removed, service_exits, hangs, client, vars
  <2>4. ~(\E d \in Clients : \E x \in Commands[d] : connect(d, x))
    BY <2>1 DEF connect, NoExit
  <2>5. PICK d \in Clients : leave(d)
    BY <2>2, <2>3, <2>4 DEF Next
  <2>6. d = c /\ job[c].todo = <<>> /\ job[c].all_active
    BY <2>1, <2>5 DEF leave
  <2>7. job[c].units \in Seq(Units) /\ Len(<<>>) = 0
    BY ClientAt DEF JobRecord
  <2>8. Len(job[c].units) - Len(job[c].todo) = Len(job[c].units)
    BY <2>6, <2>7, LenProperties
  <2>9. \A i \in 1 .. Len(job[c].units) : job[c].units[i] \in was_active[c]
    BY <2>6, <2>8 DEF IsActiveInv, Truthful
  <2> QED BY <2>7, <2>9, LenProperties
<1> HIDE DEF A
<1>4. Spec => [][A]_vars
  BY <1>1, <1>2, <1>3, TypeCorrect, PTL DEF Spec
<1> QED BY <1>4 DEF A, IsActiveTruthful
=============================================================================
