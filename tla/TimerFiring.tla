---------------------------- MODULE TimerFiring ----------------------------
(***************************************************************************)
(* The timer scheduler of the SystemL daemon (systeml-runtime,              *)
(* timer/firing.rs and timer/mod.rs) and the parts of the Manager that it   *)
(* works with.                                                             *)
(*                                                                         *)
(* The scheduler is one task.  It computes the earliest instant at which an *)
(* active timer is due, sleeps until then or until a Refresh or an event of *)
(* the manager wakes it, and begins again.  Requests of clients, services   *)
(* that change state and long bus methods that hold the manager's lock come *)
(* in between.                                                             *)
(*                                                                         *)
(* Time is counted in ticks, Second of them in a second: instants of a      *)
(* calendar are whole seconds, the clock is not.                            *)
(***************************************************************************)
EXTENDS Integers, Sequences, FiniteSets, FiniteSetsExt

CONSTANTS
  Timers, Targets,  \* timer units, and the units that they start
  target_of,        \* Unit= of each timer
  Services,         \* the targets that are services
  Calendars,        \* OnCalendar= of each timer: see Calendar
  Startup,          \* OnStartupSec= and OnBootSec= of each timer, in ticks
  Persistent,       \* the timers with Persistent=yes
  Enabled,          \* the timers that are started at boot
  Second,           \* ticks in a second
  MaxTime,          \* bound: the clock, in ticks
  MaxChanges,       \* bound: requests, changes from outside and stamps that cannot be written
  MaxCrashes,       \* bound: crashes of the daemon
  EventCap,         \* capacity of the event channel (1024 in the code)
  None              \* no timer, no instant

\* A calendar: the seconds at which it fires, and whether the search for the next
\* one keeps the fraction of a second it begins with.  (It does when it arrives by
\* adding an hour or a minute, as for hourly and minutely calendars.)
Calendar == [at : SUBSET Nat, keeps : BOOLEAN]

ASSUME TimerAssumption ==
  /\ target_of \in [Timers -> Targets] /\ Services \subseteq Targets
  /\ Calendars \in [Timers -> SUBSET Calendar] /\ Startup \in [Timers -> SUBSET Nat]
  /\ Persistent \subseteq Timers /\ Enabled \subseteq Timers
  /\ Second \in Nat \ {0} /\ {MaxTime, MaxChanges, MaxCrashes} \subseteq Nat
  /\ EventCap \in Nat \ {0} /\ None \notin Timers \cup Nat \cup [at : Nat, timer : Timers]

VARIABLES
  now,         \* the clock
  timer,       \* state of each timer: "inactive", or its sub-state when active
  target,      \* state of each target, "absent" when it is not loaded
  held,        \* a long bus method holds the manager's lock
  pc,          \* where the scheduler is, "down" when no daemon runs
  next,        \* what it sleeps for: a timer and an instant
  manager_start,
  last_fires,  \* the fires it remembers
  triggers,    \* for each target the timer that waits for its end
  flips,       \* timers to flip back to "waiting"
  refresh,     \* a Refresh is in the control channel
  events,      \* the channel of manager events
  lagged,      \* it has overflowed
  stamp,       \* the stamp files, in seconds
  fired,       \* history: the last instant that a timer has fired for, as far as
               \* the stamp files tell a daemon that has crashed
  served,      \* history: no instant up to this one is owed by a timer
  changes, crashes

manager == <<timer, target, held>>
scheduler == <<pc, next, manager_start, last_fires, triggers, flips>>
channels == <<refresh, events, lagged>>
history == <<fired, served>>
bounds == <<changes, crashes>>
vars == <<now, manager, scheduler, channels, stamp, history, bounds>>

-----------------------------------------------------------------------------
(* Calculations                                                            *)

floor(t) == t \div Second
fraction(t) == t % Second

\* next_fire: the first candidate is a second away; it keeps its fraction when
\* it matches at once, or the calendar is of the kind that keeps it.
next_fire(c, t) ==
  LET first == floor(t) + 1
      later == {s \in c.at : s >= first}
  IN IF later = {} THEN {}
     ELSE {Min(later) * Second + (IF c.keeps \/ Min(later) = first THEN fraction(t) ELSE 0)}

\* prev_fire: the last match of the search that begins a year before.
prev_fire(c, t) ==
  LET past == {s \in c.at : s <= floor(t)}
  IN IF past = {} THEN {}
     ELSE {Max(past) * Second + (IF c.keeps THEN fraction(t) ELSE 0)}

\* The last fire that the scheduler knows: its own memory before the stamp file.
last_fire(t) ==
  IF last_fires[t] # None THEN last_fires[t]
  ELSE IF stamp[t] # None THEN stamp[t] * Second
  ELSE None

anchor(t) == IF last_fire(t) = None THEN manager_start ELSE last_fire(t)

\* Mutant: what was missed is made up for without Persistent= being asked.
catch_up_always(t) ==
  {now : p \in {q \in UNION {prev_fire(c, now) : c \in Calendars[t]} : q >= anchor(t)}}
\* Persistent=yes: an instant has passed since the last fire.
catch_up(t) ==
  {now : p \in {q \in UNION {prev_fire(c, now) : c \in Calendars[t]} : t \in Persistent /\ q > anchor(t)}}

\* next_overall, as a set of at most one instant.  The scheduler passes no times
\* of activity, so OnActiveSec=, OnUnitActiveSec= and OnUnitInactiveSec= give none.
next_overall(t) ==
  LET baseline == IF last_fire(t) # None /\ last_fire(t) > now THEN last_fire(t) ELSE now
      all == catch_up(t)
               \cup (UNION {next_fire(c, baseline) : c \in Calendars[t]})
               \cup {manager_start + d : d \in {x \in Startup[t] : manager_start + x > now}}
  IN IF all = {} THEN {} ELSE {Min(all)}

loaded(u) == target[u] # "absent"
IsActive(t) == timer[t] # "inactive"

\* Mutant: a timer is not looked at while it is running.
due_waiting ==
  UNION {{[at |-> i, timer |-> t] : i \in next_overall(t)} : t \in {x \in Timers : timer[x] = "waiting"}}
\* Every due instant, with its timer.
due == UNION {{[at |-> i, timer |-> t] : i \in next_overall(t)} : t \in {x \in Timers : IsActive(x)}}

-----------------------------------------------------------------------------
(* The manager's channels                                                  *)

\* An event is the target that has left "active", or Other: whatever else happens
\* only wakes the scheduler.
Other == "other"
Event == Targets \cup {Other}

\* A full channel drops its oldest events, and the receiver learns that it lags.
broadcast(es) ==
  LET all == events \o es
      n == Len(all)
  IN IF n > EventCap
     THEN events' = SubSeq(all, n - EventCap + 1, n) /\ lagged' = TRUE
     ELSE events' = all /\ lagged' = lagged

\* try_send of a Refresh: one that waits already is enough.
poke == refresh' = TRUE

-----------------------------------------------------------------------------
(* The scheduler                                                           *)

Init ==
  /\ now = 0
  /\ timer = [t \in Timers |-> "inactive"]
  /\ target = [u \in Targets |-> "inactive"]
  /\ held = FALSE
  /\ pc = "down"
  /\ next = None
  /\ manager_start = 0
  /\ last_fires = [t \in Timers |-> None]
  /\ triggers = [u \in Targets |-> None]
  /\ flips = {}
  /\ refresh = FALSE /\ events = <<>> /\ lagged = FALSE
  /\ stamp = [t \in Timers |-> None]
  /\ fired = [t \in Timers |-> 0] /\ served = [t \in Timers |-> 0]
  /\ changes = 0 /\ crashes = 0

tick ==
  /\ now < MaxTime
  /\ now' = now + 1
  /\ UNCHANGED <<manager, scheduler, channels, stamp, history, bounds>>

\* What stamp_persistent_timer_if_needed leaves in the stamp file of a timer.  If it
\* cannot be written, that is only logged.
stamped(t, failed) ==
  IF t \in Persistent /\ stamp[t] = None /\ ~failed THEN floor(now) ELSE stamp[t]

\* A timer of which no fire is known owes nothing before its first stamp, or without
\* one before the start of the daemon.
settled(t, failed, started) ==
  IF t \notin Persistent \/ last_fire(t) # None THEN served[t]
  ELSE IF failed THEN Max({served[t], started})
  ELSE floor(now) * Second

\* Mutant: the new daemon forgets the stamp files.
boot_stampless ==
  /\ pc = "down"
  /\ pc' = "compute" /\ manager_start' = now
  /\ timer' = [t \in Timers |-> IF t \in Enabled THEN "waiting" ELSE "inactive"]
  /\ stamp' = [t \in Timers |-> IF t \in Enabled \cap Persistent THEN floor(now) ELSE None]
  /\ refresh' = TRUE
  /\ served' = [t \in Timers |-> IF t \in Enabled THEN settled(t, FALSE, now) ELSE served[t]]
  /\ UNCHANGED <<now, target, held, next, last_fires, triggers, flips, events, lagged, fired, bounds>>
\* The daemon starts: it loads the units and activates the enabled timers, some
\* of whose first stamps may fail.
boot ==
  /\ pc = "down"
  /\ pc' = "compute" /\ manager_start' = now
  /\ timer' = [t \in Timers |-> IF t \in Enabled THEN "waiting" ELSE "inactive"]
  /\ \E failed \in SUBSET Enabled :
       /\ stamp' = [t \in Timers |-> IF t \in Enabled THEN stamped(t, t \in failed) ELSE stamp[t]]
       /\ served' = [t \in Timers |-> IF t \in Enabled THEN settled(t, t \in failed, now) ELSE served[t]]
       /\ \/ failed = {} /\ UNCHANGED changes
          \/ failed # {} /\ changes < MaxChanges /\ changes' = changes + 1
  /\ refresh' = TRUE
  /\ UNCHANGED <<now, target, held, next, last_fires, triggers, flips, events, lagged, fired, crashes>>

\* The earliest due instant; of equal ones that of the timer loaded first.
compute_next ==
  /\ pc = "compute" /\ ~held
  /\ \/ due = {} /\ next' = None
     \/ \E d \in due : (\A e \in due : d.at <= e.at) /\ next' = d
  /\ pc' = "select"
  /\ UNCHANGED <<now, manager, manager_start, last_fires, triggers, flips, channels, stamp, history, bounds>>

\* The sleep ends.
wake ==
  /\ pc = "select" /\ next # None
  /\ now >= next.at
  /\ pc' = "fire"
  /\ UNCHANGED <<now, manager, next, manager_start, last_fires, triggers, flips, channels, stamp, history, bounds>>

receive_refresh ==
  /\ pc = "select" /\ refresh
  /\ refresh' = FALSE
  /\ pc' = "compute"
  /\ next' = None
  /\ UNCHANGED <<now, manager, manager_start, last_fires, triggers, flips, events, lagged, stamp, history, bounds>>

\* handle_event: a watched target that is no longer active frees its timer.
handle_event ==
  /\ pc = "select" /\ ~lagged /\ events # <<>>
  /\ LET u == Head(events)
     IN IF u \in Targets /\ triggers[u] # None
        THEN /\ triggers' = [triggers EXCEPT ![u] = None]
             /\ flips' = {triggers[u]}
             /\ pc' = "flip"
        ELSE pc' = "compute" /\ UNCHANGED <<triggers, flips>>
  /\ events' = Tail(events)
  /\ next' = None
  /\ UNCHANGED <<now, manager, manager_start, last_fires, refresh, lagged, stamp, history, bounds>>

\* Mutant: lost events are ignored.
handle_lag_ignored ==
  /\ pc = "select" /\ lagged
  /\ lagged' = FALSE
  /\ pc' = "compute"
  /\ next' = None
  /\ UNCHANGED <<now, manager, manager_start, last_fires, triggers, flips, refresh, events, stamp, history, bounds>>
\* handle_event after lost events: all watched targets are looked at.
handle_lag ==
  /\ pc = "select" /\ lagged /\ ~held
  /\ lagged' = FALSE
  /\ LET over == {u \in Targets : triggers[u] # None /\ target[u] # "active"}
     IN /\ triggers' = [u \in Targets |-> IF u \in over THEN None ELSE triggers[u]]
        /\ flips' = {triggers[u] : u \in over}
        /\ pc' = IF over = {} THEN "compute" ELSE "flip"
  /\ next' = None
  /\ UNCHANGED <<now, manager, manager_start, last_fires, refresh, events, stamp, history, bounds>>

\* flip_to_waiting, unless the timer has been stopped.
flip_to_waiting ==
  /\ pc = "flip" /\ ~held
  /\ \E t \in flips :
       /\ flips' = flips \ {t}
       /\ IF IsActive(t)
          THEN timer' = [timer EXCEPT ![t] = "waiting"] /\ broadcast(<<Other>>)
          ELSE UNCHANGED <<timer, events, lagged>>
  /\ pc' = IF flips' = {} THEN "compute" ELSE "flip"
  /\ UNCHANGED <<now, target, held, next, manager_start, last_fires, triggers, refresh, stamp, history, bounds>>

\* start_unit on a service: its start is in flight when fire looks at it.
fire_service(t, u) ==
  /\ target' = [target EXCEPT ![u] = "activating"]
  /\ timer' = [timer EXCEPT ![t] = "waiting"]
  /\ broadcast(<<Other, u, Other>>)
  /\ pc' = "stamp"
  /\ UNCHANGED triggers

\* start_unit on another unit: it is active at once, and watched.
fire_other(t, u) ==
  /\ target' = [target EXCEPT ![u] = "active"]
  /\ timer' = [timer EXCEPT ![t] = "running"]
  /\ triggers' = [triggers EXCEPT ![u] = t]
  /\ broadcast(<<Other, Other>>)
  /\ pc' = "stamp"

\* start_unit on a unit that is not loaded: only for a service this is an error.
fire_unloaded(t, u) ==
  /\ timer' = [timer EXCEPT ![t] = "waiting"]
  /\ broadcast(IF u \in Services THEN <<Other, Other>> ELSE <<Other, Other, Other>>)
  /\ pc' = IF u \in Services THEN "compute" ELSE "stamp"
  /\ UNCHANGED <<target, triggers>>

\* fire, under the manager's lock.  It does not look whether the timer is still
\* active.
fire ==
  /\ pc = "fire" /\ ~held
  /\ LET t == next.timer
         u == target_of[t]
     IN \/ loaded(u) /\ u \in Services /\ fire_service(t, u)
        \/ loaded(u) /\ u \notin Services /\ fire_other(t, u)
        \/ ~loaded(u) /\ fire_unloaded(t, u)
  /\ next' = IF pc' = "stamp" THEN next ELSE None
  /\ IF pc' = "stamp"
     THEN /\ fired' = [fired EXCEPT ![next.timer] = next.at]
          /\ served' = [served EXCEPT ![next.timer] = next.at]
     ELSE UNCHANGED history
  /\ UNCHANGED <<now, held, manager_start, last_fires, flips, refresh, stamp, bounds>>

\* fire, after the lock: the instant it was computed for is remembered and stored.
\* If the stamp cannot be written, that is only logged.
persist ==
  /\ pc = "stamp"
  /\ last_fires' = [last_fires EXCEPT ![next.timer] = next.at]
  /\ \/ stamp' = [stamp EXCEPT ![next.timer] = floor(next.at)] /\ UNCHANGED changes
     \/ changes < MaxChanges /\ changes' = changes + 1 /\ UNCHANGED stamp
  /\ pc' = "compute"
  /\ next' = None
  /\ UNCHANGED <<now, manager, manager_start, triggers, flips, channels, history, crashes>>

Scheduler ==
  \/ compute_next \/ wake \/ receive_refresh \/ handle_event \/ handle_lag
  \/ flip_to_waiting \/ fire \/ persist

-----------------------------------------------------------------------------
(* Everybody else                                                          *)

another_change == pc # "down" /\ changes < MaxChanges /\ changes' = changes + 1

\* start_unit on a timer.
start_timer(t) ==
  /\ another_change /\ ~held
  /\ timer' = [timer EXCEPT ![t] = "waiting"]
  /\ \E failed \in BOOLEAN :
       /\ stamp' = [stamp EXCEPT ![t] = stamped(t, failed)]
       /\ served' = [served EXCEPT ![t] = settled(t, failed, manager_start)]
  /\ broadcast(<<Other>>) /\ poke
  /\ UNCHANGED <<now, target, held, scheduler, fired, crashes>>

\* stop_unit on a timer.
stop_timer(t) ==
  /\ another_change /\ ~held
  /\ timer' = [timer EXCEPT ![t] = "inactive"]
  /\ broadcast(<<Other>>) /\ poke
  /\ UNCHANGED <<now, target, held, scheduler, stamp, history, crashes>>

\* A service ends its start or its run; another unit is started or stopped.
target_changes(u) ==
  /\ another_change /\ ~held /\ loaded(u)
  /\ \E s \in {"inactive", "active"} :
       /\ s # target[u]
       /\ u \in Services => target[u] = "activating" \/ s = "inactive"
       /\ target' = [target EXCEPT ![u] = s]
       /\ broadcast(<<IF s = "active" THEN Other ELSE u>>)
  /\ UNCHANGED <<now, timer, held, scheduler, refresh, stamp, history, crashes>>

\* daemon_reload finds the unit file of a target gone.
unit_removed(u) ==
  /\ another_change /\ ~held /\ loaded(u)
  /\ target' = [target EXCEPT ![u] = "absent"]
  /\ broadcast(<<u>>) /\ poke
  /\ UNCHANGED <<now, timer, held, scheduler, stamp, history, crashes>>

\* A bus method, such as a stop that waits for its process, holds the lock.
hold_lock ==
  /\ another_change /\ ~held
  /\ held' = TRUE
  /\ UNCHANGED <<now, timer, target, scheduler, channels, stamp, history, crashes>>

release_lock ==
  /\ held
  /\ held' = FALSE
  /\ UNCHANGED <<now, timer, target, scheduler, channels, stamp, history, bounds>>

\* What the stamp file tells the next daemon of the fires of a timer up to i.
told(t, i) == IF stamp[t] = None THEN i ELSE stamp[t] * Second

\* The daemon dies; the stamp files remain.  A fire that they do not hold, because
\* it was not stored yet or its stamp failed, may be repeated.
crash ==
  /\ pc # "down" /\ crashes < MaxCrashes
  /\ crashes' = crashes + 1
  /\ pc' = "down" /\ next' = None /\ flips' = {} /\ held' = FALSE
  /\ timer' = [t \in Timers |-> "inactive"]
  /\ target' = [u \in Targets |-> IF loaded(u) THEN "inactive" ELSE "absent"]
  /\ last_fires' = [t \in Timers |-> None]
  /\ triggers' = [u \in Targets |-> None]
  /\ refresh' = FALSE /\ events' = <<>> /\ lagged' = FALSE
  /\ fired' = [t \in Timers |-> told(t, fired[t])]
  /\ served' = [t \in Timers |-> told(t, served[t])]
  /\ UNCHANGED <<now, manager_start, stamp, changes>>

Next ==
  \/ tick \/ boot \/ Scheduler \/ hold_lock \/ release_lock \/ crash
  \/ \E t \in Timers : start_timer(t) \/ stop_timer(t)
  \/ \E u \in Targets : target_changes(u) \/ unit_removed(u)

Spec == Init /\ [][Next]_vars

\* Time passes, the scheduler is polled when it can go on, locks are released;
\* select! chooses at random between its branches, so a sleep that is always over
\* does not keep events from being received.
FairSpec ==
  /\ Spec
  /\ WF_vars(tick) /\ WF_vars(Scheduler) /\ WF_vars(release_lock)
  /\ SF_vars(handle_event \/ handle_lag)

-----------------------------------------------------------------------------
(* Properties                                                              *)

\* The instants of a timer.
instants(t) ==
  (UNION {{s * Second : s \in c.at} : c \in Calendars[t]}) \cup {manager_start + d : d \in Startup[t]}

\* A persistent timer with a calendar that keeps fractions.  It does fire twice for an
\* instant: the last instant that prev_fire finds has the fraction of the question
\* and is after the stamp, or after the fire, of that very instant.
Drifts(t) == t \in Persistent /\ \E c \in Calendars[t] : c.keeps

\* A timer that does not drift fires only for an instant that it has not fired for
\* yet, whatever missed it, recomputed it or restarted in between, and also when
\* stamps cannot be written (timer/mod.rs:64-85, firing.rs:29-33).  Only a daemon
\* that dies before the stamp file holds a fire may repeat it: see told.
EachInstantOnce ==
  [][pc = "fire" /\ pc' = "stamp" /\ ~Drifts(next.timer) =>
       \E i \in instants(next.timer) : fired[next.timer] < i /\ i <= next.at /\ i <= now]_vars

\* When nothing is left to be received, the scheduler oversleeps what next_overall
\* would answer now for an active timer by less than a second, the fraction that
\* next_fire keeps (firing.rs:148-187).  That leaves out what next_overall passes
\* over: an instant of a timer without Persistent=yes that is already past.
SleepCoversAll ==
  pc = "select" /\ ~refresh /\ events = <<>> /\ ~lagged =>
    \A t \in Timers : IsActive(t) /\ ~Drifts(t) =>
      \A i \in next_overall(t) : next # None /\ next.at < i + Second

Owed(t, i) == IsActive(t) /\ (\A u \in Targets : loaded(u)) /\ served[t] < i /\ i <= now

\* Persistent=yes makes up for every missed instant, however it was missed
\* (timer/mod.rs:64-85), while no timer lacks its unit.  Nothing is owed from before
\* the first stamp, nor, as long as that fails, from before the daemon's start.
CatchesUp ==
  \A t \in Persistent : \A i \in {s * Second : s \in UNION {c.at : c \in Calendars[t]}} :
    Owed(t, i) ~> ~Owed(t, i)

\* A timer does not stay "running" when the unit that it has started is no longer
\* active, also when events are lost (firing.rs:247-294).
RunningEnds ==
  \A t \in Timers :
    timer[t] = "running" /\ target[target_of[t]] # "active"
      ~> timer[t] # "running" \/ target[target_of[t]] = "active"

=============================================================================
