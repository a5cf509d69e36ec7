----------------------------- MODULE TimerProofs -----------------------------
(***************************************************************************)
(* Theorems about timers: about TimerFiring, for any timers, calendars and  *)
(* targets, any length of a second, and any order of requests, held locks   *)
(* and crashes; and about OnCalendar, for any calendar without gaps.        *)
(***************************************************************************)
EXTENDS TimerFiring, OnCalendar, OrderingProofs

-----------------------------------------------------------------------------
(* Seconds and their fractions                                             *)

LEMMA SecondType == Second \in Nat /\ Second > 0
BY TimerAssumption

LEMMA Division ==
  ASSUME NEW t \in Nat
  PROVE  /\ floor(t) \in Nat /\ fraction(t) \in Nat /\ fraction(t) < Second
         /\ t = floor(t) * Second + fraction(t)
BY SecondType DEF floor, fraction

\* A later second begins a second later, or more.
LEMMA LaterSecond ==
  ASSUME NEW a \in Nat, NEW b \in Nat, a < b
  PROVE  /\ a * Second \in Nat /\ b * Second \in Nat
         /\ a * Second + Second <= b * Second
BY SecondType

LEMMA Whole ==
  ASSUME NEW s \in Nat
  PROVE  s * Second \in Nat /\ floor(s * Second) = s /\ fraction(s * Second) = 0
BY SecondType DEF floor, fraction

-----------------------------------------------------------------------------
(* The invariants                                                          *)

\* What the scheduler sleeps for.
Deadline == [at : Nat, timer : Timers]

\* The types, and that a fire has its timer and instant.
TypeInv ==
  /\ now \in Nat /\ manager_start \in Nat
  /\ timer \in [Timers -> {"inactive", "waiting", "running"}]
  /\ target \in [Targets -> {"absent", "inactive", "activating", "active"}]
  /\ held \in BOOLEAN /\ refresh \in BOOLEAN /\ lagged \in BOOLEAN
  /\ pc \in {"down", "compute", "select", "flip", "fire", "stamp"}
  /\ next \in Deadline \cup {None}
  /\ pc \in {"fire", "stamp"} => next # None
  /\ last_fires \in [Timers -> Nat \cup {None}]
  /\ triggers \in [Targets -> Timers \cup {None}]
  /\ flips \subseteq Timers
  /\ events \in Seq(Event)
  /\ stamp \in [Timers -> Nat \cup {None}]
  /\ fired \in [Timers -> Nat] /\ served \in [Timers -> Nat]
  /\ changes \in Nat /\ crashes \in Nat

quiet == pc = "select" /\ ~refresh /\ events = <<>> /\ ~lagged

\* Where the search for the next instant of a timer begins.
baseline(t) == IF last_fire(t) # None /\ last_fire(t) > now THEN last_fire(t) ELSE now

\* The sleep ends in time for an instant at i.
Covers(i) == next # None /\ next.at < i + Second

\* The sleep of a scheduler that has heard everything covers, of each active timer,
\* the instants ahead, those to be made up for, and those after the daemon's start.
\* Unlike SleepCoversAll it speaks of all of them, not of the earliest one now.
SleepInv ==
  quiet =>
    \A t \in Timers : IsActive(t) =>
      /\ \A c \in Calendars[t] : \A s \in c.at :
           /\ s * Second > baseline(t) => Covers(s * Second)
           /\ t \in Persistent /\ anchor(t) < s * Second /\ s * Second <= now => Covers(now)
      /\ \A d \in Startup[t] : manager_start + d > now => Covers(manager_start + d)

\* A stamp is of the past.
StampPast == \A t \in Timers : stamp[t] # None => stamp[t] * Second <= now

\* The timer's fire is done and not yet remembered.
Storing(t) == pc = "stamp" /\ next.timer = t

\* A timer has been fired for no instant after the last one that is remembered, or, of
\* none is, after the one that is stored, or, if there is none either, after the start
\* of the daemon.  A stamp that could not be written may be behind the memory.
Remembered ==
  /\ \A t \in Timers : fired[t] <= now
  /\ \A t \in Timers : Storing(t) => fired[t] = next.at
  /\ \A t \in Timers : last_fires[t] # None => fired[t] <= last_fires[t] \/ Storing(t)
  /\ \A t \in Timers : last_fires[t] = None /\ stamp[t] # None =>
       fired[t] < stamp[t] * Second + Second \/ Storing(t)
  /\ \A t \in Timers : last_fires[t] = None /\ stamp[t] = None /\ pc # "down" =>
       fired[t] <= manager_start \/ Storing(t)

\* The sleep is for an instant that the timer has not been fired for.
FreshNext ==
  /\ pc \in {"select", "fire"} /\ next # None /\ ~Drifts(next.timer) =>
       \E i \in instants(next.timer) : fired[next.timer] < i /\ i <= next.at
  /\ pc \in {"fire", "stamp"} => next.at <= now

FireInv == StampPast /\ Remembered /\ FreshNext

-----------------------------------------------------------------------------
(* What the calculations find                                              *)

LEMMA LeastIsMin ==
  ASSUME NEW S, S \subseteq Nat, S # {}
  PROVE  Min(S) \in S /\ \A n \in S : Min(S) <= n
BY LeastNat DEF Min

LEMMA GreatestIsMax ==
  ASSUME NEW S, NEW n \in Nat, S \subseteq 0 .. n, S # {}
  PROVE  Max(S) \in S /\ \A k \in S : k <= Max(S)
<1>1. PICK m \in S : \A k \in S : m >= k
  BY Greatest
<1> QED BY <1>1 DEF Max

LEMMA CalendarType ==
  ASSUME NEW t \in Timers, NEW c \in Calendars[t]
  PROVE  c.at \subseteq Nat /\ c.keeps \in BOOLEAN
BY TimerAssumption DEF Calendar

LEMMA BeforeWhole ==
  ASSUME NEW s \in Nat, NEW b \in Nat
  PROVE  /\ s > floor(b) <=> s * Second > b
         /\ s <= floor(b) <=> s * Second <= b
<1> DEFINE f == floor(b)
<1>3. f \in Nat /\ fraction(b) \in Nat /\ fraction(b) < Second /\ b = f * Second + fraction(b)
  BY Division
<1>4. f * Second \in Nat /\ s * Second \in Nat /\ Second \in Nat
  BY <1>3, Whole, SecondType
<1> HIDE DEF f
<1>1. ASSUME s > f
      PROVE  s * Second > b
  <2>1. f * Second + Second <= s * Second
    BY <1>1, <1>3, LaterSecond
  <2> QED BY <1>3, <1>4, <2>1
<1>2. ASSUME s <= f
      PROVE  s * Second <= b
  <2>1. CASE s = f
    BY <2>1, <1>3, <1>4
  <2>2. CASE s < f
    <3>1. s * Second + Second <= f * Second
      BY <2>2, <1>3, LaterSecond
    <3> QED BY <1>3, <1>4, <3>1
  <2> QED BY <1>2, <1>3, <2>1, <2>2
<1> QED BY <1>1, <1>2, <1>3, <1>4 DEF f

\* The next fire of a calendar lies in the second of its first instant ahead.
LEMMA NextFire ==
  ASSUME NEW t \in Timers, NEW c \in Calendars[t], NEW b \in Nat
  PROVE  /\ \A x \in next_fire(c, b) :
              x \in Nat /\ \E s \in c.at : s * Second > b /\ s * Second <= x
                             /\ \A r \in c.at : r * Second > b => x < r * Second + Second
         /\ \A r \in c.at : r * Second > b => next_fire(c, b) # {}
<1> DEFINE later == {i \in c.at : i >= floor(b) + 1}
           m == Min(later)
<1>1. next_fire(c, b) = IF later = {} THEN {}
                        ELSE {m * Second + (IF c.keeps \/ m = floor(b) + 1 THEN fraction(b) ELSE 0)}
  BY DEF next_fire
<1>2. c.at \subseteq Nat /\ floor(b) \in Nat /\ fraction(b) \in Nat /\ fraction(b) < Second
  BY CalendarType, Division
<1>3. \A r \in c.at : r * Second > b => r \in later
  BY <1>2, BeforeWhole
<1>4. ASSUME later # {}
      PROVE  m \in c.at /\ m \in Nat /\ m > floor(b) /\ \A s \in later : m <= s
  BY <1>2, <1>4, LeastIsMin
<1> HIDE DEF later, m
<1>5. ASSUME NEW x \in next_fire(c, b)
      PROVE  x \in Nat /\ \E s \in c.at : s * Second > b /\ s * Second <= x
                            /\ \A r \in c.at : r * Second > b => x < r * Second + Second
  <2>1. later # {} /\ x = m * Second + (IF c.keeps \/ m = floor(b) + 1 THEN fraction(b) ELSE 0)
    BY <1>1, <1>5
  <2>2. m \in c.at /\ m \in Nat /\ m > floor(b) /\ \A s \in later : m <= s
    BY <1>4, <2>1
  <2>3. m * Second > b /\ m * Second \in Nat
    BY <2>2, BeforeWhole, Whole
  <2>4. x \in Nat /\ m * Second <= x /\ x < m * Second + Second
    BY <2>1, <2>3, <1>2, SecondType
  <2>5. ASSUME NEW r \in c.at, r * Second > b
        PROVE  x < r * Second + Second
    <3>1. m <= r /\ r \in Nat
      BY <1>2, <1>3, <2>2, <2>5
    <3>2. m * Second <= r * Second /\ r * Second \in Nat
      BY <3>1, <2>2, LaterSecond, Whole, SecondType
    <3> QED BY <2>3, <2>4, <3>2, SecondType
  <2> QED BY <2>2, <2>3, <2>4, <2>5
<1> QED BY <1>1, <1>3, <1>5

\* The last fire of a calendar that keeps no fraction is its last instant.
LEMMA PrevFire ==
  ASSUME NEW t \in Timers, NEW c \in Calendars[t], NEW b \in Nat
  PROVE  /\ \A q \in prev_fire(c, b) : q \in Nat
         /\ ~c.keeps => \A q \in prev_fire(c, b) : \E s \in c.at : q = s * Second /\ q <= b
         /\ \A r \in c.at : r * Second <= b => \E q \in prev_fire(c, b) : r * Second <= q
<1> DEFINE past == {i \in c.at : i <= floor(b)}
           m == Max(past)
<1>1. prev_fire(c, b) = IF past = {} THEN {}
                        ELSE {m * Second + (IF c.keeps THEN fraction(b) ELSE 0)}
  BY DEF prev_fire
<1>2. c.at \subseteq Nat /\ floor(b) \in Nat /\ fraction(b) \in Nat
  BY CalendarType, Division
<1>3. \A r \in c.at : r * Second <= b => r \in past
  BY <1>2, BeforeWhole
<1>4. ASSUME past # {}
      PROVE  m \in c.at /\ m \in Nat /\ m <= floor(b) /\ \A s \in past : s <= m
  <2>1. past \subseteq 0 .. floor(b)
    BY <1>2
  <2> QED BY <1>2, <1>4, <2>1, GreatestIsMax
<1>5. \A s \in past : s \in Nat
  BY <1>2
<1> HIDE DEF past, m
<1>6. ASSUME past # {}
      PROVE  m * Second \in Nat /\ m * Second <= b
  BY <1>4, <1>6, BeforeWhole, Whole
<1>7. ASSUME NEW q \in prev_fire(c, b)
      PROVE  /\ q \in Nat
             /\ ~c.keeps => \E s \in c.at : q = s * Second /\ q <= b
  <2>1. past # {} /\ q = m * Second + (IF c.keeps THEN fraction(b) ELSE 0)
    BY <1>1, <1>7
  <2> QED BY <2>1, <1>2, <1>4, <1>6
<1>8. ASSUME NEW r \in c.at, r * Second <= b
      PROVE  \E q \in prev_fire(c, b) : r * Second <= q
  <2>1. r \in past /\ past # {}
    BY <1>3, <1>8
  <2>2. r <= m /\ r \in Nat /\ m \in Nat
    BY <2>1, <1>4, <1>5
  <2>3. r * Second <= m * Second /\ m * Second \in Nat
    BY <2>2, LaterSecond, Whole, SecondType
  <2> DEFINE q == m * Second + (IF c.keeps THEN fraction(b) ELSE 0)
  <2>4. q \in prev_fire(c, b)
    BY <1>1, <2>1
  <2>5. r * Second \in Nat /\ r * Second <= q
    BY <2>2, <2>3, <1>2, Whole
  <2> QED BY <2>4, <2>5
<1> QED BY <1>7, <1>8

\* The instants among which next_overall takes the earliest.
Candidates(t) ==
  catch_up(t)
    \cup (UNION {next_fire(c, baseline(t)) : c \in Calendars[t]})
    \cup {manager_start + d : d \in {x \in Startup[t] : manager_start + x > now}}

LEMMA TimesType ==
  ASSUME TypeInv, NEW t \in Timers
  PROVE  /\ last_fire(t) \in Nat \cup {None} /\ anchor(t) \in Nat /\ baseline(t) \in Nat
         /\ now \in Nat /\ baseline(t) >= now
<1>1. last_fires[t] \in Nat \cup {None} /\ stamp[t] \in Nat \cup {None}
      /\ now \in Nat /\ manager_start \in Nat /\ None \notin Nat
  BY TimerAssumption DEF TypeInv
<1>2. stamp[t] # None => stamp[t] * Second \in Nat
  BY <1>1, SecondType
<1>3. last_fire(t) \in Nat \cup {None}
  BY <1>1, <1>2 DEF last_fire
<1>4. anchor(t) \in Nat
  BY <1>1, <1>3 DEF anchor
<1> QED BY <1>1, <1>3, <1>4 DEF baseline

LEMMA CandidatesType ==
  ASSUME TypeInv, NEW t \in Timers
  PROVE  Candidates(t) \subseteq Nat
<1> DEFINE made == catch_up(t)
           ahead == UNION {next_fire(c, baseline(t)) : c \in Calendars[t]}
           early == {manager_start + d : d \in {x \in Startup[t] : manager_start + x > now}}
<1>1. made \subseteq Nat
  <2>1. catch_up(t) \subseteq {now} /\ now \in Nat
    BY TimesType DEF catch_up
  <2> QED BY <2>1
<1>2. ahead \subseteq Nat
  <2>1. \A c \in Calendars[t] : next_fire(c, baseline(t)) \subseteq Nat
    BY NextFire, TimesType
  <2> QED BY <2>1
<1>3. early \subseteq Nat
  <2>1. \A d \in Startup[t] : manager_start + d \in Nat
    BY TimerAssumption DEF TypeInv
  <2> QED BY <2>1
<1>4. Candidates(t) = made \cup ahead \cup early
  BY DEF Candidates
<1> QED BY <1>1, <1>2, <1>3, <1>4

LEMMA Overall ==
  ASSUME TypeInv, NEW t \in Timers
  PROVE  /\ \A i \in next_overall(t) : i \in Candidates(t) /\ i \in Nat
         /\ \A x \in Candidates(t) : \E i \in next_overall(t) : i <= x
<1>1. next_overall(t) = IF Candidates(t) = {} THEN {} ELSE {Min(Candidates(t))}
  BY DEF next_overall, Candidates, baseline
<1>2. Candidates(t) \subseteq Nat
  BY CandidatesType
<1> QED BY <1>1, <1>2, LeastIsMin

\* A timer makes up at once for an instant since its last fire, and only for one.
LEMMA CatchUp ==
  ASSUME TypeInv, NEW t \in Timers
  PROVE  /\ t \in Persistent =>
              \A c \in Calendars[t] : \A s \in c.at :
                 anchor(t) < s * Second /\ s * Second <= now => now \in catch_up(t)
         /\ \A x \in catch_up(t) : x = now /\ t \in Persistent
         /\ ~Drifts(t) => \A x \in catch_up(t) : \E c \in Calendars[t] : \E s \in c.at :
                 anchor(t) < s * Second /\ s * Second <= now
<1>1. now \in Nat /\ anchor(t) \in Nat
  BY TimesType
<1>2. ASSUME t \in Persistent, NEW c \in Calendars[t], NEW s \in c.at,
             anchor(t) < s * Second, s * Second <= now
      PROVE  now \in catch_up(t)
  <2>1. PICK q \in prev_fire(c, now) : s * Second <= q
    BY <1>1, <1>2, PrevFire
  <2>2. q \in Nat /\ s \in Nat
    BY <1>1, PrevFire, CalendarType
  <2>3. q > anchor(t)
    BY <1>1, <1>2, <2>1, <2>2, Whole
  <2>4. q \in UNION {prev_fire(k, now) : k \in Calendars[t]}
    BY <2>1
  <2> QED BY <1>2, <2>3, <2>4 DEF catch_up
<1>3. ASSUME NEW x \in catch_up(t)
      PROVE  /\ x = now /\ t \in Persistent
             /\ \E c \in Calendars[t] : \E q \in prev_fire(c, now) : q > anchor(t)
  BY <1>3 DEF catch_up
<1>4. ASSUME ~Drifts(t), NEW x \in catch_up(t)
      PROVE  \E c \in Calendars[t] : \E s \in c.at : anchor(t) < s * Second /\ s * Second <= now
  <2>1. PICK c \in Calendars[t] : \E k \in prev_fire(c, now) : k > anchor(t)
    BY <1>3, <1>4
  <2>5. PICK q \in prev_fire(c, now) : q > anchor(t)
    BY <2>1
  <2>2. ~c.keeps
    BY <1>3, <1>4 DEF Drifts
  <2>3. PICK s \in c.at : q = s * Second /\ q <= now
    BY <1>1, <2>2, PrevFire
  <2>4. s \in Nat /\ s * Second \in Nat
    BY CalendarType, Whole
  <2> QED BY <1>1, <2>5, <2>3, <2>4
<1> QED BY <1>2, <1>3, <1>4

-----------------------------------------------------------------------------
(* Types                                                                   *)

\* Whatever is announced, the scheduler has something to hear.
LEMMA Announced ==
  ASSUME TypeInv, NEW es \in Seq(Event), es # <<>>, broadcast(es)
  PROVE  events' \in Seq(Event) /\ lagged' \in BOOLEAN /\ (events' # <<>> \/ lagged')
<1> DEFINE all == events \o es
           n == Len(all)
<1>1. all \in Seq(Event) /\ n \in Nat /\ n = Len(events) + Len(es) /\ Len(es) > 0 /\ Len(events) \in Nat
  <2>1. events \in Seq(Event)
    BY DEF TypeInv
  <2>2. Len(es) \in Nat /\ Len(es) # 0
    BY EmptySeq, LenProperties
  <2> QED BY <2>1, <2>2, ConcatProperties, LenProperties
<1>2. all # <<>>
  BY <1>1, EmptySeq
<1>3. lagged \in BOOLEAN /\ EventCap \in Nat \ {0}
  BY TimerAssumption DEF TypeInv
<1>4. IF n > EventCap
      THEN events' = SubSeq(all, n - EventCap + 1, n) /\ lagged' = TRUE
      ELSE events' = all /\ lagged' = lagged
  BY DEF broadcast
<1> HIDE DEF all, n
<1>5. CASE n > EventCap
  <2>1. \A i \in (n - EventCap + 1) .. n : i \in 1 .. n
    BY <1>1, <1>3, <1>5
  <2>2. SubSeq(all, n - EventCap + 1, n) \in Seq(Event)
    BY <1>1, <1>3, <2>1, SubSeqProperties DEF n
  <2> QED BY <1>4, <1>5, <2>2
<1>6. CASE ~(n > EventCap)
  BY <1>1, <1>2, <1>3, <1>4, <1>6
<1> QED BY <1>5, <1>6

LEMMA EventLists ==
  ASSUME NEW u \in Event
  PROVE  /\ <<u>> \in Seq(Event) /\ <<u>> # <<>>
         /\ <<Other>> \in Seq(Event) /\ <<Other>> # <<>>
         /\ <<Other, Other>> \in Seq(Event) /\ <<Other, Other>> # <<>>
         /\ <<Other, Other, Other>> \in Seq(Event) /\ <<Other, Other, Other>> # <<>>
         /\ <<Other, u, Other>> \in Seq(Event) /\ <<Other, u, Other>> # <<>>
<1>1. Other \in Event
  BY DEF Event
<1> QED BY <1>1

LEMMA InitTypes == Init => TypeInv
<1>1. <<>> \in Seq(Event)
  OBVIOUS
<1>2. ASSUME Init
      PROVE  /\ timer \in [Timers -> {"inactive", "waiting", "running"}]
             /\ target \in [Targets -> {"absent", "inactive", "activating", "active"}]
             /\ last_fires \in [Timers -> Nat \cup {None}] /\ stamp \in [Timers -> Nat \cup {None}]
             /\ triggers \in [Targets -> Timers \cup {None}]
             /\ fired \in [Timers -> Nat] /\ served \in [Timers -> Nat]
  BY <1>2 DEF Init
<1>3. ASSUME Init
      PROVE  /\ pc = "down" /\ next = None /\ flips = {} /\ held = FALSE /\ now = 0
             /\ refresh = FALSE /\ events \in Seq(Event) /\ lagged = FALSE
             /\ manager_start = 0 /\ changes = 0 /\ crashes = 0
  BY <1>1, <1>3 DEF Init
<1> QED BY <1>2, <1>3 DEF TypeInv

\* What a start of a timer leaves in its stamp file.
LEMMA StampedType ==
  ASSUME TypeInv, NEW t \in Timers, NEW failed \in BOOLEAN, NEW m \in Nat
  PROVE  /\ stamped(t, failed) \in {stamp[t], floor(now)} /\ stamped(t, failed) \in Nat \cup {None}
         /\ stamp[t] # None => stamped(t, failed) = stamp[t]
         /\ settled(t, failed, m) \in Nat
         /\ floor(now) \in Nat /\ floor(now) * Second \in Nat /\ floor(now) * Second <= now
         /\ now < floor(now) * Second + Second
<1>1. now \in Nat /\ stamp[t] \in Nat \cup {None} /\ served[t] \in Nat
  BY DEF TypeInv
<1>2. floor(now) \in Nat /\ floor(now) * Second \in Nat /\ floor(now) * Second <= now
  BY <1>1, Division, Whole
<1>3. now < floor(now) * Second + Second
  BY <1>1, <1>2, Division, SecondType
<1>4. Max({served[t], m}) \in Nat
  <2>1. \A n \in {served[t], m} : n <= served[t] + m
    BY <1>1
  <2> QED BY <1>1, <2>1, GreatestIsMax
<1> QED BY <1>1, <1>2, <1>3, <1>4 DEF stamped, settled

LEMMA TypeTime ==
  ASSUME TypeInv, tick \/ boot
  PROVE  TypeInv'
<1>1. CASE tick
  BY <1>1 DEF tick, TypeInv, manager, scheduler, channels, history, bounds
<1>2. CASE boot
  <2>1. PICK failed \in SUBSET Enabled :
          /\ stamp' = [t \in Timers |-> IF t \in Enabled THEN stamped(t, t \in failed) ELSE stamp[t]]
          /\ served' = [t \in Timers |-> IF t \in Enabled THEN settled(t, t \in failed, now)
                                         ELSE served[t]]
          /\ \/ failed = {} /\ UNCHANGED changes
             \/ failed # {} /\ changes < MaxChanges /\ changes' = changes + 1
    BY <1>2 DEF boot
  <2>2. timer' \in [Timers -> {"inactive", "waiting", "running"}]
    BY <1>2 DEF boot
  <2>3. \A t \in Timers : (t \in failed) \in BOOLEAN /\ now \in Nat
    BY DEF TypeInv
  <2>4. stamp' \in [Timers -> Nat \cup {None}]
    BY <2>1, <2>3, StampedType DEF TypeInv
  <2>5. served' \in [Timers -> Nat] /\ changes' \in Nat
    <3>1. \A t \in Timers : settled(t, t \in failed, now) \in Nat /\ served[t] \in Nat
      BY <2>3, StampedType DEF TypeInv
    <3>2. served' \in [Timers -> Nat]
      BY <2>1, <3>1
    <3>3. changes \in Nat
      BY DEF TypeInv
    <3> QED BY <2>1, <3>2, <3>3
  <2>6. manager_start' \in Nat /\ pc' = "compute" /\ refresh' = TRUE
    BY <1>2 DEF boot, TypeInv
  <2> QED BY <1>2, <2>2, <2>4, <2>5, <2>6 DEF boot, TypeInv
<1> QED BY <1>1, <1>2

LEMMA TypeCompute ==
  ASSUME TypeInv, compute_next
  PROVE  TypeInv'
<1>1. \A d \in due : d \in Deadline
  <2>1. \A t \in Timers : \A i \in next_overall(t) : i \in Nat
    BY Overall
  <2> QED BY <2>1 DEF due, Deadline
<1>2. next' \in Deadline \cup {None}
  BY <1>1 DEF compute_next
<1> QED BY <1>2 DEF compute_next, TypeInv, manager, channels, history, bounds

LEMMA TypeReceive ==
  ASSUME TypeInv, wake \/ receive_refresh \/ handle_event \/ handle_lag \/ flip_to_waiting
  PROVE  TypeInv'
<1>1. CASE wake
  BY <1>1 DEF wake, TypeInv, manager, channels, history, bounds
<1>2. CASE receive_refresh
  BY <1>2 DEF receive_refresh, TypeInv, manager, history, bounds
<1>3. CASE handle_event
  <2>1. Tail(events) \in Seq(Event)
    BY <1>3, HeadTailProperties DEF handle_event, TypeInv
  <2>2. /\ triggers' \in [Targets -> Timers \cup {None}]
        /\ flips' \subseteq Timers
        /\ pc' \in {"compute", "flip"}
    <3> DEFINE u == Head(events)
    <3>1. CASE u \in Targets /\ triggers[u] # None
      <4>1. triggers' = [triggers EXCEPT ![u] = None] /\ flips' = {triggers[u]} /\ pc' = "flip"
        BY <1>3, <3>1 DEF handle_event
      <4> HIDE DEF u
      <4> QED BY <3>1, <4>1 DEF TypeInv
    <3>2. CASE ~(u \in Targets /\ triggers[u] # None)
      BY <1>3, <3>2 DEF handle_event, TypeInv
    <3> QED BY <3>1, <3>2
  <2> QED BY <1>3, <2>1, <2>2 DEF handle_event, TypeInv, manager, history, bounds
<1>4. CASE handle_lag
  <2> DEFINE over == {u \in Targets : triggers[u] # None /\ target[u] # "active"}
  <2>1. /\ triggers' = [u \in Targets |-> IF u \in over THEN None ELSE triggers[u]]
        /\ flips' = {triggers[u] : u \in over}
        /\ pc' \in {"compute", "flip"}
    BY <1>4 DEF handle_lag
  <2>2. \A u \in over : triggers[u] \in Timers
    BY DEF TypeInv
  <2>3. flips' \subseteq Timers
    BY <2>1, <2>2
  <2>4. triggers' \in [Targets -> Timers \cup {None}]
    BY <2>1 DEF TypeInv
  <2> HIDE DEF over
  <2> QED BY <1>4, <2>1, <2>3, <2>4 DEF handle_lag, TypeInv, manager, history, bounds
<1>5. CASE flip_to_waiting
  <2>1. PICK t \in flips :
           /\ flips' = flips \ {t}
           /\ IF IsActive(t)
              THEN timer' = [timer EXCEPT ![t] = "waiting"] /\ broadcast(<<Other>>)
              ELSE UNCHANGED <<timer, events, lagged>>
    BY <1>5 DEF flip_to_waiting
  <2>2. events' \in Seq(Event) /\ lagged' \in BOOLEAN
    BY <2>1, Announced, EventLists DEF TypeInv, Event
  <2>3. timer' \in [Timers -> {"inactive", "waiting", "running"}] /\ flips' \subseteq Timers
    BY <2>1 DEF TypeInv
  <2>4. pc' \in {"compute", "flip"}
    BY <1>5 DEF flip_to_waiting
  <2> QED BY <1>5, <2>2, <2>3, <2>4 DEF flip_to_waiting, TypeInv, history, bounds
<1> QED BY <1>1, <1>2, <1>3, <1>4, <1>5

LEMMA TypeFire ==
  ASSUME TypeInv, fire
  PROVE  TypeInv'
<1> DEFINE t == next.timer
           u == target_of[t]
<1>1. next \in Deadline /\ t \in Timers /\ next.at \in Nat
  BY DEF fire, TypeInv, Deadline
<1>2. u \in Targets /\ u \in Event
  BY <1>1, TimerAssumption DEF Event
<1> HIDE DEF t, u
<1>3. /\ target' \in [Targets -> {"absent", "inactive", "activating", "active"}]
      /\ timer' \in [Timers -> {"inactive", "waiting", "running"}]
      /\ triggers' \in [Targets -> Timers \cup {None}]
      /\ events' \in Seq(Event) /\ lagged' \in BOOLEAN
      /\ pc' \in {"compute", "stamp"}
  <2>1. CASE fire_service(t, u)
    BY <1>1, <1>2, <2>1, Announced, EventLists DEF fire_service, TypeInv
  <2>2. CASE fire_other(t, u)
    BY <1>1, <1>2, <2>2, Announced, EventLists DEF fire_other, TypeInv
  <2>3. CASE fire_unloaded(t, u)
    BY <1>1, <1>2, <2>3, Announced, EventLists DEF fire_unloaded, TypeInv
  <2>4. fire_service(t, u) \/ fire_other(t, u) \/ fire_unloaded(t, u)
    BY DEF fire, t, u
  <2> QED BY <2>1, <2>2, <2>3, <2>4
<1>4. /\ next' \in Deadline \cup {None}
      /\ pc' = "stamp" => next' # None
  BY <1>1 DEF fire, TypeInv
<1>5. fired' \in [Timers -> Nat] /\ served' \in [Timers -> Nat]
  BY <1>1 DEF fire, TypeInv, t, history
<1> QED BY <1>3, <1>4, <1>5 DEF fire, TypeInv, bounds

LEMMA TypePersist ==
  ASSUME TypeInv, persist
  PROVE  TypeInv'
<1>1. next.timer \in Timers /\ next.at \in Nat
  BY DEF persist, TypeInv, Deadline
<1>2. floor(next.at) \in Nat
  BY <1>1, Division
<1>3. /\ last_fires' \in [Timers -> Nat \cup {None}]
      /\ stamp' \in {stamp, [stamp EXCEPT ![next.timer] = floor(next.at)]}
      /\ changes' \in {changes, changes + 1}
  BY <1>1 DEF persist, TypeInv
<1>4. stamp' \in [Timers -> Nat \cup {None}] /\ changes' \in Nat
  <2>1. stamp \in [Timers -> Nat \cup {None}] /\ changes \in Nat
    BY DEF TypeInv
  <2>2. [stamp EXCEPT ![next.timer] = floor(next.at)] \in [Timers -> Nat \cup {None}]
    BY <1>2, <2>1
  <2>3. stamp' \in [Timers -> Nat \cup {None}]
    BY <1>3, <2>1, <2>2
  <2> QED BY <1>3, <2>1, <2>3
<1> QED BY <1>3, <1>4 DEF persist, TypeInv, manager, channels, history

LEMMA TypeRequest ==
  ASSUME TypeInv,
         \/ \E t \in Timers : start_timer(t) \/ stop_timer(t)
         \/ \E u \in Targets : target_changes(u) \/ unit_removed(u)
         \/ hold_lock \/ release_lock
  PROVE  TypeInv'
<1>1. ASSUME NEW t \in Timers, start_timer(t)
      PROVE  TypeInv'
  <2>1. PICK failed \in BOOLEAN :
          /\ stamp' = [stamp EXCEPT ![t] = stamped(t, failed)]
          /\ served' = [served EXCEPT ![t] = settled(t, failed, manager_start)]
    BY <1>1 DEF start_timer
  <2>2. events' \in Seq(Event) /\ lagged' \in BOOLEAN
    BY <1>1, Announced, EventLists DEF start_timer, Event
  <2>3. changes' \in Nat
    BY <1>1 DEF start_timer, another_change, TypeInv
  <2>4. /\ timer' \in [Timers -> {"inactive", "waiting", "running"}]
        /\ stamp' \in [Timers -> Nat \cup {None}] /\ served' \in [Timers -> Nat]
    BY <1>1, <2>1, StampedType DEF start_timer, TypeInv
  <2> QED BY <1>1, <2>2, <2>3, <2>4 DEF start_timer, poke, TypeInv, scheduler
<1>2. ASSUME NEW t \in Timers, stop_timer(t)
      PROVE  TypeInv'
  <2>1. events' \in Seq(Event) /\ lagged' \in BOOLEAN
    BY <1>2, Announced, EventLists DEF stop_timer, Event
  <2>2. changes' \in Nat /\ timer' \in [Timers -> {"inactive", "waiting", "running"}]
    BY <1>2 DEF stop_timer, another_change, TypeInv
  <2> QED BY <1>2, <2>1, <2>2 DEF stop_timer, poke, TypeInv, scheduler, history
<1>3. ASSUME NEW u \in Targets, target_changes(u)
      PROVE  TypeInv'
  <2>1. PICK s \in {"inactive", "active"} :
          /\ target' = [target EXCEPT ![u] = s]
          /\ broadcast(<<IF s = "active" THEN Other ELSE u>>)
    BY <1>3 DEF target_changes
  <2>2. (IF s = "active" THEN Other ELSE u) \in Event
    BY DEF Event
  <2>3. events' \in Seq(Event) /\ lagged' \in BOOLEAN
    BY <2>1, <2>2, Announced, EventLists
  <2>4. changes' \in Nat
    BY <1>3 DEF target_changes, another_change, TypeInv
  <2>5. target' \in [Targets -> {"absent", "inactive", "activating", "active"}]
    BY <2>1 DEF TypeInv
  <2> QED BY <1>3, <2>3, <2>4, <2>5 DEF target_changes, TypeInv, scheduler, history
<1>4. ASSUME NEW u \in Targets, unit_removed(u)
      PROVE  TypeInv'
  <2>1. events' \in Seq(Event) /\ lagged' \in BOOLEAN
    BY <1>4, Announced, EventLists DEF unit_removed, Event
  <2>2. changes' \in Nat
    BY <1>4 DEF unit_removed, another_change, TypeInv
  <2>3. target' \in [Targets -> {"absent", "inactive", "activating", "active"}]
    BY <1>4 DEF unit_removed, TypeInv
  <2> QED BY <1>4, <2>1, <2>2, <2>3 DEF unit_removed, poke, TypeInv, scheduler, history
<1>5. ASSUME hold_lock \/ release_lock
      PROVE  TypeInv'
  <2>1. held' \in BOOLEAN /\ changes' \in Nat /\ crashes' = crashes
    <3>1. CASE hold_lock
      BY <3>1 DEF hold_lock, another_change, TypeInv
    <3>2. CASE release_lock
      BY <3>2 DEF release_lock, TypeInv, bounds
    <3> QED BY <1>5, <3>1, <3>2
  <2>2. UNCHANGED <<now, timer, target, scheduler, channels, stamp, history>>
    BY <1>5 DEF hold_lock, release_lock
  <2> QED BY <2>1, <2>2 DEF TypeInv, scheduler, channels, history
<1> QED BY <1>1, <1>2, <1>3, <1>4, <1>5

LEMMA TypeCrash ==
  ASSUME TypeInv, crash
  PROVE  TypeInv'
<1>1. <<>> \in Seq(Event)
  OBVIOUS
<1>2. fired' \in [Timers -> Nat] /\ served' \in [Timers -> Nat]
  <2>1. \A t \in Timers : \A i \in Nat : told(t, i) \in Nat
    BY Whole DEF told, TypeInv
  <2> QED BY <2>1 DEF crash, TypeInv
<1>3. target' \in [Targets -> {"absent", "inactive", "activating", "active"}]
  BY DEF crash
<1>4. timer' \in [Timers -> {"inactive", "waiting", "running"}]
  BY DEF crash
<1>5. last_fires' \in [Timers -> Nat \cup {None}] /\ triggers' \in [Targets -> Timers \cup {None}]
  BY DEF crash
<1>6. /\ pc' = "down" /\ next' = None /\ flips' = {} /\ held' = FALSE /\ now' = now
      /\ refresh' = FALSE /\ events' \in Seq(Event) /\ lagged' = FALSE
      /\ manager_start' = manager_start /\ stamp' = stamp /\ changes' = changes
      /\ crashes' \in Nat
  BY <1>1 DEF crash, TypeInv
<1> QED BY <1>2, <1>3, <1>4, <1>5, <1>6 DEF TypeInv

LEMMA StutterTypes ==
  ASSUME TypeInv, UNCHANGED vars
  PROVE  TypeInv'
BY DEF vars, manager, scheduler, channels, history, bounds, TypeInv

LEMMA StepTypes == TypeInv /\ [Next]_vars => TypeInv'
<1> SUFFICES ASSUME TypeInv, [Next]_vars PROVE TypeInv'
  OBVIOUS
<1>1. CASE UNCHANGED vars
  BY <1>1, StutterTypes
<1>2. CASE Next
  BY <1>2, TypeTime, TypeCompute, TypeReceive, TypeFire, TypePersist, TypeRequest, TypeCrash
     DEF Next, Scheduler
<1> QED BY <1>1, <1>2

\* The types, and that a fire has its timer and its instant (firing.rs:96-146).
THEOREM TypeCorrect == Spec => []TypeInv
BY InitTypes, StepTypes, PTL DEF Spec

-----------------------------------------------------------------------------
(* The sleep covers what is due                                            *)

LEMMA InstantType ==
  ASSUME NEW t \in Timers, NEW c \in Calendars[t], NEW s \in c.at
  PROVE  s \in Nat /\ s * Second \in Nat
BY CalendarType, Whole

\* The earliest due instant covers every instant of every active timer.
LEMMA ComputeCovers ==
  ASSUME TypeInv, compute_next
  PROVE  SleepInv'
<1>1. /\ now' = now /\ timer' = timer /\ manager_start' = manager_start
      /\ last_fires' = last_fires /\ stamp' = stamp
  BY DEF compute_next, manager
<1>2. now \in Nat /\ manager_start \in Nat
  BY DEF TypeInv
<1>3. ASSUME NEW t \in Timers, IsActive(t), NEW x \in Candidates(t)
      PROVE  next' # None /\ next'.at <= x /\ next'.at \in Nat /\ x \in Nat
  <2>1. PICK i \in next_overall(t) : i <= x /\ i \in Nat /\ x \in Nat
    BY <1>3, Overall, CandidatesType
  <2>2. [at |-> i, timer |-> t] \in due
    BY <1>3, <2>1 DEF due
  <2>3. PICK d \in due : (\A e \in due : d.at <= e.at) /\ next' = d
    BY <2>2 DEF compute_next
  <2>4. d.at <= i
    BY <2>2, <2>3
  <2>5. d \in Deadline
    <3>1. \A r \in Timers : \A k \in next_overall(r) : k \in Nat
      BY Overall
    <3> QED BY <3>1 DEF due, Deadline
  <2>6. d # None /\ d.at \in Nat
    BY <2>5, TimerAssumption DEF Deadline
  <2> QED BY <2>1, <2>3, <2>4, <2>6
<1>4. ASSUME NEW t \in Timers, IsActive(t), NEW c \in Calendars[t], NEW s \in c.at,
             s * Second > baseline(t)
      PROVE  Covers(s * Second)'
  <2>1. s * Second \in Nat /\ baseline(t) \in Nat
    BY InstantType, TimesType
  <2>2. next_fire(c, baseline(t)) # {}
    BY <1>4, <2>1, NextFire
  <2>3. PICK x \in next_fire(c, baseline(t)) : x < s * Second + Second
    BY <1>4, <2>1, <2>2, NextFire
  <2>4. x \in Candidates(t)
    BY <2>3 DEF Candidates
  <2>5. next' # None /\ next'.at <= x /\ next'.at \in Nat /\ x \in Nat
    BY <1>3, <1>4, <2>4
  <2> QED BY <2>1, <2>3, <2>5, SecondType DEF Covers
<1>5. ASSUME NEW t \in Timers, IsActive(t), NEW c \in Calendars[t], NEW s \in c.at,
             t \in Persistent, anchor(t) < s * Second, s * Second <= now
      PROVE  Covers(now)'
  <2>1. now \in catch_up(t)
    BY <1>5, CatchUp
  <2>2. now \in Candidates(t)
    BY <2>1 DEF Candidates
  <2>3. next' # None /\ next'.at <= now /\ next'.at \in Nat
    BY <1>3, <1>5, <2>2
  <2> QED BY <1>1, <1>2, <2>3, SecondType DEF Covers
<1>6. ASSUME NEW t \in Timers, IsActive(t), NEW d \in Startup[t], manager_start + d > now
      PROVE  Covers(manager_start + d)'
  <2>1. manager_start + d \in Candidates(t)
    BY <1>6 DEF Candidates
  <2>2. next' # None /\ next'.at <= manager_start + d /\ next'.at \in Nat /\ manager_start + d \in Nat
    BY <1>3, <1>6, <2>1
  <2>3. d \in Nat
    BY TimerAssumption
  <2> QED BY <1>1, <1>2, <2>2, <2>3, SecondType DEF Covers
<1>7. \A t \in Timers : /\ IsActive(t)' = IsActive(t) /\ baseline(t)' = baseline(t)
                        /\ anchor(t)' = anchor(t)
  BY <1>1 DEF IsActive, baseline, anchor, last_fire
<1> QED BY <1>1, <1>4, <1>5, <1>6, <1>7 DEF SleepInv

\* Time does not uncover an instant: what was ahead is made up for when it has come.
LEMMA TickCovers ==
  ASSUME TypeInv, SleepInv, tick
  PROVE  SleepInv'
<1> SUFFICES ASSUME quiet
             PROVE  SleepInv'
  BY DEF tick, scheduler, channels, quiet, SleepInv
<1>1. /\ now' = now + 1 /\ timer' = timer /\ manager_start' = manager_start
      /\ last_fires' = last_fires /\ stamp' = stamp /\ next' = next
  BY DEF tick, manager, scheduler
<1>2. now \in Nat /\ manager_start \in Nat /\ next \in Deadline \cup {None}
  BY DEF TypeInv
<1>3. next # None => next.at \in Nat
  BY <1>2 DEF Deadline
<1>4. \A t \in Timers : /\ IsActive(t)' = IsActive(t)
                        /\ anchor(t)' = anchor(t) /\ last_fire(t)' = last_fire(t)
  BY <1>1 DEF IsActive, anchor, last_fire
<1>5. \A i : Covers(i)' = (next # None /\ next.at < i' + Second)
  BY <1>1 DEF Covers
<1>6. ASSUME NEW t \in Timers, IsActive(t), NEW c \in Calendars[t], NEW s \in c.at,
             s * Second > baseline(t)'
      PROVE  next # None /\ next.at < s * Second + Second
  <2>1. last_fire(t) \in Nat \cup {None} /\ s * Second \in Nat
    BY TimesType, InstantType
  <2>2. s * Second > baseline(t)
    BY <1>1, <1>2, <1>4, <1>6, <2>1 DEF baseline
  <2> QED BY <1>6, <2>2 DEF SleepInv, Covers
<1>7. ASSUME NEW t \in Timers, IsActive(t), NEW c \in Calendars[t], NEW s \in c.at,
             t \in Persistent, anchor(t) < s * Second, s * Second <= now + 1
      PROVE  next # None /\ next.at < now + 1 + Second
  <2>1. s * Second \in Nat /\ anchor(t) \in Nat /\ last_fire(t) \in Nat \cup {None}
    BY TimesType, InstantType
  <2>2. CASE s * Second <= now
    <3>1. Covers(now)
      BY <1>7, <2>2 DEF SleepInv
    <3> QED BY <1>2, <1>3, <3>1, SecondType DEF Covers
  <2>3. CASE s * Second = now + 1
    <3>1. baseline(t) = now
      BY <1>2, <1>7, <2>1, <2>3, TimerAssumption DEF baseline, anchor
    <3>2. Covers(s * Second)
      BY <1>2, <1>7, <2>3, <3>1 DEF SleepInv
    <3> QED BY <2>3, <3>2 DEF Covers
  <2> QED BY <1>2, <1>7, <2>1, <2>2, <2>3
<1>8. ASSUME NEW t \in Timers, IsActive(t), NEW d \in Startup[t], manager_start + d > now + 1
      PROVE  next # None /\ next.at < manager_start + d + Second
  <2>1. d \in Nat
    BY TimerAssumption
  <2>2. Covers(manager_start + d)
    BY <1>2, <1>8, <2>1 DEF SleepInv
  <2> QED BY <2>2 DEF Covers
<1> QED BY <1>1, <1>4, <1>6, <1>7, <1>8 DEF SleepInv, Covers

\* Every change of a timer or a stamp is heard.
LEMMA RequestHeard ==
  ASSUME TypeInv,
         \/ \E t \in Timers : start_timer(t) \/ stop_timer(t)
         \/ \E u \in Targets : target_changes(u) \/ unit_removed(u)
  PROVE  ~quiet'
<1>1. CASE refresh'
  BY <1>1 DEF quiet
<1>2. CASE \E u \in Targets : target_changes(u)
  <2>1. PICK u \in Targets : target_changes(u)
    BY <1>2
  <2>2. PICK s \in {"inactive", "active"} : broadcast(<<IF s = "active" THEN Other ELSE u>>)
    BY <2>1 DEF target_changes
  <2>3. (IF s = "active" THEN Other ELSE u) \in Event
    BY DEF Event
  <2>4. events' # <<>> \/ lagged'
    BY <2>2, <2>3, Announced, EventLists
  <2> QED BY <2>4 DEF quiet
<1>3. refresh' \/ \E u \in Targets : target_changes(u)
  BY DEF start_timer, stop_timer, unit_removed, poke
<1> QED BY <1>1, <1>2, <1>3

LEMMA StillCovers ==
  ASSUME SleepInv, UNCHANGED <<now, timer, scheduler, channels, stamp>>
  PROVE  SleepInv'
BY DEF scheduler, channels, SleepInv, quiet, IsActive, baseline, anchor, last_fire, Covers

LEMMA StepSleep == TypeInv /\ SleepInv /\ [Next]_vars => SleepInv'
<1> SUFFICES ASSUME TypeInv, SleepInv, [Next]_vars PROVE SleepInv'
  OBVIOUS
<1>1. CASE tick
  BY <1>1, TickCovers
<1>2. CASE compute_next
  BY <1>2, ComputeCovers
<1>3. CASE hold_lock \/ release_lock \/ UNCHANGED vars
  <2>1. UNCHANGED <<now, timer, scheduler, channels, stamp>>
    BY <1>3 DEF hold_lock, release_lock, vars, manager
  <2> QED BY <2>1, StillCovers
<1>4. CASE \/ \E t \in Timers : start_timer(t) \/ stop_timer(t)
           \/ \E u \in Targets : target_changes(u) \/ unit_removed(u)
  BY <1>4, RequestHeard DEF SleepInv
<1>5. CASE boot \/ wake \/ receive_refresh \/ handle_event \/ handle_lag \/ flip_to_waiting \/ fire
           \/ persist \/ crash
  <2>1. pc' # "select"
    <3>1. CASE fire
      BY <3>1 DEF fire, fire_service, fire_other, fire_unloaded
    <3>2. CASE handle_event
      BY <3>2 DEF handle_event
    <3>3. CASE handle_lag
      BY <3>3 DEF handle_lag
    <3>4. CASE flip_to_waiting
      BY <3>4 DEF flip_to_waiting
    <3>5. CASE boot \/ wake \/ receive_refresh \/ persist \/ crash
      BY <3>5 DEF boot, wake, receive_refresh, persist, crash
    <3> QED BY <1>5, <3>1, <3>2, <3>3, <3>4, <3>5
  <2> QED BY <2>1 DEF SleepInv, quiet
<1> QED BY <1>1, <1>2, <1>3, <1>4, <1>5 DEF Next, Scheduler

LEMMA SleepCovers ==
  ASSUME TypeInv, SleepInv
  PROVE  SleepCoversAll
<1> SUFFICES ASSUME quiet, NEW t \in Timers, IsActive(t), ~Drifts(t),
                    NEW i \in next_overall(t)
             PROVE  next # None /\ next.at < i + Second
  BY DEF SleepCoversAll, quiet
<1>1. i \in Candidates(t) /\ i \in Nat /\ next \in Deadline \cup {None}
  BY Overall DEF TypeInv
<1>2. CASE i \in catch_up(t)
  <2>1. i = now /\ t \in Persistent
    BY <1>2, CatchUp
  <2>2. PICK c \in Calendars[t] : \E s \in c.at : anchor(t) < s * Second /\ s * Second <= now
    BY <1>2, CatchUp
  <2>3. Covers(now)
    BY <2>1, <2>2 DEF SleepInv
  <2> QED BY <2>1, <2>3 DEF Covers
<1>3. CASE i \in UNION {next_fire(c, baseline(t)) : c \in Calendars[t]}
  <2>1. PICK c \in Calendars[t] : i \in next_fire(c, baseline(t))
    BY <1>3
  <2>2. baseline(t) \in Nat
    BY TimesType
  <2>3. PICK s \in c.at : s * Second > baseline(t) /\ s * Second <= i
    BY <2>1, <2>2, NextFire
  <2>4. Covers(s * Second) /\ s * Second \in Nat
    BY <2>3, InstantType DEF SleepInv
  <2> QED BY <1>1, <2>3, <2>4, SecondType DEF Covers, Deadline
<1>4. CASE i \in {manager_start + d : d \in {x \in Startup[t] : manager_start + x > now}}
  BY <1>4 DEF SleepInv, Covers
<1> QED BY <1>1, <1>2, <1>3, <1>4 DEF Candidates

LEMMA InitSleep == Init => SleepInv
BY DEF Init, SleepInv, quiet

\* When nothing is left to be received, the scheduler oversleeps what next_overall
\* would answer now for an active timer that does not drift by less than a second
\* (firing.rs:148-187).  An instant that next_overall passes over, of a timer without
\* Persistent=yes that is already past, is not spoken of.
THEOREM SleepIsEnough == Spec => []SleepCoversAll
<1>1. TypeInv /\ SleepInv => SleepCoversAll
  BY SleepCovers
<1> QED BY <1>1, InitTypes, StepTypes, InitSleep, StepSleep, PTL DEF Spec

-----------------------------------------------------------------------------
(* No instant is fired for twice                                           *)

LEMMA InitFire == Init => FireInv
<1> SUFFICES ASSUME Init PROVE FireInv
  OBVIOUS
<1>1. \A t \in Timers : fired[t] = 0 /\ last_fires[t] = None /\ stamp[t] = None /\ ~Storing(t)
  BY DEF Init, Storing
<1>2. now = 0 /\ next = None /\ pc = "down"
  BY DEF Init
<1> QED BY <1>1, <1>2 DEF FireInv, StampPast, Remembered, FreshNext

\* The times of fires stay while only the clock, the channels and other units move.
LEMMA SameFire ==
  ASSUME TypeInv, FireInv, now' \in Nat, now' >= now,
         \/ UNCHANGED <<pc, next>>
         \/ /\ pc \notin {"down", "stamp"} /\ pc' \notin {"select", "fire", "stamp"}
            /\ next' \in {None, next},
         UNCHANGED <<manager_start, last_fires, stamp, fired>>
  PROVE  FireInv'
<1>1. now \in Nat
  BY DEF TypeInv
<1>2. StampPast'
  <2>1. \A t \in Timers : stamp[t] # None => stamp[t] * Second \in Nat
    BY Whole DEF TypeInv
  <2> QED BY <1>1, <2>1 DEF FireInv, StampPast
<1>3. Remembered'
  <2>1. \A t \in Timers : fired[t] <= now'
    BY <1>1 DEF FireInv, Remembered, TypeInv
  <2>2. \A t \in Timers : /\ Storing(t)' => Storing(t) /\ next' = next
                          /\ Storing(t) => Storing(t)'
    BY DEF Storing
  <2>3. pc' # "down" => pc # "down"
    OBVIOUS
  <2> QED BY <2>1, <2>2, <2>3 DEF FireInv, Remembered
<1>4. FreshNext'
  <2>1. CASE UNCHANGED <<pc, next>>
    <3>1. pc \in {"fire", "stamp"} => next.at \in Nat /\ next.at <= now
      BY DEF TypeInv, Deadline, FireInv, FreshNext
    <3>2. pc \in {"fire", "stamp"} => next.at <= now'
      BY <1>1, <3>1
    <3> QED BY <2>1, <3>2 DEF FireInv, FreshNext, instants, Drifts
  <2>2. CASE pc' \notin {"select", "fire", "stamp"}
    BY <2>2 DEF FreshNext
  <2> QED BY <2>1, <2>2
<1> QED BY <1>2, <1>3, <1>4 DEF FireInv

\* What is due has an instant that the timer has not been fired for: one ahead of
\* the clock, or, of a persistent timer, one since its last fire.
LEMMA DueIsFresh ==
  ASSUME TypeInv, FireInv, pc \notin {"down", "stamp"},
         NEW t \in Timers, ~Drifts(t), NEW x \in next_overall(t)
  PROVE  \E i \in instants(t) : fired[t] < i /\ i <= x
<1>1. x \in Candidates(t) /\ x \in Nat /\ now \in Nat /\ fired[t] \in Nat /\ fired[t] <= now
  BY Overall DEF TypeInv, FireInv, Remembered
<1>2. \A c \in Calendars[t] : \A s \in c.at : s * Second \in instants(t)
  BY DEF instants
<1>3. CASE x \in catch_up(t)
  <2>1. x = now /\ t \in Persistent
    BY <1>3, CatchUp
  <2>2. PICK c \in Calendars[t] : \E s \in c.at : anchor(t) < s * Second /\ s * Second <= now
    BY <1>3, CatchUp
  <2>3. PICK s \in c.at : anchor(t) < s * Second /\ s * Second <= now
    BY <2>2
  <2>4. s \in Nat /\ s * Second \in Nat /\ anchor(t) \in Nat
    BY InstantType, TimesType
  <2>5. stamp[t] # None => stamp[t] \in Nat
    BY DEF TypeInv
  <2>6. fired[t] < s * Second
    <3>1. CASE last_fires[t] # None
      <4>1. anchor(t) = last_fires[t] /\ last_fires[t] \in Nat
        BY <3>1 DEF anchor, last_fire, TypeInv
      <4>2. fired[t] <= last_fires[t]
        BY <3>1 DEF FireInv, Remembered, Storing
      <4> QED BY <1>1, <2>3, <2>4, <4>1, <4>2
    <3>2. CASE last_fires[t] = None /\ stamp[t] = None
      <4>1. anchor(t) = manager_start /\ manager_start \in Nat
        BY <3>2 DEF anchor, last_fire, TypeInv
      <4>2. fired[t] <= manager_start
        BY <3>2 DEF FireInv, Remembered, Storing
      <4> QED BY <1>1, <2>3, <2>4, <4>1, <4>2
    <3>3. CASE last_fires[t] = None /\ stamp[t] # None
      <4>1. stamp[t] * Second \in Nat /\ None \notin Nat
        BY <3>3, <2>5, Whole, TimerAssumption
      <4>2. anchor(t) = stamp[t] * Second
        BY <3>3, <2>5, <4>1 DEF anchor, last_fire
      <4>3. fired[t] < stamp[t] * Second + Second
        BY <3>3 DEF FireInv, Remembered, Storing
      <4>4. stamp[t] < s
        <5>1. CASE s = stamp[t]
          BY <5>1, <2>3, <4>1, <4>2
        <5>2. CASE s < stamp[t]
          <6>1. s * Second + Second <= stamp[t] * Second
            BY <3>3, <5>2, <2>4, <2>5, LaterSecond
          <6> QED BY <6>1, <2>3, <2>4, <4>1, <4>2, SecondType
        <5> QED BY <3>3, <5>1, <5>2, <2>4, <2>5
      <4>5. stamp[t] * Second + Second <= s * Second
        BY <3>3, <4>4, <2>4, <2>5, LaterSecond
      <4> QED BY <1>1, <2>4, <4>1, <4>3, <4>5, SecondType
    <3> QED BY <3>1, <3>2, <3>3
  <2> QED BY <1>2, <2>1, <2>3, <2>6
<1>4. CASE x \in UNION {next_fire(c, baseline(t)) : c \in Calendars[t]}
  <2>1. PICK c \in Calendars[t] : x \in next_fire(c, baseline(t))
    BY <1>4
  <2>2. baseline(t) \in Nat /\ baseline(t) >= now
    BY TimesType
  <2>3. PICK s \in c.at : s * Second > baseline(t) /\ s * Second <= x
    BY <2>1, <2>2, NextFire
  <2>4. s * Second \in Nat
    BY InstantType
  <2>5. fired[t] < s * Second
    BY <1>1, <2>2, <2>3, <2>4
  <2> QED BY <1>2, <2>3, <2>5
<1>5. CASE x \in {manager_start + d : d \in {y \in Startup[t] : manager_start + y > now}}
  <2>1. PICK d \in Startup[t] : x = manager_start + d /\ manager_start + d > now
    BY <1>5
  <2>2. x \in instants(t)
    BY <2>1 DEF instants
  <2> QED BY <1>1, <2>1, <2>2
<1> QED BY <1>1, <1>3, <1>4, <1>5 DEF Candidates

LEMMA ComputeFire ==
  ASSUME TypeInv, FireInv, compute_next
  PROVE  FireInv'
<1>1. /\ pc = "compute" /\ pc' = "select"
      /\ UNCHANGED <<now, timer, manager_start, last_fires, stamp, fired>>
  BY DEF compute_next, manager, history
<1>2. ASSUME next' # None
      PROVE  next'.timer \in Timers /\ next'.at \in next_overall(next'.timer)
  <2>1. PICK d \in due : next' = d
    BY <1>2 DEF compute_next
  <2>2. PICK t \in Timers : d \in {[at |-> i, timer |-> t] : i \in next_overall(t)}
    BY DEF due
  <2> QED BY <2>1, <2>2
<1>3. StampPast'
  BY <1>1 DEF FireInv, StampPast
<1>4. Remembered'
  BY <1>1 DEF FireInv, Remembered, Storing
<1>5. FreshNext'
  <2>1. \A t \in Timers : instants(t)' = instants(t)
    BY <1>1 DEF instants
  <2>2. next' # None /\ ~Drifts(next'.timer) =>
          \E i \in instants(next'.timer) : fired[next'.timer] < i /\ i <= next'.at
    BY <1>1, <1>2, DueIsFresh
  <2> QED BY <1>1, <1>2, <2>1, <2>2 DEF FreshNext, instants, Drifts
<1> QED BY <1>3, <1>4, <1>5 DEF FireInv

LEMMA WakeFire ==
  ASSUME TypeInv, FireInv, wake
  PROVE  FireInv'
<1>1. /\ pc = "select" /\ pc' = "fire" /\ next' = next /\ next # None /\ next.at <= now
      /\ UNCHANGED <<now, manager_start, last_fires, stamp, fired>>
  <2>1. next \in Deadline /\ now \in Nat
    BY DEF wake, TypeInv
  <2> QED BY <2>1 DEF wake, Deadline, history
<1>2. StampPast'
  BY <1>1 DEF FireInv, StampPast
<1>3. Remembered'
  BY <1>1 DEF FireInv, Remembered, Storing
<1>4. FreshNext'
  BY <1>1 DEF FireInv, FreshNext, instants, Drifts
<1> QED BY <1>2, <1>3, <1>4 DEF FireInv

LEMMA FireFire ==
  ASSUME TypeInv, FireInv, fire
  PROVE  FireInv'
<1> DEFINE t == next.timer
<1>1. /\ t \in Timers /\ next \in Deadline /\ next # None /\ next.at \in Nat /\ next.at <= now
      /\ pc = "fire" /\ pc' \in {"stamp", "compute"} /\ None \notin Nat
      /\ UNCHANGED <<now, manager_start, last_fires, stamp>>
  BY TimerAssumption
     DEF fire, fire_service, fire_other, fire_unloaded, TypeInv, Deadline, FireInv, FreshNext
<1>2. /\ pc' = "stamp" => next' = next /\ fired' = [fired EXCEPT ![t] = next.at]
      /\ pc' = "compute" => next' = None /\ fired' = fired
  BY DEF fire, history
<1> HIDE DEF t
<1>3. StampPast'
  BY <1>1 DEF FireInv, StampPast
<1>4. Remembered'
  <2>1. CASE pc' = "stamp"
    <3>1. \A r \in Timers : /\ Storing(r)' <=> r = t
                            /\ fired'[r] = IF r = t THEN next.at ELSE fired[r]
      BY <1>1, <1>2, <2>1 DEF Storing, TypeInv, t
    <3>2. next' = next
      BY <1>2, <2>1
    <3> QED BY <1>1, <3>1, <3>2 DEF FireInv, Remembered, Storing
  <2>2. CASE pc' = "compute"
    BY <1>1, <1>2, <2>2 DEF FireInv, Remembered, Storing
  <2> QED BY <1>1, <2>1, <2>2
<1>5. FreshNext'
  BY <1>1, <1>2 DEF FreshNext
<1> QED BY <1>3, <1>4, <1>5 DEF FireInv

LEMMA PersistFire ==
  ASSUME TypeInv, FireInv, persist
  PROVE  FireInv'
<1> DEFINE t == next.timer
           f == floor(next.at)
<1>1. /\ t \in Timers /\ next.at \in Nat /\ next.at <= now /\ fired[t] = next.at
      /\ pc = "stamp" /\ pc' = "compute" /\ next' = None
      /\ UNCHANGED <<now, manager_start, fired>>
  BY DEF persist, TypeInv, Deadline, FireInv, FreshNext, Remembered, Storing, history
<1>2. f \in Nat /\ f * Second \in Nat /\ f * Second <= next.at
  <2>1. f \in Nat /\ fraction(next.at) \in Nat /\ next.at = f * Second + fraction(next.at)
    BY <1>1, Division
  <2>2. f * Second \in Nat
    BY <2>1, Whole
  <2> QED BY <2>1, <2>2, SecondType
<1>3. \A r \in Timers : /\ last_fires'[r] = IF r = t THEN next.at ELSE last_fires[r]
                        /\ stamp'[r] \in {stamp[r], f} /\ (r # t => stamp'[r] = stamp[r])
  BY <1>1 DEF persist, TypeInv
<1>4. now \in Nat /\ None \notin Nat
  BY TimerAssumption DEF TypeInv
<1>5. \A r \in Timers : Storing(r) <=> r = t
  BY <1>1 DEF Storing
<1> HIDE DEF t, f
<1>6. StampPast'
  BY <1>1, <1>2, <1>3, <1>4 DEF FireInv, StampPast
<1>7. Remembered'
  <2>1. \A r \in Timers : fired'[r] <= now' /\ ~Storing(r)'
    BY <1>1 DEF FireInv, Remembered, Storing
  <2>2. \A r \in Timers : last_fires'[r] # None => fired'[r] <= last_fires'[r]
    BY <1>1, <1>3, <1>5 DEF FireInv, Remembered
  <2>3. \A r \in Timers : last_fires'[r] = None => r # t
    BY <1>1, <1>3, <1>4
  <2>4. \A r \in Timers : last_fires'[r] = None /\ stamp'[r] # None =>
                            fired'[r] < stamp'[r] * Second + Second
    BY <1>1, <1>3, <1>5, <2>3 DEF FireInv, Remembered
  <2>5. \A r \in Timers : last_fires'[r] = None /\ stamp'[r] = None => fired'[r] <= manager_start'
    BY <1>1, <1>3, <1>5, <2>3 DEF FireInv, Remembered
  <2> QED BY <2>1, <2>2, <2>4, <2>5 DEF Remembered
<1>8. FreshNext'
  BY <1>1 DEF FreshNext
<1> QED BY <1>6, <1>7, <1>8 DEF FireInv

\* A first stamp is of now, after all that the timer has been fired for.
LEMMA NewStamp ==
  ASSUME TypeInv, FireInv, UNCHANGED <<now, next, last_fires, fired>>,
         \/ UNCHANGED <<pc, manager_start>>
         \/ pc = "down" /\ manager_start' = now,
         \A r \in Timers : Storing(r)' = Storing(r),
         \A r \in Timers : stamp'[r] = stamp[r] \/ (stamp[r] = None /\ stamp'[r] = floor(now))
  PROVE  StampPast' /\ Remembered'
<1>1. /\ now \in Nat /\ floor(now) \in Nat /\ floor(now) * Second \in Nat
      /\ floor(now) * Second <= now /\ now < floor(now) * Second + Second /\ None \notin Nat
  <2>1. now \in Nat
    BY DEF TypeInv
  <2>2. /\ floor(now) \in Nat /\ fraction(now) \in Nat /\ fraction(now) < Second
        /\ now = floor(now) * Second + fraction(now)
    BY <2>1, Division
  <2>3. floor(now) * Second \in Nat
    BY <2>2, Whole
  <2> QED BY <2>1, <2>2, <2>3, SecondType, TimerAssumption
<1>2. \A r \in Timers : fired[r] \in Nat /\ fired[r] <= now
  BY DEF TypeInv, FireInv, Remembered
<1>3. StampPast'
  BY <1>1 DEF FireInv, StampPast
<1>4. \A r \in Timers : last_fires[r] = None /\ stamp'[r] # None =>
                          fired[r] < stamp'[r] * Second + Second \/ Storing(r)
  <2> SUFFICES ASSUME NEW r \in Timers, last_fires[r] = None, stamp'[r] # None
               PROVE  fired[r] < stamp'[r] * Second + Second \/ Storing(r)
    OBVIOUS
  <2>1. CASE stamp'[r] = stamp[r]
    BY <2>1 DEF FireInv, Remembered
  <2>2. CASE stamp'[r] = floor(now)
    <3>1. fired[r] \in Nat /\ fired[r] <= now
      BY <1>2
    <3>2. fired[r] < floor(now) * Second + Second
      BY <1>1, <3>1, SecondType
    <3> QED BY <2>2, <3>2
  <2> QED BY <2>1, <2>2
<1>5. \A r \in Timers : last_fires[r] = None /\ stamp'[r] = None /\ pc' # "down" =>
                          fired[r] <= manager_start' \/ Storing(r)
  BY <1>1, <1>2 DEF FireInv, Remembered
<1>6. Remembered'
  BY <1>2, <1>4, <1>5 DEF FireInv, Remembered
<1> QED BY <1>3, <1>6

LEMMA StartFire ==
  ASSUME TypeInv, FireInv, NEW t \in Timers, start_timer(t)
  PROVE  FireInv'
<1>1. UNCHANGED <<now, pc, next, manager_start, last_fires, fired>>
  BY DEF start_timer, scheduler
<1>2. PICK failed \in BOOLEAN : stamp' = [stamp EXCEPT ![t] = stamped(t, failed)]
  BY DEF start_timer
<1>3. /\ \A r \in Timers : stamp'[r] = IF r = t THEN stamped(t, failed) ELSE stamp[r]
      /\ \A r \in Timers : Storing(r)' = Storing(r)
  BY <1>1, <1>2 DEF TypeInv, Storing
<1>4. \A r \in Timers : stamp'[r] = stamp[r] \/ (stamp[r] = None /\ stamp'[r] = floor(now))
  BY <1>3, StampedType DEF TypeInv
<1>5. StampPast' /\ Remembered'
  BY <1>1, <1>3, <1>4, NewStamp
<1>6. FreshNext'
  BY <1>1 DEF FireInv, FreshNext, instants, Drifts
<1> QED BY <1>5, <1>6 DEF FireInv

LEMMA BootFire ==
  ASSUME TypeInv, FireInv, boot
  PROVE  FireInv'
<1>1. pc = "down" /\ pc' = "compute" /\ manager_start' = now
      /\ UNCHANGED <<now, next, last_fires, fired>>
  BY DEF boot
<1>2. PICK failed \in SUBSET Enabled :
        stamp' = [t \in Timers |-> IF t \in Enabled THEN stamped(t, t \in failed) ELSE stamp[t]]
  BY DEF boot
<1>3. \A r \in Timers : stamp'[r] = stamp[r] \/ (stamp[r] = None /\ stamp'[r] = floor(now))
  <2>1. now \in Nat /\ \A r \in Timers : (r \in failed) \in BOOLEAN
    BY DEF TypeInv
  <2> QED BY <1>2, <2>1, StampedType DEF TypeInv
<1>4. \A r \in Timers : Storing(r)' = Storing(r)
  BY <1>1 DEF Storing
<1>5. StampPast' /\ Remembered'
  BY <1>1, <1>3, <1>4, NewStamp
<1>6. FreshNext'
  BY <1>1 DEF FreshNext
<1> QED BY <1>5, <1>6 DEF FireInv

\* A crash takes back what the stamp files do not hold: it may be fired for again.
LEMMA CrashFire ==
  ASSUME TypeInv, FireInv, crash
  PROVE  FireInv'
<1>1. /\ pc' = "down" /\ next' = None /\ UNCHANGED <<now, stamp>>
      /\ \A r \in Timers : /\ last_fires'[r] = None /\ ~Storing(r)'
                           /\ fired'[r] = IF stamp[r] = None THEN fired[r] ELSE stamp[r] * Second
  BY DEF crash, Storing, told
<1>2. \A r \in Timers : stamp[r] # None => stamp[r] * Second \in Nat /\ stamp[r] * Second <= now
  BY Whole DEF TypeInv, FireInv, StampPast
<1>3. StampPast'
  BY <1>1, <1>2 DEF StampPast
<1>4. Remembered'
  <2>1. \A r \in Timers : fired'[r] <= now
    BY <1>1, <1>2 DEF FireInv, Remembered
  <2>2. \A r \in Timers : stamp[r] # None => fired'[r] < stamp[r] * Second + Second
    BY <1>1, <1>2, SecondType
  <2> QED BY <1>1, <2>1, <2>2 DEF Remembered
<1>5. FreshNext'
  BY <1>1 DEF FreshNext
<1> QED BY <1>3, <1>4, <1>5 DEF FireInv

LEMMA StepFire == TypeInv /\ FireInv /\ [Next]_vars => FireInv'
<1> SUFFICES ASSUME TypeInv, FireInv, [Next]_vars PROVE FireInv'
  OBVIOUS
<1>1. CASE compute_next
  BY <1>1, ComputeFire
<1>2. CASE wake
  BY <1>2, WakeFire
<1>3. CASE fire
  BY <1>3, FireFire
<1>4. CASE persist
  BY <1>4, PersistFire
<1>5. CASE \E t \in Timers : start_timer(t)
  BY <1>5, StartFire
<1>6. CASE boot
  BY <1>6, BootFire
<1>7. CASE crash
  BY <1>7, CrashFire
<1>8. CASE \/ tick \/ hold_lock \/ release_lock \/ UNCHANGED vars
           \/ \E t \in Timers : stop_timer(t)
           \/ \E u \in Targets : target_changes(u) \/ unit_removed(u)
  <2>1. now \in Nat
    BY DEF TypeInv
  <2>2. now' \in Nat /\ now' >= now /\ UNCHANGED <<pc, next, manager_start, last_fires, stamp, fired>>
    <3>1. now' \in {now, now + 1} /\ UNCHANGED scheduler
      BY <1>8 DEF tick, hold_lock, release_lock, vars, stop_timer, target_changes, unit_removed
    <3>2. UNCHANGED <<stamp, fired>>
      BY <1>8 DEF tick, hold_lock, release_lock, vars, stop_timer, target_changes, unit_removed, history
    <3> QED BY <2>1, <3>1, <3>2 DEF scheduler
  <2> QED BY <2>1, <2>2, SameFire
<1>9. CASE receive_refresh \/ handle_event \/ handle_lag \/ flip_to_waiting
  <2>1. now \in Nat
    BY DEF TypeInv
  <2>2. /\ pc \in {"select", "flip"} /\ pc' \in {"compute", "flip"} /\ next' \in {None, next}
        /\ UNCHANGED <<now, manager_start, last_fires, stamp, fired>>
    BY <1>9 DEF receive_refresh, handle_event, handle_lag, flip_to_waiting, history
  <2> QED BY <2>1, <2>2, SameFire
<1> QED BY <1>1, <1>2, <1>3, <1>4, <1>5, <1>6, <1>7, <1>8, <1>9 DEF Next, Scheduler

LEMMA FiresOnce ==
  ASSUME TypeInv, FireInv
  PROVE  pc = "fire" /\ pc' = "stamp" /\ ~Drifts(next.timer) =>
           \E i \in instants(next.timer) : fired[next.timer] < i /\ i <= next.at /\ i <= now
<1> SUFFICES ASSUME pc = "fire", ~Drifts(next.timer)
             PROVE  \E i \in instants(next.timer) : fired[next.timer] < i /\ i <= next.at /\ i <= now
  OBVIOUS
<1>1. /\ next.timer \in Timers /\ next.at \in Nat /\ now \in Nat /\ manager_start \in Nat
      /\ next.at <= now
  BY DEF TypeInv, Deadline, FireInv, FreshNext
<1>2. PICK i \in instants(next.timer) : fired[next.timer] < i /\ i <= next.at
  BY DEF FireInv, FreshNext, TypeInv
<1>3. i \in Nat
  <2>1. \A c \in Calendars[next.timer] : \A s \in c.at : s * Second \in Nat
    BY <1>1, InstantType
  <2>2. \A d \in Startup[next.timer] : manager_start + d \in Nat
    BY <1>1, TimerAssumption
  <2> QED BY <2>1, <2>2 DEF instants
<1> QED BY <1>1, <1>2, <1>3

\* A timer that does not drift fires only for an instant that it has not fired for
\* yet, across requests, recomputations, stamps that cannot be written, crashes and
\* restarts (timer/mod.rs:64-85, firing.rs:29-33), except for what a crash takes back
\* because no stamp file holds it.
THEOREM FiresOnceForEach == Spec => EachInstantOnce
<1>1. TypeInv /\ FireInv /\ [Next]_vars => FireInv'
  BY StepFire
<1>2. TypeInv /\ FireInv =>
        [pc = "fire" /\ pc' = "stamp" /\ ~Drifts(next.timer) =>
           \E i \in instants(next.timer) :
              fired[next.timer] < i /\ i <= next.at /\ i <= now]_vars
  BY FiresOnce
<1> QED BY <1>1, <1>2, InitTypes, StepTypes, InitFire, PTL DEF Spec, EachInstantOnce

-----------------------------------------------------------------------------
(* OnCalendar: the search of a line's next and previous instant             *)

(* Numbers                                                                 *)

\* Quotient and remainder.
LEMMA DivMod ==
  ASSUME NEW a \in Nat, NEW b \in Nat \ {0}
  PROVE  a \div b \in Nat /\ a % b \in 0 .. b - 1 /\ a = b * (a \div b) + (a % b)
OBVIOUS

\* ... and that there is only one of each.
LEMMA DivUnique ==
  ASSUME NEW b \in Nat \ {0}, NEW q \in Nat, NEW r \in 0 .. b - 1
  PROVE  (b * q + r) \div b = q /\ (b * q + r) % b = r
OBVIOUS

\* A multiple of no more is no more,
LEMMA MulMono ==
  ASSUME NEW a \in Nat, NEW b \in Nat, NEW c \in Nat, a <= b
  PROVE  c * a <= c * b /\ c * a \in Nat /\ c * b \in Nat
OBVIOUS

\* ... and one of less is less by a whole step.
LEMMA MulStep ==
  ASSUME NEW a \in Nat, NEW b \in Nat, NEW c \in Nat, a < b
  PROVE  c * a + c <= c * b /\ c * a \in Nat /\ c * b \in Nat
OBVIOUS

\* The least of some numbers.
LEMMA MinNat ==
  ASSUME NEW S, S \subseteq Nat, S # {}
  PROVE  Min(S) \in S /\ \A n \in S : Min(S) <= n
<1>1. PICK m \in S : \A n \in S : m <= n
  BY LeastNat
<1>2. Min(S) = CHOOSE x \in S : \A y \in S : x <= y
  BY DEF Min
<1>3. QED
  BY <1>1, <1>2

-----------------------------------------------------------------------------
(* Days and instants                                                       *)

Hour == Minutes * Seconds
DayNo(u) == (u \div DaySeconds) + 1
Instants == 0 .. End - 1

\* The sizes of days and hours, and of the calendar.
LEMMA Sizes ==
  /\ {Hours, Minutes, Seconds, Week, Months, Hour, DaySeconds} \subseteq Nat \ {0}
  /\ DaySeconds = Hours * Hour /\ Hour = Seconds * Minutes
  /\ Len(Days) \in Nat \ {0} /\ DOMAIN Days = 1 .. Len(Days)
  /\ End = DaySeconds * Len(Days) /\ End \in Nat
<1>1. {Hours, Minutes, Seconds, Week, Months} \subseteq Nat \ {0}
  BY CalendarAssumption
<1>2. Hour \in Nat \ {0} /\ Hour = Seconds * Minutes
  BY <1>1 DEF Hour
<1>3. DaySeconds = Hours * Hour
  BY <1>1 DEF Hour, DaySeconds
<1>4. DaySeconds \in Nat \ {0}
  BY <1>1, <1>2, <1>3
<1>5. Len(Days) \in Nat \ {0} /\ DOMAIN Days = 1 .. Len(Days)
  BY DaysAssumption
<1>6. End = DaySeconds * Len(Days) /\ End \in Nat
  BY <1>4, <1>5 DEF End
<1>7. QED
  BY <1>1, <1>2, <1>3, <1>4, <1>5, <1>6

\* Which day an instant is on, and how far that day has come.
LEMMA InDay ==
  ASSUME NEW u \in Instants
  PROVE  /\ u \in Nat /\ DayNo(u) \in DOMAIN Days /\ DayOf(u) = Days[DayNo(u)]
         /\ u % DaySeconds \in 0 .. DaySeconds - 1
         /\ DayStart(u) = DaySeconds * (DayNo(u) - 1)
         /\ DayStart(u) \in Nat
         /\ u = DayStart(u) + (u % DaySeconds)
<1> DEFINE D == DaySeconds
           q == u \div D
<1>1. D \in Nat \ {0} /\ Len(Days) \in Nat \ {0} /\ DOMAIN Days = 1 .. Len(Days)
      /\ End = D * Len(Days) /\ End \in Nat
  BY Sizes
<1>2. u \in Nat /\ u < D * Len(Days)
  BY <1>1 DEF Instants
<1>3. q \in Nat /\ u % D \in 0 .. D - 1 /\ u = D * q + (u % D)
  BY <1>1, <1>2, DivMod
<1>4. q < Len(Days)
  <2> SUFFICES ASSUME Len(Days) <= q PROVE FALSE
    BY <1>1, <1>3
  <2>1. D * Len(Days) <= D * q /\ D * q \in Nat
    BY <1>1, <1>3, MulMono
  <2> HIDE DEF q, D
  <2>2. QED
    BY <2>1, <1>1, <1>2, <1>3
<1>5. DayNo(u) = q + 1
  BY DEF DayNo
<1>6. DayNo(u) \in DOMAIN Days /\ DayNo(u) - 1 = q
  <2> HIDE DEF q, D
  <2> QED BY <1>1, <1>3, <1>4, <1>5
<1>7. DayStart(u) = u - (u % D)
  BY DEF DayStart
<1>8. DayOf(u) = Days[DayNo(u)]
  BY DEF DayOf, DayNo
<1> HIDE DEF q, D
<1>9. D * q \in Nat
  BY <1>1, <1>3, MulMono
<1>10. D * (DayNo(u) - 1) = D * q
  BY <1>6
<1>11. DayStart(u) = D * q
  BY <1>2, <1>3, <1>7, <1>9
<1>12. QED
  BY <1>2, <1>3, <1>6, <1>8, <1>9, <1>10, <1>11 DEF D

\* The days as they are assumed.
LEMMA DayTypes ==
  ASSUME NEW i \in DOMAIN Days
  PROVE  /\ Days[i] \in Nat \X (1 .. Months) \X (Nat \ {0})
         /\ Days[i][1] \in Nat /\ Days[i][2] \in 1 .. Months /\ Days[i][3] \in Nat \ {0}
         /\ Days[i] = <<Days[i][1], Days[i][2], Days[i][3]>>
         /\ i \in Nat \ {0} /\ i <= Len(Days) /\ Months \in Nat
<1>1. Days \in Seq(Nat \X (1 .. Months) \X (Nat \ {0}))
  BY DaysAssumption
<1>2. Days[i] \in Nat \X (1 .. Months) \X (Nat \ {0})
  BY <1>1
<1>3. i \in Nat \ {0} /\ i <= Len(Days)
  BY <1>1
<1>4. Months \in Nat
  BY CalendarAssumption
<1>5. QED
  BY <1>2, <1>3, <1>4

\* Later instants are on later days, or on the same one.
LEMMA DaysFollow ==
  ASSUME NEW u \in Instants, NEW v \in Instants, u <= v
  PROVE  /\ DayNo(u) <= DayNo(v)
         /\ DayNo(u) = DayNo(v) \/ Before(DayOf(u), DayOf(v))
<1> DEFINE D == DaySeconds
<1>1. D \in Nat \ {0}
  BY Sizes
<1>2. /\ DayNo(u) \in DOMAIN Days /\ DayNo(v) \in DOMAIN Days
      /\ DayNo(u) \in Nat \ {0} /\ DayNo(v) \in Nat \ {0}
      /\ DayOf(u) = Days[DayNo(u)] /\ DayOf(v) = Days[DayNo(v)]
      /\ u = DayStart(u) + (u % D) /\ v = DayStart(v) + (v % D)
      /\ DayStart(u) = D * (DayNo(u) - 1) /\ DayStart(v) = D * (DayNo(v) - 1)
      /\ u % D \in 0 .. D - 1 /\ v % D \in 0 .. D - 1
  BY InDay, DayTypes
<1>3. DayNo(u) <= DayNo(v)
  <2> SUFFICES ASSUME DayNo(v) < DayNo(u) PROVE FALSE
    BY <1>2
  <2> DEFINE a == DayNo(v) - 1
             b == DayNo(u) - 1
  <2>1. a \in Nat /\ b \in Nat /\ a < b
    BY <1>2
  <2>2. D * a + D <= D * b /\ D * a \in Nat /\ D * b \in Nat
    <3> HIDE DEF a, b, D
    <3> QED BY <1>1, <2>1, MulStep
  <2>3. v = D * a + (v % D) /\ u = D * b + (u % D)
    BY <1>2
  <2> HIDE DEF a, b, D
  <2>4. QED
    BY <1>1, <1>2, <2>2, <2>3
<1>4. DayNo(u) < DayNo(v) => Before(Days[DayNo(u)], Days[DayNo(v)])
  BY <1>2, DaysAssumption
<1>5. QED
  BY <1>2, <1>3, <1>4

\* The days are in one order, and each is there once.
LEMMA Ordered ==
  ASSUME NEW i \in DOMAIN Days, NEW j \in DOMAIN Days
  PROVE  /\ i < j => Before(Days[i], Days[j])
         /\ ~(Before(Days[i], Days[j]) /\ Before(Days[j], Days[i]))
         /\ ~Before(Days[i], Days[i])
         /\ Days[i] = Days[j] => i = j
<1>1. i < j => Before(Days[i], Days[j])
  BY DaysAssumption
<1>2. j < i => Before(Days[j], Days[i])
  BY DaysAssumption
<1>3. /\ Days[i][1] \in Nat /\ Days[i][2] \in Nat /\ Days[i][3] \in Nat /\ i \in Nat
      /\ Days[j][1] \in Nat /\ Days[j][2] \in Nat /\ Days[j][3] \in Nat /\ j \in Nat
  BY DayTypes
<1>4. /\ ~(Before(Days[i], Days[j]) /\ Before(Days[j], Days[i]))
      /\ ~Before(Days[i], Days[i])
  BY <1>3 DEF Before
<1>5. QED
  BY <1>1, <1>2, <1>3, <1>4

\* at_day_start finds the day, or says that the calendar has ended.
LEMMA AtDay ==
  ASSUME NEW y, NEW m, NEW d
  PROVE  /\ <<y, m, d>> \notin Range(Days) => at_day_start(y, m, d) = End
         /\ \A i \in DOMAIN Days : Days[i] = <<y, m, d>> =>
              at_day_start(y, m, d) = DaySeconds * (i - 1)
<1>1. <<y, m, d>> \notin Range(Days) => at_day_start(y, m, d) = End
  BY DEF at_day_start
<1>2. ASSUME NEW i \in DOMAIN Days, Days[i] = <<y, m, d>>
      PROVE  at_day_start(y, m, d) = DaySeconds * (i - 1)
  <2>1. <<y, m, d>> \in Range(Days)
    BY <1>2 DEF Range
  <2>2. {j \in DOMAIN Days : Days[j] \in {<<y, m, d>>}} = {i}
    BY <1>2, Ordered
  <2>3. FirstOf({<<y, m, d>>}) = {(i - 1) * DaySeconds}
    BY <2>2, Zenon DEF FirstOf
  <2>4. i - 1 \in Nat /\ DaySeconds \in Nat
    <3>1. i \in Nat \ {0}
      BY DayTypes
    <3>2. DaySeconds \in Nat
      BY Sizes
    <3>3. QED
      BY <3>1, <3>2
  <2>5. (i - 1) * DaySeconds = DaySeconds * (i - 1) /\ DaySeconds * (i - 1) \in Nat
    <3> DEFINE a == i - 1
    <3> HIDE DEF a
    <3> QED BY <2>4
  <2>6. at_day_start(y, m, d) = Min({DaySeconds * (i - 1)})
    BY <2>1, <2>3, <2>5 DEF at_day_start
  <2>7. Min({DaySeconds * (i - 1)}) \in {DaySeconds * (i - 1)}
    <3> DEFINE a == DaySeconds * (i - 1)
    <3>1. {a} \subseteq Nat /\ {a} # {}
      BY <2>5
    <3> HIDE DEF a
    <3>2. QED
      BY <3>1, MinNat DEF a
  <2>8. QED
    BY <2>6, <2>7
<1>3. QED
  BY <1>1, <1>2

\* A jump to the start of a later day passes nothing that is on that day or after it.
LEMMA Jump ==
  ASSUME NEW u \in Instants, NEW y \in Nat, NEW m \in Nat, NEW d \in Nat,
         Before(DayOf(u), <<y, m, d>>)
  PROVE  /\ at_day_start(y, m, d) \in Nat /\ u < at_day_start(y, m, d)
         /\ \A v \in Instants :
              <<y, m, d>> \in Range(Days) /\ ~Before(DayOf(v), <<y, m, d>>) =>
                at_day_start(y, m, d) <= v
<1> DEFINE D == DaySeconds
           at == at_day_start(y, m, d)
<1>1. D \in Nat \ {0} /\ End \in Nat
  BY Sizes
<1>2. \A v \in Instants :
        /\ DayNo(v) \in DOMAIN Days /\ DayNo(v) \in Nat \ {0} /\ DayOf(v) = Days[DayNo(v)]
        /\ v \in Nat /\ v = D * (DayNo(v) - 1) + (v % D) /\ v % D \in 0 .. D - 1
  BY InDay, DayTypes
<1>3. CASE <<y, m, d>> \notin Range(Days)
  <2>1. at = End
    BY <1>3, AtDay
  <2>2. QED
    BY <1>1, <1>3, <2>1 DEF Instants
<1>4. CASE <<y, m, d>> \in Range(Days)
  <2>1. PICK i \in DOMAIN Days : Days[i] = <<y, m, d>>
    BY <1>4 DEF Range
  <2>2. at = D * (i - 1) /\ i \in Nat \ {0}
    BY <2>1, AtDay, DayTypes
  <2>3. DayNo(u) < i
    <3>1. ~Before(Days[i], Days[DayNo(u)]) /\ i # DayNo(u)
      BY <1>2, <2>1, Ordered
    <3>2. i < DayNo(u) => Before(Days[i], Days[DayNo(u)])
      BY <1>2, Ordered
    <3>3. QED
      BY <3>1, <3>2, <2>2, <1>2
  <2>4. u < at /\ at \in Nat
    <3> DEFINE a == DayNo(u) - 1
               b == i - 1
    <3>1. a \in Nat /\ b \in Nat /\ a < b
      BY <1>2, <2>2, <2>3
    <3>2. D * a + D <= D * b /\ D * a \in Nat /\ D * b \in Nat
      <4> HIDE DEF a, b, D
      <4> QED BY <1>1, <3>1, MulStep
    <3>3. u = D * a + (u % D) /\ at = D * b /\ u % D \in 0 .. D - 1
      BY <1>2, <2>2
    <3> HIDE DEF a, b, D, at
    <3>4. QED
      BY <1>1, <3>2, <3>3
  <2>5. ASSUME NEW v \in Instants, ~Before(DayOf(v), <<y, m, d>>) PROVE at <= v
    <3>1. ~Before(Days[DayNo(v)], Days[i])
      BY <1>2, <2>1, <2>5
    <3>2. i <= DayNo(v)
      BY <1>2, <2>2, <3>1, Ordered
    <3> DEFINE a == i - 1
               b == DayNo(v) - 1
    <3>3. a \in Nat /\ b \in Nat /\ a <= b
      BY <1>2, <2>2, <3>2
    <3>4. D * a <= D * b /\ D * a \in Nat /\ D * b \in Nat
      <4> HIDE DEF a, b, D
      <4> QED BY <1>1, <3>3, MulMono
    <3>5. v = D * b + (v % D) /\ at = D * a /\ v % D \in 0 .. D - 1
      BY <1>2, <2>2
    <3> HIDE DEF a, b, D, at
    <3>6. QED
      BY <1>1, <3>4, <3>5
  <2>6. QED
    BY <2>4, <2>5
<1>5. QED
  BY <1>3, <1>4

\* The first days of the months up to a day's are there.
LEMMA MonthThere ==
  ASSUME NEW u \in Instants, NEW v \in Instants, NEW y \in Nat, NEW m \in 1 .. Months,
         year(u) <= y, y < year(v) \/ (y = year(v) /\ m <= month(v))
  PROVE  <<y, m, 1>> \in Range(Days)
<1>1. /\ DayNo(u) \in DOMAIN Days /\ year(u) = Days[DayNo(u)][1]
      /\ DayNo(v) \in DOMAIN Days /\ year(v) = Days[DayNo(v)][1] /\ month(v) = Days[DayNo(v)][2]
  BY InDay DEF year, month
<1>2. FirstYear \in Nat /\ FirstYear <= year(u)
  <2>1. Years \subseteq Nat
    BY DayTypes DEF Years
  <2>2. year(u) \in Years
    BY <1>1 DEF Years
  <2>3. QED
    BY <2>1, <2>2, MinNat DEF FirstYear
<1>3. year(u) \in Nat /\ year(v) \in Nat
  BY <1>1, DayTypes
<1>4. y \in FirstYear .. Days[DayNo(v)][1]
  BY <1>1, <1>2, <1>3
<1>5. QED
  BY <1>1, <1>4, DaysAssumption

\* The days of a month are counted from 1 without gaps.
LEMMA DaysInMonth ==
  ASSUME NEW y \in Nat, NEW m \in Nat
  PROVE  /\ days_in_month(y, m) \in Nat
         /\ \A d \in Nat \ {0} : d <= days_in_month(y, m) <=> <<y, m, d>> \in Range(Days)
<1> DEFINE I == {i \in DOMAIN Days : Days[i][1] = y /\ Days[i][2] = m}
           E == {d \in Nat \ {0} : <<y, m, d>> \in Range(Days)}
           f == [i \in I |-> Days[i][3]]
<1>1. days_in_month(y, m) = Cardinality(I)
  BY DEF days_in_month, Cardinality
<1>2. \A i \in I : i \in DOMAIN Days /\ Days[i] = <<y, m, Days[i][3]>> /\ Days[i][3] \in Nat \ {0}
  BY DayTypes
<1>3. f \in [I -> E]
  BY <1>2 DEF Range
<1>4. \A i, j \in I : f[i] = f[j] => i = j
  <2> TAKE i, j \in I
  <2> HAVE f[i] = f[j]
  <2>1. Days[i] = Days[j] /\ i \in DOMAIN Days /\ j \in DOMAIN Days
    BY <1>2
  <2>2. QED
    BY <2>1, Ordered
<1>5. \A d \in E : \E i \in I : f[i] = d
  <2> TAKE d \in E
  <2>1. PICK i \in DOMAIN Days : Days[i] = <<y, m, d>>
    BY DEF Range
  <2>2. i \in I /\ f[i] = d
    BY <2>1
  <2>3. QED
    BY <2>2
<1>6. IsFiniteSet(I)
  <2>1. IsFiniteSet(1 .. Len(Days)) /\ DOMAIN Days = 1 .. Len(Days)
    BY Sizes, FS_Interval
  <2>2. I \in SUBSET (1 .. Len(Days))
    BY <2>1
  <2> HIDE DEF I
  <2>3. QED
    BY <2>1, <2>2, FS_Subset
<1>7. ExistsBijection(I, E)
  <2> HIDE DEF I, E
  <2>1. f \in Bijection(I, E)
    <3>1. f \in Injection(I, E)
      <4>1. IsInjective(f)
        BY <1>3, <1>4 DEF IsInjective
      <4> HIDE DEF f
      <4>2. QED
        BY <1>3, <4>1 DEF Injection
    <3>2. f \in Surjection(I, E)
      <4> HIDE DEF f
      <4>2. QED
        BY <1>3, <1>5 DEF Surjection
    <3>3. QED
      BY <3>1, <3>2 DEF Bijection
  <2>2. QED
    BY <2>1 DEF ExistsBijection
<1>8. IsFiniteSet(E) /\ Cardinality(E) = Cardinality(I)
  <2> HIDE DEF I, E
  <2> QED BY <1>6, <1>7, FS_Bijection
<1>9. \A d \in E : \A e \in 1 .. d : e \in E
  <2> TAKE d \in E
  <2>1. PICK i \in DOMAIN Days : Days[i] = <<y, m, d>>
    BY DEF Range
  <2>2. \A e \in 1 .. d : <<y, m, e>> \in Range(Days)
    <3>1. Days[i][1] = y /\ Days[i][2] = m /\ Days[i][3] = d
      BY <2>1
    <3>2. QED
      BY <3>1, Zenon, DaysAssumption
  <2>3. QED
    BY <2>2
<1>10. \E n \in Nat : E = 1 .. n
  <2>1. CASE E = {}
    <3>1. E = 1 .. 0
      <4> HIDE DEF E
      <4> QED BY <2>1
    <3>2. QED
      BY <3>1, Zenon
  <2>2. CASE E # {}
    <3>1. \E n \in Nat : E \subseteq 0 .. n
      <4> DEFINE k == Cardinality(E)
      <4>1. k \in Nat
        BY <1>8, FS_CardinalityType
      <4>2. \A d \in E : d <= k
        <5> TAKE d \in E
        <5>1. 1 .. d \in SUBSET E /\ d \in Nat \ {0}
          BY <1>9
        <5> HIDE DEF E, k
        <5>2. Cardinality(1 .. d) <= k
          BY <5>1, <1>8, FS_Subset DEF k
        <5>3. Cardinality(1 .. d) = d
          BY <5>1, FS_Interval
        <5>4. QED
          BY <5>2, <5>3
      <4>3. E \subseteq 0 .. k
        <5>1. E \subseteq Nat
          OBVIOUS
        <5> HIDE DEF E, k
        <5> QED BY <4>1, <4>2, <5>1
      <4> HIDE DEF E, k
      <4>4. QED
        BY <4>1, <4>3
    <3>2. PICK n \in Nat : E \subseteq 0 .. n
      BY <3>1
    <3>3. PICK d \in E : \A e \in E : d >= e
      <4> HIDE DEF E
      <4> QED BY <2>2, <3>2, Greatest
    <3>4. \A e \in E : e \in 1 .. d
      BY <3>3
    <3>5. E = 1 .. d /\ d \in Nat
      BY <1>9, <3>4, <3>3
    <3>6. QED
      BY <3>5, Zenon
  <2>3. QED
    BY <2>1, <2>2
<1>11. PICK n \in Nat : E = 1 .. n
  BY <1>10
<1>12. days_in_month(y, m) = n
  <2>1. Cardinality(1 .. n) = n
    BY FS_Interval
  <2> HIDE DEF I, E
  <2>2. QED
    BY <1>1, <1>8, <1>11, <2>1
<1>13. \A d \in Nat \ {0} : d \in E <=> <<y, m, d>> \in Range(Days)
  OBVIOUS
<1> HIDE DEF E, I
<1>14. QED
  BY <1>11, <1>12, <1>13

-----------------------------------------------------------------------------
(* Jumps to a later day                                                    *)

\* The year, month and day of an instant.
LEMMA FieldTypes ==
  ASSUME NEW u \in Instants
  PROVE  /\ year(u) \in Nat /\ month(u) \in 1 .. Months /\ day(u) \in Nat \ {0}
         /\ DayOf(u) = <<year(u), month(u), day(u)>>
         /\ DayOf(u) \in Range(Days)
         /\ Months \in Nat \ {0} /\ u \in Nat
<1>1. DayNo(u) \in DOMAIN Days /\ DayOf(u) = Days[DayNo(u)] /\ u \in Nat
  BY InDay
<1>2. Months \in Nat \ {0}
  BY Sizes
<1>3. QED
  BY <1>1, <1>2, DayTypes DEF year, month, day, Range

\* What a later instant is later in.
LEMMA LaterDay ==
  ASSUME NEW u \in Instants, NEW v \in Instants, u <= v
  PROVE  \/ year(u) < year(v)
         \/ year(u) = year(v) /\ month(u) < month(v)
         \/ /\ year(u) = year(v) /\ month(u) = month(v)
            /\ day(u) < day(v)
         \/ DayNo(u) = DayNo(v) /\ DayOf(u) = DayOf(v)
<1>1. CASE DayNo(u) = DayNo(v)
  BY <1>1, InDay
<1>2. CASE Before(DayOf(u), DayOf(v))
  BY <1>2 DEF Before, year, month, day
<1>3. QED
  BY <1>1, <1>2, DaysFollow

\* The first day of the next year of a set: no later instant of a year of the set is before it
\* (schedule.rs:32-43).
LEMMA SkipYear ==
  ASSUME NEW c \in Instants, NEW Y, Y \subseteq Nat, year(c) \notin Y,
         NEW ys, ys = Later(Y, year(c))
  PROVE  /\ ys # {} => at_year_start(Min(ys)) \in Nat /\ c < at_year_start(Min(ys))
         /\ \A v \in Instants : c <= v /\ year(v) \in Y =>
              ys # {} /\ at_year_start(Min(ys)) <= v
<1>1. ys = {w \in Y : w > year(c)} /\ ys \subseteq Nat
  BY DEF Later
<1>2. \A v \in Instants : c <= v /\ year(v) \in Y => year(v) \in ys
  BY <1>1, LaterDay, FieldTypes
<1>3. CASE ys # {}
  <2> DEFINE y == Min(ys)
  <2>1. y \in ys /\ \A w \in ys : y <= w
    BY <1>1, <1>3, MinNat
  <2>2. y \in Nat /\ year(c) < y
    BY <1>1, <2>1, FieldTypes
  <2> HIDE DEF y
  <2>3. Before(DayOf(c), <<y, 1, 1>>)
    BY <2>2, FieldTypes DEF Before
  <2>4. at_year_start(y) = at_day_start(y, 1, 1)
    BY DEF at_year_start, at_month_start
  <2>5. ASSUME NEW v \in Instants, c <= v, year(v) \in Y
        PROVE  <<y, 1, 1>> \in Range(Days) /\ ~Before(DayOf(v), <<y, 1, 1>>)
    <3>1. y <= year(v) /\ year(c) <= y
      BY <1>2, <2>1, <2>2, <2>5, FieldTypes
    <3>2. /\ year(v) \in Nat /\ month(v) \in 1 .. Months /\ day(v) \in Nat \ {0}
          /\ DayOf(v) = <<year(v), month(v), day(v)>> /\ Months \in Nat \ {0}
      BY FieldTypes
    <3>3. ~Before(DayOf(v), <<y, 1, 1>>)
      BY <2>2, <3>1, <3>2 DEF Before
    <3>4. <<y, 1, 1>> \in Range(Days)
      BY <2>2, <3>1, <3>2, MonthThere
    <3>5. QED
      BY <3>3, <3>4
  <2>6. QED
    BY <1>3, <2>2, <2>3, <2>4, <2>5, Jump DEF y
<1>4. QED
  BY <1>2, <1>3

\* The first day of the next month of a set (schedule.rs:44-70).
LEMMA SkipMonth ==
  ASSUME NEW c \in Instants, NEW M, M \subseteq 1 .. Months, month(c) \notin M,
         NEW ms, ms = Later(M, month(c)),
         NEW to, to = IF ms = {} THEN at_year_start(year(c) + 1)
                      ELSE at_month_start(year(c), Min(ms))
  PROVE  /\ to \in Nat /\ c < to
         /\ \A v \in Instants : c <= v /\ month(v) \in M => to <= v
<1>1. ms = {w \in M : w > month(c)} /\ ms \subseteq 1 .. Months
  BY DEF Later
<1>2. /\ year(c) \in Nat /\ month(c) \in 1 .. Months /\ Months \in Nat \ {0}
      /\ DayOf(c) = <<year(c), month(c), day(c)>>
  BY FieldTypes
<1>3. \A v \in Instants : c <= v /\ month(v) \in M =>
        year(c) < year(v) \/ (year(c) = year(v) /\ month(v) \in ms)
  BY <1>1, LaterDay, FieldTypes
<1> DEFINE y == IF ms = {} THEN year(c) + 1 ELSE year(c)
           m == IF ms = {} THEN 1 ELSE Min(ms)
<1>4. ms # {} => Min(ms) \in ms /\ \A w \in ms : Min(ms) <= w
  BY <1>1, MinNat
<1>5. /\ y \in Nat /\ m \in 1 .. Months
      /\ year(c) < y \/ (year(c) = y /\ month(c) < m)
  BY <1>1, <1>2, <1>4
<1>6. to = at_day_start(y, m, 1)
  BY DEF at_year_start, at_month_start
<1>7. ASSUME NEW v \in Instants, c <= v, month(v) \in M
      PROVE  y < year(v) \/ (y = year(v) /\ m <= month(v))
  <2>1. year(v) \in Nat /\ month(v) \in 1 .. Months
    BY FieldTypes
  <2>2. QED
    BY <1>2, <1>3, <1>4, <1>7, <2>1
<1> HIDE DEF y, m
<1>8. Before(DayOf(c), <<y, m, 1>>)
  BY <1>2, <1>5 DEF Before
<1>9. ASSUME NEW v \in Instants, c <= v, month(v) \in M
      PROVE  <<y, m, 1>> \in Range(Days) /\ ~Before(DayOf(v), <<y, m, 1>>)
  <2>1. /\ year(v) \in Nat /\ month(v) \in 1 .. Months /\ day(v) \in Nat \ {0}
        /\ DayOf(v) = <<year(v), month(v), day(v)>>
    BY FieldTypes
  <2>2. ~Before(DayOf(v), <<y, m, 1>>)
    BY <1>2, <1>5, <1>7, <1>9, <2>1 DEF Before
  <2>3. year(c) <= y
    BY <1>2, <1>5
  <2>4. <<y, m, 1>> \in Range(Days)
    BY <1>5, <1>7, <1>9, <2>3, MonthThere
  <2>5. QED
    BY <2>2, <2>4
<1>10. m \in Nat
  BY <1>2, <1>5
<1>11. QED
  BY <1>5, <1>6, <1>8, <1>9, <1>10, Jump

\* The first day of the next month passes nothing but the rest of this month.
LEMMA NextMonth ==
  ASSUME NEW c \in Instants,
         NEW to, to = next_month(year(c), month(c))
  PROVE  /\ to \in Nat /\ c < to
         /\ \A v \in Instants :
              c <= v /\ ~(year(v) = year(c) /\ month(v) = month(c)) => to <= v
<1>1. /\ year(c) \in Nat /\ month(c) \in 1 .. Months /\ Months \in Nat \ {0}
      /\ DayOf(c) = <<year(c), month(c), day(c)>>
  BY FieldTypes
<1> DEFINE y == IF month(c) + 1 > Months THEN year(c) + 1 ELSE year(c)
           m == IF month(c) + 1 > Months THEN 1 ELSE month(c) + 1
<1>2. /\ y \in Nat /\ m \in 1 .. Months /\ m \in Nat
      /\ year(c) < y \/ (year(c) = y /\ month(c) < m)
  BY <1>1
<1>3. to = at_day_start(y, m, 1)
  BY DEF next_month, at_year_start, at_month_start
<1>4. ASSUME NEW v \in Instants, c <= v, ~(year(v) = year(c) /\ month(v) = month(c))
      PROVE  y < year(v) \/ (y = year(v) /\ m <= month(v))
  <2>1. year(v) \in Nat /\ month(v) \in 1 .. Months
    BY FieldTypes
  <2>2. year(c) < year(v) \/ (year(c) = year(v) /\ month(c) < month(v))
    BY <1>4, LaterDay DEF year, month
  <2>3. QED
    BY <1>1, <2>1, <2>2
<1> HIDE DEF y, m
<1>5. Before(DayOf(c), <<y, m, 1>>)
  BY <1>1, <1>2 DEF Before
<1>6. ASSUME NEW v \in Instants, c <= v, ~(year(v) = year(c) /\ month(v) = month(c))
      PROVE  <<y, m, 1>> \in Range(Days) /\ ~Before(DayOf(v), <<y, m, 1>>)
  <2>1. /\ year(v) \in Nat /\ month(v) \in 1 .. Months /\ day(v) \in Nat \ {0}
        /\ DayOf(v) = <<year(v), month(v), day(v)>>
    BY FieldTypes
  <2>2. ~Before(DayOf(v), <<y, m, 1>>)
    BY <1>1, <1>2, <1>4, <1>6, <2>1 DEF Before
  <2>3. year(c) <= y
    BY <1>1, <1>2
  <2>4. <<y, m, 1>> \in Range(Days)
    BY <1>2, <1>4, <1>6, <2>3, MonthThere
  <2>5. QED
    BY <2>2, <2>4
<1>7. QED
  BY <1>2, <1>3, <1>5, <1>6, Jump

\* To a day of the same month, which has it.
LEMMA SameMonth ==
  ASSUME NEW c \in Instants, NEW d \in Nat \ {0}, day(c) < d,
         d <= days_in_month(year(c), month(c)),
         NEW to, to = at_day_start(year(c), month(c), d)
  PROVE  /\ to \in Nat /\ c < to
         /\ \A v \in Instants :
              /\ c <= v
              /\ year(v) = year(c) /\ month(v) = month(c) => d <= day(v)
              => to <= v
<1>1. /\ year(c) \in Nat /\ month(c) \in 1 .. Months /\ Months \in Nat \ {0}
      /\ DayOf(c) = <<year(c), month(c), day(c)>> /\ day(c) \in Nat
      /\ month(c) \in Nat
  BY FieldTypes
<1>2. <<year(c), month(c), d>> \in Range(Days)
  BY <1>1, DaysInMonth
<1>3. Before(DayOf(c), <<year(c), month(c), d>>)
  BY <1>1 DEF Before
<1>4. ASSUME NEW v \in Instants, c <= v,
             year(v) = year(c) /\ month(v) = month(c) => d <= day(v)
      PROVE  ~Before(DayOf(v), <<year(c), month(c), d>>)
  <2>1. /\ year(v) \in Nat /\ month(v) \in 1 .. Months /\ day(v) \in Nat \ {0}
        /\ DayOf(v) = <<year(v), month(v), day(v)>>
    BY FieldTypes
  <2>2. \/ year(c) < year(v)
        \/ year(c) = year(v) /\ month(c) < month(v)
        \/ year(c) = year(v) /\ month(c) = month(v)
    BY <1>4, LaterDay DEF year, month
  <2>3. QED
    BY <1>1, <1>4, <2>1, <2>2 DEF Before
<1>5. QED
  BY <1>1, <1>2, <1>3, <1>4, Jump

\* The next day of a set in this month, or the next month (schedule.rs:71-106).
LEMMA SkipDay ==
  ASSUME NEW c \in Instants, NEW E, E \subseteq Nat, day(c) \notin E,
         NEW ds, ds = {d \in Later(E, day(c)) :
                         d <= days_in_month(year(c), month(c))},
         NEW to, to = IF ds = {} THEN next_month(year(c), month(c))
                      ELSE at_day_start(year(c), month(c), Min(ds))
  PROVE  /\ to \in Nat /\ c < to
         /\ \A v \in Instants : c <= v /\ day(v) \in E => to <= v
<1>1. /\ day(c) \in Nat \ {0} /\ year(c) \in Nat /\ month(c) \in 1 .. Months
      /\ month(c) \in Nat
  BY FieldTypes
<1>2. /\ ds \subseteq Nat
      /\ \A d \in ds : day(c) < d /\ d <= days_in_month(year(c), month(c))
  BY DEF Later
<1>3. ASSUME NEW v \in Instants, c <= v, day(v) \in E,
             year(v) = year(c), month(v) = month(c)
      PROVE  day(v) \in ds
  <2>1. /\ day(v) \in Nat \ {0} /\ DayOf(v) = <<year(v), month(v), day(v)>>
        /\ DayOf(v) \in Range(Days)
    BY FieldTypes
  <2>2. day(v) <= days_in_month(year(c), month(c))
    BY <1>1, <1>3, <2>1, DaysInMonth
  <2>3. day(c) <= day(v)
    BY <1>1, <1>3, <2>1, LaterDay DEF day, year, month
  <2>4. day(c) < day(v)
    BY <1>1, <1>3, <2>1, <2>3
  <2>5. QED
    BY <1>3, <2>2, <2>4 DEF Later
<1>4. CASE ds = {}
  BY <1>3, <1>4, NextMonth
<1>5. CASE ds # {}
  <2>1. Min(ds) \in ds /\ \A d \in ds : Min(ds) <= d
    BY <1>2, <1>5, MinNat
  <2>2. Min(ds) \in Nat \ {0} /\ day(c) < Min(ds)
    BY <1>1, <1>2, <2>1
  <2>3. Min(ds) <= days_in_month(year(c), month(c))
    BY <1>2, <2>1
  <2>4. to = at_day_start(year(c), month(c), Min(ds))
    BY <1>5
  <2>5. QED
    BY <1>3, <2>1, <2>2, <2>3, <2>4, SameMonth
<1>6. QED
  BY <1>4, <1>5

\* The next day passes nothing but the rest of this day (schedule.rs:107-137).
LEMMA SkipWeekday ==
  ASSUME NEW c \in Instants,
         NEW to, to = IF day(c) + 1 > days_in_month(year(c), month(c))
                      THEN next_month(year(c), month(c))
                      ELSE at_day_start(year(c), month(c), day(c) + 1)
  PROVE  /\ to \in Nat /\ c < to
         /\ \A v \in Instants : c <= v /\ weekday(v) # weekday(c) => to <= v
<1>1. /\ day(c) \in Nat \ {0} /\ year(c) \in Nat /\ month(c) \in Nat
      /\ days_in_month(year(c), month(c)) \in Nat
  BY FieldTypes, DaysInMonth
<1>2. ASSUME NEW v \in Instants, c <= v, weekday(v) # weekday(c),
             year(v) = year(c), month(v) = month(c)
      PROVE  /\ day(c) + 1 <= day(v)
             /\ day(v) <= days_in_month(year(c), month(c))
  <2>1. /\ day(v) \in Nat \ {0} /\ DayOf(v) = <<year(v), month(v), day(v)>>
        /\ DayOf(v) \in Range(Days)
    BY FieldTypes
  <2>2. day(v) <= days_in_month(year(c), month(c))
    BY <1>1, <1>2, <2>1, DaysInMonth
  <2>3. DayNo(v) # DayNo(c)
    <3>1. \A u : weekday(u) = ((u \div DaySeconds) % Week) + 1
      BY DEF weekday
    <3>2. DaySeconds \in Nat \ {0} /\ c \in Nat /\ v \in Nat
      BY Sizes, FieldTypes
    <3>3. c \div DaySeconds \in Nat /\ v \div DaySeconds \in Nat
      BY <3>2, DivMod
    <3>4. c \div DaySeconds # v \div DaySeconds
      BY <1>2, <3>1
    <3>5. QED
      BY <3>3, <3>4 DEF DayNo
  <2>4. day(c) < day(v)
    BY <1>1, <1>2, <2>1, <2>3, LaterDay DEF day, year, month
  <2>5. QED
    BY <1>1, <2>1, <2>2, <2>4
<1>3. CASE day(c) + 1 > days_in_month(year(c), month(c))
  <2>1. \A v \in Instants : c <= v /\ weekday(v) # weekday(c) =>
          ~(year(v) = year(c) /\ month(v) = month(c))
    BY <1>1, <1>2, <1>3, FieldTypes
  <2>2. QED
    BY <1>3, <2>1, NextMonth
<1>4. CASE ~(day(c) + 1 > days_in_month(year(c), month(c)))
  <2>1. /\ day(c) + 1 \in Nat \ {0} /\ day(c) < day(c) + 1
        /\ day(c) + 1 <= days_in_month(year(c), month(c))
    BY <1>1, <1>4
  <2>2. to = at_day_start(year(c), month(c), day(c) + 1)
    BY <1>4
  <2>3. QED
    BY <1>2, <2>1, <2>2, SameMonth
<1>5. QED
  BY <1>3, <1>4

-----------------------------------------------------------------------------
(* Jumps within a day, an hour or a minute                                 *)

\* Division keeps the order.
LEMMA DivMono ==
  ASSUME NEW a \in Nat, NEW b \in Nat, NEW k \in Nat \ {0}, a <= b
  PROVE  a \div k <= b \div k
<1> DEFINE p == a \div k
           q == b \div k
<1>1. p \in Nat /\ a % k \in 0 .. k - 1 /\ a = k * p + (a % k)
  BY DivMod
<1>2. q \in Nat /\ b % k \in 0 .. k - 1 /\ b = k * q + (b % k)
  BY DivMod
<1> HIDE DEF p, q
<1>3. q < p => k * q + k <= k * p /\ k * q \in Nat /\ k * p \in Nat
  BY <1>1, <1>2, MulStep
<1>4. ~(q < p)
  BY <1>1, <1>2, <1>3
<1>5. p <= q
  BY <1>1, <1>2, <1>4
<1>6. QED
  BY <1>5 DEF p, q

\* A period of length L has n parts of length k. The parts with a number in A are allowed,
\* and the one at c is not: a jump to the next allowed one, or else to the next period,
\* passes none of them.
Parts(L, k, n) == k \in Nat \ {0} /\ n \in Nat \ {0} /\ L \in Nat \ {0} /\ L = k * n
NextPart(c, L, k, A) ==
  LET as == Later(A, (c % L) \div k)
  IN IF as = {} THEN (c - (c % L)) + L ELSE (c - (c % L)) + k * Min(as)
Passes(c, to, L, k, A) ==
  /\ to \in Nat /\ c < to
  /\ \A v \in Nat : c <= v /\ (v % L) \div k \in A => to <= v

\* The jump to the next part passes no number whose part is in the set.
LEMMA SkipPart ==
  ASSUME NEW L, NEW k, NEW n, Parts(L, k, n),
         NEW c \in Nat, NEW A, A \subseteq 0 .. n - 1, (c % L) \div k \notin A
  PROVE  Passes(c, NextPart(c, L, k, A), L, k, A)
<1>0. k \in Nat \ {0} /\ n \in Nat \ {0} /\ L \in Nat \ {0} /\ L = k * n
  BY DEF Parts
<1> USE <1>0
<1> DEFINE as == {w \in A : w > (c % L) \div k}
           to == IF as = {} THEN (c - (c % L)) + L ELSE (c - (c % L)) + k * Min(as)
<1> SUFFICES /\ to \in Nat /\ c < to
             /\ \A v \in Nat : c <= v /\ (v % L) \div k \in A => to <= v
  BY Zenon DEF Passes, NextPart, Later
<1> HIDE DEF as, to
<1> DEFINE x == c % L
           q == c \div L
           a == x \div k
<1>1. q \in Nat /\ x \in 0 .. L - 1 /\ c = L * q + x
  BY DivMod
<1>2. x \in Nat /\ a \in Nat /\ x % k \in 0 .. k - 1 /\ x = k * a + (x % k)
  <2>1. x \in Nat
    BY <1>1
  <2> HIDE DEF x
  <2>2. QED
    BY <2>1, DivMod
<1>3. as = {w \in A : w > a} /\ as \subseteq Nat /\ as \subseteq 0 .. n - 1
  <2>1. as = {w \in A : w > a}
    BY DEF as
  <2>2. as \subseteq A
    BY <2>1, Zenon
  <2>3. A \subseteq Nat
    OBVIOUS
  <2> HIDE DEF a
  <2>4. QED
    BY <2>1, <2>2, <2>3, Zenon
<1>4. as # {} => Min(as) \in as /\ \A w \in as : Min(as) <= w
  BY <1>3, MinNat
<1> DEFINE m == IF as = {} THEN n ELSE Min(as)
<1>6. m \in Nat /\ m <= n
  <2>1. CASE as = {}
    <3>1. m = n
      BY <2>1
    <3>2. n \in Nat /\ n <= n
      BY <1>0
    <3> HIDE DEF m
    <3>3. QED
      BY <3>1, <3>2, Zenon
  <2>2. CASE as # {}
    <3>1. m = Min(as) /\ m \in 0 .. n - 1
      BY <1>3, <1>4, <2>2
    <3> HIDE DEF m
    <3>2. \A i \in 0 .. n - 1 : i \in Nat /\ i <= n
      BY <1>0
    <3>3. QED
      BY <3>1, <3>2, Zenon
  <2>3. QED
    BY <2>1, <2>2
<1>7. L * q \in Nat
  <2> HIDE DEF q
  <2> QED BY <1>1, MulMono
<1>8. to = L * q + k * m
  <2>1. c - (c % L) = L * q
    <3> HIDE DEF q
    <3> QED BY <1>1, <1>7
  <2>2. QED
    BY <2>1 DEF to
<1>9. k * m \in Nat /\ k * m <= L
  <2> HIDE DEF m
  <2> QED BY <1>6, MulMono
<1>10. x < k * m
  <2>1. CASE as = {}
    <3>1. m = n
      BY <2>1
    <3> HIDE DEF m, x
    <3>2. QED
      BY <1>1, <3>1
  <2>2. CASE as # {}
    <3>1. a < m
      <4> HIDE DEF a
      <4> QED BY <1>3, <1>4, <2>2
    <3> HIDE DEF m, a, x
    <3>2. k * a + k <= k * m /\ k * a \in Nat /\ k * m \in Nat
      BY <1>2, <1>6, <3>1, MulStep
    <3>3. QED
      BY <1>2, <3>2
  <2>3. QED
    BY <2>1, <2>2
<1>11. to \in Nat /\ c < to
  <2> HIDE DEF m, q, x
  <2> QED BY <1>1, <1>7, <1>8, <1>9, <1>10
<1>12. ASSUME NEW v \in Nat, c <= v, (v % L) \div k \in A
       PROVE  to <= v
  <2> DEFINE y == v % L
             p == v \div L
             b == y \div k
  <2>1. p \in Nat /\ y \in 0 .. L - 1 /\ v = L * p + y
    BY DivMod
  <2>2. y \in Nat /\ b \in Nat /\ y % k \in 0 .. k - 1 /\ y = k * b + (y % k)
    <3>1. y \in Nat
      BY <2>1
    <3> HIDE DEF y
    <3>2. QED
      BY <3>1, DivMod
  <2>3. q <= p
    BY <1>12, DivMono
  <2>4. CASE q < p
    <3> HIDE DEF q, p, m, x, y
    <3>1. L * q + L <= L * p /\ L * p \in Nat
      BY <1>1, <2>1, <2>4, MulStep
    <3>2. QED
      BY <1>7, <1>8, <1>9, <2>1, <3>1
  <2>5. CASE q = p
    <3>1. x <= y
      <4> HIDE DEF q, p, x, y
      <4> QED BY <1>1, <1>7, <1>12, <2>1, <2>5
    <3>2. a <= b
      <4> HIDE DEF x, y
      <4> QED BY <1>2, <2>2, <3>1, DivMono
    <3>3. b \in as
      BY <1>2, <1>3, <1>12, <2>2, <3>2
    <3>4. m <= b
      BY <1>4, <3>3
    <3>5. k * m <= k * b /\ k * b \in Nat
      <4> HIDE DEF m, b
      <4> QED BY <1>6, <2>2, <3>4, MulMono
    <3> HIDE DEF q, p, m, b, x, y
    <3>6. QED
      BY <1>7, <1>8, <1>9, <2>1, <2>2, <2>5, <3>5
  <2>6. QED
    BY <1>1, <2>1, <2>3, <2>4, <2>5
<1>13. QED
  BY <1>11, <1>12

\* The part of a period of n parts of length k, from the number of the parts so far.
PartOf(u, L, k, n) ==
  /\ (u % L) \div k = (u \div k) % n /\ (u % L) \div k \in 0 .. n - 1
  /\ u % L = k * ((u % L) \div k) + (u % k)

\* A number is its part and the rest of it, however they are computed.
LEMMA Part ==
  ASSUME NEW k \in Nat \ {0}, NEW n \in Nat \ {0}, NEW L \in Nat \ {0}, L = k * n, NEW u \in Nat
  PROVE  PartOf(u, L, k, n)
<1> DEFINE x == u % L
           q == u \div L
           a == x \div k
           r == x % k
<1>1. q \in Nat /\ x \in 0 .. L - 1 /\ u = L * q + x
  BY DivMod
<1>2. x \in Nat /\ a \in Nat /\ r \in 0 .. k - 1 /\ x = k * a + r
  <2>1. x \in Nat
    BY <1>1
  <2> HIDE DEF x
  <2>2. QED
    BY <2>1, DivMod
<1>3. a < n
  <2> HIDE DEF x, a, r
  <2>1. n <= a => k * n <= k * a /\ k * a \in Nat
    BY <1>2, MulMono
  <2>2. ~(n <= a)
    BY <1>1, <1>2, <2>1
  <2>3. QED
    BY <1>2, <2>2
<1> DEFINE z == n * q + a
<1>4. z \in Nat /\ z % n = a
  <2> HIDE DEF a, q
  <2>1. a \in 0 .. n - 1
    BY <1>2, <1>3
  <2>2. z \in Nat
    <3>1. n * q \in Nat
      BY <1>1, MulMono
    <3>2. QED
      BY <1>2, <3>1
  <2>3. QED
    BY <1>1, <2>1, <2>2, DivUnique
<1>5. u = k * z + r
  <2> HIDE DEF a, q, r, x
  <2>1. k * z = k * (n * q) + k * a
    BY <1>1, <1>2
  <2>2. k * (n * q) = (k * n) * q
    BY <1>1
  <2>3. L * q \in Nat /\ k * a \in Nat
    BY <1>1, <1>2, MulMono
  <2>4. k * z = L * q + k * a
    BY <2>1, <2>2
  <2> HIDE DEF z
  <2>5. QED
    BY <1>1, <1>2, <2>3, <2>4
<1>6. u \div k = z /\ u % k = r
  <2> HIDE DEF z, r, a, q, x
  <2> QED BY <1>2, <1>4, <1>5, DivUnique
<1>7. a \in 0 .. n - 1
  <2> HIDE DEF a
  <2> QED BY <1>2, <1>3
<1>8. QED
  <2>1. a = (u \div k) % n /\ x % k = u % k /\ x = k * a + (u % k)
    BY <1>2, <1>4, <1>6
  <2>2. QED
    BY <1>7, <2>1 DEF PartOf

\* The clock fields of an instant, as parts of the day, of the hour and of the minute.
LEMMA Clock ==
  ASSUME NEW u \in Nat
  PROVE  /\ hour(u) = (u % DaySeconds) \div Hour
         /\ minute(u) = (u % Hour) \div Seconds
         /\ second(u) = (u % Seconds) \div 1
         /\ hour(u) \in 0 .. Hours - 1 /\ minute(u) \in 0 .. Minutes - 1
         /\ second(u) \in 0 .. Seconds - 1
         /\ u % DaySeconds = 0 <=> hour(u) = 0 /\ minute(u) = 0 /\ second(u) = 0
<1>1. /\ Hours \in Nat \ {0} /\ Minutes \in Nat \ {0} /\ Seconds \in Nat \ {0} /\ Hour \in Nat \ {0}
      /\ DaySeconds \in Nat \ {0} /\ DaySeconds = Hour * Hours /\ Hour = Seconds * Minutes
  <2>1. {Hours, Minutes, Seconds, Week, Months, Hour, DaySeconds} \subseteq Nat \ {0}
        /\ DaySeconds = Hours * Hour /\ Hour = Seconds * Minutes
    BY Sizes
  <2>2. Hours * Hour = Hour * Hours
    BY <2>1
  <2>3. QED
    BY <2>1, <2>2
<1>2. hour(u) = (u % DaySeconds) \div Hour
  BY DEF hour, Hour
<1>3. /\ hour(u) \in 0 .. Hours - 1
      /\ u % DaySeconds = Hour * hour(u) + (u % Hour)
  <2> DEFINE D == DaySeconds
             k == Hour
  <2> HIDE DEF D, k
  <2>1. D \in Nat \ {0} /\ k \in Nat \ {0} /\ D = k * Hours
    BY <1>1 DEF D, k
  <2>2. (u % D) \div k \in 0 .. Hours - 1 /\ u % D = k * ((u % D) \div k) + (u % k)
    <3>1. PartOf(u, D, k, Hours)
      BY <1>1, <2>1, Part
    <3>2. QED
      BY <3>1, Zenon DEF PartOf
  <2>3. QED
    BY <1>2, <2>2 DEF D, k
<1>4. /\ minute(u) = (u % Hour) \div Seconds /\ minute(u) \in 0 .. Minutes - 1
      /\ u % Hour = Seconds * minute(u) + (u % Seconds)
  <2> DEFINE k == Hour
  <2> HIDE DEF k
  <2>1. k \in Nat \ {0} /\ k = Seconds * Minutes
    BY <1>1 DEF k
  <2>2. /\ (u % k) \div Seconds = (u \div Seconds) % Minutes
        /\ (u % k) \div Seconds \in 0 .. Minutes - 1
        /\ u % k = Seconds * ((u % k) \div Seconds) + (u % Seconds)
    <3>1. PartOf(u, k, Seconds, Minutes)
      BY <1>1, <2>1, Part
    <3>2. QED
      BY <3>1, Zenon DEF PartOf
  <2>3. minute(u) = (u \div Seconds) % Minutes
    BY DEF minute
  <2>4. QED
    BY <2>2, <2>3 DEF k
<1>5. u % Seconds \in 0 .. Seconds - 1
  BY <1>1, DivMod
<1>6. second(u) = u % Seconds
  BY DEF second
<1>7. (u % Seconds) \div 1 = u % Seconds
  <2> DEFINE r == u % Seconds
  <2>1. r \in Nat
    BY <1>1, <1>5
  <2> HIDE DEF r
  <2>2. r \div 1 = r
    BY <2>1
  <2>3. QED
    BY <2>2 DEF r
<1>8. u % DaySeconds = Hour * hour(u) + (Seconds * minute(u) + second(u))
  BY <1>3, <1>4, <1>6
<1>9. u % DaySeconds = 0 <=> hour(u) = 0 /\ minute(u) = 0 /\ second(u) = 0
  <2> DEFINE h == hour(u)
             m == minute(u)
             w == second(u)
  <2>1. h \in Nat /\ m \in Nat /\ w \in Nat
    BY <1>1, <1>3, <1>4, <1>5, <1>6
  <2> HIDE DEF h, m, w
  <2>2. Hour * h \in Nat /\ Seconds * m \in Nat
    BY <1>1, <2>1, MulMono
  <2>3. Hour * h = 0 <=> h = 0
    BY <1>1, <2>1
  <2>4. Seconds * m = 0 <=> m = 0
    BY <1>1, <2>1
  <2>5. Hour * h + (Seconds * m + w) = 0 <=> h = 0 /\ m = 0 /\ w = 0
    BY <2>1, <2>2, <2>3, <2>4
  <2>6. QED
    BY <1>8, <2>5 DEF h, m, w
<1>10. QED
  BY <1>2, <1>3, <1>4, <1>5, <1>6, <1>7, <1>9

\* The next hour of a set, or the next day (schedule.rs:138-158).
LEMMA SkipHour ==
  ASSUME NEW c \in Nat, NEW A, A \subseteq 0 .. Hours - 1, hour(c) \notin A,
         NEW hs, hs = Later(A, hour(c)),
         NEW to, to = IF hs = {} THEN DayStart(c) + DaySeconds
                      ELSE DayStart(c) + Min(hs) * Minutes * Seconds
  PROVE  /\ to \in Nat /\ c < to
         /\ \A v \in Nat : c <= v /\ hour(v) \in A => to <= v
<1>1. Parts(DaySeconds, Hour, Hours)
  <2>1. /\ {Hours, Minutes, Seconds, Week, Months, Hour, DaySeconds} \subseteq Nat \ {0}
        /\ DaySeconds = Hours * Hour
    BY Sizes
  <2>2. Hours * Hour = Hour * Hours
    BY <2>1
  <2>3. QED
    BY <2>1, <2>2 DEF Parts
<1>2. \A v \in Nat : hour(v) = (v % DaySeconds) \div Hour
  BY Clock
<1>3. Passes(c, NextPart(c, DaySeconds, Hour, A), DaySeconds, Hour, A)
  BY <1>1, <1>2, SkipPart
<1>4. to = NextPart(c, DaySeconds, Hour, A)
  <2>1. DayStart(c) = c - (c % DaySeconds)
    BY DEF DayStart
  <2>2. hs = Later(A, (c % DaySeconds) \div Hour)
    BY <1>2
  <2>3. hs # {} => Min(hs) * Minutes * Seconds = Hour * Min(hs)
    <3>1. {Hours, Minutes, Seconds, Week, Months, Hour, DaySeconds} \subseteq Nat \ {0}
      BY Sizes
    <3>2. hs \subseteq Nat
      <4>1. hs \subseteq A
        BY Zenon DEF Later
      <4>2. A \subseteq Nat
        OBVIOUS
      <4>3. QED
        BY <4>1, <4>2, Zenon
    <3>3. hs # {} => Min(hs) \in Nat
      BY <3>2, MinNat
    <3> DEFINE m == Min(hs)
    <3> HIDE DEF m
    <3>4. m \in Nat => m * Minutes * Seconds = (Minutes * Seconds) * m
      BY <3>1
    <3>5. QED
      BY <3>3, <3>4 DEF m, Hour
  <2>4. QED
    BY <2>1, <2>2, <2>3, Zenon DEF NextPart
<1>5. QED
  BY <1>2, <1>3, <1>4, Zenon DEF Passes

\* The next minute of a set, or the next hour (schedule.rs:159-181).
LEMMA SkipMinute ==
  ASSUME NEW c \in Nat, NEW A, A \subseteq 0 .. Minutes - 1, minute(c) \notin A,
         NEW ms, ms = Later(A, minute(c)),
         NEW to, to = IF ms = {} THEN (c - (c % Hour)) + Hour
                      ELSE (c - (c % Hour)) + Min(ms) * Seconds
  PROVE  /\ to \in Nat /\ c < to
         /\ \A v \in Nat : c <= v /\ minute(v) \in A => to <= v
<1>0. /\ {Hours, Minutes, Seconds, Week, Months, Hour, DaySeconds} \subseteq Nat \ {0}
      /\ Hour = Seconds * Minutes
  BY Sizes
<1>1. Parts(Hour, Seconds, Minutes)
  BY <1>0 DEF Parts
<1>2. \A v \in Nat : minute(v) = (v % Hour) \div Seconds
  BY Clock
<1>3. Passes(c, NextPart(c, Hour, Seconds, A), Hour, Seconds, A)
  BY <1>1, <1>2, SkipPart
<1>4. to = NextPart(c, Hour, Seconds, A)
  <2>1. ms = Later(A, (c % Hour) \div Seconds)
    BY <1>2
  <2>2. ms # {} => Min(ms) * Seconds = Seconds * Min(ms)
    <3>1. ms \subseteq Nat
      <4>1. ms \subseteq A
        BY Zenon DEF Later
      <4>2. A \subseteq Nat
        OBVIOUS
      <4>3. QED
        BY <4>1, <4>2, Zenon
    <3>2. ms # {} => Min(ms) \in Nat
      BY <3>1, MinNat
    <3> DEFINE m == Min(ms)
    <3> HIDE DEF m
    <3>3. m \in Nat => m * Seconds = Seconds * m
      BY <1>0
    <3>4. QED
      BY <3>2, <3>3 DEF m
  <2>3. QED
    BY <2>1, <2>2, Zenon DEF NextPart
<1>5. QED
  BY <1>2, <1>3, <1>4, Zenon DEF Passes

\* The next second of a set, or the next minute (schedule.rs:182-204).
LEMMA SkipSecond ==
  ASSUME NEW c \in Nat, NEW A, A \subseteq 0 .. Seconds - 1, second(c) \notin A,
         NEW ss, ss = Later(A, second(c)),
         NEW to, to = IF ss = {} THEN (c - (c % Seconds)) + Seconds
                      ELSE (c - (c % Seconds)) + Min(ss)
  PROVE  /\ to \in Nat /\ c < to
         /\ \A v \in Nat : c <= v /\ second(v) \in A => to <= v
<1>0. Seconds \in Nat \ {0}
  BY Sizes
<1>1. Parts(Seconds, 1, Seconds)
  BY <1>0 DEF Parts
<1>2. \A v \in Nat : second(v) = (v % Seconds) \div 1
  BY Clock
<1>3. Passes(c, NextPart(c, Seconds, 1, A), Seconds, 1, A)
  BY <1>1, <1>2, SkipPart
<1>4. to = NextPart(c, Seconds, 1, A)
  <2>1. ss = Later(A, (c % Seconds) \div 1)
    BY <1>2
  <2>2. ss # {} => Min(ss) = 1 * Min(ss)
    <3>1. ss \subseteq Nat
      <4>1. ss \subseteq A
        BY Zenon DEF Later
      <4>2. A \subseteq Nat
        OBVIOUS
      <4>3. QED
        BY <4>1, <4>2, Zenon
    <3>2. ss # {} => Min(ss) \in Nat
      BY <3>1, MinNat
    <3>3. QED
      BY <3>2
  <2>3. QED
    BY <2>1, <2>2, Zenon DEF NextPart
<1>5. QED
  BY <1>2, <1>3, <1>4, Zenon DEF Passes

-----------------------------------------------------------------------------
(* What the words of a line mean, and the sets that they are parsed to     *)

\* A finite list of numbers has a bound, and so its greatest.
LEMMA Bounded ==
  ASSUME NEW k \in Nat, NEW g \in [1 .. k -> Nat]
  PROVE  \E n \in Nat : \A i \in 1 .. k : g[i] <= n
<1> DEFINE P == {j \in 0 .. k : \E n \in Nat : \A i \in 1 .. j : g[i] <= n}
<1>1. 0 \in P
  <2>1. 0 \in 0 .. k /\ \A i \in 1 .. 0 : g[i] <= 0
    OBVIOUS
  <2>2. QED
    BY <2>1
<1>2. ASSUME NEW j \in 1 .. k, j - 1 \in P PROVE j \in P
  <2>1. PICK n \in Nat : \A i \in 1 .. j - 1 : g[i] <= n
    BY <1>2
  <2>2. g[j] \in Nat
    OBVIOUS
  <2>3. PICK m \in Nat : n <= m /\ g[j] <= m
    <3>1. n <= g[j] => n <= g[j] /\ g[j] <= g[j]
      BY <2>1, <2>2
    <3>2. ~(n <= g[j]) => n <= n /\ g[j] <= n
      BY <2>1, <2>2
    <3>3. QED
      BY <2>1, <2>2, <3>1, <3>2
  <2>4. \A i \in 1 .. j : g[i] <= m
    <3> TAKE i \in 1 .. j
    <3>1. CASE i = j
      BY <2>3, <3>1
    <3>2. CASE i # j
      <4>1. i \in 1 .. j - 1 /\ i \in 1 .. k /\ g[i] \in Nat
        BY <3>2
      <4>2. g[i] <= n
        BY <2>1, <4>1
      <4>3. QED
        BY <2>1, <2>3, <4>1, <4>2
    <3>3. QED
      BY <3>1, <3>2
  <2>5. QED
    BY <2>3, <2>4
<1>3. P = 0 .. k
  <2>1. P \subseteq 0 .. k
    OBVIOUS
  <2> HIDE DEF P
  <2>2. QED
    BY <1>1, <1>2, <2>1, UpTo
<1>4. k \in P
  <2>1. k \in 0 .. k
    OBVIOUS
  <2> HIDE DEF P
  <2>2. QED
    BY <1>3, <2>1
<1>5. QED
  BY <1>4

\* The greatest of finitely many numbers.
LEMMA MaxNat ==
  ASSUME NEW k \in Nat \ {0}, NEW g \in [1 .. k -> Nat], NEW S, S = {g[i] : i \in 1 .. k}
  PROVE  Max(S) \in Nat /\ \A n \in S : Max(S) >= n
<1>1. PICK n \in Nat : \A i \in 1 .. k : g[i] <= n
  BY Bounded
<1>2. S \subseteq 0 .. n
  BY <1>1
<1>3. S # {}
  <2>1. 1 \in 1 .. k
    OBVIOUS
  <2>2. QED
    BY <2>1
<1>4. PICK m \in S : \A j \in S : m >= j
  BY <1>2, <1>3, Greatest
<1>5. Max(S) = CHOOSE x \in S : \A y \in S : x >= y
  BY DEF Max
<1>6. Max(S) \in S /\ \A j \in S : Max(S) >= j
  BY <1>4, <1>5
<1>7. QED
  BY <1>2, <1>6

\* Every field of an instant is between the bounds that the parser gives it.
LEMMA FieldBounds ==
  /\ {FirstYear, LastYear, MaxDay} \subseteq Nat
  /\ \A u \in Instants : /\ year(u) \in FirstYear .. LastYear
                         /\ day(u) \in 1 .. MaxDay
                         /\ weekday(u) \in 1 .. Week
<1>1. Len(Days) \in Nat \ {0} /\ DOMAIN Days = 1 .. Len(Days)
  BY Sizes
<1> DEFINE ys == [i \in 1 .. Len(Days) |-> Days[i][1]]
           ds == [i \in 1 .. Len(Days) |-> Days[i][3]]
<1>2. ys \in [1 .. Len(Days) -> Nat] /\ ds \in [1 .. Len(Days) -> Nat]
  BY <1>1, DayTypes
<1>3. /\ Years = {ys[i] : i \in 1 .. Len(Days)}
      /\ {Days[i][3] : i \in DOMAIN Days} = {ds[i] : i \in 1 .. Len(Days)}
  BY <1>1 DEF Years
<1>4. LastYear \in Nat /\ \A y \in Years : LastYear >= y
  <2> HIDE DEF ys, ds
  <2> QED BY <1>1, <1>2, <1>3, MaxNat DEF LastYear
<1>5. MaxDay \in Nat /\ \A d \in {Days[i][3] : i \in DOMAIN Days} : MaxDay >= d
  <2>1. MaxDay = Max({Days[i][3] : i \in DOMAIN Days})
    BY DEF MaxDay
  <2> HIDE DEF ys, ds
  <2> QED BY <1>1, <1>2, <1>3, <2>1, MaxNat
<1>6. Years \subseteq Nat /\ Years # {}
  <2>1. 1 \in DOMAIN Days
    BY <1>1
  <2>2. QED
    BY <2>1, DayTypes DEF Years
<1>7. FirstYear \in Nat /\ \A y \in Years : FirstYear <= y
  BY <1>6, MinNat DEF FirstYear
<1>8. ASSUME NEW u \in Instants
      PROVE  /\ year(u) \in FirstYear .. LastYear
             /\ day(u) \in 1 .. MaxDay
             /\ weekday(u) \in 1 .. Week
  <2>1. /\ DayNo(u) \in DOMAIN Days /\ year(u) = Days[DayNo(u)][1]
        /\ day(u) = Days[DayNo(u)][3]
    BY InDay DEF year, day
  <2>2. year(u) \in Years /\ day(u) \in {Days[i][3] : i \in DOMAIN Days}
    BY <2>1 DEF Years
  <2>3. year(u) \in Nat /\ day(u) \in Nat \ {0}
    BY FieldTypes
  <2>4. year(u) \in FirstYear .. LastYear /\ day(u) \in 1 .. MaxDay
    BY <1>4, <1>5, <1>7, <2>2, <2>3
  <2>5. weekday(u) \in 1 .. Week
    <3>1. {Hours, Minutes, Seconds, Week, Months, Hour, DaySeconds} \subseteq Nat \ {0}
      BY Sizes
    <3>2. u \in Nat
      BY FieldTypes
    <3> DEFINE q == u \div DaySeconds
    <3>3. q \in Nat
      BY <3>1, <3>2, DivMod
    <3> HIDE DEF q
    <3>4. q % Week \in 0 .. Week - 1
      BY <3>1, <3>3, DivMod
    <3>5. (q % Week) + 1 \in 1 .. Week
      BY <3>1, <3>4
    <3>6. weekday(u) = (q % Week) + 1
      BY DEF q, weekday
    <3>7. QED
      BY <3>5, <3>6
  <2>6. QED
    BY <2>4, <2>5
<1>9. QED
  BY <1>4, <1>5, <1>7, <1>8

\* The loop over a range collects the values that are whole steps from its start, if no step
\* wraps.
LEMMA Expand ==
  ASSUME NEW a \in Nat, NEW b \in Nat, NEW p \in Nat \ {0}, a <= b, Word \in Nat, b + p < Word
  PROVE  expand(a, b, p) = {v \in a .. b : (v - a) % p = 0}
<1> DEFINE V(k) == (a + k * p) % Word
<1>1. expand(a, b, p) = {V(k) : k \in {n \in 0 .. Word : \A j \in 0 .. n : V(j) <= b}}
  BY DEF expand
<1>2. \A k \in Nat : k * p \in Nat /\ p * k = k * p
  OBVIOUS
<1>3. \A k \in Nat : a + k * p <= b + p => V(k) = a + k * p
  <2> SUFFICES ASSUME NEW k \in Nat, a + k * p <= b + p PROVE V(k) = a + k * p
    OBVIOUS
  <2> DEFINE z == a + k * p
  <2>1. z \in 0 .. Word - 1 /\ Word \in Nat \ {0}
    BY <1>2
  <2> HIDE DEF z
  <2>2. (Word * 0 + z) % Word = z
    BY <2>1, DivUnique
  <2>3. Word * 0 + z = z
    BY <2>1
  <2>4. QED
    BY <2>2, <2>3 DEF z
<1> HIDE DEF V
<1>4. ASSUME NEW k \in 0 .. Word, \A j \in 0 .. k : V(j) <= b
      PROVE  V(k) \in a .. b /\ (V(k) - a) % p = 0
  <2> DEFINE P == {j \in 0 .. k : a + j * p <= b}
  <2>1. 0 \in P
    <3>1. 0 * p = 0 /\ 0 \in 0 .. k
      OBVIOUS
    <3>2. QED
      BY <3>1
  <2>2. ASSUME NEW j \in 1 .. k, j - 1 \in P PROVE j \in P
    <3>1. j \in Nat /\ j - 1 \in Nat /\ j \in 0 .. k
      OBVIOUS
    <3>2. j * p = (j - 1) * p + p
      BY <3>1
    <3>3. a + (j - 1) * p <= b
      BY <2>2
    <3>4. a + j * p <= b + p
      BY <1>2, <3>1, <3>2, <3>3
    <3>5. V(j) = a + j * p
      BY <1>3, <3>1, <3>4
    <3>6. QED
      BY <1>4, <3>1, <3>5
  <2>3. P = 0 .. k
    <3>1. P \subseteq 0 .. k /\ k \in Nat
      OBVIOUS
    <3> HIDE DEF P
    <3>2. QED
      BY <2>1, <2>2, <3>1, UpTo
  <2>4. k \in P /\ k \in Nat
    <3>1. k \in Nat /\ k \in 0 .. k
      OBVIOUS
    <3> HIDE DEF P
    <3>2. QED
      BY <2>3, <3>1
  <2>5. a + k * p <= b
    BY <2>4
  <2>6. V(k) = a + k * p
    BY <1>2, <1>3, <2>4, <2>5
  <2> DEFINE z == p * k
  <2>7. z = k * p /\ z \in Nat
    BY <1>2, <2>4
  <2>8. (z + 0) % p = 0
    BY <2>4, DivUnique
  <2> HIDE DEF z
  <2>9. V(k) = a + z /\ a + z <= b
    BY <2>5, <2>6, <2>7
  <2>10. V(k) - a = z + 0 /\ V(k) \in a .. b
    BY <2>7, <2>9
  <2>11. QED
    BY <2>8, <2>10
<1>5. ASSUME NEW v \in a .. b, (v - a) % p = 0
      PROVE  \E k \in 0 .. Word : v = V(k) /\ \A j \in 0 .. k : V(j) <= b
  <2> DEFINE x == v - a
             k == x \div p
  <2>1. x \in Nat /\ x <= b /\ v = a + x
    OBVIOUS
  <2>2. k \in Nat /\ x = k * p
    <3> HIDE DEF x
    <3>1. k \in Nat /\ x % p \in 0 .. p - 1 /\ x = p * k + (x % p)
      BY <2>1, DivMod
    <3>2. x % p = 0
      BY <1>5 DEF x
    <3> HIDE DEF k
    <3>3. QED
      BY <1>2, <3>1, <3>2
  <2> HIDE DEF k, x
  <2>3. \A j \in 0 .. k : V(j) = a + j * p /\ a + j * p <= v
    <3> TAKE j \in 0 .. k
    <3>1. j \in Nat /\ j <= k
      BY <2>2
    <3>2. p * j <= p * k
      BY <2>2, <3>1, MulMono
    <3>3. j * p <= k * p /\ j * p \in Nat
      BY <1>2, <2>2, <3>1, <3>2
    <3>4. a + j * p <= v
      BY <2>1, <2>2, <3>3
    <3>5. a + j * p <= b + p
      BY <1>2, <3>1, <3>4
    <3>6. QED
      BY <1>3, <3>1, <3>4, <3>5
  <2>4. k \in 0 .. Word
    <3>1. k <= k * p
      BY <2>2
    <3>2. QED
      BY <2>1, <2>2, <3>1
  <2>5. k \in 0 .. k
    BY <2>2
  <2>6. v = V(k)
    BY <2>1, <2>2, <2>3, <2>5
  <2>7. \A j \in 0 .. k : V(j) <= b
    <3> TAKE j \in 0 .. k
    <3>1. V(j) = a + j * p /\ a + j * p <= v /\ j \in Nat
      BY <2>2, <2>3
    <3>2. QED
      BY <1>2, <3>1
  <2>8. QED
    BY <2>4, <2>6, <2>7
<1>6. \A v : v \in expand(a, b, p) <=>
             \E k \in 0 .. Word : v = V(k) /\ \A j \in 0 .. k : V(j) <= b
  BY <1>1, Zenon
<1>7. \A v : v \in expand(a, b, p) <=> v \in a .. b /\ (v - a) % p = 0
  <2> TAKE v
  <2>1. v \in expand(a, b, p) => v \in a .. b /\ (v - a) % p = 0
    BY <1>4, <1>6, Zenon
  <2>2. v \in a .. b /\ (v - a) % p = 0 => v \in expand(a, b, p)
    BY <1>5, <1>6, Zenon
  <2>3. QED
    BY <2>1, <2>2
<1>8. QED
  BY <1>7, Zenon

\* A field with its bounds, parsed without a step that wraps.
GoodField(field, lo, hi) ==
  /\ field \in Seq(Chunk) /\ lo \in Nat /\ hi \in Nat /\ lo <= hi
  /\ FieldOk(field, lo, hi)
  /\ Word \in Nat /\ \A i \in DOMAIN field : hi + field[i].step < Word

\* The set for a field holds the values that its words mean.
LEMMA FieldSet ==
  ASSUME NEW field, NEW lo, NEW hi, GoodField(field, lo, hi)
  PROVE  parse_field(field, lo, hi) = {v \in lo .. hi : FieldMeans(field, v, lo, hi)}
<1>1. CASE field = Star
  BY <1>1 DEF parse_field, FieldMeans
<1>2. CASE field # Star
  <2> DEFINE a(i) == IF field[i].range = All THEN lo ELSE field[i].range[1]
             b(i) == IF field[i].range = All THEN hi ELSE field[i].range[2]
  <2>1. ASSUME NEW i \in DOMAIN field
        PROVE  /\ a(i) \in lo .. hi /\ b(i) \in lo .. hi /\ a(i) <= b(i)
               /\ field[i].step \in Nat \ {0} /\ b(i) + field[i].step < Word
               /\ expand(a(i), b(i), field[i].step)
                    = {v \in a(i) .. b(i) : (v - a(i)) % field[i].step = 0}
    <3>1. field[i] \in Chunk
      BY DEF GoodField
    <3>2. /\ field[i].range = All \/ field[i].range \in Nat \X Nat
          /\ field[i].step \in Nat
      BY <3>1 DEF Chunk
    <3>3. InRange(field[i], lo, hi) /\ field[i].step # 0
      BY Zenon DEF GoodField, FieldOk
    <3>4. lo \in Nat /\ hi \in Nat /\ lo <= hi
      BY DEF GoodField
    <3>5. a(i) \in lo .. hi /\ b(i) \in lo .. hi /\ a(i) <= b(i)
      <4>1. CASE field[i].range = All
        BY <3>4, <4>1
      <4>2. CASE field[i].range # All
        <5>1. /\ field[i].range[1] <= field[i].range[2] /\ field[i].range[1] >= lo
              /\ field[i].range[2] <= hi
          BY <3>3, <4>2 DEF InRange
        <5>2. field[i].range[1] \in Nat /\ field[i].range[2] \in Nat
          BY <3>2, <4>2
        <5>3. a(i) = field[i].range[1] /\ b(i) = field[i].range[2]
          BY <4>2
        <5> HIDE DEF a, b
        <5>4. QED
          BY <3>4, <5>1, <5>2, <5>3
      <4>3. QED
        BY <4>1, <4>2
    <3> HIDE DEF a, b
    <3>6. Word \in Nat /\ hi + field[i].step < Word
      BY DEF GoodField
    <3>7. a(i) \in Nat /\ b(i) \in Nat /\ b(i) + field[i].step < Word
      BY <3>2, <3>4, <3>5, <3>6
    <3>8. field[i].step \in Nat \ {0}
      BY <3>2, <3>3
    <3>9. QED
      BY <3>5, <3>6, <3>7, <3>8, Expand
  <2>2. \A v : v \in parse_field(field, lo, hi)
                 <=> \E i \in DOMAIN field : v \in expand(a(i), b(i), field[i].step)
    <3>1. parse_field(field, lo, hi) =
            UNION {IF field[i].range = All THEN expand(lo, hi, field[i].step)
                   ELSE expand(field[i].range[1], field[i].range[2], field[i].step)
                     : i \in DOMAIN field}
      BY <1>2, Zenon DEF parse_field
    <3>2. \A i \in DOMAIN field :
            expand(a(i), b(i), field[i].step) =
              IF field[i].range = All THEN expand(lo, hi, field[i].step)
              ELSE expand(field[i].range[1], field[i].range[2], field[i].step)
      BY Zenon
    <3> HIDE DEF a, b
    <3>3. QED
      BY <3>1, <3>2, Zenon
  <2>3. \A v : FieldMeans(field, v, lo, hi)
                 <=> \E i \in DOMAIN field : v \in a(i) .. b(i) /\ (v - a(i)) % field[i].step = 0
    BY <1>2, Zenon DEF FieldMeans
  <2> HIDE DEF a, b
  <2>4. \A v : v \in parse_field(field, lo, hi)
                 <=> v \in lo .. hi /\ FieldMeans(field, v, lo, hi)
    <3> TAKE v
    <3>1. v \in parse_field(field, lo, hi)
            <=> \E i \in DOMAIN field : v \in a(i) .. b(i) /\ (v - a(i)) % field[i].step = 0
      BY <2>1, <2>2, Zenon
    <3>2. \A i \in DOMAIN field : v \in a(i) .. b(i) => v \in lo .. hi
      BY <2>1 DEF GoodField
    <3>3. QED
      BY <2>3, <3>1, <3>2, Zenon
  <2>5. QED
    BY <2>4, Zenon
<1>3. QED
  BY <1>1, <1>2

\* A range of weekdays that wraps around the end of the week.
LEMMA WeekdaySet ==
  ASSUME NEW days, days \subseteq (1 .. Week) \X (1 .. Week), Week \in Nat \ {0},
         NEW w \in 1 .. Week
  PROVE  w \in parse_weekdays(days) <=> \E r \in days : (w - r[1]) % Week <= (r[2] - r[1]) % Week
<1>1. \A a, b \in 1 .. Week : (b - a) % Week = IF a <= b THEN b - a ELSE (b - a) + Week
  <2> TAKE a, b \in 1 .. Week
  <2>1. CASE a <= b
    <3> DEFINE x == b - a
    <3>1. x \in 0 .. Week - 1
      BY <2>1
    <3> HIDE DEF x
    <3>2. x % Week = x
      BY <3>1
    <3>3. QED
      BY <2>1, <3>2 DEF x
  <2>2. CASE ~(a <= b)
    <3> DEFINE x == b - a
    <3>1. x \in Int /\ x < 0 /\ x + Week \in 0 .. Week - 1
      BY <2>2
    <3> HIDE DEF x
    <3>2. x % Week = x + Week
      BY <3>1
    <3>3. QED
      BY <2>2, <3>2 DEF x
  <2>3. QED
    BY <2>1, <2>2
<1>2. ASSUME NEW r \in days
      PROVE  (w - r[1]) % Week <= (r[2] - r[1]) % Week
               <=> w \in IF r[1] <= r[2] THEN r[1] .. r[2] ELSE (r[1] .. Week) \cup (1 .. r[2])
  <2>1. r[1] \in 1 .. Week /\ r[2] \in 1 .. Week
    OBVIOUS
  <2> DEFINE a == r[1]
             b == r[2]
  <2> HIDE DEF a, b
  <2>2. a \in 1 .. Week /\ b \in 1 .. Week
    BY <2>1 DEF a, b
  <2>3. /\ (w - a) % Week = IF a <= w THEN w - a ELSE (w - a) + Week
        /\ (b - a) % Week = IF a <= b THEN b - a ELSE (b - a) + Week
    BY <1>1, <2>2
  <2> DEFINE p == (w - a) % Week
             q == (b - a) % Week
  <2>4. /\ p = IF a <= w THEN w - a ELSE (w - a) + Week
        /\ q = IF a <= b THEN b - a ELSE (b - a) + Week
    BY <2>3
  <2> HIDE DEF p, q
  <2>5. p <= q <=> w \in IF a <= b THEN a .. b ELSE (a .. Week) \cup (1 .. b)
    BY <2>2, <2>4
  <2>6. QED
    BY <2>5 DEF a, b, p, q
<1>3. w \in parse_weekdays(days) <=>
        \E r \in days : w \in IF r[1] <= r[2] THEN r[1] .. r[2] ELSE (r[1] .. Week) \cup (1 .. r[2])
  BY Zenon DEF parse_weekdays
<1>4. QED
  BY <1>2, <1>3, Zenon

-----------------------------------------------------------------------------
(* The instants that a line describes                                      *)

\* No step of a line, and not the step 1 of the fields that are left out, leads from a value
\* of a field to one that wraps.
StepsFit ==
  \A n \in {LastYear, Months, MaxDay, Hours, Minutes, Seconds} :
    /\ n + 1 < Word
    /\ \A l \in Lines : \A i \in DOMAIN l : l[i].is \in {"date", "time"} =>
         \A f \in DOMAIN l[i].fields : \A c \in DOMAIN l[i].fields[f] :
           n + l[i].fields[f][c].step < Word

\* Every field of an instant is in the set for it.
FieldsFit(sp, u) ==
  /\ year(u) \in sp.year /\ month(u) \in sp.month /\ day(u) \in sp.day
  /\ weekday(u) \in sp.weekdays
  /\ hour(u) \in sp.hour /\ minute(u) \in sp.minute /\ second(u) \in sp.second

\* The tokens of a line as they are assumed.
LEMMA TokenTypes ==
  ASSUME NEW l \in Lines, NEW i \in DOMAIN l
  PROVE  /\ l[i].is \in {"date", "time", "weekdays", "zone"}
         /\ l[i].is \in {"date", "time"} => l[i].fields \in Seq(Seq(Chunk))
         /\ l[i].is = "time" => Len(l[i].fields) \in {2, 3}
         /\ l[i].is = "weekdays" => l[i].days \subseteq (1 .. Week) \X (1 .. Week)
<1>1. l \in Seq(Token)
  BY LinesAssumption
<1>2. l[i] \in Token
  BY <1>1
<1>3. \/ l[i] \in [is : {"date", "time"}, fields : Seq(Seq(Chunk))]
      \/ l[i] \in [is : {"weekdays"}, days : SUBSET ((1 .. Week) \X (1 .. Week))]
      \/ l[i] \in [is : {"zone"}]
  BY <1>2, Zenon DEF Token
<1>4. l[i].is = "time" => Len(l[i].fields) \in {2, 3}
  BY Zenon, LinesAssumption DEF Of
<1>5. CASE l[i] \in [is : {"date", "time"}, fields : Seq(Seq(Chunk))]
  BY <1>4, <1>5
<1>6. CASE l[i] \in [is : {"weekdays"}, days : SUBSET ((1 .. Week) \X (1 .. Week))]
  BY <1>6
<1>7. CASE l[i] \in [is : {"zone"}]
  BY <1>7
<1>8. QED
  BY <1>3, <1>5, <1>6, <1>7

\* The bounds of the fields of a date and of a time.
Lo(kind, f) == IF kind = "time" THEN 0 ELSE IF f = 1 THEN FirstYear ELSE 1
Hi(kind, f) ==
  IF kind = "time" THEN IF f = 1 THEN Hours - 1 ELSE IF f = 2 THEN Minutes - 1 ELSE Seconds - 1
  ELSE IF f = 1 THEN LastYear ELSE IF f = 2 THEN Months ELSE MaxDay

\* No field is without values.
LEMMA Bounds ==
  ASSUME NEW kind \in {"date", "time"}, NEW f \in 1 .. 3
  PROVE  Lo(kind, f) \in Nat /\ Hi(kind, f) \in Nat /\ Lo(kind, f) <= Hi(kind, f)
<1>1. {Hours, Minutes, Seconds, Week, Months} \subseteq Nat \ {0}
  BY Sizes
<1>2. {FirstYear, LastYear, MaxDay} \subseteq Nat
  BY FieldBounds
<1>3. FirstYear <= LastYear /\ 1 <= MaxDay
  <2>1. 0 \in Instants
    <3>1. DaySeconds \in Nat \ {0} /\ Len(Days) \in Nat \ {0} /\ End = DaySeconds * Len(Days)
      BY Sizes
    <3>2. End \in Nat \ {0}
      BY <3>1
    <3>3. QED
      BY <3>2 DEF Instants
  <2>2. year(0) \in FirstYear .. LastYear /\ day(0) \in 1 .. MaxDay
    BY <2>1, FieldBounds
  <2>3. QED
    BY <1>2, <2>2
<1>4. CASE kind = "time"
  BY <1>1, <1>4 DEF Lo, Hi
<1>5. CASE kind = "date"
  BY <1>1, <1>2, <1>3, <1>5 DEF Lo, Hi
<1>6. QED
  BY <1>4, <1>5

\* The fields of a well-formed token are good.
Fields(kind, token) == IF kind = "time" THEN TimeFields(token) ELSE DateFields(token)

\* The field that is added to two.
LEMMA Third ==
  ASSUME NEW S, NEW s \in Seq(S), NEW z \in S, Len(s) = 2
  PROVE  (s \o <<z>>)[3] = z
<1> DEFINE q == <<z>>
<1>1. q \in Seq(S) /\ Len(q) = 1 /\ q[1] = z
  OBVIOUS
<1> HIDE DEF q
<1>2. \A i \in 1 .. Len(s) + Len(q) : (s \o q)[i] = IF i <= Len(s) THEN s[i] ELSE q[i - Len(s)]
  BY <1>1, ConcatProperties
<1>3. 3 \in 1 .. Len(s) + Len(q) /\ ~(3 <= Len(s)) /\ 3 - Len(s) = 1
  BY <1>1
<1>4. (s \o q)[3] = q[3 - Len(s)]
  BY <1>2, <1>3, Zenon
<1>5. QED
  BY <1>1, <1>3, <1>4 DEF q

\* The fields of a well-formed token, those that were left out among them, are good.
LEMMA TokenFields ==
  ASSUME StepsFit, NEW l \in Lines, NEW i \in DOMAIN l, NEW kind \in {"date", "time"},
         l[i].is = kind, TokenOk(l[i]), NEW f \in 1 .. 3
  PROVE  GoodField(Fields(kind, l[i])[f], Lo(kind, f), Hi(kind, f))
<1> DEFINE fs == l[i].fields
           zero == <<[range |-> <<0, 0>>, step |-> 1]>>
           g == Fields(kind, l[i])[f]
<1>1. fs \in Seq(Seq(Chunk)) /\ (kind = "time" => Len(fs) \in {2, 3})
  BY TokenTypes
<1>2. zero \in Seq(Chunk) /\ Star \in Seq(Chunk)
  <2>1. [range |-> <<0, 0>>, step |-> 1] \in Chunk
    BY DEF Chunk
  <2>2. QED
    BY <2>1 DEF Star
<1>3. g = Star \/ (kind = "time" /\ f = 3 /\ g = zero) \/ \E k \in DOMAIN fs : g = fs[k]
  <2>1. CASE kind = "time" /\ Len(fs) = 3
    <3>1. g = fs[f] /\ f \in DOMAIN fs
      BY <1>1, <2>1 DEF Fields, TimeFields
    <3>2. QED
      BY <3>1
  <2>2. CASE kind = "time" /\ Len(fs) = 2
    <3>1. g = (fs \o <<zero>>)[f]
      BY <2>2 DEF Fields, TimeFields
    <3>2. DOMAIN fs = 1 .. 2
      BY <1>1, <2>2
    <3>3. f \in 1 .. 2 => g = fs[f]
      BY <1>1, <2>2, <3>1
    <3>4. f = 3 => g = zero
      <4>1. fs \in Seq(Seq(Chunk)) /\ Len(fs) = 2
        BY <1>1, <2>2
      <4> HIDE DEF fs, zero, g
      <4>2. (fs \o <<zero>>)[3] = zero
        BY <1>2, <4>1, Third
      <4>3. QED
        BY <3>1, <4>2
    <3>5. QED
      BY <2>2, <3>2, <3>3, <3>4
  <2>3. CASE kind = "date" /\ Len(fs) = 3
    <3>1. g = fs[f] /\ f \in DOMAIN fs
      BY <1>1, <2>3 DEF Fields, DateFields
    <3>2. QED
      BY <3>1
  <2>4. CASE kind = "date" /\ Len(fs) = 2
    <3>0. DateFields(l[i]) = <<Star>> \o fs
      <4>1. Len(l[i].fields) = 2 /\ Len(l[i].fields) # 3
        BY <2>4
      <4>2. QED
        BY <4>1, Zenon DEF DateFields
    <3>1. g = (<<Star>> \o fs)[f]
      BY <2>4, <3>0 DEF Fields
    <3>2. f = 1 => g = Star
      BY <1>1, <2>4, <3>1
    <3>3. f # 1 => g = fs[f - 1] /\ f - 1 \in DOMAIN fs
      BY <1>1, <2>4, <3>1
    <3>4. QED
      BY <3>2, <3>3
  <2>5. CASE kind = "date" /\ Len(fs) # 3 /\ Len(fs) # 2
    <3>1. g = <<Star, Star, Star>>[f]
      BY <2>5 DEF Fields, DateFields
    <3>2. QED
      BY <3>1
  <2>6. QED
    BY <1>1, <2>1, <2>2, <2>3, <2>4, <2>5
<1>4. g \in Seq(Chunk)
  <2> HIDE DEF g, fs, zero
  <2> QED BY <1>1, <1>2, <1>3
<1>5. Lo(kind, f) \in Nat /\ Hi(kind, f) \in Nat /\ Lo(kind, f) <= Hi(kind, f)
  BY Bounds
<1>6. FieldOk(g, Lo(kind, f), Hi(kind, f))
  <2>1. CASE kind = "date"
    <3>1. /\ FieldOk(DateFields(l[i])[1], FirstYear, LastYear)
          /\ FieldOk(DateFields(l[i])[2], 1, Months)
          /\ FieldOk(DateFields(l[i])[3], 1, MaxDay)
      BY <2>1, Zenon DEF TokenOk
    <3>2. QED
      BY <2>1, <3>1 DEF Lo, Hi, Fields
  <2>2. CASE kind = "time"
    <3>1. /\ FieldOk(TimeFields(l[i])[1], 0, Hours - 1)
          /\ FieldOk(TimeFields(l[i])[2], 0, Minutes - 1)
          /\ FieldOk(TimeFields(l[i])[3], 0, Seconds - 1)
      BY <2>2 DEF TokenOk
    <3>2. QED
      BY <2>2, <3>1 DEF Lo, Hi, Fields
  <2>3. QED
    BY <2>1, <2>2
<1>7. Word \in Nat
  BY LinesAssumption
<1>8. \A j \in DOMAIN g : Hi(kind, f) + g[j].step < Word
  <2> TAKE j \in DOMAIN g
  <2>1. g[j].step \in Nat
    <3> HIDE DEF g
    <3>1. g[j] \in Chunk
      BY <1>4
    <3>2. QED
      BY <3>1 DEF Chunk
  <2> DEFINE Tops == {LastYear, Months, MaxDay, Hours, Minutes, Seconds}
  <2>2. \A n \in Tops : n + g[j].step < Word
    <3>1. CASE g = Star
      BY <3>1 DEF Star
    <3>2. CASE kind = "time" /\ f = 3 /\ g = zero
      <4>1. g[j].step = 1
        BY <3>2
      <4>2. QED
        BY <4>1 DEF StepsFit
    <3>3. CASE \E k \in DOMAIN fs : g = fs[k]
      <4>1. PICK k \in DOMAIN fs : g = fs[k]
        BY <3>3
      <4>2. j \in DOMAIN l[i].fields[k] /\ g[j].step = l[i].fields[k][j].step
        BY <4>1
      <4> HIDE DEF g
      <4>3. QED
        BY <4>1, <4>2 DEF StepsFit
    <3>4. QED
      BY <1>3, <3>1, <3>2, <3>3
  <2> HIDE DEF g, Tops
  <2>3. \E n \in Tops : Hi(kind, f) <= n /\ n \in Nat
    <3>1. {Hours, Minutes, Seconds, Week, Months} \subseteq Nat \ {0}
      BY Sizes
    <3>2. {FirstYear, LastYear, MaxDay} \subseteq Nat
      BY FieldBounds
    <3>3. QED
      BY <3>1, <3>2 DEF Hi, Tops
  <2>4. QED
    BY <1>5, <1>7, <2>1, <2>2, <2>3
<1> HIDE DEF g
<1>9. QED
  BY <1>4, <1>5, <1>6, <1>7, <1>8 DEF GoodField, g

\* Whether a line has a token of a kind, and the fields that its date and its time have.
Has(l, kind) == Of(l, kind) # {}
DateOf(l) == DateFields(IF Has(l, "date") THEN The(l, "date") ELSE [fields |-> <<>>])
TimeOf(l) == TimeFields(The(l, "time"))

\* The sets that a line is parsed to, one by one (calendar.rs:64-152).
LEMMA ParseIs ==
  ASSUME NEW l \in ParsedLines, NEW sp, sp = parse(l)
  PROVE  /\ l \in Lines /\ LineOk(l)
         /\ sp.weekdays = IF Has(l, "weekdays") THEN parse_weekdays(The(l, "weekdays").days)
                          ELSE 1 .. Week
         /\ sp.year = parse_field(DateOf(l)[1], FirstYear, LastYear)
         /\ sp.month = parse_field(DateOf(l)[2], 1, Months)
         /\ sp.day = parse_field(DateOf(l)[3], 1, MaxDay)
         /\ sp.hour = IF Has(l, "time") THEN parse_field(TimeOf(l)[1], 0, Hours - 1)
                      ELSE IF Has(l, "date") \/ Has(l, "weekdays") THEN {0} ELSE 0 .. Hours - 1
         /\ sp.minute = IF Has(l, "time") THEN parse_field(TimeOf(l)[2], 0, Minutes - 1)
                        ELSE IF Has(l, "date") \/ Has(l, "weekdays") THEN {0} ELSE 0 .. Minutes - 1
         /\ sp.second = IF Has(l, "time") THEN parse_field(TimeOf(l)[3], 0, Seconds - 1)
                        ELSE IF Has(l, "date") \/ Has(l, "weekdays") THEN {0} ELSE 0 .. Seconds - 1
<1>1. l \in Lines /\ parse(l) # Error
  BY Zenon DEF ParsedLines
<1>2. LineOk(l)
  BY <1>1, Zenon DEF parse
<1> DEFINE clock == IF Has(l, "time")
               THEN [hour |-> parse_field(TimeOf(l)[1], 0, Hours - 1),
                     minute |-> parse_field(TimeOf(l)[2], 0, Minutes - 1),
                     second |-> parse_field(TimeOf(l)[3], 0, Seconds - 1)]
               ELSE IF Has(l, "date") \/ Has(l, "weekdays") THEN Midnight ELSE AnyTime
<1>3. sp = [weekdays |-> IF Has(l, "weekdays") THEN parse_weekdays(The(l, "weekdays").days)
                        ELSE 1 .. Week,
           year |-> parse_field(DateOf(l)[1], FirstYear, LastYear),
           month |-> parse_field(DateOf(l)[2], 1, Months),
           day |-> parse_field(DateOf(l)[3], 1, MaxDay),
           hour |-> clock.hour, minute |-> clock.minute, second |-> clock.second]
  BY <1>2, Zenon DEF parse, Has, DateOf, TimeOf
<1>4. /\ clock.hour = IF Has(l, "time") THEN parse_field(TimeOf(l)[1], 0, Hours - 1)
                      ELSE IF Has(l, "date") \/ Has(l, "weekdays") THEN {0} ELSE 0 .. Hours - 1
      /\ clock.minute = IF Has(l, "time") THEN parse_field(TimeOf(l)[2], 0, Minutes - 1)
                        ELSE IF Has(l, "date") \/ Has(l, "weekdays") THEN {0} ELSE 0 .. Minutes - 1
      /\ clock.second = IF Has(l, "time") THEN parse_field(TimeOf(l)[3], 0, Seconds - 1)
                        ELSE IF Has(l, "date") \/ Has(l, "weekdays") THEN {0} ELSE 0 .. Seconds - 1
  BY DEF Midnight, AnyTime
<1> HIDE DEF clock
<1>5. QED
  BY <1>1, <1>2, <1>3, <1>4

\* A line has one token of a kind, or none.
LEMMA OnlyOne ==
  ASSUME NEW l, LineOk(l), NEW k \in {"weekdays", "date", "time", "zone"}
  PROVE  /\ Has(l, k) => \E i \in DOMAIN l : l[i].is = k /\ The(l, k) = l[i] /\ TokenOk(l[i])
         /\ \A i \in DOMAIN l : l[i].is = k => Has(l, k) /\ The(l, k) = l[i]
<1> DEFINE O == Of(l, k)
<1>1. O = {i \in DOMAIN l : l[i].is = k}
  BY Zenon DEF Of
<1>2. \A i, j \in O : i = j
  BY Zenon DEF LineOk
<1>3. The(l, k) = l[CHOOSE i \in O : TRUE]
  BY Zenon DEF The
<1>4. \A i \in DOMAIN l : TokenOk(l[i])
  BY Zenon DEF LineOk
<1>5. Has(l, k) <=> O # {}
  BY Zenon DEF Has
<1> HIDE DEF O
<1>6. \A i \in O : (CHOOSE j \in O : TRUE) = i
  BY <1>2
<1>7. QED
  BY <1>1, <1>3, <1>4, <1>5, <1>6

\* What a line means, kind by kind.
LEMMA MeansByKind ==
  ASSUME NEW l \in Lines, LineOk(l), NEW u
  PROVE  Means(l, u) <=>
           /\ Has(l, "date") => TokenMeans(The(l, "date"), u)
           /\ Has(l, "time") => TokenMeans(The(l, "time"), u)
           /\ Has(l, "weekdays") => TokenMeans(The(l, "weekdays"), u)
           /\ ~Has(l, "time") => u % DaySeconds = 0 \/ ~(Has(l, "date") \/ Has(l, "weekdays"))
<1>1. \A i \in DOMAIN l : l[i].is \in {"date", "time", "weekdays", "zone"}
  BY TokenTypes
<1>2. \A i \in DOMAIN l : l[i].is = "zone" => TokenMeans(l[i], u)
  BY DEF TokenMeans
<1>3. \A k \in {"weekdays", "date", "time", "zone"} :
         /\ Has(l, k) => \E i \in DOMAIN l : l[i].is = k /\ The(l, k) = l[i]
         /\ \A i \in DOMAIN l : l[i].is = k => Has(l, k) /\ The(l, k) = l[i]
  BY OnlyOne
<1>4. (\A i \in DOMAIN l : TokenMeans(l[i], u)) <=>
           /\ Has(l, "date") => TokenMeans(The(l, "date"), u)
           /\ Has(l, "time") => TokenMeans(The(l, "time"), u)
           /\ Has(l, "weekdays") => TokenMeans(The(l, "weekdays"), u)
  BY <1>1, <1>2, <1>3
<1>5. (\A i \in DOMAIN l : l[i].is # "time") <=> ~Has(l, "time")
  BY <1>3
<1>6. ~Has(l, "time") =>
        ((\A i \in DOMAIN l : l[i].is = "zone") <=> ~(Has(l, "date") \/ Has(l, "weekdays")))
  BY <1>1, <1>3
<1>7. QED
  BY <1>4, <1>5, <1>6, Zenon DEF Means

\* The set of a field holds what its words mean, and nothing out of bounds.
LEMMA FieldMember ==
  ASSUME StepsFit, NEW l \in Lines, LineOk(l), NEW kind \in {"date", "time"},
         Has(l, kind), NEW f \in 1 .. 3,
         NEW field, field = Fields(kind, The(l, kind))[f],
         NEW S, S = parse_field(field, Lo(kind, f), Hi(kind, f))
  PROVE  /\ S \subseteq Lo(kind, f) .. Hi(kind, f)
         /\ \A v \in Lo(kind, f) .. Hi(kind, f) :
              v \in S <=> FieldMeans(field, v, Lo(kind, f), Hi(kind, f))
<1>1. PICK i \in DOMAIN l : l[i].is = kind /\ The(l, kind) = l[i] /\ TokenOk(l[i])
  BY OnlyOne
<1>2. GoodField(field, Lo(kind, f), Hi(kind, f))
  BY <1>1, TokenFields
<1>3. S = {v \in Lo(kind, f) .. Hi(kind, f) : FieldMeans(field, v, Lo(kind, f), Hi(kind, f))}
  BY <1>2, FieldSet
<1>4. QED
  BY <1>3, Zenon

\* The sets of the date hold the dates that the line means.
LEMMA DateMeans ==
  ASSUME StepsFit, NEW l \in ParsedLines, NEW sp, sp = parse(l)
  PROVE  /\ sp.year \subseteq Nat /\ sp.month \subseteq 1 .. Months /\ sp.day \subseteq Nat
         /\ \A u \in Instants :
              year(u) \in sp.year /\ month(u) \in sp.month /\ day(u) \in sp.day
                <=> (Has(l, "date") => TokenMeans(The(l, "date"), u))
<1>1. /\ l \in Lines /\ LineOk(l)
      /\ sp.year = parse_field(DateOf(l)[1], FirstYear, LastYear)
      /\ sp.month = parse_field(DateOf(l)[2], 1, Months)
      /\ sp.day = parse_field(DateOf(l)[3], 1, MaxDay)
  BY ParseIs
<1>2. {FirstYear, LastYear, MaxDay} \subseteq Nat /\ Months \in Nat
  BY FieldBounds, Sizes
<1>3. \A u \in Instants : /\ year(u) \in FirstYear .. LastYear
                          /\ month(u) \in 1 .. Months /\ day(u) \in 1 .. MaxDay
  BY FieldBounds, FieldTypes
<1>4. /\ Lo("date", 1) = FirstYear /\ Lo("date", 2) = 1 /\ Lo("date", 3) = 1
      /\ Hi("date", 1) = LastYear /\ Hi("date", 2) = Months /\ Hi("date", 3) = MaxDay
  BY DEF Lo, Hi
<1>5. CASE Has(l, "date")
  <2> DEFINE F == Fields("date", The(l, "date"))
  <2>1. DateOf(l) = F
    BY <1>5 DEF DateOf, Fields
  <2>2. DateOf(l) = DateFields(The(l, "date"))
    BY <1>5 DEF DateOf
  <2>3. The(l, "date").is = "date"
    BY <1>1, <1>5, OnlyOne
  <2> HIDE DEF F
  <2>4. ASSUME NEW f \in 1 .. 3
        PROVE  /\ parse_field(F[f], Lo("date", f), Hi("date", f)) \subseteq Lo("date", f) .. Hi("date", f)
               /\ \A v \in Lo("date", f) .. Hi("date", f) :
                    v \in parse_field(F[f], Lo("date", f), Hi("date", f))
                      <=> FieldMeans(F[f], v, Lo("date", f), Hi("date", f))
    BY <1>1, <1>5, FieldMember DEF F
  <2>5. /\ sp.year \subseteq FirstYear .. LastYear
        /\ \A v \in FirstYear .. LastYear :
             v \in sp.year <=> FieldMeans(DateOf(l)[1], v, FirstYear, LastYear)
    BY <1>1, <1>4, <2>1, <2>4
  <2>6. /\ sp.month \subseteq 1 .. Months
        /\ \A v \in 1 .. Months :
             v \in sp.month <=> FieldMeans(DateOf(l)[2], v, 1, Months)
    BY <1>1, <1>4, <2>1, <2>4
  <2>7. /\ sp.day \subseteq 1 .. MaxDay
        /\ \A v \in 1 .. MaxDay :
             v \in sp.day <=> FieldMeans(DateOf(l)[3], v, 1, MaxDay)
    BY <1>1, <1>4, <2>1, <2>4
  <2>8. \A u : TokenMeans(The(l, "date"), u) <=>
                 /\ FieldMeans(DateOf(l)[1], year(u), FirstYear, LastYear)
                 /\ FieldMeans(DateOf(l)[2], month(u), 1, Months)
                 /\ FieldMeans(DateOf(l)[3], day(u), 1, MaxDay)
    BY <2>2, <2>3, Zenon DEF TokenMeans
  <2>9. sp.year \subseteq Nat /\ sp.day \subseteq Nat
    BY <1>2, <2>5, <2>7
  <2>10. QED
    BY <1>3, <1>5, <2>5, <2>6, <2>7, <2>8, <2>9, Zenon
<1>6. CASE ~Has(l, "date")
  <2>1. DateOf(l) = <<Star, Star, Star>>
    <3>1. DateOf(l) = DateFields([fields |-> <<>>])
      BY <1>6 DEF DateOf
    <3>2. QED
      BY <3>1 DEF DateFields
  <2>2. /\ sp.year = FirstYear .. LastYear /\ sp.month = 1 .. Months
        /\ sp.day = 1 .. MaxDay
    BY <1>1, <2>1 DEF parse_field
  <2>3. sp.year \subseteq Nat /\ sp.day \subseteq Nat
    BY <1>2, <2>2
  <2>4. QED
    BY <1>3, <1>6, <2>2, <2>3
<1>7. QED
  BY <1>5, <1>6

\* The sets of the time hold the times of day that the line means.
LEMMA TimeMeans ==
  ASSUME StepsFit, NEW l \in ParsedLines, NEW sp, sp = parse(l)
  PROVE  /\ sp.hour \subseteq 0 .. Hours - 1 /\ sp.minute \subseteq 0 .. Minutes - 1
         /\ sp.second \subseteq 0 .. Seconds - 1
         /\ \A u \in Instants :
              hour(u) \in sp.hour /\ minute(u) \in sp.minute /\ second(u) \in sp.second
                <=> /\ Has(l, "time") => TokenMeans(The(l, "time"), u)
                    /\ ~Has(l, "time") =>
                         u % DaySeconds = 0 \/ ~(Has(l, "date") \/ Has(l, "weekdays"))
<1>1. /\ l \in Lines /\ LineOk(l)
      /\ sp.hour = IF Has(l, "time") THEN parse_field(TimeOf(l)[1], 0, Hours - 1)
                   ELSE IF Has(l, "date") \/ Has(l, "weekdays") THEN {0} ELSE 0 .. Hours - 1
      /\ sp.minute = IF Has(l, "time") THEN parse_field(TimeOf(l)[2], 0, Minutes - 1)
                     ELSE IF Has(l, "date") \/ Has(l, "weekdays") THEN {0} ELSE 0 .. Minutes - 1
      /\ sp.second = IF Has(l, "time") THEN parse_field(TimeOf(l)[3], 0, Seconds - 1)
                     ELSE IF Has(l, "date") \/ Has(l, "weekdays") THEN {0} ELSE 0 .. Seconds - 1
  BY ParseIs
<1>2. \A u \in Instants :
        /\ hour(u) \in 0 .. Hours - 1 /\ minute(u) \in 0 .. Minutes - 1
        /\ second(u) \in 0 .. Seconds - 1
        /\ u % DaySeconds = 0 <=> hour(u) = 0 /\ minute(u) = 0 /\ second(u) = 0
  BY FieldTypes, Clock
<1>3. /\ Lo("time", 1) = 0 /\ Lo("time", 2) = 0 /\ Lo("time", 3) = 0
      /\ Hi("time", 1) = Hours - 1 /\ Hi("time", 2) = Minutes - 1 /\ Hi("time", 3) = Seconds - 1
  BY DEF Lo, Hi
<1>4. CASE Has(l, "time")
  <2> DEFINE F == Fields("time", The(l, "time"))
  <2>1. TimeOf(l) = F
    BY DEF TimeOf, Fields
  <2>2. TimeOf(l) = TimeFields(The(l, "time"))
    BY DEF TimeOf
  <2>3. The(l, "time").is = "time"
    BY <1>1, <1>4, OnlyOne
  <2> HIDE DEF F
  <2>4. ASSUME NEW f \in 1 .. 3
        PROVE  /\ parse_field(F[f], Lo("time", f), Hi("time", f)) \subseteq Lo("time", f) .. Hi("time", f)
               /\ \A v \in Lo("time", f) .. Hi("time", f) :
                    v \in parse_field(F[f], Lo("time", f), Hi("time", f))
                      <=> FieldMeans(F[f], v, Lo("time", f), Hi("time", f))
    BY <1>1, <1>4, FieldMember DEF F
  <2>5. /\ sp.hour \subseteq 0 .. Hours - 1
        /\ \A v \in 0 .. Hours - 1 :
             v \in sp.hour <=> FieldMeans(TimeOf(l)[1], v, 0, Hours - 1)
    BY <1>1, <1>3, <1>4, <2>1, <2>4
  <2>6. /\ sp.minute \subseteq 0 .. Minutes - 1
        /\ \A v \in 0 .. Minutes - 1 :
             v \in sp.minute <=> FieldMeans(TimeOf(l)[2], v, 0, Minutes - 1)
    BY <1>1, <1>3, <1>4, <2>1, <2>4
  <2>7. /\ sp.second \subseteq 0 .. Seconds - 1
        /\ \A v \in 0 .. Seconds - 1 :
             v \in sp.second <=> FieldMeans(TimeOf(l)[3], v, 0, Seconds - 1)
    BY <1>1, <1>3, <1>4, <2>1, <2>4
  <2>8. \A u : TokenMeans(The(l, "time"), u) <=>
                 /\ FieldMeans(TimeOf(l)[1], hour(u), 0, Hours - 1)
                 /\ FieldMeans(TimeOf(l)[2], minute(u), 0, Minutes - 1)
                 /\ FieldMeans(TimeOf(l)[3], second(u), 0, Seconds - 1)
    BY <2>2, <2>3 DEF TokenMeans
  <2>9. QED
    BY <1>2, <1>4, <2>5, <2>6, <2>7, <2>8, Zenon
<1>5. CASE ~Has(l, "time") /\ (Has(l, "date") \/ Has(l, "weekdays"))
  <2>1. sp.hour = {0} /\ sp.minute = {0} /\ sp.second = {0}
    BY <1>1, <1>5, Zenon
  <2>2. Hours \in Nat \ {0} /\ Minutes \in Nat \ {0} /\ Seconds \in Nat \ {0}
    BY Sizes
  <2>3. /\ sp.hour \subseteq 0 .. Hours - 1 /\ sp.minute \subseteq 0 .. Minutes - 1
        /\ sp.second \subseteq 0 .. Seconds - 1
    BY <2>1, <2>2
  <2>4. QED
    BY <1>2, <1>5, <2>1, <2>3, Zenon
<1>6. CASE ~Has(l, "time") /\ ~(Has(l, "date") \/ Has(l, "weekdays"))
  BY <1>1, <1>2, <1>6, Zenon
<1>7. QED
  BY <1>4, <1>5, <1>6

\* The set of weekdays holds the weekdays that the line means.
LEMMA WeekdaysMean ==
  ASSUME NEW l \in ParsedLines, NEW sp, sp = parse(l), NEW u \in Instants
  PROVE  weekday(u) \in sp.weekdays
           <=> (Has(l, "weekdays") => TokenMeans(The(l, "weekdays"), u))
<1>1. /\ l \in Lines /\ LineOk(l)
      /\ sp.weekdays = IF Has(l, "weekdays") THEN parse_weekdays(The(l, "weekdays").days)
                       ELSE 1 .. Week
  BY ParseIs
<1>2. weekday(u) \in 1 .. Week /\ Week \in Nat \ {0}
  BY FieldBounds, Sizes
<1>3. CASE Has(l, "weekdays")
  <2>1. PICK i \in DOMAIN l : l[i].is = "weekdays" /\ The(l, "weekdays") = l[i]
    BY <1>1, <1>3, OnlyOne
  <2>2. l[i].days \subseteq (1 .. Week) \X (1 .. Week)
    BY <1>1, <2>1, TokenTypes
  <2>3. TokenMeans(l[i], u) <=>
          \E r \in l[i].days : (weekday(u) - r[1]) % Week <= (r[2] - r[1]) % Week
    BY <2>1 DEF TokenMeans
  <2>4. QED
    BY <1>1, <1>2, <1>3, <2>1, <2>2, <2>3, WeekdaySet
<1>4. QED
  BY <1>1, <1>2, <1>3

\* A line describes the instants all of whose fields are in the sets that it is parsed to.
LEMMA DescribedFits ==
  ASSUME StepsFit, NEW l \in ParsedLines, NEW sp, sp = parse(l), NEW u \in Instants
  PROVE  u \in Described(l) <=> FieldsFit(sp, u)
<1>1. l \in Lines /\ LineOk(l)
  BY ParseIs
<1>2. u \in Described(l) <=> Means(l, u)
  BY Zenon DEF Described, Instants
<1>3. Means(l, u) <=>
           /\ Has(l, "date") => TokenMeans(The(l, "date"), u)
           /\ Has(l, "time") => TokenMeans(The(l, "time"), u)
           /\ Has(l, "weekdays") => TokenMeans(The(l, "weekdays"), u)
           /\ ~Has(l, "time") => u % DaySeconds = 0 \/ ~(Has(l, "date") \/ Has(l, "weekdays"))
  BY <1>1, MeansByKind
<1>4. year(u) \in sp.year /\ month(u) \in sp.month /\ day(u) \in sp.day
        <=> (Has(l, "date") => TokenMeans(The(l, "date"), u))
  BY DateMeans
<1>5. hour(u) \in sp.hour /\ minute(u) \in sp.minute /\ second(u) \in sp.second
                <=> /\ Has(l, "time") => TokenMeans(The(l, "time"), u)
                    /\ ~Has(l, "time") =>
                         u % DaySeconds = 0 \/ ~(Has(l, "date") \/ Has(l, "weekdays"))
  BY TimeMeans
<1>6. weekday(u) \in sp.weekdays
           <=> (Has(l, "weekdays") => TokenMeans(The(l, "weekdays"), u))
  BY WeekdaysMean
<1>7. QED
  BY <1>2, <1>3, <1>4, <1>5, <1>6, Zenon DEF FieldsFit

-----------------------------------------------------------------------------
(* The searches                                                            *)

\* The inductive invariant: where the search is, and what it has passed.
SearchInv ==
  /\ line \in ParsedLines /\ spec = parse(line) /\ described = Described(line)
  /\ asked \in {"next", "prev"} /\ from \in Starts
  /\ cursor \in Nat /\ candidate \in Nat /\ cursor < candidate
  /\ from - Lookback * DaySeconds <= cursor /\ cursor <= from
  /\ asked = "next" => cursor = from
  /\ \/ latest = Never /\ (asked = "prev" => cursor = from - Lookback * DaySeconds)
     \/ /\ latest = cursor /\ cursor \in described
        /\ from - Lookback * DaySeconds < cursor
  /\ FirstMatch /\ LatestPast

\* The numbers of a search that is under way.
LEMMA Searches ==
  ASSUME StepsFit, SearchInv
  PROVE  /\ DaySeconds \in Nat \ {0} /\ from \in Nat
         /\ Lookback * DaySeconds \in Nat /\ Horizon * DaySeconds \in Nat
         /\ Lookback * DaySeconds < Horizon * DaySeconds
         /\ Lookback * DaySeconds <= from
         /\ limit = cursor + Horizon * DaySeconds
         /\ described \subseteq Instants /\ described \subseteq Nat
         /\ Turn => candidate \in Instants
         /\ \A u \in Instants : u \in described <=> FieldsFit(spec, u)
<1> DEFINE D == DaySeconds
<1>1. D \in Nat \ {0} /\ End \in Nat
  BY Sizes
<1>2. Lookback \in Nat /\ Horizon \in Nat /\ Lookback < Horizon
  BY CalendarAssumption
<1>3. from \in Lookback * D .. End - (Horizon + 1) * D
  BY CalendarAssumption DEF SearchInv
<1>4. cursor \in Nat /\ candidate \in Nat /\ cursor <= from
  BY DEF SearchInv
<1>5. limit = cursor + Horizon * D
  BY DEF limit
<1>6. described = Described(line) /\ line \in ParsedLines /\ spec = parse(line)
  BY DEF SearchInv
<1>7. described \subseteq Instants
  BY <1>6, Zenon DEF Described, Instants
<1>8. Instants \subseteq Nat
  BY <1>1 DEF Instants
<1>9. \A u \in Instants : u \in described <=> FieldsFit(spec, u)
  BY <1>6, DescribedFits
<1>10. Turn => candidate < limit
  BY DEF Turn
<1> HIDE DEF D
<1>11. /\ Lookback * D \in Nat /\ Horizon * D \in Nat /\ Lookback * D < Horizon * D
       /\ (Horizon + 1) * D = Horizon * D + D
  <2>1. D * Lookback + D <= D * Horizon /\ D * Lookback \in Nat /\ D * Horizon \in Nat
    BY <1>1, <1>2, MulStep
  <2>2. D * Lookback = Lookback * D /\ D * Horizon = Horizon * D
    BY <1>1, <1>2
  <2>3. (Horizon + 1) * D = Horizon * D + D
    BY <1>1, <1>2
  <2>4. QED
    BY <1>1, <2>1, <2>2, <2>3
<1>12. from \in Nat /\ Lookback * D <= from /\ from + Horizon * D < End
  BY <1>1, <1>3, <1>11
<1>13. Turn => candidate \in Instants
  BY <1>1, <1>4, <1>5, <1>10, <1>11, <1>12 DEF Instants
<1>14. QED
  BY <1>1, <1>5, <1>7, <1>8, <1>9, <1>11, <1>12, <1>13 DEF D

\* A jump that passes nothing that the line describes.
LEMMA GoKeeps ==
  ASSUME StepsFit, SearchInv, Turn, NEW to, Go(to),
         to \in Nat, candidate < to, \A v \in described : candidate <= v => to <= v
  PROVE  SearchInv'
<1>1. /\ candidate' = to
      /\ UNCHANGED <<line, spec, asked, from, described, cursor, latest, turns, answer>>
  BY DEF Go, input
<1>2. answer = Searching /\ answer' = Searching
  BY <1>1 DEF Turn
<1>3. described \subseteq Nat /\ cursor \in Nat /\ candidate \in Nat /\ cursor < candidate
  BY Searches DEF SearchInv
<1>4. \A v \in described : v > cursor => v >= to
  <2>1. \A v \in described : v > cursor => v >= candidate
    BY <1>2, Zenon DEF SearchInv, FirstMatch
  <2>2. QED
    BY <1>3, <2>1
<1>5. FirstMatch'
  BY <1>1, <1>2, <1>4 DEF FirstMatch, Searching, Never
<1>6. LatestPast'
  BY <1>2, Zenon DEF LatestPast
<1>7. cursor < candidate'
  BY <1>1, <1>3
<1>8. QED
  BY <1>1, <1>5, <1>6, <1>7 DEF SearchInv

\* A search that ends with what it has: nothing that is described is left up to `from`, nor
\* up to the limit of a search forwards.
LEMMA NothingLeft ==
  ASSUME StepsFit, SearchInv,
         UNCHANGED <<line, spec, asked, from, described, cursor, candidate, latest, turns>>,
         answer' = IF asked = "next" THEN Never ELSE latest,
         \A v \in described : v > cursor => v > from,
         asked = "next" => \A v \in described : v > cursor => v >= limit
  PROVE  SearchInv'
<1>1. /\ UNCHANGED <<line, spec, asked, from, described, cursor, candidate, latest, turns>>
      /\ answer' = IF asked = "next" THEN Never ELSE latest
  OBVIOUS
<1>2. /\ cursor \in Nat /\ from \in Nat /\ described \subseteq Nat
      /\ Lookback * DaySeconds \in Nat /\ Horizon * DaySeconds \in Nat
      /\ Lookback * DaySeconds < Horizon * DaySeconds
      /\ limit = cursor + Horizon * DaySeconds /\ limit' = limit
      /\ from - Lookback * DaySeconds <= cursor /\ cursor <= from
  BY <1>1, Searches DEF SearchInv, limit
<1>3. \/ latest = Never /\ (asked = "prev" => cursor = from - Lookback * DaySeconds)
      \/ latest = cursor /\ cursor \in described /\ from - Lookback * DaySeconds < cursor
  BY DEF SearchInv
<1>4. answer' # Searching
  BY <1>1, <1>2, <1>3 DEF Searching, Never
<1>5. asked = "next" => FirstMatch'
  <2> SUFFICES ASSUME asked = "next" PROVE FirstMatch'
    OBVIOUS
  <2>1. cursor = from /\ answer' = Never /\ ~(answer' >= 0)
    BY <1>1 DEF SearchInv, Never
  <2>2. QED
    BY <1>1, <1>2, <1>4, <2>1 DEF FirstMatch
<1>6. asked = "prev" => FirstMatch'
  BY <1>1, <1>4 DEF FirstMatch
<1>7. asked = "prev" => LatestPast'
  <2> SUFFICES ASSUME asked = "prev" PROVE LatestPast'
    OBVIOUS
  <2> DEFINE past == {t \in described : from - Lookback * DaySeconds < t /\ t <= from}
  <2>1. answer' = latest
    BY <1>1
  <2>2. \A t \in past : t <= cursor
    BY <1>2
  <2>3. latest = IF past = {} THEN Never ELSE Max(past)
    <3>1. CASE latest = Never /\ cursor = from - Lookback * DaySeconds
      <4>1. \A t \in past : FALSE
        <5> TAKE t \in past
        <5> DEFINE back == Lookback * DaySeconds
        <5>1. t \in Nat /\ t <= cursor /\ from - back < t /\ back \in Nat /\ cursor = from - back
          BY <1>2, <2>2, <3>1
        <5> HIDE DEF back, past
        <5>2. QED
          BY <1>2, <5>1
      <4>2. QED
        BY <3>1, <4>1, Zenon
    <3>2. CASE latest = cursor /\ cursor \in described /\ from - Lookback * DaySeconds < cursor
      <4>1. cursor \in past
        BY <1>2, <3>2
      <4>2. past \subseteq Nat
        BY <1>2
      <4>3. Max(past) = CHOOSE x \in past : \A y \in past : x >= y
        BY DEF Max
      <4> HIDE DEF past
      <4>4. \A t \in past : cursor >= t
        BY <1>2, <2>2, <4>2
      <4>5. Max(past) \in past /\ \A t \in past : Max(past) >= t
        BY <4>1, <4>3, <4>4
      <4>6. Max(past) = cursor
        <5> DEFINE max == Max(past)
        <5>1. max \in Nat /\ cursor >= max /\ max >= cursor
          BY <4>1, <4>2, <4>4, <4>5
        <5> HIDE DEF max
        <5>2. max = cursor
          BY <1>2, <5>1
        <5>3. QED
          BY <5>2 DEF max
      <4>7. QED
        BY <3>2, <4>1, <4>6
    <3>3. QED
      BY <1>3, <3>1, <3>2
  <2>4. QED
    BY <1>1, <2>1, <2>3, Zenon DEF LatestPast
<1>8. asked = "next" => LatestPast'
  BY <1>1 DEF LatestPast
<1>9. asked \in {"next", "prev"}
  BY DEF SearchInv
<1>10. QED
  BY <1>1, <1>5, <1>6, <1>7, <1>8, <1>9 DEF SearchInv

\* next_fire has nothing to return.
LEMMA ReturnsNever ==
  ASSUME StepsFit, SearchInv, Return(Never),
         \A v \in described : v > cursor => v >= limit
  PROVE  SearchInv'
<1>1. /\ UNCHANGED <<line, spec, asked, from, described, cursor, candidate, latest, turns>>
      /\ answer' = IF asked = "next" THEN Never ELSE latest
  BY DEF Return, input
<1>2. \A v \in described : v > cursor => v > from
  <2> DEFINE back == Lookback * DaySeconds
             ahead == Horizon * DaySeconds
  <2>1. /\ cursor \in Nat /\ from \in Nat /\ described \subseteq Nat /\ back \in Nat /\ ahead \in Nat
        /\ back < ahead /\ limit = cursor + ahead /\ from - back <= cursor
    BY Searches DEF SearchInv
  <2> HIDE DEF back, ahead
  <2>2. QED
    BY <2>1
<1>3. QED
  BY <1>1, <1>2, NothingLeft

\* next_fire returns the candidate.
LEMMA ReturnsMatch ==
  ASSUME StepsFit, SearchInv, Turn, candidate \in described, Return(candidate)
  PROVE  SearchInv'
<1> DEFINE back == Lookback * DaySeconds
<1>1. /\ cursor \in Nat /\ candidate \in Nat /\ from \in Nat /\ described \subseteq Nat
      /\ cursor < candidate /\ back \in Nat /\ from - back <= cursor /\ cursor <= from
      /\ asked \in {"next", "prev"}
  BY Searches DEF SearchInv
<1>2. answer = Searching
  BY DEF Turn
<1>3. \A v \in described : v > cursor => v >= candidate
  BY <1>2, Zenon DEF SearchInv, FirstMatch
<1>4. candidate # Never /\ candidate # Searching
  BY <1>1 DEF Never, Searching
<1>5. CASE asked = "next"
  <2>1. /\ answer' = candidate
        /\ UNCHANGED <<line, spec, asked, from, described, cursor, candidate, latest, turns>>
    BY <1>5 DEF Return, input
  <2>2. cursor = from
    BY <1>5 DEF SearchInv
  <2> DEFINE after == {u \in described : u > from}
  <2>3. candidate = Min(after)
    <3>1. candidate \in after /\ after \subseteq Nat /\ \A v \in after : candidate <= v
      BY <1>1, <1>3, <2>2
    <3> HIDE DEF after
    <3>2. Min(after) \in after /\ \A v \in after : Min(after) <= v
      BY <3>1, MinNat
    <3> DEFINE min == Min(after)
    <3>3. min \in Nat /\ min <= candidate /\ candidate <= min
      BY <3>1, <3>2
    <3> HIDE DEF min
    <3>4. candidate = min
      BY <1>1, <3>3
    <3>5. QED
      BY <3>4 DEF min
  <2>4. FirstMatch'
    BY <1>4, <2>1, <2>3, Zenon DEF FirstMatch
  <2>5. LatestPast'
    BY <1>5, <2>1 DEF LatestPast
  <2>6. QED
    BY <2>1, <2>4, <2>5 DEF SearchInv
<1>6. CASE asked = "prev" /\ candidate > from
  <2>1. /\ UNCHANGED <<line, spec, asked, from, described, cursor, candidate, latest, turns>>
        /\ answer' = IF asked = "next" THEN Never ELSE latest
    BY <1>6 DEF Return, input
  <2>2. \A v \in described : v > cursor => v > from
    BY <1>1, <1>3, <1>6
  <2>3. QED
    BY <1>6, <2>1, <2>2, NothingLeft
<1>7. CASE asked = "prev" /\ ~(candidate > from)
  <2>1. /\ latest' = candidate /\ turns' = turns + 1 /\ cursor' = candidate
        /\ candidate' = candidate + 1
        /\ answer' = IF turns' = MaxTurns THEN candidate ELSE Searching
        /\ UNCHANGED <<line, spec, asked, from, described>>
    BY <1>4, <1>7 DEF Return, input
  <2>2. FirstMatch'
    <3>1. \A v \in described : v > cursor' => v >= candidate'
      BY <1>1, <2>1
    <3>2. asked' # "next"
      BY <1>7, <2>1
    <3>3. QED
      BY <2>1, <3>1, <3>2 DEF FirstMatch
  <2>3. LatestPast'
    <3>1. MaxTurns \in Nat
      BY CalendarAssumption
    <3>2. answer' # Searching => ~(turns' < MaxTurns)
      BY <2>1, <3>1
    <3>3. QED
      BY <3>2 DEF LatestPast
  <2>4. /\ cursor' \in Nat /\ candidate' \in Nat /\ cursor' < candidate'
        /\ from - back <= cursor' /\ cursor' <= from /\ from - back < cursor'
    <3> HIDE DEF back
    <3>1. QED
      BY <1>1, <1>7, <2>1
  <2>5. latest' = cursor' /\ cursor' \in described'
    BY <2>1
  <2>6. QED
    BY <1>7, <2>1, <2>2, <2>3, <2>4, <2>5 DEF SearchInv
<1>8. QED
  BY <1>1, <1>5, <1>6, <1>7

\* What a turn knows of the sets and of the instants that are described.
LEMMA InTurn ==
  ASSUME StepsFit, SearchInv, Turn
  PROVE  /\ candidate \in Instants /\ candidate \in Nat
         /\ spec.year \subseteq Nat /\ spec.month \subseteq 1 .. Months /\ spec.day \subseteq Nat
         /\ spec.hour \subseteq 0 .. Hours - 1 /\ spec.minute \subseteq 0 .. Minutes - 1
         /\ spec.second \subseteq 0 .. Seconds - 1
         /\ \A v \in described : v \in Instants /\ v \in Nat /\ FieldsFit(spec, v)
<1>1. line \in ParsedLines /\ spec = parse(line) /\ candidate \in Nat
  BY DEF SearchInv
<1>2. spec.year \subseteq Nat /\ spec.month \subseteq 1 .. Months /\ spec.day \subseteq Nat
  BY <1>1, DateMeans
<1>3. /\ spec.hour \subseteq 0 .. Hours - 1 /\ spec.minute \subseteq 0 .. Minutes - 1
      /\ spec.second \subseteq 0 .. Seconds - 1
  BY <1>1, TimeMeans
<1>4. /\ candidate \in Instants /\ described \subseteq Instants /\ described \subseteq Nat
      /\ \A u \in Instants : u \in described <=> FieldsFit(spec, u)
  BY Searches
<1>5. QED
  BY <1>1, <1>2, <1>3, <1>4, Zenon

\* Each turn keeps the invariant. The year moves on, or there is none left.
LEMMA SkipYearKeeps ==
  ASSUME StepsFit, SearchInv, skip_year
  PROVE  SearchInv'
<1> DEFINE ys == Later(spec.year, year(candidate))
           to == at_year_start(Min(ys))
<1>1. /\ Turn /\ year(candidate) \notin spec.year
      /\ IF ys = {} THEN Return(Never) ELSE Go(to)
  BY Zenon DEF skip_year, YearFits
<1>2. /\ ys # {} => to \in Nat /\ candidate < to
      /\ \A v \in Instants : candidate <= v /\ year(v) \in spec.year => ys # {} /\ to <= v
  BY <1>1, InTurn, SkipYear
<1>3. \A v \in described : v \in Instants /\ v \in Nat /\ year(v) \in spec.year
  BY <1>1, InTurn DEF FieldsFit
<1> HIDE DEF ys, to
<1>4. CASE ys # {}
  <2>1. \A v \in described : candidate <= v => to <= v
    BY <1>2, <1>3
  <2>2. QED
    BY <1>1, <1>2, <1>4, <2>1, GoKeeps
<1>5. CASE ys = {}
  <2>1. \A v \in described : ~(candidate <= v)
    BY <1>2, <1>3, <1>5
  <2>2. answer = Searching
    BY <1>1 DEF Turn
  <2>3. \A v \in described : v > cursor => v >= candidate
    BY <2>2, Zenon DEF SearchInv, FirstMatch
  <2>4. candidate \in Nat
    BY DEF SearchInv
  <2>5. \A v \in described : ~(v > cursor)
    BY <1>3, <2>1, <2>3, <2>4
  <2>6. QED
    BY <1>1, <1>5, <2>5, ReturnsNever
<1>6. QED
  BY <1>4, <1>5

\* The month moves on, or the year.
LEMMA SkipMonthKeeps ==
  ASSUME StepsFit, SearchInv, skip_month
  PROVE  SearchInv'
<1> DEFINE ms == Later(spec.month, month(candidate))
           to == IF ms = {} THEN at_year_start(year(candidate) + 1)
                 ELSE at_month_start(year(candidate), Min(ms))
<1>1. Turn /\ month(candidate) \notin spec.month /\ Go(to)
  BY Zenon DEF skip_month, MonthFits
<1>2. /\ to \in Nat /\ candidate < to
      /\ \A v \in Instants : candidate <= v /\ month(v) \in spec.month => to <= v
  BY <1>1, InTurn, SkipMonth
<1>3. \A v \in described : v \in Instants /\ month(v) \in spec.month
  BY <1>1, InTurn DEF FieldsFit
<1> HIDE DEF to
<1>4. QED
  BY <1>1, <1>2, <1>3, GoKeeps

\* The day moves on, or the month.
LEMMA SkipDayKeeps ==
  ASSUME StepsFit, SearchInv, skip_day
  PROVE  SearchInv'
<1> DEFINE y == year(candidate)
           m == month(candidate)
           ds == {d \in Later(spec.day, day(candidate)) : d <= days_in_month(y, m)}
           to == IF ds = {} THEN next_month(y, m) ELSE at_day_start(y, m, Min(ds))
<1>1. Turn /\ day(candidate) \notin spec.day /\ Go(to)
  BY Zenon DEF skip_day, DayFits
<1>2. /\ to \in Nat /\ candidate < to
      /\ \A v \in Instants : candidate <= v /\ day(v) \in spec.day => to <= v
  <2>1. candidate \in Instants /\ spec.day \subseteq Nat
    BY <1>1, InTurn
  <2>2. /\ ds = {d \in Later(spec.day, day(candidate)) :
                   d <= days_in_month(year(candidate), month(candidate))}
        /\ to = IF ds = {} THEN next_month(year(candidate), month(candidate))
                ELSE at_day_start(year(candidate), month(candidate), Min(ds))
    BY Zenon
  <2> HIDE DEF to, ds
  <2>3. QED
    BY <1>1, <2>1, <2>2, SkipDay
<1>3. \A v \in described : v \in Instants /\ day(v) \in spec.day
  BY <1>1, InTurn DEF FieldsFit
<1> HIDE DEF to
<1>4. QED
  BY <1>1, <1>2, <1>3, GoKeeps

\* The day moves on.
LEMMA SkipWeekdayKeeps ==
  ASSUME StepsFit, SearchInv, skip_weekday
  PROVE  SearchInv'
<1> DEFINE y == year(candidate)
           m == month(candidate)
           to == IF day(candidate) + 1 > days_in_month(y, m) THEN next_month(y, m)
                 ELSE at_day_start(y, m, day(candidate) + 1)
<1>1. Turn /\ weekday(candidate) \notin spec.weekdays /\ Go(to)
  BY Zenon DEF skip_weekday, WeekdayFits
<1>2. /\ to \in Nat /\ candidate < to
      /\ \A v \in Instants : candidate <= v /\ weekday(v) # weekday(candidate) => to <= v
  BY <1>1, InTurn, SkipWeekday
<1>3. \A v \in described : v \in Instants /\ weekday(v) \in spec.weekdays
  BY <1>1, InTurn DEF FieldsFit
<1> HIDE DEF to
<1>4. QED
  BY <1>1, <1>2, <1>3, GoKeeps

\* The hour moves on, or the day.
LEMMA SkipHourKeeps ==
  ASSUME StepsFit, SearchInv, skip_hour
  PROVE  SearchInv'
<1> DEFINE hs == Later(spec.hour, hour(candidate))
           to == IF hs = {} THEN DayStart(candidate) + DaySeconds
                 ELSE DayStart(candidate) + Min(hs) * Minutes * Seconds
<1>1. Turn /\ hour(candidate) \notin spec.hour /\ Go(to)
  BY Zenon DEF skip_hour, HourFits
<1>2. /\ to \in Nat /\ candidate < to
      /\ \A v \in Nat : candidate <= v /\ hour(v) \in spec.hour => to <= v
  BY <1>1, InTurn, SkipHour
<1>3. \A v \in described : v \in Nat /\ hour(v) \in spec.hour
  BY <1>1, InTurn DEF FieldsFit
<1> HIDE DEF to
<1>4. QED
  BY <1>1, <1>2, <1>3, GoKeeps

\* The minute moves on, or the hour.
LEMMA SkipMinuteKeeps ==
  ASSUME StepsFit, SearchInv, skip_minute
  PROVE  SearchInv'
<1> DEFINE ms == Later(spec.minute, minute(candidate))
           hour_start == candidate - (candidate % (Minutes * Seconds))
           to == IF ms = {} THEN hour_start + Minutes * Seconds
                 ELSE hour_start + Min(ms) * Seconds
<1>1. Turn /\ minute(candidate) \notin spec.minute /\ Go(to)
  BY Zenon DEF skip_minute, MinuteFits
<1>2. /\ to \in Nat /\ candidate < to
      /\ \A v \in Nat : candidate <= v /\ minute(v) \in spec.minute => to <= v
  <2>1. candidate \in Nat /\ spec.minute \subseteq 0 .. Minutes - 1
    BY <1>1, InTurn
  <2>2. /\ ms = Later(spec.minute, minute(candidate))
        /\ to = IF ms = {} THEN (candidate - (candidate % Hour)) + Hour
                ELSE (candidate - (candidate % Hour)) + Min(ms) * Seconds
    BY Zenon DEF Hour
  <2> HIDE DEF to, ms
  <2>3. QED
    BY <1>1, <2>1, <2>2, SkipMinute
<1>3. \A v \in described : v \in Nat /\ minute(v) \in spec.minute
  BY <1>1, InTurn DEF FieldsFit
<1> HIDE DEF to
<1>4. QED
  BY <1>1, <1>2, <1>3, GoKeeps

\* The second moves on, or the minute.
LEMMA SkipSecondKeeps ==
  ASSUME StepsFit, SearchInv, skip_second
  PROVE  SearchInv'
<1> DEFINE ss == Later(spec.second, second(candidate))
           minute_start == candidate - (candidate % Seconds)
           to == IF ss = {} THEN minute_start + Seconds ELSE minute_start + Min(ss)
<1>1. Turn /\ second(candidate) \notin spec.second /\ Go(to)
  BY Zenon DEF skip_second, SecondFits
<1>2. /\ to \in Nat /\ candidate < to
      /\ \A v \in Nat : candidate <= v /\ second(v) \in spec.second => to <= v
  BY <1>1, InTurn, SkipSecond
<1>3. \A v \in described : v \in Nat /\ second(v) \in spec.second
  BY <1>1, InTurn DEF FieldsFit
<1> HIDE DEF to
<1>4. QED
  BY <1>1, <1>2, <1>3, GoKeeps

\* All fields fit: the candidate is described.
LEMMA FoundKeeps ==
  ASSUME StepsFit, SearchInv, found
  PROVE  SearchInv'
<1>1. Turn /\ SecondFits /\ Return(candidate)
  BY Zenon DEF found
<1>2. FieldsFit(spec, candidate)
  BY <1>1, Zenon DEF FieldsFit, SecondFits, MinuteFits, HourFits, WeekdayFits,
     DayFits, MonthFits, YearFits
<1>3. candidate \in described
  BY <1>1, <1>2, Searches
<1>4. QED
  BY <1>1, <1>3, ReturnsMatch

\* The horizon is reached.
LEMMA GiveUpKeeps ==
  ASSUME StepsFit, SearchInv, give_up
  PROVE  SearchInv'
<1> DEFINE ahead == Horizon * DaySeconds
<1>1. answer = Searching /\ candidate >= limit /\ Return(Never)
  BY Zenon DEF give_up
<1>2. \A v \in described : v > cursor => v >= candidate
  BY <1>1, Zenon DEF SearchInv, FirstMatch
<1>3. /\ described \subseteq Nat /\ candidate \in Nat /\ cursor \in Nat /\ ahead \in Nat
      /\ limit = cursor + ahead
  BY Searches DEF SearchInv
<1>4. \A v \in described : v > cursor => v >= limit
  <2> HIDE DEF ahead
  <2> QED BY <1>1, <1>2, <1>3
<1>5. QED
  BY <1>1, <1>4, ReturnsNever

\* A search begins with nothing passed.
LEMMA BeginSearch ==
  ASSUME StepsFit, SearchInit
  PROVE  SearchInv
<1> DEFINE D == DaySeconds
           back == Lookback * D
<1>1. /\ line \in ParsedLines /\ spec = parse(line) /\ described = Described(line)
      /\ asked \in {"next", "prev"} /\ from \in Starts
      /\ cursor = (IF asked = "next" THEN from ELSE from - back)
      /\ candidate = cursor + 1 /\ latest = Never /\ turns = 0 /\ answer = Searching
  BY DEF SearchInit
<1>2. D \in Nat \ {0} /\ End \in Nat
  BY Sizes
<1>3. Lookback \in Nat /\ Horizon \in Nat /\ Lookback < Horizon
      /\ from \in back .. End - (Horizon + 1) * D
  BY <1>1, CalendarAssumption
<1>4. back \in Nat /\ (Horizon + 1) * D \in Nat
  <2> HIDE DEF D
  <2> QED BY <1>2, <1>3
<1>5. from \in Nat /\ back <= from
  <2> DEFINE room == (Horizon + 1) * D
  <2> HIDE DEF back, D, room
  <2> QED BY <1>2, <1>3, <1>4 DEF room
<1>6. /\ cursor \in Nat /\ candidate \in Nat /\ cursor < candidate
      /\ from - back <= cursor /\ cursor <= from
  <2> HIDE DEF back, D
  <2> QED BY <1>1, <1>4, <1>5
<1>7. described \subseteq Nat
  <2>1. described \subseteq 0 .. End - 1
    BY <1>1, Zenon DEF Described
  <2>2. QED
    BY <1>2, <2>1
<1>8. FirstMatch
  <2>1. \A v \in described : v > cursor => v >= candidate
    BY <1>1, <1>6, <1>7
  <2>2. QED
    BY <1>1, <2>1 DEF FirstMatch, Searching, Never
<1>9. LatestPast
  BY <1>1 DEF LatestPast
<1>10. QED
  BY <1>1, <1>6, <1>8, <1>9 DEF SearchInv

\* No step of a search loses anything.
LEMMA StepSearch ==
  ASSUME StepsFit, SearchInv, [SearchNext]_search
  PROVE  SearchInv'
<1>1. CASE UNCHANGED search
  <2>1. UNCHANGED <<line, spec, asked, from, cursor, candidate, latest, turns, answer, described>>
    BY <1>1 DEF search
  <2>2. limit' = limit
    BY <2>1 DEF limit
  <2>3. QED
    BY <2>1, <2>2 DEF SearchInv, FirstMatch, LatestPast
<1>2. QED
  BY <1>1, SkipYearKeeps, SkipMonthKeeps, SkipDayKeeps, SkipWeekdayKeeps, SkipHourKeeps,
     SkipMinuteKeeps, SkipSecondKeeps, FoundKeeps, GiveUpKeeps DEF SearchNext

\* No jump of a search passes an instant that the line describes, and next_fire answers with
\* the first one after `now`, or with None when there is none within its horizon
\* (schedule.rs:17-212), for any calendar without gaps and any lines whose steps do not wrap.
THEOREM NextIsFirst ==
  ASSUME StepsFit
  PROVE  SearchSpec => []FirstMatch
<1>1. SearchInit => SearchInv
  BY BeginSearch
<1>2. SearchInv /\ [SearchNext]_search => SearchInv'
  BY StepSearch
<1>3. SearchInv => FirstMatch
  BY DEF SearchInv
<1>4. QED
  BY <1>1, <1>2, <1>3, PTL DEF SearchSpec

\* prev_fire answers with the last described instant that is not later than `before`, or with
\* None when there is none within the time it looks back, as long as its turns suffice
\* (schedule.rs:214-244), for the same calendars and lines.
THEOREM PrevIsLast ==
  ASSUME StepsFit
  PROVE  SearchSpec => []LatestPast
<1>1. SearchInit => SearchInv
  BY BeginSearch
<1>2. SearchInv /\ [SearchNext]_search => SearchInv'
  BY StepSearch
<1>3. SearchInv => LatestPast
  BY DEF SearchInv
<1>4. QED
  BY <1>1, <1>2, <1>3, PTL DEF SearchSpec
=============================================================================
