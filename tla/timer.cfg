\* Two timers that share an instant, with crashes, held locks and lost events.
SPECIFICATION FairSpec
CONSTANTS
  backup = backup
  sync = sync
  job = job
  session = session
  None = None
  Keeps = FALSE
  Timers = {backup, sync}
  Targets = {job, session}
  target_of <- Own
  Services <- Jobs
  Calendars <- Hours
  Startup <- Late
  Persistent = {backup, sync}
  Enabled = {backup, sync}
  Second = 2
  MaxTime = 3
  MaxChanges = 2
  MaxCrashes = 1
  EventCap = 3
INVARIANTS
  SleepCoversAll
PROPERTIES
  EachInstantOnce
  CatchesUp
  RunningEnds
CHECK_DEADLOCK FALSE
