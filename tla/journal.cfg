SPECIFICATION Spec
CONSTANTS
  Procs = {1}
  MaxLines = 3
  PipeSize = 1
  Tails <- SomeTails
  Faults = TRUE
  Rotations = 1
INVARIANT FollowMissesNothing
PROPERTY OutputIsShown
PROPERTY WritersGoOn
CHECK_DEADLOCK FALSE
