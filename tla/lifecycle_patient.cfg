SPECIFICATION FairSpec
CONSTANTS
  Types = {"simple", "notify", "oneshot", "dbus"}
  Commands <- JobCommands
  Faults <- StartFaults
  KillSignals = TRUE
  SendSigkill = TRUE
  RemainAfterExit = FALSE
  Patient = TRUE
  Prompt = TRUE
  MaxJobs = 3
  MaxGens = 1
INVARIANT NoOrphan
INVARIANT StoppedIsDown
PROPERTY CrashDetected
CHECK_DEADLOCK FALSE
