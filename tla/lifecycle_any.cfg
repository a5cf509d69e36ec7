SPECIFICATION Spec
CONSTANTS
  Types = {"notify", "forking", "oneshot"}
  Commands <- AnyCommands
  Faults <- AnyFaults
  KillSignals = TRUE
  SendSigkill = TRUE
  RemainAfterExit = TRUE
  Patient = FALSE
  Prompt = FALSE
  MaxJobs = 2
  MaxGens = 2
INVARIANT JobAccounting
PROPERTY StopKills
PROPERTY JobFinal
CHECK_DEADLOCK FALSE
