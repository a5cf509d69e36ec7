SPECIFICATION Spec
CONSTANTS
  Types = {"simple"}
  Commands <- StartStopReload
  Faults <- NoFaults
  KillSignals = TRUE
  SendSigkill = TRUE
  RemainAfterExit = FALSE
  Patient = TRUE
  Prompt = TRUE
  MaxJobs = 2
  MaxGens = 2
PROPERTY SupervisorHonoursStop
CHECK_DEADLOCK FALSE
