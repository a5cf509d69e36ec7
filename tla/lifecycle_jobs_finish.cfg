SPECIFICATION FairSpec
CONSTANTS
  Types = {"notify"}
  Commands <- StartStopReload
  Faults <- Stubborn
  KillSignals = TRUE
  SendSigkill = TRUE
  RemainAfterExit = FALSE
  Patient = FALSE
  Prompt = TRUE
  MaxJobs = 2
  MaxGens = 2
PROPERTY JobsFinish
CHECK_DEADLOCK FALSE
