SPECIFICATION Spec
CONSTANTS
  MaxEvents = 4
  Old = 1
  MaxQueue = 2
  MaxBatch = 2
  MaxRetries = 0
  MaxRun = 1
  Heavy = {4}
  Configs = {TRUE}
  HasBeforeSend = TRUE
  CrashReplay = TRUE
  Responses <- AllAnswers
  CapBinds = TRUE
  IoFaults = TRUE
  DirSyncFaults = TRUE
  HoldOutlivesStop = FALSE
  Flushers = {}
PROPERTY CrashRecordKept
