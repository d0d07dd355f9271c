SPECIFICATION Spec
CONSTANTS
  MaxEvents = 4
  Old = 0
  MaxQueue = 2
  MaxBatch = 2
  MaxRetries = 1
  MaxRun = 2
  Heavy = {}
  Configs = {TRUE}
  HasBeforeSend = FALSE
  CrashReplay = FALSE
  Responses <- AllAnswers
  CapBinds = FALSE
  IoFaults = FALSE
  DirSyncFaults = FALSE
  HoldOutlivesStop = FALSE
  Flushers = {}
INVARIANT ShutdownSettles
