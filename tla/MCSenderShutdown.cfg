SPECIFICATION FairSpec
CONSTANTS
  MaxEvents = 3
  Old = 1
  MaxQueue = 2
  MaxBatch = 2
  MaxRetries = 1
  MaxRun = 1
  Heavy = {}
  Configs = {TRUE, FALSE}
  HasBeforeSend = FALSE
  CrashReplay = FALSE
  Responses <- AllAnswers
  CapBinds = FALSE
  IoFaults = FALSE
  DirSyncFaults = FALSE
  HoldOutlivesStop = TRUE
  Flushers = {f1}
INVARIANTS FlushSettles ShutdownSettles
PROPERTIES ShutdownTerminates FlushReturns
