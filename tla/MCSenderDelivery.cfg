SPECIFICATION Spec
CONSTANTS
  MaxEvents = 6
  Old = 2
  MaxQueue = 3
  MaxBatch = 3
  MaxRetries = 1
  MaxRun = 1
  Heavy = {2, 4}
  Configs = {TRUE, FALSE}
  HasBeforeSend = TRUE
  CrashReplay = FALSE
  Responses <- AllAnswers
  CapBinds = TRUE
  IoFaults = FALSE
  DirSyncFaults = FALSE
  HoldOutlivesStop = FALSE
  Flushers = {}
INVARIANTS NoSilentLoss CountedOnce BacklogInOrder LiveHoldHonoured
