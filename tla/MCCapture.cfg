SPECIFICATION CaptureSpec
CONSTANTS
  PerSecond = 2
  Second = 3
  Threads = {t1}
  MaxTime = 8
  MaxCalls = 9
  Threshold = 1
  Top = 6
  MaxTick = 3
  MaxSteps = 2
  PropLists <- Lists
  Configs <- Settled
  AnonIds = {"anon1", "anon2"}
  UserIds = {"user"}
  GroupKeys = {"k1"}
  ListLens = {2, 6}
  MaxProps = 3
  MaxGroups = 1
  DataCap = 7
  Lead = 1
  MaxApiCalls = 4
  MaxSessions = 2
  MaxDepth = 2
INVARIANTS WindowBound StampsAccurate ShapeTypeOK DeniedNeverSent PreservedSurvive
  StampedOnce CapturedContext BackendsAgree HandedInSession
PROPERTY DropsOnlyWhenNeeded
