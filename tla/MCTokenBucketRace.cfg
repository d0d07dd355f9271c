SPECIFICATION Spec
CONSTANTS
  PerSecond = 2
  Second = 3
  Threads = {t1, t2}
  MaxTime = 4
  MaxCalls = 6
INVARIANT WindowBound
