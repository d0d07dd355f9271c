SPECIFICATION Spec
CONSTANTS
  Hosts = {h1}
  Reloaders = {r1}
  Readers = {t1}
  Keys = {k1, k2}
  Values = {0, 1}
  MaxFlags = 1
  HistoryCap = 2
  MaxContext = 2
  MaxTickets = 3
INVARIANTS SuccessIsFresh CacheIsCurrent
PROPERTY ExposedOnce
