SPECIFICATION FairSpec
CONSTANTS
  Hosts = {h1}
  Reloaders = {r1}
  Readers = {}
  Keys = {}
  Values = {}
  MaxFlags = 1
  HistoryCap = 2
  MaxContext = 3
  MaxTickets = 3
PROPERTIES ReloadReturns EveryContextIsFetched
