SPECIFICATION FairSpec
CONSTANTS
  Cap = 3
  Events = {a, b}
  Blank = Blank
  Producers = {p1, p2}
  Nobody = Nobody
  MaxBatch = 2
  Threshold = 2
  MaxPushes = 3
PROPERTIES RefinesDropOldestQueue WakeIsServed ThresholdIsServed
