SPECIFICATION Spec
CONSTANTS
  MaxHeight = 3
  MaxUint32 = 7
  Owl = {1, 3}
  Foreign = {2}
  Metric <- MCMetric
  MaxCounter = 0
  Timeout = 1
INVARIANT NoSyncCycle
