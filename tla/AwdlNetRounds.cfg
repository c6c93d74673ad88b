SPECIFICATION RSpec
CONSTANTS
  MaxHeight = 2
  MaxUint32 = 3
  Owl = {1, 2, 3}
  Foreign = {4}
  Metric <- MCMetric
  MaxCounter = 1
  Timeout = 1
  MaxChanges = 2
INVARIANT RankBelongsToMaster
PROPERTY EventuallyAgreed
