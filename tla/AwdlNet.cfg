SPECIFICATION Spec
CONSTANTS
  MaxHeight = 3
  MaxUint32 = 7
  Owl = {1, 2, 3}
  Foreign = {}
  Metric <- MCMetric
  MaxCounter = 0
  Timeout = 0
INVARIANTS
  TypeOK
  ParentIsValidPeer
  NeverFollowsItself
  EqualRankIsOneHop
