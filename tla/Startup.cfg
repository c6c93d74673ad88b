SPECIFICATION Spec
CONSTANTS
  MaxFailures = 2
  MaxStarts = 2
  MaxRequests = 10
INVARIANTS
  TypeOK
  LoopMeansReady
  NeverBlocks
  RightIfNothingFails
CHECK_DEADLOCK FALSE
