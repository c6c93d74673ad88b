SPECIFICATION Spec
CONSTANTS
  a = a
  b = b
  Node = {a, b}
  TuUs = 2
  AwPeriod = 1
  PresenceMode = 4
  Slots = 2
  Sequence <- MCSequence
  AwRange = 8
  LongRange = 16
  WordRange = 32
  Threshold = 1
  Booted <- MCBooted
  StartTimes <- MCStartTimes
  MaxDelay = 1
  MaxLate = 1
  MaxSyncs = 2
INVARIANTS
  TypeOK
  BehindByHops
PROPERTIES
  MifInMiddle
  MovesAreCounted
