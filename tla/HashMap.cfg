SPECIFICATION Spec
CONSTANTS
  Key <- MCKey
  Data = {1, 2}
  Hash <- MCHash
  InitialSize = 4
  MaxChain = 2
  MaxFailures = 1
INVARIANTS
  TypeOK
  SizeIsCount
  EveryEntryInChain
PROPERTY ImplementsMap
