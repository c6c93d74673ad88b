SPECIFICATION Spec
SYMMETRY Symmetry
CONSTANTS
  a = a
  b = b
  Peer = {a, b}
  Second = 2
  Timeout = 4
  CleanInterval = 2
  LongRange = 32
  WordRange = 256
  RssiThreshold <- MCThreshold
  RssiGrace <- MCGrace
  Rssi <- MCRssi
  MinUptime = 4
  MaxUptime = 12
  MaxLate = 1
  MaxFailures = 2
INVARIANTS
  TypeOK
  KernelMirrorsTable
  SilentIsRemoved
PROPERTY RemovedWasSilent
