SPECIFICATION Spec
CONSTANTS
  a = a
  b = b
  Peer = {a}
  Second = 2
  Timeout = 4
  CleanInterval = 2
  LongRange = 32
  WordRange = 256
  RssiThreshold <- MCThreshold
  RssiGrace <- MCGrace
  Rssi <- MCRssi
  MinUptime = 12
  MaxUptime = 24
  MaxLate = 1
  MaxFailures = 0
PROPERTY RemovedWasSilent
