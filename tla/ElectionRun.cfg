SPECIFICATION RunSpec
CONSTANTS
  MaxHeight = 2
  MaxUint32 = 7
  Self = 2
  Peer = {1, 3, 4}
  SelfCounter = 0
  SelfMetric = 1
  PeerInfo <- MCPeerInfo
INVARIANTS
  RunTypeOK
  CandidateIsBest
  ResultIsTheOutcome
