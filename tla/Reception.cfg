SPECIFICATION Spec
CONSTANTS
  ChanSeqLength = 2
  VendorLength = 3
  PresenceMode = 4
  NameMax = 2
  EtherMaxLen = 24
  MaxVersion = 2
  FilterRssi = TRUE
  RssiThreshold <- MCRssiThreshold
  RssiGrace <- MCRssiGrace
  Headers <- MCHeaders
  Held <- MCHeld
  Cuts <- MCCuts
  HeaderCuts <- MCHeaderCuts
  Actions <- MCActions
  Payloads <- MCPayloads
INVARIANTS TypeOK StoredAsAnnounced HeardIfNear ElectionFromOneFrame DeliveredAsSent
