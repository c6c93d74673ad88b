SPECIFICATION FairSpec
CONSTANTS
  p = p
  Slots = 3
  SlotLen = 7
  MulticastSlots = {0}
  MulticastGuard = 2
  UnicastGuard = 3
  Capacity = 2
  Peer = {p}
  Meetings <- MCMeetings
  MaxLate = 1
  MaxFrames = 3
  MaxChanges = 2
INVARIANTS
  TypeOK
  NoFrameStranded
  EveryFrameOnce
  SentInOrder
PROPERTIES
  SentInWindow
  EveryFrameLeaves
