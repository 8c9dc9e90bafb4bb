SPECIFICATION FoundationSpec
CONSTANTS
  MaxSequence = 2
  ReplayWindow = 1
  MaxTimeout = 1
  MaxLoads = 1
  MaxTime = 0
  MaxRequests = 2
  MaxRestarts = 1
  Operation <- MCSaving
  None = None
INVARIANTS
  AcknowledgedIsDurable
  MemoryFollowsDisk
