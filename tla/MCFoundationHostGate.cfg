SPECIFICATION FoundationSpec
CONSTANTS
  MaxSequence = 2
  ReplayWindow = 1
  MaxTimeout = 1
  MaxLoads = 1
  MaxTime = 1
  MaxRequests = 2
  MaxRestarts = 0
  Operation <- MCGated
  None = None
PROPERTIES
  CancelledHasNoDurableEffect
  FoundationRequestEnds
