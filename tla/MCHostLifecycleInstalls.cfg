SPECIFICATION Spec
CONSTANTS
  MaxSequence = 3
  ReplayWindow = 1
  MaxTimeout = 1
  MaxLoads = 3
  MaxTime = 0
  MaxRequests = 0
  Operation <- MCOperation
  None = None
INVARIANTS
  InstallsAreExact
