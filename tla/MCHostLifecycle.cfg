SPECIFICATION Spec
CONSTANTS
  MaxSequence = 2
  ReplayWindow = 1
  MaxTimeout = 1
  MaxLoads = 3
  MaxTime = 1
  MaxRequests = 3
  Operation <- MCOperation
  None = None
INVARIANTS
  TypeOK
  RetiredWorkIsCancelled
  AcceptedOnce
  CancelAnswerIsFinal
  AcknowledgedAtMostOnce
  CountedInstallsAreExact
PROPERTIES
  AnswersAreLive
  ImplementsAuthority
  RetiredAuthorityStaysRetired
