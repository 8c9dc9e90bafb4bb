SPECIFICATION Spec
CONSTANTS
  Operation = {o1, o2}
  PullRequest = {p1, p2}
  Broker = {b1, b2}
  Maintainer = {m1}
  Content = {c1}
  Eligible = {c1}
  MaxHead = 0
  None = None
SYMMETRY MCSymmetry
INVARIANTS
  PendingCallHoldsClaim
  OneOpenSubmissionPerBase
  MergedIsExact
  DeniedHadNoEffect
  OneCallPerOperation
PROPERTY ImplementsLedger
CHECK_DEADLOCK FALSE
