SPECIFICATION Spec
CONSTANTS
  Operation = {o1}
  PullRequest = {p1}
  Broker = {b1}
  Maintainer = {}
  Content = {c1, c2, c3}
  Eligible = {c1, c2}
  MaxHead = 1
  None = None
SYMMETRY MCSymmetry
INVARIANT StaleIsNeverSubmitted
CHECK_DEADLOCK FALSE
