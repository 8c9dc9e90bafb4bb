SPECIFICATION MCSpec
CONSTANTS
  w = w
  t = t
  b1 = b1
  b2 = b2
  h1 = h1
  Bodies = {b1, b2}
  Malformed = {}
  Actors = {w, t}
  Writers = {w}
  Planners = {w}
  Maintainers = {w}
  Foreign = {f1}
  Gestures <- Gestured
  PRs = {p1}
  Heads = {h1, h2}
  Dispatches <- Requests
  InitStates <- Starts
  Activations = {"enabled", "disabled"}
  MaxEdits <- Edits
  MaxFaults = 1
INVARIANTS
  EdgesOnly
  DecidedOnOneInstant
  AppliedOnce
  DoneIsEarned
  AcceptanceFollowsBody
  RejectionReachesPullRequests
PROPERTY
  StaleReadinessIsWithdrawn
CHECK_DEADLOCK FALSE
