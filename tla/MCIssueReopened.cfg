SPECIFICATION MCSpec
CONSTANTS
  w = w
  t = t
  b1 = b1
  b2 = b2
  h1 = h1
  Bodies = {b1, b2}
  Malformed = {}
  Actors = {w, t}
  Writers = {w}
  Planners = {w}
  Maintainers = {w}
  Foreign = {f1}
  Gestures <- Gestured
  PRs = {p1}
  Heads = {h1, h2}
  Dispatches <- Requests
  InitStates <- Starts
  Activations = {"disabled"}
  MaxEdits <- Edits
  MaxFaults = 0
INVARIANT RejectedIsNotReady
CHECK_DEADLOCK FALSE
