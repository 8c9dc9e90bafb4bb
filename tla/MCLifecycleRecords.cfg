SPECIFICATION Spec
CONSTANTS
  LiveLimit = 6
  MaxComments = 9
  MaxEvents = 2
  MaxCommands = 1
INVARIANTS
  ChainIsLinear
  CheckpointIsEarned
  CheckpointWasTrue
  WrittenIsReadable
PROPERTY
  Progress
