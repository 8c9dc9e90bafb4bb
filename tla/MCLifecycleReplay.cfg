SPECIFICATION Spec
CONSTANTS
  LiveLimit = 6
  MaxComments = 4
  MaxEvents = 1
  MaxCommands = 1
INVARIANT
  ReplayIsNoop
