SPECIFICATION Spec
CONSTANTS
  LiveLimit = 15
  MaxComments = 20
  MaxEvents = 1
  MaxCommands = 0
INVARIANT
  OverflowIsUnreachable
