SPECIFICATION PartsSpec
CONSTANTS
  MaxHead = 2
  Diffs <- SomeDiffs
  MaxRevision = 3
  MaxAttempt = 1
  MaxRuns = 4
  MaxChanges = 2
  Pulls = {p1, p2}
  MaxMoves = 4
  Paths <- SomePaths
  MaxNodes = 4
  Issues <- SomeIssues
  PullRange <- SomePulls
  PageSize = 2
  MaxEvents = 2
  AppFiles = {"app"}
  MaxMeddling = 3
  MaxMembers = 2
  MaxKills = 8
  MaxText = 3
  MaxCalls = 4
  MaxCompositions = 2
  MaxGestures = 3
INVARIANTS
  HeadsAreCertified
  GroupsAreCertified
  ChainsAreGapless
  WakeupsReachTheirIssues
  DeliveryIsWhole
  NothingIsLeftRunning
  AbandonedTextStaysLocal
PROPERTIES
  ReceiptsExtendChains
CHECK_DEADLOCK FALSE
