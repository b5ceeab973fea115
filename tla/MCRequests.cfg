SPECIFICATION RequestsSpec
CONSTANTS
  Client <- MCClient
  Uuid = {"x"}
  Item <- MCItem
  MaxItems = 2
  MaxTurns = 2
  Absent = Absent
  Word <- MCWord
  ToolList <- MCToolList
  Called <- MCCalled
  Arguments <- MCArguments
  MaxOutput = 2
  MaxRounds = 2
  Unsupported = Unsupported
  Raises = Raises
  MaxBlocks = 3
  Session = {"s", "t"}
  Alias = {"a", "b"}
  Estimate = 1
  MaxDelta = 1
  MaxRecorded = 2
  Nobody = Nobody
  Parts = {"router", "rounds", "stream", "dashboard"}
INVARIANTS
  RequestsTypeOK
  TurnIsRemembered
  InstructionsDoNotRoute
  DeliveredCallsAreUsable
  OnlyMixedCallsAreLost
  WebCallsAreAnswered
  ChunksDoNotMatter
  TotalsCountEachTurnOnce
PROPERTIES
  ChangesAreAnnounced
CHECK_DEADLOCK FALSE
