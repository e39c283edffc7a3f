SPECIFICATION MCSpec
CONSTANTS
  Choice = {0, 1}
  Tool = {0}
  TextBlock = {0}
  ToolBlock = {1, 2}
  MaxWindows = 2
  MaxOrdinals = 2
  Budget = 2
  Spacing = {"spaced"}
  MaxEvents = 3
  MaxReply = 6
  Entries <- Vault
  WordChar <- WordChars
  Tripwire <- CanaryToken
  Replies <- SpacedReplies
  MaxBuffer = 5
  MaxOutput = 5
  Paths = {"a", "b"}
  OtherPaths = {"c"}
  MaxPaths = 2
  ValueLength = 3
  Window = 2
INVARIANTS
  EndsAreComplete
  ChunkInvariance
  CanaryNeverEmitted
  SplitValuesStayApart
PROPERTIES
  ImplementsRelay
CHECK_DEADLOCK FALSE
