SPECIFICATION MCSpec
CONSTANTS
  Chats = {"c1"}
  MaxOpen = 2
  MaxPieces = 2
  Loads <- SampleLoads
  MaxRequests = 3
  Iterations = 1
  Cases <- SampleCases
  Cap = 2
  Issues = {"i1", "i2", "i3"}
  Runs = {"r1", "r2"}
  Author <- Authors
  MaxRows = 1
  MaxPosts = 3
  Spellings <- TwoSpellings
  MaxPages = 2
  Invocations <- SampleInvocations
  Servers <- SampleServers
INVARIANT AnyPartitionLeaks
CHECK_DEADLOCK FALSE
