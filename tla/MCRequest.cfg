SPECIFICATION MCSpec
CONSTANTS
  Reloads = 1
  MaxItems = 2
  MaxMoves = 1
  Options <- WalkOptions
  FieldsOf <- FieldsIn
  MaxDepth = 3
  MaxNested = 2
  MaxPath = 6
  Texts <- SampleTexts
  MaxSpans = 3
  MaxInspected = 4
  Guard = 2
  Framing = 2
  MaxDepths = {2, 3}
  Contents <- SampleContents
  Limit = 2
INVARIANTS
  KeysArePlaced
  BodiesAreMasked
  CallsAreContained
  ValuesAreWalked
  EverySpanIsMasked
  StatelessRoundTrip
  ReplyIsCleanAndWhole
CHECK_DEADLOCK FALSE
