SPECIFICATION FairSpec
CONSTANTS
  Threads = {t1}
  Functions <- MCFunctions
  Shape <- MCShape
  Via <- MCVia
  Target <- MCTarget
  Strings <- MCStrings
  Code <- MCCode
  Pages <- MCPages
  PageOf <- MCPageOf
  Exports <- MCExports
  TrueName <- MCTrueName
  Engine <- MCEngine
  None = None
  Nowhere = Nowhere
  TooLong <- MCTooLong
  MaxCalls = 2
INVARIANTS
  VerdictRight
  DumpComplete
  FaultsExplained
PROPERTY
  CallsEnd
CHECK_DEADLOCK FALSE
