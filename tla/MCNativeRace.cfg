SPECIFICATION FairSpec
CONSTANTS
  Threads = {t1, t2}
  Functions = {"f1","f2"}
  Shape <- MCShape
  Via <- MCVia
  Target <- MCTarget
  Strings <- MCStrings
  Code <- MCCode
  Pages <- MCPages
  PageOf <- MCPageOf
  Exports <- MCExports
  TrueName <- MCTrueName
  Engine <- MCEngine
  None = None
  Nowhere = Nowhere
  TooLong <- MCTooLong
  MaxCalls = 1
INVARIANT
  NamesOwnCallee
CHECK_DEADLOCK FALSE
