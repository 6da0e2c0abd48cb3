CONSTANTS
  Threads <- ThreeThreads
  Main = "main"
  NoThread = "none"
  Cells <- OneCell
  Chars <- Letters
  Texts <- EmptyAndLong
  NewLine = "nl"
  Junk = "junk"
  StreamSize = 1
  MaxCalls = 2
SPECIFICATION ReportSpec
INVARIANTS
  SectionSound
  DurableOnReturn
  InCallOrder
  WholeLines
  TornTailOnly
PROPERTY
  ImplementsAtomicLog
