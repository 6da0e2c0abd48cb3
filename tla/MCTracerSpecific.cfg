CONSTANTS
  Threads <- TwoThreads
  Main = "main"
  NoThread = "none"
  Cells <- AllCells
  Chars <- CellChars
  Texts <- CellTexts
  NewLine = "nl"
  Junk = "junk"
  StreamSize = 2
  MaxCalls = 14
  Tables <- TwoTables
  Entries <- FourEntries
  Lead <- LeadOne
  Walk <- WalkAll
  Mnemonic <- Names
  NoMnemonic = "null"
  Hooks <- ThreeHooks
  NoTable = NoTable
  Modes <- Specific
  Banner = "banner"
  Installing = "installing"
  Missing = "missing"
  Callee = "callee"
  Dumped = "dumped"
  Symbols <- NameTexts
  Prints <- HookTexts
  Quiet <- QuietHooks
  Inspect <- CallHooks
  Early <- Workers
  MaxRuns = 1
  MaxLines = 2
SPECIFICATION TracerSpec
INVARIANTS
  StubsSound
  NeverAstray
  Transparent
  WriteAhead
  CompleteTrace
  AllOrExit
