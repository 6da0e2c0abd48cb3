CONSTANTS
  Threads <- TwoThreads
  Main = "main"
  NoThread = "none"
  Cells <- AllCells
  Chars <- CellChars
  Texts <- CellTexts
  NewLine = "nl"
  Junk = "junk"
  StreamSize = 2
  MaxCalls = 15
  Tables <- TwoTables
  Entries <- FourEntries
  Lead <- LeadOne
  Walk <- WalkAll
  Mnemonic <- Names
  NoMnemonic = "null"
  Hooks <- AbsentHooks
  NoTable = NoTable
  Modes <- Both
  Banner = "banner"
  Installing = "installing"
  Missing = "missing"
  Callee = "callee"
  Dumped = "dumped"
  Symbols <- NameTexts
  Prints <- AbsentTexts
  Quiet <- QuietHooks
  Inspect <- CallHooks
  Early <- Nobody
  MaxRuns = 1
  MaxLines = 3
SPECIFICATION TracerSpec
INVARIANT
  AllOrExit
