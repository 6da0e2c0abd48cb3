SPECIFICATION TextSpec
CONSTANTS
  Texts <- MCTexts
  Calls <- MCCalls
  Width8 = 256
  Width16 = 65536
  Width32 = 536870912
  Width64 = 1073741824
  Cap = 32
  Lengths <- MCLengths
  Memories <- MCMemories
INVARIANTS
  FillFits
  LineReadBack
  QuotedTextClosed
  HexdumpReadable
CHECK_DEADLOCK FALSE
