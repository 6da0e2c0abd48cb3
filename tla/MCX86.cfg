CONSTANT Inputs <- MCInputs
SPECIFICATION Spec
INVARIANTS
  ResultIsListing
  CallerMayGoOn
  BytesAccounted
  SelfContained
  OperandsRight
  TextRight
  TrieSound
CHECK_DEADLOCK FALSE
