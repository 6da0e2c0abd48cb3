\* One instruction is executed; then nothing is left to do.
CONSTANTS
  Modes <- BothModes
  Codes <- AllCodes
SPECIFICATION Spec
CHECK_DEADLOCK FALSE
INVARIANTS NamesAgree HooksFitTables
