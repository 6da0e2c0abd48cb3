SPECIFICATION FairSpec
CONSTANTS
  Modulus = 128
  Bases <- MCBases
  Targets <- MCTargets
  RegFiles <- MCRegFiles
  Values <- MCValues
INVARIANTS
  ArgumentsRight
  Restored
PROPERTY
  ReachesHandler
CHECK_DEADLOCK FALSE
