CONSTANTS
  End = 2
  Ranges <- MCRanges
  Ports = {1, 2}
  MaxOps = 3
  Settings <- MCSettings
SPECIFICATION Spec
INVARIANTS
  HandlesActive
  NothingStray
  TestPredicts
CHECK_DEADLOCK FALSE
