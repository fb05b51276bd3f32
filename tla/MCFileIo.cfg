CONSTANTS
  PrefRead = 2
  PrefWrite = 2
  Data <- MCData
  Offsets = {0, 2}
  Counts = {0, 3}
  Others <- MCOthers
  Settings <- MCSettings
SPECIFICATION Spec
INVARIANTS
  PwriteStored
  ReadsExact
  SyncedSurvives
  OpensReleased
CHECK_DEADLOCK FALSE
