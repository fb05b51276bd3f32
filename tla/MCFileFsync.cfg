CONSTANTS
  PrefRead = 2
  PrefWrite = 2
  Data <- MCData
  Offsets = {0, 2}
  Counts = {0, 3}
  Others <- MCOthers
  Settings <- RestartSettings
SPECIFICATION Spec
INVARIANT FsyncPersists
CHECK_DEADLOCK FALSE
