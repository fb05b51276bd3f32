CONSTANTS
  root = root
  d = d
  f = f
  g = g
  l = l
  k = k
  none = none
  Root = root
  Dirs <- MCDirs
  Files <- MCFiles
  Links <- MCLinks
  Names <- MCNames
  None = none
  MAX_SYMLINK_DEPTH = 2
  MaxOps = 1
  Settings <- MCSettings
SPECIFICATION FairSpec
INVARIANTS
  ResolvesAsDefined
  NeverEndsAtLink
PROPERTY CallReturns
CHECK_DEADLOCK FALSE
