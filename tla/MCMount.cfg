CONSTANTS
  Ports = {1, 2, 3}
  PMAP = 1
  NFS_PORT = 3
  PortSpace = 4
  Registrable = {0, 2, 3, 4, 6}
  Tree <- MCTree
  MinPref = 2
  MaxPref = 4
  DefaultPref = 3
  Prefs = {0, 3, 5}
  Settings <- MCSettings
SPECIFICATION Spec
INVARIANTS
  UrlAsWritten
  ContextAsNamed
  ProbeOnlyInClear
  MountsIfProvided
CHECK_DEADLOCK FALSE
