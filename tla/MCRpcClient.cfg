CONSTANTS
  MaxCalls = 3
  XidSpace = 3
  MAX_ATTEMPTS = 2
  Settings <- MCSettings
SPECIFICATION AFairSpec
INVARIANTS
  MatchedReply
  ConnectionPurity
  BoundedExecution
  OwnReply
PROPERTIES
  CallReturns
CHECK_DEADLOCK FALSE
