CONSTANTS
  Callers = {1, 2}
  Data <- MCData
  Settings <- MCSettings
SPECIFICATION FairSpec
INVARIANTS
  CAnswers
PROPERTIES
  TakesTurns
  EachEnds
CHECK_DEADLOCK FALSE
