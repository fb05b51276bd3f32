CONSTANTS
  f1 = f1
  f2 = f2
  Names <- MCNames
  Mutating <- MCMutating
  EirSequence = 1
  MAX_TRIES = 3
  Settings <- MCSettings
SPECIFICATION FairSpec
INVARIANTS
  
  SeqidInSync
  SlotInSync
  RetriesInSession
PROPERTY CallReturns
CHECK_DEADLOCK FALSE
