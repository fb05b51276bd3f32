CONSTANTS
  Base = 2
  max_record = 2
  MaxFragments = 3
  MaxPayload = 2
SPECIFICATION FairSpec
INVARIANTS RecordBounded WholeRecordsInOrder DrainedCompletely
PROPERTY ImplementsChannel
CHECK_DEADLOCK FALSE
