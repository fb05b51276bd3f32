SPECIFICATION Spec
CONSTANTS
    Entries <- MCEntries
    PageLimit = 2
    MaxChanges = 3
    Settings <- MCSettings
INVARIANTS
    EachOnce
    RefusedOnlyIfChanged
