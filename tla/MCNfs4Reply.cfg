SPECIFICATION Spec
CONSTANTS
    Base = 8
    WordBits = 12
    Radix = 3
    PortSpace = 64
    FhLimit = 5
    Fh4Limit = 6
    NameLimit = 3
    GidsLimit = 2
    MaxAuthBody = 36
    Samples <- MCSamples
    MethodSamples <- MCMethodSamples
    Words <- MCWords
    Kinds <- MCRun
INVARIANTS
    OkReachesMethod
CHECK_DEADLOCK FALSE
