CONSTANTS
    Values <- MCValues
    MaxLen = 5
    NMats <- MCNMats
    SIMD = 2
    Threads <- MCThreads
    MaxMats = 4
SPECIFICATION Spec
CHECK_DEADLOCK FALSE
INVARIANTS
    TypeOK
    OutputPrefix
    CopyFaithful
    AlignedWithoutSkip
    Sha1Canonical
PROPERTIES
    InputKeepsContract
    ReadAfterShortWindow
    PipeTerminates
