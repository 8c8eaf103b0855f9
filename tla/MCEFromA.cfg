\* Prime field (packing width 1): E is A shifted, whatever the windows.
CONSTANTS
    N = 1
    SIMD = 1
    T0s = {1, 2, 3}
    Lengths <- MCLengths
    Windows = {1, 2, 3}
SPECIFICATION Spec
INVARIANTS
    TypeOK
    OutputFaithful
PROPERTIES
    ImplementsStreamSource
