\* GF(2), 64-bit words: can one call return more than it was asked for?
CONSTANTS
    N = 1
    SIMD = 64
    T0s = {1, 2}
    Lengths <- MCLengthsGF2
    Windows = {64, 128}
SPECIFICATION Spec
INVARIANTS
    CountBound
