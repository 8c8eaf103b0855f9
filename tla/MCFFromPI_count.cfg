\* Packing width 1 (generic layer), m = 2, n = 1.
CONSTANTS
    M = 2
    N = 1
    SIMD = 1
    T0s = {1, 2}
    Lengths <- MCLengths
    Windows = {1, 2, 3}
SPECIFICATION Spec
CHECK_DEADLOCK FALSE
INVARIANTS
    CountBound
