\* The norm initialisation alone, with the bounds of the sequential_kernels
\* run: is the byte init_norms stores the degree of the norm?
CONSTANTS
    Kernels = {"norm"}
    W = 4
    GWindows = {4, 8}
    M = 1
    N = 2
    P = 2
    SIMD = 1
    T0s = {1, 2}
    G = 5
    Windows = {1, 2, 3}
    Moduli <- MCModuli
    Sigmas = {0, 1, 2, 3, 4, 5, 6, 7, 8, 9, 10, 11, 12}
    Ks = {0, 1, 2}
    Coords <- MCCoords
    D = 2
    Coeffs = {0, 1, 2, 3}
    Qs = {2, 3}
    I = 2
    J = 2
    Rows = 2
    MarkedSets <- MCMarkedSets
SPECIFICATION Spec
CHECK_DEADLOCK FALSE
INVARIANTS
    NormDegree
