\* Reversed gather: 4-bit words, windows of one and two words, both
\* endpoints.
\* F from pi: packing width 1, m = 1, n = 2 and three columns of pi, so
\* that one to three columns are lucky, every nrhs occurs and the reorder
\* can swap the two solutions; a generator of 5 coefficients read through
\* windows of 1 to 3, so that the lookback, whole windows and the short
\* read all occur.
\* ECM: moduli coprime to 30 (mod_div3 and mod_div5 need it), prime and
\* composite; every sigma up to 12 (the invalid ones, values reducing to 0,
\* +-1, +-3, +-5 modulo a prime, and the valid ones), k in 0..2.
\* Norm: f of degree 2 over GF(2)[t] with coefficients of degree < 2, a
\* special q of degree 1, i of degree < 2, j monic of degree < 2, a region
\* of two of the three rows.
CONSTANTS
    Kernels = {"gather", "F", "ecm", "norm"}
    W = 4
    GWindows = {4, 8}
    M = 1
    N = 2
    P = 2
    SIMD = 1
    T0s = {1, 2}
    G = 5
    Windows = {1, 2, 3}
    Moduli <- MCModuli
    Sigmas = {0, 1, 2, 3, 4, 5, 6, 7, 8, 9, 10, 11, 12}
    Ks = {0, 1, 2}
    Coords <- MCCoords
    D = 2
    Coeffs = {0, 1, 2, 3}
    Qs = {2, 3}
    I = 2
    J = 2
    Rows = 2
    MarkedSets <- MCMarkedSets
SPECIFICATION Spec
CHECK_DEADLOCK FALSE
INVARIANTS
    GTypeOK
    LocalReverseFaithful
    ReverseComplete
    DstTailZero
    FTypeOK
    RhsFollowsSols
    OrderedByWeight
    ReadsInCache
    OutputFaithful
    StreamComplete
    ECTypeOK
    CurveOK
    Z6IsBrentSuyama
    EdwardsOnCurve
    NormTypeOK
    TransformPreservesNorm
