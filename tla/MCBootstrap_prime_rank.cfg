\* GF(3) (generic layer, packing width 1): the lookahead the search leaves for E.
CONSTANTS
    M = 2
    N = 1
    P = 3
    SIMD = 1
    Lengths = {3, 4, 5}
    RankSlack <- MCRankSlack
SPECIFICATION Spec
CHECK_DEADLOCK FALSE
INVARIANTS
    SelectionIndependent
