\* GF(2), 64-bit words: is the data E's constant coefficient needs really read?
CONSTANTS
    M = 2
    N = 2
    P = 2
    SIMD = 64
    Lengths = {3, 4}
    RankSlack <- MCRankSlack
SPECIFICATION Spec
CHECK_DEADLOCK FALSE
INVARIANTS
    ConstantCoefficientBacked
