\* GF(2) (u64k1 layer, 64-bit words): the rank search itself.
CONSTANTS
    M = 2
    N = 2
    P = 2
    SIMD = 64
    Lengths = {3, 4}
    RankSlack <- MCRankSlack
SPECIFICATION Spec
CHECK_DEADLOCK FALSE
INVARIANTS
    TypeOK
    RankInvariant
    SelectionIndependent
PROPERTIES
    BootstrapDecides
