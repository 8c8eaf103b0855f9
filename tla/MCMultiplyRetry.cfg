\* Two ranks, two collective steps per run of mp_or_mul.
CONSTANTS
    r1 = r1
    r2 = r2
    Ranks <- MCRanks
    K = 2
SYMMETRY MCSymmetry
SPECIFICATION Spec
CHECK_DEADLOCK FALSE
INVARIANTS
    CollectivesMatch
