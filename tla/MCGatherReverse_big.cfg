\* The distributed endpoint, same words, sizes and windows.
CONSTANTS
    W = 4
    Sizes <- MCSizes
    Windows = {4, 8}
    Kinds <- MCKindsBig
SPECIFICATION Spec
CHECK_DEADLOCK FALSE
INVARIANTS
    ReverseFaithful
