-------------------------- MODULE MCMultiplyRetry --------------------------
(* Instantiates MultiplyRetry on two ranks; the ranks are interchangeable. *)
EXTENDS MultiplyRetry, TLC

CONSTANTS r1, r2

MCRanks == {r1, r2}
MCSymmetry == Permutations(MCRanks)
=============================================================================
