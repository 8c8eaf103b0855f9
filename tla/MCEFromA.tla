------------------------------ MODULE MCEFromA ------------------------------
(* Model-checking instance of EFromA.                                      *)
EXTENDS EFromA

\* streams from empty to a few windows long
MCLengths == 0..9

\* over GF(2) the packing width is 64: streams of one to two words
MCLengthsGF2 == 60..130
=============================================================================
