------------------------------ MODULE MCFFromPI ------------------------------
(* Instantiates FFromPI: generators of up to 8 coefficients, so that the   *)
(* lookback of the constructor, a few whole windows and the final short    *)
(* read all fit in one stream.                                              *)
EXTENDS FFromPI

MCLengths == 2..8
=============================================================================
