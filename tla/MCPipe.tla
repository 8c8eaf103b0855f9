------------------------------- MODULE MCPipe -------------------------------
(* Instantiates Pipe: streams of up to five coefficients over two nonzero  *)
(* values, so that runs of zeros inside a window, across windows and at    *)
(* the end of the stream all occur.  The packing width is 2, standing for  *)
(* the 64 of GF(2): what matters is whether a count is a multiple of it,   *)
(* and with nmats in 1..3 the padded windows are 2 and 4.  Thread counts   *)
(* 1, 2, 3 and 5 make t*t/4 equal to 0, 1, 2 and 6, and a limit of 4       *)
(* coefficients makes the 32GB loop halve 8 to 4 (aligned) and 12 or 24    *)
(* to 3 (not aligned).                                                     *)
EXTENDS Pipe

MCValues == {1, 2}
MCNMats == {1, 2, 3}
MCThreads == {1, 2, 3, 5}
=============================================================================
