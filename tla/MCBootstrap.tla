----------------------------- MODULE MCBootstrap -----------------------------
(* Model-checking instance of Bootstrap: m = 2 pivots from n = 2 columns,  *)
(* every raw stream A of 3 or 4 coefficients, every nrhs in 0..n.          *)
EXTENDS Bootstrap

\* 40 in lingen_E_from_A::initial_read; 0 makes the fatal path reachable
\* within streams of 4 coefficients.
MCRankSlack == 0
=============================================================================
