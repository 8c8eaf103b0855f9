------------------------------ MODULE MCNfsAux ------------------------------
(* Instantiates NfsAux (see MCNfsAux.cfg).                                 *)
EXTENDS NfsAux

\* one relation in every report, so that a lost one shows in the total
MCReps == {1}
=============================================================================
