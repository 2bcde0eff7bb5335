------------------------------- MODULE MCCors --------------------------------
(* The requests are alike.                                                 *)
EXTENDS Cors, TLC

Symmetry == Permutations(Requests)
=============================================================================
