---------------------------- MODULE MCGenerate ----------------------------
(* A small gqlgen module for TLC; resolvers of a type are interchangeable. *)
EXTENDS Generate, TLC

Symmetry == Permutations(Ops)
=============================================================================
