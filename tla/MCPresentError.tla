--------------------------- MODULE MCPresentError ----------------------------
(* Two root fields, and a child whose alias is the name of an argument.    *)
EXTENDS PresentError, TLC

MCPaths  == {<<"ping">>, <<"ping", "at">>, <<"ping", "alias">>}
Symmetry == Permutations(Operations)
=============================================================================
