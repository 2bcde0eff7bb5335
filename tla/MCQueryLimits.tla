---------------------------- MODULE MCQueryLimits ----------------------------
(* Two fragments and one nested set, shared between those that hold it.    *)
EXTENDS QueryLimits
=============================================================================
