------------------------------- MODULE MCCrud -------------------------------
(* A small table for TLC; its keys are interchangeable, because either all *)
(* of them have the trigger or none.  The clients are not: one alone may   *)
(* leave statements behind.                                                *)
EXTENDS Crud, TLC

MCTriggers == {{}, Keys}
Symmetry   == Permutations(Keys)
=============================================================================
