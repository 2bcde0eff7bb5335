----------------------------- MODULE MCServing -----------------------------
(* The quickstart's order of its timeouts (statement, dial and write 5,    *)
(* read 10, request 15 seconds), and a server that has neither of the two  *)
(* that can be left off.                                                   *)
EXTENDS Serving
MCSettings ==
    {[dial |-> 1, write |-> 1, read |-> 2, statement |-> 1, request |-> 3],
     [dial |-> 1, write |-> 1, read |-> 1, statement |-> Off, request |-> Off]}
=============================================================================
