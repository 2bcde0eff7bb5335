---------------------------- MODULE MCRateLimit ----------------------------
(* A small limiter for TLC.  Its requests are interchangeable, but the run *)
(* checks liveness, for which TLC's symmetry reduction is not sound.       *)
EXTENDS RateLimit
=============================================================================
