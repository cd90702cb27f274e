---------------------------- MODULE MCHealthCheck ----------------------------
(* Instance of HealthCheck alone for TLC, in units of 15 s: a stale guard of 4, *)
(* a check of at most 2.                                                       *)
EXTENDS HealthCheck

SteadyClock == {}
=============================================================================
