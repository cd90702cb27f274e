--------------------------- MODULE MCPublication ---------------------------
(* Instance of Publication for TLC, in units of 5 s: a deadline of 6 and a      *)
(* probe of at most 1.                                                         *)
EXTENDS Publication

NetworkModes == {"tor", "clearnet"}
DiskStates == {"works", "fails"}
=============================================================================
