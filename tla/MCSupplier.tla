----------------------------- MODULE MCSupplier -----------------------------
(* Instance of Supplier for TLC, in units of 30 s: a stale guard of 2, a check  *)
(* of at most 1, and the lease of 117 s as 4.                                   *)
EXTENDS Supplier

\* The clock is set forward.
ClockSetForward == {2}
=============================================================================
