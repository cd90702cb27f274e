------------------------- MODULE SupplierRefinement -------------------------
(* The loop implements the contract: publishing is the time from the touch of  *)
(* the record to the handling of the pool's answer, the claim is a record that *)
(* says healthy_active.                                                        *)
EXTENDS SupplierLoop

Phase ==
    IF pc = "ended" THEN "over"
    ELSE IF pc \in {"publishing", "answered"} THEN "publishing" ELSE "watching"

Active == record = "healthy_active"

Contract == INSTANCE SupplierContract
    WITH Limit <- ActiveGap, phase <- Phase, active <- Active,
         claimAge <- IF Active THEN acceptAge ELSE 0

\* Every step of the loop is a step of the contract or leaves its state alone.
ImplementsContract == Contract!Spec
=============================================================================
