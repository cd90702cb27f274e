--------------------------- MODULE MCSupplierLoop ---------------------------
(* Instances of the loop for TLC. In units of 5 s, for liveness: 20, 15, 60, 30  *)
(* and 35 s become 4, 3, 12, 6 and 7, and the 2 s poll one unit; a publication   *)
(* takes one. In seconds, for the other runs: calls and publications return at   *)
(* once or at their timeout.                                                    *)
EXTENDS SupplierRefinement

UnitsRpcDelays == {0, 6}
UnitsPublishDelays == {1}

SecondsRpcDelays == {0, 30}
SecondsPublishDelays == {0, 35}
DeadlineDelays == {35}   \* a probe and a publication that both run into their timeout
NoDelays == {0}

\* Reorganizations are left to the liveness run.
SafetyFaults == FaultKinds \ {"reorg"}

\* Faults that last or pass; malformed answers, initial block download and ends of
\* the process left out.
OutageFaults == {"node", "reorg", "pool", "tor"}

StopFaults == {"stop"}

\* The chain alone moves.
NoFaults == {}
=============================================================================
