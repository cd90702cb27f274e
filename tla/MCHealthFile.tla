---------------------------- MODULE MCHealthFile ----------------------------
(* Instances of HealthFile for TLC. One record of the loop is enough: those of  *)
(* the handler and of main() differ from it.                                    *)
EXTENDS HealthFile, TLC

CONSTANTS healthy, i1, i2, i3, i4, i5

AnyInode == Permutations({i1, i2, i3, i4, i5})

\* A writer at these steps has nothing in its buffer; at the others it may have.
SettledSteps  == {"open", "fsync", "replace"}
BufferedSteps == {"dump", "flush"}

NoFaults  == {}
AllFaults == {"storage", "power"}
=============================================================================
