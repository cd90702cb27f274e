------------------------------ MODULE Supplier ------------------------------
(* The supplier as the operator sees it: the process, its record and the check  *)
(* of HealthCheck, with a loop whose reports are those that SupplierContract    *)
(* allows (SupplierLoop implements it, see SupplierRefinement). A report is one *)
(* step of both. The contract binds a loop that runs: nothing is promised by    *)
(* one that hangs or was killed, nor by the record it leaves to the next run.   *)
EXTENDS HealthCheck

CONSTANT Lease   \* what SupplierLoop calls ActiveGap

ASSUME LeaseAssumption == Lease \in Nat

VARIABLES
    phase,       \* the contract's: watching, publishing, over (no loop)
    acceptAge    \* history: time since the pool last accepted a template

supplierVars == <<vars, phase, acceptAge>>

\* Beyond this age no property distinguishes.
MaxAcceptAge == Lease + MaxAge

Claims == file.state = "healthy_active"

Contract == INSTANCE SupplierContract
    WITH Limit <- Lease, active <- Claims, claimAge <- IF Claims THEN acceptAge ELSE 0

SupplierInit ==
    /\ Init
    /\ phase = "over"
    /\ acceptAge = MaxAcceptAge

-----------------------------------------------------------------------------
(* Reports of the loop.                                                      *)

SameReport == LoopWrites /\ file'.state = file.state

\* The sentinel: the contract begins anew with every run.
RunBegins ==
    /\ LoopStarts
    /\ phase' = "watching"
    /\ UNCHANGED acceptAge

\* The state in memory is written again, whatever it is.
Heartbeats_AsActive ==
    /\ LoopWrites
    /\ file'.state = "healthy_active"
    /\ UNCHANGED <<phase, acceptAge>>

Heartbeats ==
    /\ SameReport
    /\ UNCHANGED <<phase, acceptAge>>

\* touch and write, before the publication.
PublicationBegins ==
    /\ SameReport
    /\ UNCHANGED acceptAge
    /\ Contract!Begin

PublicationAccepted ==
    /\ LoopWrites
    /\ acceptAge' = 0
    /\ Contract!Accept

\* Any other report.
Withdraws ==
    /\ LoopWrites
    /\ UNCHANGED acceptAge
    /\ Contract!Withdraw

RunEnds ==
    /\ LoopExits
    /\ UNCHANGED acceptAge
    /\ Contract!Finish

Reports == RunBegins \/ Heartbeats \/ PublicationBegins \/ PublicationAccepted
           \/ Withdraws \/ RunEnds

-----------------------------------------------------------------------------
(* Everything else.                                                          *)

Killed ==
    /\ ProcessKilled
    /\ phase' = "over"
    /\ UNCHANGED acceptAge

\* A loop that runs lets time pass only within its lease.
Ages ==
    /\ TimePasses
    /\ acceptAge' = IF acceptAge < MaxAcceptAge THEN acceptAge + 1 ELSE acceptAge
    /\ IF proc.phase = "loop" /\ Claims THEN Contract!Tick ELSE UNCHANGED phase

Elsewhere ==
    /\ \/ ContainerStarts \/ TorStarts \/ TorDies \/ EntrypointGivesUp \/ LoopHangs
       \/ Check \/ ClockSet
    /\ UNCHANGED <<phase, acceptAge>>

SupplierNext == Reports \/ Killed \/ Ages \/ Elsewhere

SupplierSpec == SupplierInit /\ [][SupplierNext]_supplierVars

\* StartOS keeps running the check, and time passes; nothing is assumed of the loop.
FairSupplier ==
    /\ SupplierSpec
    /\ WF_supplierVars(Check /\ UNCHANGED <<phase, acceptAge>>)
    /\ WF_supplierVars(Ages)

-----------------------------------------------------------------------------
(* Properties.                                                               *)

\* What "active on the Carousel" means to the operator (main.ts:116, README.md:53):
\* a success is shown only if the pool accepted a template no longer ago than the
\* lease, the stale guard and the check itself, hangs, kills, restarts and
\* heartbeats included.
SuccessIsEarned ==
    [][Concluding /\ verdict' = "success"
          => acceptAge <= Lease + StaleAfter + CheckTimeout]_supplierVars
=============================================================================
