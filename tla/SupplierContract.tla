-------------------------- MODULE SupplierContract --------------------------
(* What the supplier promises to whoever reads "active on the Carousel": the   *)
(* claim is made by an accepted publication only, and it is a lease of Limit.  *)
(* How the loop polls, gates, retries and rewrites its record is left out.     *)
EXTENDS Integers

CONSTANT Limit   \* longest the claim outlives the acceptance it stands for

VARIABLES
    phase,       \* watching the node, publishing, or over
    active,      \* whether the supplier claims to be active
    claimAge     \* age of the acceptance behind the claim, 0 without a claim

contractVars == <<phase, active, claimAge>>

Init ==
    /\ phase = "watching"
    /\ active = FALSE
    /\ claimAge = 0

Begin ==
    /\ phase = "watching"
    /\ phase' = "publishing"
    /\ UNCHANGED <<active, claimAge>>

Accept ==
    /\ phase = "publishing"
    /\ phase' = "watching"
    /\ active' = TRUE
    /\ claimAge' = 0

\* Outside a publication, at its end, and by a stop lost in it, the claim can only be
\* given up.
Withdraw ==
    /\ phase # "over"
    /\ phase' \in {phase, "watching"}
    /\ active' = FALSE
    /\ claimAge' = 0

\* The last word of a process may be the claim it had made.
Finish ==
    /\ phase # "over"
    /\ phase' = "over"
    /\ \/ UNCHANGED <<active, claimAge>>
       \/ active' = FALSE /\ claimAge' = 0

\* Time passes, but never past the end of the lease.
Tick ==
    /\ phase # "over"
    /\ active
    /\ claimAge' \in claimAge..Limit
    /\ UNCHANGED <<phase, active>>

Next == Begin \/ Accept \/ Withdraw \/ Finish \/ Tick

Spec == Init /\ [][Next]_contractVars
=============================================================================
