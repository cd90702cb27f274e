---------------------------- MODULE Publication ----------------------------
(* PyblockPublisher.publish (pyblock.py), one call after another in the thread  *)
(* of the loop: the Tor probe, the POST, and the interval timer whose alarm     *)
(* bounds it, with the stop handler of main.py that may run at any of its       *)
(* steps. SupplierLoop has what the loop does with the outcome.                 *)
(*                                                                              *)
(* The alarm, like a stop, runs its handler between two steps of the thread and *)
(* raises there: while the timer is set, inside the POST, inside the finally    *)
(* clause that clears the timer, or inside the other handler. Whoever answers   *)
(* the POST is the pool. Name resolution, which no handler interrupts, is what  *)
(* follows the setting of the timer and has a shorter timeout of its own.       *)
EXTENDS Integers

CONSTANTS
    Deadline,       \* PUBLICATION_DEADLINE_S
    ProbeTimeout,   \* timeout of socks_port_open
    Networks,       \* the network modes explored
    Disk            \* what a write of the stop handler may do: "works", "fails"

ASSUME PublicationAssumption ==
    /\ Deadline \in Nat \ {0}
    /\ ProbeTimeout \in Nat
    /\ Networks \in SUBSET {"tor", "clearnet"}
    /\ Disk \in SUBSET {"works", "fails"}

\* What SupplierLoop calls PublishTimeout.
Limit == ProbeTimeout + Deadline

Off == -1

Outcomes == {"none", "tor_not_ready", "accepted", "refused", "nonobject", "publish_error", "exit"}

VARIABLES
    step,      \* where the thread is; idle: outside publish
    network,   \* config.network
    timer,     \* time left on ITIMER_REAL, Off, or 0 when SIGALRM is due
    handler,   \* handler of SIGALRM: default, or the _expire of a publication
    saved,     \* previous_handler, previous_delay, and spent at that time (started)
    spent,     \* time since publish was called, counted up to Limit + 1
    outcome,   \* what publish is about to return or raise, or has
    stop,      \* the stop of this call: none, running, exiting (SystemExit), cut (short), failed
    alarm,     \* history: quiet, or fired in this call
    leak,      \* history: never, or once (the timer was left running)
    pool       \* the pool's side of this POST: none, sent (in full), accepted, refused

vars == <<step, network, timer, handler, saved, spent, outcome, stop, alarm, leak, pool>>
alarmVars == <<timer, handler, saved>>

Blocked == step \in {"probe", "request", "response"}   \* in a socket operation
Posting == step \in {"request", "response"}            \* in the body of the with
Arming == step \in {"prepare", "arm", "armed"}         \* on the way to that body
Finally == step \in {"disarm", "restore"}
Uninterrupted == stop # "running"                      \* no stop handler on the stack

Init ==
    /\ step = "idle"
    /\ network \in Networks
    /\ timer = Off
    /\ handler = "default"
    /\ saved = [handler |-> "default", delay |-> 0, started |-> 0]
    /\ spent = 0
    /\ outcome = "none"
    /\ stop = "none"
    /\ alarm = "quiet"
    /\ leak = "never"
    /\ pool = "none"

-----------------------------------------------------------------------------
(* The thread.                                                               *)

Begin ==
    /\ step = "idle"
    /\ timer # 0
    /\ spent' = 0
    /\ outcome' = "none"
    /\ stop' = "none"
    /\ alarm' = "quiet"
    /\ pool' = "none"
    /\ step' = IF network = "tor" THEN "probe" ELSE "prepare"
    /\ UNCHANGED <<network, alarmVars, leak>>

\* Leaves publish, with what it returns or raises.
Leaves(o) ==
    /\ outcome' = o
    /\ step' = IF o = "exit" THEN "ended" ELSE "idle"

\* _tor_ready: the SOCKS port answers, or TorNotReadyError.
Probes ==
    /\ step = "probe"
    /\ Uninterrupted
    /\ \/ step' = "prepare" /\ UNCHANGED outcome
       \/ Leaves("tor_not_ready")
    /\ UNCHANGED <<network, alarmVars, spent, stop, alarm, leak, pool>>

\* The request is built; _publication_deadline notes what there was and sets the
\* handler.
Arm ==
    /\ step = "prepare"
    /\ Uninterrupted
    /\ saved' = [handler |-> handler, delay |-> IF timer = Off THEN 0 ELSE timer, started |-> spent]
    /\ handler' = "expire"
    /\ step' = "arm"
    /\ UNCHANGED <<network, timer, spent, outcome, stop, alarm, leak, pool>>

\* setitimer, which the try statement follows.
SetTimer_Skipped == step = "arm" /\ Uninterrupted /\ step' = "armed" /\ timer' = Off
                    /\ UNCHANGED <<network, handler, saved, spent, outcome, stop, alarm, leak, pool>>

SetTimer_ProbesTimeout ==
    /\ step = "arm"
    /\ Uninterrupted
    /\ timer' = ProbeTimeout
    /\ step' = "armed"
    /\ UNCHANGED <<network, handler, saved, spent, outcome, stop, alarm, leak, pool>>

SetTimer ==
    /\ step = "arm"
    /\ Uninterrupted
    /\ timer' = Deadline
    /\ step' = "armed"
    /\ UNCHANGED <<network, handler, saved, spent, outcome, stop, alarm, leak, pool>>

\* The try statement and the body of the with are entered: from here the finally
\* clause is run.
Enter ==
    /\ step = "armed"
    /\ Uninterrupted
    /\ step' = "request"
    /\ UNCHANGED <<network, alarmVars, spent, outcome, stop, alarm, leak, pool>>

\* connect and request: the whole POST is out.
Sends_Rearmed ==
    /\ step = "request"
    /\ Uninterrupted
    /\ step' = "response"
    /\ timer' = Deadline
    /\ pool' = "sent"
    /\ UNCHANGED <<network, handler, saved, spent, outcome, stop, alarm, leak>>

Sends ==
    /\ step = "request"
    /\ Uninterrupted
    /\ step' = "response"
    /\ pool' = "sent"
    /\ UNCHANGED <<network, alarmVars, spent, outcome, stop, alarm, leak>>

\* The body of the with ends; its finally clause is next.
Ends(o) ==
    /\ Uninterrupted
    /\ outcome' = o
    /\ step' = "disarm"
    /\ UNCHANGED <<network, alarmVars, spent, stop, alarm, leak, pool>>

\* The whole answer is read, whatever its status, and is a JSON object, or is
\* JSON of another type; or it is no JSON, or there is none.
Answered_ByStatus == step = "response" /\ pool \in {"accepted", "refused"} /\ Ends("accepted")

Answered ==
    /\ step = "response"
    /\ pool \in {"accepted", "refused"}
    /\ \E o \in {pool, "nonobject"} : Ends(o)

Fails == Posting /\ Ends("publish_error")

\* setitimer(ITIMER_REAL, 0), the first statement of the finally clause.
Disarm_Skipped == step = "disarm" /\ Uninterrupted /\ step' = "restore"
                  /\ UNCHANGED <<network, alarmVars, spent, outcome, stop, alarm, leak, pool>>

Disarm ==
    /\ step = "disarm"
    /\ Uninterrupted
    /\ step' = "restore"
    /\ timer' = Off
    /\ UNCHANGED <<network, handler, saved, spent, outcome, stop, alarm, leak, pool>>

\* What is left of a timer that ran before this call.
Rest_Unclamped == IF saved.delay = 0 THEN timer ELSE saved.delay - (spent - saved.started)

Rest ==
    IF saved.delay = 0 THEN timer
    ELSE IF saved.delay > spent - saved.started THEN saved.delay - (spent - saved.started)
    ELSE 0

\* What publish ends with, given how the body of the with ended.
Surfaces_ExitCaught(o) == IF o = "exit" THEN "publish_error" ELSE o

Surfaces(o) == o

Restore ==
    /\ step = "restore"
    /\ Uninterrupted
    /\ handler' = saved.handler
    /\ timer' = Rest
    /\ Leaves(Surfaces(outcome))
    /\ UNCHANGED <<network, saved, spent, stop, alarm, leak, pool>>

-----------------------------------------------------------------------------
(* Exceptions raised by a handler.                                           *)

\* What publish makes of an exception: in the probe a port that is not ready, from the
\* with on a PublishError. Where no except clause is around it the exception leaves
\* publish as it is and ends the process (main.py:342-350).
Failures ==
    CASE step = "probe"   -> {"tor_not_ready", "exit"}
      [] step = "prepare" -> {"publish_error", "exit"}
      [] OTHER            -> {"publish_error"}

\* In the body of the with an exception ends it; before it, nothing is undone, and in
\* its finally clause the rest of the clause is left out.
Raises(o) ==
    /\ IF Posting THEN step' = "disarm" /\ outcome' = o ELSE Leaves(o)
    /\ UNCHANGED <<network, handler, saved, spent, pool>>

\* _expire raises, in place of the SystemExit of a stop under way. A timer left over
\* from an earlier call may be due when the new one is set, which then runs on.
AlarmGoesOff ==
    /\ timer = 0
    /\ Blocked \/ Arming \/ Finally
    /\ \E o \in Failures : Raises(o)
    /\ timer' \in IF step = "arm" THEN {Off, Deadline} ELSE {Off}
    /\ alarm' = "fired"
    /\ stop' = IF stop \in {"running", "exiting"} THEN "cut" ELSE stop
    /\ UNCHANGED leak

\* A timer left running goes off outside publish: in a call of the node client,
\* which takes it for an error of the node, or else it ends the process.
LateAlarm ==
    /\ timer = 0
    /\ step = "idle"
    /\ timer' = Off
    /\ step' \in {"idle", "ended"}
    /\ UNCHANGED <<network, handler, saved, spent, outcome, stop, alarm, leak, pool>>

\* SIGTERM or SIGINT: the handler begins.
StopArrives ==
    /\ Blocked \/ Arming \/ Finally
    /\ stop = "none"
    /\ stop' = "running"
    /\ UNCHANGED <<step, network, alarmVars, spent, outcome, alarm, leak, pool>>

\* It has recorded "stopped" and exits.
StopExits ==
    /\ stop = "running"
    /\ "works" \in Disk
    /\ stop' = "exiting"
    /\ Raises("exit")
    /\ UNCHANGED <<timer, alarm, leak>>

\* Its write raises OSError. Between the setting of the timer and the try, and between
\* the body of the with and the clearing, that leaves the timer running.
StopFails ==
    /\ stop = "running"
    /\ "fails" \in Disk
    /\ stop' = "failed"
    /\ \E o \in Failures : Raises(o)
    /\ leak' = IF step \in {"armed", "disarm"} /\ timer # Off THEN "once" ELSE leak
    /\ UNCHANGED <<timer, alarm>>

-----------------------------------------------------------------------------
(* The outside.                                                              *)

\* The pool decides on a POST it has in full, even one that was given up.
PoolDecides ==
    /\ pool = "sent"
    /\ pool' \in {"accepted", "refused"}
    /\ UNCHANGED <<step, network, alarmVars, spent, outcome, stop, alarm, leak>>

\* Time passes in socket operations, and in a stop handler that runs in one or while
\* the timer does, but not past an alarm that is due.
TimePasses ==
    /\ \/ Blocked
       \/ step = "idle" /\ timer > 0
       \/ step \in {"armed", "disarm"} /\ stop = "running" /\ timer > 0
    /\ step = "probe" => spent < ProbeTimeout
    /\ timer # 0
    /\ timer' = IF timer = Off THEN Off ELSE timer - 1
    /\ spent' = IF step = "idle" \/ spent > Limit THEN spent ELSE spent + 1
    /\ UNCHANGED <<step, network, handler, saved, outcome, stop, alarm, leak, pool>>

Thread == Begin \/ Probes \/ Arm \/ SetTimer \/ Enter \/ Sends \/ Answered \/ Fails \/ Disarm \/ Restore

Handlers == AlarmGoesOff \/ LateAlarm \/ StopArrives \/ StopExits \/ StopFails

Next == Thread \/ Handlers \/ PoolDecides \/ TimePasses

\* Calls with a timeout end, handlers run, time passes; of the pool and of the
\* network nothing is assumed.
Fairness ==
    /\ WF_vars(Probes)
    /\ WF_vars(Arm \/ SetTimer \/ Enter)
    /\ WF_vars(Disarm \/ Restore)
    /\ WF_vars(AlarmGoesOff)
    /\ WF_vars(StopExits \/ StopFails)
    /\ WF_vars(TimePasses)

Spec == Init /\ [][Next]_vars

FairSpec == Spec /\ Fairness

-----------------------------------------------------------------------------
(* Properties.                                                               *)

Saveds == [handler : {"default", "expire"}, delay : 0..Deadline, started : 0..Limit]

Steps == {"idle", "probe", "prepare", "arm", "armed", "request", "response", "disarm", "restore", "ended"}

\* Every variable has its type.
PublicationTypeOK ==
    /\ step \in Steps
    /\ network \in {"tor", "clearnet"}
    /\ timer \in Off..Deadline
    /\ handler \in {"default", "expire"}
    /\ saved \in Saveds
    /\ spent \in 0..(Limit + 1)
    /\ outcome \in Outcomes
    /\ stop \in {"none", "running", "exiting", "cut", "failed"}
    /\ alarm \in {"quiet", "fired"}
    /\ leak \in {"never", "once"}
    /\ pool \in {"none", "sent", "accepted", "refused"}

\* pyblock.py:59-61, main.py:292: however the answer trickles in and whatever the
\* probe took, a publication does not outlast the bound the stale guard relies on.
DeadlineKept == spent <= Limit

\* The loop is told of an acceptance or a refusal only if the pool decided so on
\* this very POST, and that Tor was not ready only if nothing was sent.
VerdictIsPools ==
    /\ outcome = "accepted" => pool = "accepted"
    /\ outcome = "refused" => pool = "refused"
    /\ outcome = "tor_not_ready" => pool = "none"

\* The alarm is that of the call it goes off in: never early, and never after
\* publish has returned, where it would hit the loop; until a stop's write has failed
\* while the timer ran outside the try, right after it was set (pyblock.py:76) or right
\* before it was to be cleared (pyblock.py:80).
AlarmIsOwn ==
    leak = "never" =>
        /\ step = "idle" => timer = Off
        /\ alarm = "fired" => spent >= Deadline

\* An answer that was read reaches the loop, unless a stop came in between or the
\* deadline had really passed: the alarm takes back no answer that came in time.
AnswerIsTold ==
    [][Finally /\ outcome \in {"accepted", "refused"} /\ outcome' # outcome =>
          \/ stop' # "none"
          \/ alarm' = "fired" /\ (leak = "never" => spent >= Deadline)]_vars

\* A stop taken inside publish ends the process, unless the alarm went off before
\* it was through, or its write failed.
StopEndsProcess == step = "idle" /\ stop # "none" => alarm = "fired" \/ stop = "failed"

\* A publication that has begun ends, even if the pool never answers.
EveryCallReturns == step \notin {"idle", "ended"} ~> step \in {"idle", "ended"}
=============================================================================
