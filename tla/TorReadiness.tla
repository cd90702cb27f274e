---------------------------- MODULE TorReadiness ----------------------------
(* The wait for a usable Tor route before the loop: _await_tor in main.py, and  *)
(* wait_until_ready, smoke_test and socks_port_open in tor.py.                  *)
(*                                                                              *)
(* An attempt is up to six blocking socket operations (connect, greeting,       *)
(* reply, length of the bound address if it is a name, bound address, bound     *)
(* port), each with the attempt's timeout; every _recv_exact is taken to be one *)
(* of them. Attempts are repeated in a window, windows are repeated for ever.   *)
EXTENDS Integers, Sequences

CONSTANTS
    Window,            \* TOR_READY_TIMEOUT_S
    TorPollInterval,   \* TOR_POLL_INTERVAL_S
    AttemptTimeout,    \* TOR_ATTEMPT_TIMEOUT_S
    PortTimeout,       \* timeout of socks_port_open
    RetryInterval,     \* RETRY_INTERVAL_S
    StaleAfter,        \* health.STALE_AFTER_S
    OpDelays,          \* durations of a socket operation that is answered
    MaxAge             \* bound: the ages are kept up to this one

Stages == <<"connect", "greeting", "reply", "length", "address", "port">>

\* The longest attempt.
AttemptBound == Len(Stages) * AttemptTimeout

ASSUME TorTimingAssumption ==
    /\ Window \in Nat
    /\ TorPollInterval \in Nat \ {0}
    /\ AttemptTimeout \in Nat \ {0}
    /\ PortTimeout \in Nat
    /\ RetryInterval \in Nat
    /\ StaleAfter \in Nat
    /\ OpDelays \in SUBSET Nat
    /\ MaxAge \in Nat

\* tor.py:35-37: one target probe stays below the stale guard; so do the waits
\* between two probes.
ASSUME HeartbeatSafeAssumption ==
    /\ AttemptBound <= StaleAfter
    /\ TorPollInterval + PortTimeout <= StaleAfter
    /\ RetryInterval + PortTimeout <= StaleAfter
    /\ StaleAfter < MaxAge

Failures == {"tor", "target"}     \* TorUnavailableError, PublishTargetUnavailableError

HealthStateOf(failure) ==
    IF failure = "target" THEN "pyblock_unreachable" ELSE "tor_unavailable"

VARIABLES
    pc,          \* where the wait is
    stage,       \* index in Stages of the pending socket operation
    limit,       \* timeout of each operation of this attempt
    error,       \* error: the failure wait_until_ready would report
    remaining,   \* time left in the window, 0 when it is over
    record,      \* state in the health file
    recordAge,   \* time since the record was written
    observed,    \* history: whose failure was last seen, if any
    untried,     \* history: no attempt has ended in this window
    routeAge,    \* history: time since a CONNECT to the target was answered
    sentinel,    \* the entrypoint has signalled that the SOCKS port came up
    tor,         \* the Tor daemon: open, stalled (accepts, never answers), closed
    target       \* the publish target behind it: reachable, refused, silent

vars == <<pc, stage, limit, error, remaining, record, recordAge, observed, untried, routeAge,
          sentinel, tor, target>>
outsideVars == <<sentinel, tor, target>>

Min(a, b) == IF a < b THEN a ELSE b

Elapse(d) ==
    /\ remaining' = IF d > remaining THEN 0 ELSE remaining - d
    /\ recordAge' = Min(recordAge + d, MaxAge)
    /\ routeAge' = Min(routeAge + d, MaxAge)

\* No time passes.
Instant == UNCHANGED <<remaining, recordAge, routeAge>>

\* The callback _progress, and the handler of the error in _await_tor:
\* health.set(error.health_state, ...); write_health(health).
Report(failure) ==
    /\ record' = HealthStateOf(failure)
    /\ recordAge' = 0

\* The entrypoint touches the sentinel before it starts this process, or never
\* (it read another network mode from the same file).
Init ==
    /\ pc = "start"
    /\ stage = 1
    /\ limit = 0
    /\ error = "tor"
    /\ remaining = 0
    /\ record = "starting"
    /\ recordAge = 0
    /\ observed = "none"
    /\ untried = TRUE
    /\ routeAge = MaxAge
    /\ sentinel \in BOOLEAN
    /\ tor \in {"open", "stalled", "closed"}
    /\ target \in {"reachable", "refused", "silent"}

-----------------------------------------------------------------------------
(* wait_until_ready.                                                         *)

\* A failure is seen: error names it.
Observe(failure) ==
    /\ error' = failure
    /\ observed' = failure
    /\ untried' = FALSE
    /\ pc' = "failed"

\* deadline = monotonic() + timeout; error = "Tor has not started yet"
StartWindow ==
    /\ pc = "start"
    /\ remaining' = Window
    /\ error' = "tor"
    /\ untried' = TRUE
    /\ pc' = "check"
    /\ UNCHANGED <<stage, limit, record, recordAge, observed, routeAge, outsideVars>>

SentinelAbsent ==
    /\ pc = "check"
    /\ ~sentinel
    /\ Observe("tor")
    /\ Instant
    /\ UNCHANGED <<stage, limit, record, outsideVars>>

SentinelPresent ==
    /\ pc = "check"
    /\ sentinel
    /\ pc' = "socks"
    /\ Instant
    /\ UNCHANGED <<stage, limit, error, record, observed, untried, outsideVars>>

\* socks_port_open: refused at once, or no answer within its timeout.
SocksPortClosed ==
    /\ pc = "socks"
    /\ tor = "closed"
    /\ \E d \in {0, PortTimeout} : Elapse(d)
    /\ Observe("tor")
    /\ UNCHANGED <<stage, limit, record, outsideVars>>

SocksPortOpen_DeadlineIgnored ==
    /\ pc = "socks"
    /\ tor # "closed"
    /\ pc' = "announce"
    /\ Instant
    /\ UNCHANGED <<stage, limit, error, record, observed, untried, outsideVars>>

SocksPortOpen ==
    /\ pc = "socks"
    /\ tor # "closed"
    /\ pc' = IF remaining = 0 THEN "expired" ELSE "announce"
    /\ Instant
    /\ UNCHANGED <<stage, limit, error, record, observed, untried, outsideVars>>

\* The record is refreshed just before the blocking probe. A known failure of the
\* target is kept; any other becomes "Checking Tor route", a failure of Tor's kind.
AttemptStarts ==
    /\ pc = "announce"
    /\ limit' = Min(AttemptTimeout, remaining)
    /\ stage' = 1
    /\ pc' = "probe"
    /\ UNCHANGED <<remaining, observed, untried, routeAge, outsideVars>>

BeginAttempt_Relabelled == AttemptStarts /\ error' = "tor" /\ Report("tor")

BeginAttempt_Silently == AttemptStarts /\ UNCHANGED <<record, recordAge, error>>

BeginAttempt == AttemptStarts /\ Report(error) /\ UNCHANGED error

-----------------------------------------------------------------------------
(* smoke_test.                                                               *)

\* An operation of the attempt takes d, within the attempt's timeout.
Takes(d) == d \in OpDelays /\ d <= limit

TargetRequestSent == stage > 2

\* Each operation leads to the next; the last one proves the route.
OperationSucceeds_ReplyIgnored ==
    /\ pc = "probe"
    /\ tor = "open"
    /\ Stages[stage] = "reply" => target # "silent"
    /\ \E d \in OpDelays : Takes(d) /\ Elapse(d)
    /\ IF stage = Len(Stages) THEN pc' = "ready" /\ UNCHANGED stage
       ELSE stage' = stage + 1 /\ UNCHANGED pc
    /\ UNCHANGED <<limit, error, record, observed, untried, outsideVars>>

OperationSucceeds ==
    /\ pc = "probe"
    /\ tor = "open"
    /\ Stages[stage] # "reply"
    /\ \E d \in OpDelays : Takes(d) /\ Elapse(d)
    /\ IF stage = Len(Stages) THEN pc' = "ready" /\ UNCHANGED stage
       ELSE stage' = stage + 1 /\ UNCHANGED pc
    /\ UNCHANGED <<limit, error, record, observed, untried, outsideVars>>

\* The SOCKS reply says that the circuit to the target is open; the length is read
\* only of a name.
TargetReached ==
    /\ pc = "probe"
    /\ tor = "open"
    /\ Stages[stage] = "reply"
    /\ target = "reachable"
    /\ \E d \in OpDelays :
          /\ Takes(d)
          /\ remaining' = IF d > remaining THEN 0 ELSE remaining - d
          /\ recordAge' = Min(recordAge + d, MaxAge)
    /\ routeAge' = 0
    /\ stage' \in {stage + 1, stage + 2}
    /\ UNCHANGED <<pc, limit, error, record, observed, untried, outsideVars>>

\* A SOCKS reply other than "succeeded".
TargetRefused ==
    /\ pc = "probe"
    /\ tor = "open"
    /\ Stages[stage] = "reply"
    /\ target = "refused"
    /\ \E d \in OpDelays : Takes(d) /\ Elapse(d)
    /\ Observe("target")
    /\ UNCHANGED <<stage, limit, record, outsideVars>>

OperationTimesOut_BlamesTor ==
    /\ pc = "probe"
    /\ tor = "stalled" \/ (tor = "open" /\ Stages[stage] = "reply" /\ target = "silent")
    /\ Elapse(limit)
    /\ Observe("tor")
    /\ UNCHANGED <<stage, limit, record, outsideVars>>

\* A timeout is the target's failure once the CONNECT request has been sent.
OperationTimesOut ==
    /\ pc = "probe"
    /\ \/ tor = "stalled"
       \/ tor = "open" /\ Stages[stage] = "reply" /\ target = "silent"
       \/ tor = "open" /\ \E d \in OpDelays : d > limit
    /\ Elapse(limit)
    /\ Observe(IF TargetRequestSent THEN "target" ELSE "tor")
    /\ UNCHANGED <<stage, limit, record, outsideVars>>

\* Connection refused, reset or closed early, or bytes that are not SOCKS5.
ProxyFails ==
    /\ pc = "probe"
    /\ tor = "closed"
    /\ \E d \in OpDelays : Takes(d) /\ Elapse(d)
    /\ Observe("tor")
    /\ UNCHANGED <<stage, limit, record, outsideVars>>

-----------------------------------------------------------------------------
(* After an attempt.                                                         *)

\* An unsuccessful attempt is reported, unless the window is over.
ReportFailure ==
    /\ pc = "failed"
    /\ remaining > 0
    /\ Report(error)
    /\ pc' = "sleeping"
    /\ UNCHANGED <<stage, limit, error, remaining, observed, untried, routeAge, outsideVars>>

Sleep ==
    /\ pc = "sleeping"
    /\ Elapse(Min(TorPollInterval, remaining))
    /\ pc' = "check"
    /\ UNCHANGED <<stage, limit, error, record, observed, untried, outsideVars>>

\* The window is over: wait_until_ready raises the failure it knows, _await_tor
\* records it, sleeps and starts another window.
WindowExpires_GivesUp ==
    /\ pc = "expired" \/ (pc = "failed" /\ remaining = 0)
    /\ Report(error)
    /\ pc' = "expired"
    /\ UNCHANGED <<stage, limit, error, remaining, observed, untried, routeAge, outsideVars>>

WindowExpires ==
    /\ pc = "expired" \/ (pc = "failed" /\ remaining = 0)
    /\ Report(error)
    /\ pc' = "backoff"
    /\ UNCHANGED <<stage, limit, error, remaining, observed, untried, routeAge, outsideVars>>

Backoff ==
    /\ pc = "backoff"
    /\ Elapse(RetryInterval)
    /\ pc' = "start"
    /\ UNCHANGED <<stage, limit, error, record, observed, untried, outsideVars>>

-----------------------------------------------------------------------------
(* The outside.                                                              *)

waitVars == <<pc, stage, limit, error, remaining, record, recordAge, observed, untried,
              routeAge, sentinel>>

TorChanges ==
    /\ tor' \in {"open", "stalled", "closed"} \ {tor}
    /\ UNCHANGED <<waitVars, target>>

TargetChanges ==
    /\ target' \in {"reachable", "refused", "silent"} \ {target}
    /\ UNCHANGED <<waitVars, tor>>

-----------------------------------------------------------------------------
Wait ==
    \/ StartWindow \/ SentinelAbsent \/ SentinelPresent \/ SocksPortClosed \/ SocksPortOpen
    \/ BeginAttempt \/ OperationSucceeds \/ TargetReached \/ TargetRefused
    \/ OperationTimesOut \/ ProxyFails \/ ReportFailure \/ Sleep \/ WindowExpires \/ Backoff

Next == Wait \/ TorChanges \/ TargetChanges

Spec == Init /\ [][Next]_vars

\* Every step of the wait is local, a sleep, or a socket operation with a timeout.
FairSpec == Spec /\ WF_vars(Wait)

-----------------------------------------------------------------------------
(* Properties.                                                               *)

Locations == {"start", "check", "socks", "announce", "probe", "failed", "sleeping",
              "expired", "backoff", "ready"}

\* Every variable has its type, and no socket operation is given a timeout of 0,
\* which would make the socket non-blocking.
TorTypeOK ==
    /\ pc \in Locations
    /\ stage \in 1..Len(Stages)
    /\ limit \in 0..AttemptTimeout
    /\ error \in Failures
    /\ remaining \in 0..Window
    /\ record \in {"starting", "tor_unavailable", "pyblock_unreachable"}
    /\ recordAge \in 0..MaxAge
    /\ observed \in Failures \cup {"none"}
    /\ untried \in BOOLEAN
    /\ routeAge \in 0..MaxAge
    /\ sentinel \in BOOLEAN
    /\ tor \in {"open", "stalled", "closed"}
    /\ target \in {"reachable", "refused", "silent"}
    /\ pc = "probe" => limit > 0

\* README.md:144-146: however Tor and the target behave, the record of a supplier
\* that waits for Tor is never stale.
WaitingNeverStale == recordAge <= StaleAfter

\* main.py:15-16: the loop starts only after the target itself has answered a
\* CONNECT, no longer ago than the three operations that follow it.
RouteProved == pc = "ready" => sentinel /\ routeAge <= 3 * AttemptTimeout

BlameShifts == record = "pyblock_unreachable" /\ record' = "tor_unavailable"

\* Within a window, a record that blames the target comes to blame Tor only after
\* Tor itself was seen to fail (tor.py:219-222).
BlameKeptInWindow == [][BlameShifts => observed = "tor" \/ untried]_vars

\* Once Tor and the target work and keep working, the wait ends, however many
\* windows have failed before.
ReadyWhenUsable ==
    <>[](sentinel /\ tor = "open" /\ target = "reachable") => <>(pc = "ready")

\* A lasting failure of Tor ends up in the record; a lasting failure of the target
\* is reported again and again.
TorFaultsReported ==
    [](pc # "ready") =>
        /\ <>[](~sentinel \/ tor # "open") => <>[](record = "tor_unavailable")
        /\ <>[](sentinel /\ tor = "open" /\ target # "reachable")
                => []<>(record = "pyblock_unreachable")
=============================================================================
