----------------------------- MODULE HealthCheck -----------------------------
(* The out-of-band health check against the life of the supplier's process: the *)
(* reader of health.py (read_state, process_alive), healthcheck.py and the      *)
(* ready function of main.ts on one side; the entrypoint, the process it        *)
(* becomes, restarts and the record that outlives them on the other.            *)
(*                                                                              *)
(* What the loop writes, and when, is left open here: Supplier closes it with    *)
(* the contract that SupplierLoop implements. A write of the record is one step: *)
(* HealthFile has its parts.                                                    *)
EXTENDS Integers

CONSTANTS
    StaleAfter,    \* STALE_AFTER_S
    CheckTimeout,  \* timeout of the check's exec (main.ts:79)
    MaxAge,        \* bound: ages are kept up to this one
    MaxRuns,       \* bound: starts of the container
    Pids,          \* the pids of a container, which start again with every start
    ClockSteps     \* amounts the wall clock may be set by, {} if never

ASSUME HealthCheckAssumption ==
    /\ StaleAfter \in Nat /\ CheckTimeout \in Nat /\ MaxRuns \in Nat
    /\ MaxAge \in Nat /\ MaxAge > StaleAfter + CheckTimeout
    /\ Pids \subseteq Nat \ {0}
    /\ ClockSteps \in SUBSET Int

\* One state for each way the reader treats them; failed stands for every failing
\* one, torn for a record that does not parse (HealthFile).
RecordStates == {"starting", "healthy_active", "node_unsynced", "stopped", "failed", "torn"}

NoPid == 0

NoRecord == [state |-> "absent", pid |-> NoPid, age |-> 0, run |-> 0]

VARIABLES
    file,     \* the record on the volume: state, pid, age by the wall clock, run of its writer
    silence,  \* time since the record was written, whatever the wall clock says
    proc,     \* the process: none, entrypoint, waiting (for Tor), loop, or a loop that hangs
    torPid,   \* pid of the Tor daemon, NoPid if there is none
    run,      \* number of starts so far
    begun,    \* history: a supplier has begun
    check,    \* the check in progress; gone: the supplier was, and has stayed, gone
    verdict   \* result of the last check

vars == <<file, silence, proc, torPid, run, begun, check, verdict>>

NoProcess == [phase |-> "none", pid |-> NoPid]
NoCheck   == [at |-> "idle", took |-> 0, record |-> NoRecord, gone |-> FALSE]

LivePids == {proc.pid, torPid} \ {NoPid}

\* process_alive: a zombie counts as dead, so only running processes are left.
ProcessAlive_Assumed(pid) == pid # NoPid

ProcessAlive(pid) == pid # NoPid /\ pid \in LivePids

Init ==
    /\ file = NoRecord
    /\ silence = 0
    /\ proc = NoProcess
    /\ torPid = NoPid
    /\ run = 0
    /\ begun = FALSE
    /\ check = NoCheck
    /\ verdict = "none"

-----------------------------------------------------------------------------
(* The process.                                                              *)

\* A new process gets a pid that no other one has now; one before may have had it.
FreePids == Pids \ LivePids

\* docker_entrypoint.sh starts; health.json is left as it was.
ContainerStarts ==
    /\ proc.phase = "none"
    /\ torPid = NoPid
    /\ run < MaxRuns
    /\ run' = run + 1
    /\ \E p \in FreePids : proc' = [phase |-> "entrypoint", pid |-> p]
    /\ check' = [check EXCEPT !.gone = FALSE]
    /\ UNCHANGED <<file, silence, torPid, begun, verdict>>

\* In Tor mode the daemon is started in the background and waited for.
TorStarts ==
    /\ proc.phase = "entrypoint"
    /\ proc' = [proc EXCEPT !.phase = "waiting"]
    /\ \E p \in FreePids : torPid' = p
    /\ UNCHANGED <<file, silence, run, begun, check, verdict>>

TorDies ==
    /\ torPid # NoPid
    /\ torPid' = NoPid
    /\ UNCHANGED <<file, silence, proc, run, begun, check, verdict>>

\* The SOCKS port did not open in time: exit 1.
EntrypointGivesUp ==
    /\ proc.phase = "waiting"
    /\ proc' = NoProcess
    /\ UNCHANGED <<file, silence, torPid, run, begun, check, verdict>>

Write(state) ==
    /\ file' = [state |-> state, pid |-> proc.pid, age |-> 0, run |-> run]
    /\ silence' = 0

\* The supplier begins: exec gave it the entrypoint's pid, and its first act is
\* the sentinel.
LoopStarts_WithoutSentinel ==
    /\ proc.phase \in {"entrypoint", "waiting"}
    /\ proc' = [proc EXCEPT !.phase = "loop"]
    /\ begun' = TRUE
    /\ UNCHANGED <<file, silence, torPid, run, check, verdict>>

LoopStarts ==
    /\ proc.phase \in {"entrypoint", "waiting"}
    /\ proc' = [proc EXCEPT !.phase = "loop"]
    /\ begun' = TRUE
    /\ Write("starting")
    /\ UNCHANGED <<torPid, run, check, verdict>>

\* "stopped" by a loop that goes on is that of a stop that was swallowed.
LoopWrites ==
    /\ proc.phase = "loop"
    /\ \E s \in RecordStates \ {"torn"} : Write(s)
    /\ UNCHANGED <<proc, torPid, run, begun, check, verdict>>

\* A call that never returns.
LoopHangs ==
    /\ proc.phase = "loop"
    /\ proc' = [proc EXCEPT !.phase = "hung"]
    /\ UNCHANGED <<file, silence, torPid, run, begun, check, verdict>>

\* The handler records "stopped", main() records "failed"; a stop that strikes a
\* write may leave a torn record.
LoopExits ==
    /\ proc.phase = "loop"
    /\ \E s \in {"stopped", "failed", "torn"} : Write(s)
    /\ proc' = NoProcess
    /\ UNCHANGED <<torPid, run, begun, check, verdict>>

\* Killed in any phase: nothing is written.
ProcessKilled ==
    /\ proc.phase # "none"
    /\ proc' = NoProcess
    /\ UNCHANGED <<file, silence, torPid, run, begun, check, verdict>>

-----------------------------------------------------------------------------
(* The check.                                                                *)

\* STARTOS_RESULT, anything else is a failure.
StartosResult(state) ==
    CASE state = "healthy_active" -> "success"
      [] state \in {"starting", "no_state"} -> "starting"
      [] state = "node_unsynced" -> "loading"
      [] OTHER -> "failure"

\* The ready function runs the check, which takes now first.
CheckBegins ==
    /\ check.at = "idle"
    /\ check' = [NoCheck EXCEPT !.at = "read", !.gone = begun /\ proc.phase = "none"]
    /\ UNCHANGED <<file, silence, proc, torPid, run, begun, verdict>>

Concludes(state) ==
    /\ verdict' = StartosResult(state)
    /\ check' = NoCheck

\* read_health; the age is relative to now, taken check.took before.
ReadRecord ==
    /\ check.at = "read"
    /\ check' = IF file.state \in {"absent", "torn"} THEN [check EXCEPT !.at = "missing"]
                ELSE [check EXCEPT !.at = "judge",
                                   !.record = [file EXCEPT !.age = file.age - check.took]]
    /\ UNCHANGED <<file, silence, proc, torPid, run, begun, verdict>>

\* os.path.exists, after the read has failed.
RecordMissing ==
    /\ check.at = "missing"
    /\ Concludes(IF file = NoRecord THEN "no_state" ELSE "unreadable")
    /\ UNCHANGED <<file, silence, proc, torPid, run, begun>>

\* A deliberate stop as it is, then the process, then the age.
StateOf_AgeUnchecked(record) ==
    IF record.state # "stopped" /\ ~ProcessAlive(record.pid) THEN "dead" ELSE record.state

StateOf(record) ==
    CASE record.state = "stopped" -> "stopped"
      [] record.state # "stopped" /\ ~ProcessAlive(record.pid) -> "dead"
      [] record.state # "stopped" /\ ProcessAlive(record.pid) /\ record.age > StaleAfter -> "stale"
      [] OTHER -> record.state

JudgeRecord ==
    /\ check.at = "judge"
    /\ Concludes(StateOf(check.record))
    /\ UNCHANGED <<file, silence, proc, torPid, run, begun>>

\* The exec times out, or what it printed is not a result StartOS knows.
CheckFails_AsPrinted ==
    /\ check.at # "idle"
    /\ verdict' \in {"failure", "garbage"}
    /\ check' = NoCheck
    /\ UNCHANGED <<file, silence, proc, torPid, run, begun>>

CheckFails ==
    /\ check.at # "idle"
    /\ verdict' = "failure"
    /\ check' = NoCheck
    /\ UNCHANGED <<file, silence, proc, torPid, run, begun>>

-----------------------------------------------------------------------------
(* Time.                                                                     *)

Clamp(a) == IF a > MaxAge THEN MaxAge ELSE IF a < -MaxAge THEN -MaxAge ELSE a

\* No check lasts longer than CheckTimeout.
TimePasses ==
    /\ check.at # "idle" => check.took < CheckTimeout
    /\ file' = IF file = NoRecord THEN file ELSE [file EXCEPT !.age = Clamp(file.age + 1)]
    /\ silence' = Clamp(silence + 1)
    /\ check' = IF check.at = "idle" THEN check ELSE [check EXCEPT !.took = check.took + 1]
    /\ UNCHANGED <<proc, torPid, run, begun, verdict>>

\* The wall clock is set, between checks.
ClockSet ==
    /\ check.at = "idle"
    /\ file # NoRecord
    /\ \E step \in ClockSteps : file' = [file EXCEPT !.age = Clamp(file.age + step)]
    /\ UNCHANGED <<silence, proc, torPid, run, begun, check, verdict>>

Process == \/ ContainerStarts \/ TorStarts \/ TorDies \/ EntrypointGivesUp \/ LoopStarts
           \/ LoopWrites \/ LoopHangs \/ LoopExits \/ ProcessKilled

Check == CheckBegins \/ ReadRecord \/ RecordMissing \/ JudgeRecord \/ CheckFails

Next == Process \/ Check \/ TimePasses \/ ClockSet

Spec == Init /\ [][Next]_vars

-----------------------------------------------------------------------------
(* Properties.                                                               *)

Records == [state : RecordStates \cup {"absent"}, pid : Pids \cup {NoPid},
            age : (-MaxAge - CheckTimeout)..MaxAge, run : 0..MaxRuns]

\* Every variable has its type, StartOS is given only results it knows, and no two
\* processes share a pid.
HealthCheckTypeOK ==
    /\ file \in Records
    /\ silence \in 0..MaxAge
    /\ proc \in [phase : {"none", "entrypoint", "waiting", "loop", "hung"}, pid : Pids \cup {NoPid}]
    /\ torPid \in Pids \cup {NoPid}
    /\ run \in 0..MaxRuns
    /\ begun \in BOOLEAN
    /\ check \in [at : {"idle", "read", "missing", "judge"}, took : 0..CheckTimeout,
                  record : Records, gone : BOOLEAN]
    /\ verdict \in {"none", "success", "starting", "loading", "failure"}
    /\ proc.phase = "none" <=> proc.pid = NoPid
    /\ torPid # NoPid => torPid # proc.pid

Concluding == check.at # "idle" /\ check'.at = "idle"

\* health.py:10-12: a success stands for a record written, in real time, no
\* longer ago than the stale guard and the check itself.
SuccessIsFresh ==
    [][Concluding /\ verdict' = "success" => silence <= StaleAfter + CheckTimeout]_vars

\* health.py:13-17, what it promises: a success stands for a record written by the
\* process of this run, which was still there when the check looked.
SuccessFromLiveWriter ==
    [][Concluding /\ verdict' = "success"
          => check.record.run = run /\ proc.phase \in {"loop", "hung"}]_vars

\* health.py:206, what is kept of it although pids start again: a success stands for
\* a record of the very process that runs the loop now, or else for one of an earlier
\* start, whose pid a process of this one has been given. It never stands for a
\* process of this start that is gone, nor for the Tor daemon beside it.
SuccessFromLiveProcess ==
    [][Concluding /\ verdict' = "success"
          => \/ /\ check.record.run = run
                /\ check.record.pid = proc.pid
                /\ proc.phase \in {"loop", "hung"}
             \/ check.record.run < run /\ check.record.pid \in LivePids]_vars

\* health.py:8-14, main.py:10-11: a supplier that has begun and was gone all through
\* the check is a failure, never starting or loading, however recent the record it
\* left and however early it crashed. The one exception is a record of an earlier
\* start whose pid this start's Tor daemon has been given.
GoneIsFailure ==
    [][Concluding /\ check.gone
          => \/ verdict' = "failure"
             \/ check.at = "judge" /\ check.record.run < run /\ check.record.pid = torPid]_vars

\* A supplier that hangs or is gone for good ends up as a failure, whatever it said
\* before.
SilenceIsNoticed ==
    <>[](begun /\ proc.phase \in {"hung", "none"}) => <>[](verdict = "failure")
=============================================================================
