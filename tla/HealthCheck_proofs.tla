------------------------- MODULE HealthCheck_proofs -------------------------
(* What a success and the absence of the process mean to the health check, for   *)
(* every number of starts, every timing of the check and every kill.            *)
EXTENDS HealthCheck, TLAPS

USE DEF NoPid

LEMMA Constants ==
    /\ StaleAfter \in Nat /\ CheckTimeout \in Nat /\ MaxRuns \in Nat /\ MaxAge \in Nat
    /\ Pids \subseteq Nat /\ NoPid \notin Pids
    /\ MaxAge > StaleAfter + CheckTimeout
  BY HealthCheckAssumption

\* How the record, its writer and its reader hang together.
Traced ==
    /\ file.age \in -MaxAge..MaxAge
    /\ file.state = "absent" => file = NoRecord
    /\ proc.phase # "none" => run >= 1
    /\ proc.phase \in {"loop", "hung"} => begun
    /\ begun => file.state # "absent"
    /\ check.gone => begun /\ proc.phase = "none"
    /\ file.run <= run
    /\ check.record.run <= run
    /\ proc.phase \in {"entrypoint", "waiting"} => file.run < run /\ check.record.run < run

\* Within a run a pid tells the process: the record of this run, and the copy a
\* check holds of it, are the loop's and not those of the Tor daemon beside it.
PidsOwned ==
    /\ proc.phase \in {"loop", "hung"} => file.run = run /\ file.pid = proc.pid
    /\ file.run = run /\ torPid # NoPid => file.pid # torPid
    /\ check.at = "judge" /\ check.record.run = run =>
        /\ proc.phase \in {"loop", "hung"} => check.record.pid = proc.pid
        /\ torPid # NoPid => check.record.pid # torPid

IInv == HealthCheckTypeOK /\ Traced /\ PidsOwned

LEMMA InitInv == Init => IInv
  <1> SUFFICES ASSUME Init PROVE IInv
    OBVIOUS
  <1> USE Constants
  <1>1. NoRecord \in Records
    BY DEF NoRecord, Records
  <1>2. HealthCheckTypeOK
    <2>1. check \in [at : {"idle", "read", "missing", "judge"}, took : 0..CheckTimeout,
                     record : Records, gone : BOOLEAN]
      BY <1>1 DEF Init, NoCheck
    <2>2. silence \in 0..MaxAge /\ run \in 0..MaxRuns
      BY DEF Init
    <2>3. /\ proc \in [phase : {"none", "entrypoint", "waiting", "loop", "hung"},
                       pid : Pids \cup {NoPid}]
          /\ proc.phase = "none" /\ proc.pid = NoPid
      BY DEF Init, NoProcess
    <2>4. begun \in BOOLEAN
      BY DEF Init
    <2> QED BY <1>1, <2>1, <2>2, <2>3, <2>4 DEF Init, HealthCheckTypeOK
  <1>3. Traced /\ PidsOwned
    BY DEF Init, Traced, PidsOwned, NoProcess, NoCheck, NoRecord
  <1> QED BY <1>2, <1>3 DEF IInv

\* What a report leaves behind.
LEMMA Written ==
    ASSUME IInv, NEW s \in RecordStates, Write(s), proc.phase # "none"
    PROVE  /\ file' \in Records
           /\ silence' \in 0..MaxAge
           /\ file'.state = s /\ file'.age = 0 /\ file'.run = run /\ file'.pid = proc.pid
           /\ s # "absent"
  <1>1. proc.pid \in Pids \cup {NoPid} /\ run \in 0..MaxRuns
    BY DEF IInv, HealthCheckTypeOK
  <1>2. file' = [state |-> s, pid |-> proc.pid, age |-> 0, run |-> run] /\ silence' = 0
    BY DEF Write
  <1>3. 0 \in (-MaxAge - CheckTimeout)..MaxAge /\ 0 \in 0..MaxAge
    BY Constants
  <1>4. s # "absent"
    BY DEF RecordStates
  <1> QED BY <1>1, <1>2, <1>3, <1>4 DEF Records

LEMMA StepInv == IInv /\ [Next]_vars => IInv'
  <1> SUFFICES ASSUME IInv, [Next]_vars PROVE IInv'
    OBVIOUS
  <1> USE Constants
  <1>a. HealthCheckTypeOK /\ Traced /\ PidsOwned
    BY DEF IInv
  <1>1. CASE ContainerStarts
    <2>1. PICK p \in FreePids : proc' = [phase |-> "entrypoint", pid |-> p]
      BY <1>1 DEF ContainerStarts
    <2>2. p \in Pids
      BY <2>1 DEF FreePids
    <2>3. p # NoPid
      BY <2>2
    <2>4. check' \in [at : {"idle", "read", "missing", "judge"}, took : 0..CheckTimeout,
                      record : Records, gone : BOOLEAN]
          /\ check'.at = check.at /\ check'.record = check.record /\ check'.gone = FALSE
      BY <1>1, <1>a DEF ContainerStarts, HealthCheckTypeOK
    <2>6. HealthCheckTypeOK'
      BY <1>1, <1>a, <2>1, <2>2, <2>3, <2>4 DEF ContainerStarts, HealthCheckTypeOK
    <2>7. file.run \in Nat /\ check.record.run \in Nat /\ run \in Nat
      BY <1>a DEF HealthCheckTypeOK, Records
    <2>8. Traced'
      BY <1>1, <1>a, <2>1, <2>4, <2>7 DEF ContainerStarts, Traced
    <2>9. PidsOwned'
      BY <1>1, <1>a, <2>1, <2>4, <2>7 DEF ContainerStarts, PidsOwned, Traced
    <2> QED BY <2>6, <2>8, <2>9 DEF IInv
  <1>2. CASE TorStarts
    <2>1. PICK p \in FreePids : torPid' = p
      BY <1>2 DEF TorStarts
    <2>2. proc' = [phase |-> "waiting", pid |-> proc.pid] /\ proc.pid # NoPid
      BY <1>2, <1>a DEF TorStarts, HealthCheckTypeOK
    <2>3. run \in Nat /\ run >= 1 /\ run <= MaxRuns
      BY <1>2, <1>a DEF TorStarts, Traced, HealthCheckTypeOK
    <2>4. p \in Pids /\ p # proc.pid
      BY <2>1, <2>2 DEF FreePids, LivePids
    <2>5. file.run < run /\ check.record.run < run
      BY <1>2, <1>a DEF TorStarts, Traced
    <2>6. HealthCheckTypeOK'
      BY <1>2, <1>a, <2>1, <2>2, <2>4 DEF TorStarts, HealthCheckTypeOK
    <2>7. file.run \in Nat /\ check.record.run \in Nat
      BY <1>a DEF HealthCheckTypeOK, Records
    <2>8. Traced' /\ PidsOwned'
      BY <1>2, <1>a, <2>1, <2>2, <2>3, <2>5, <2>7 DEF TorStarts, Traced, PidsOwned
    <2> QED BY <2>6, <2>8 DEF IInv
  <1>3. CASE TorDies
    BY <1>3, <1>a DEF TorDies, IInv, HealthCheckTypeOK, Traced, PidsOwned
  <1>4. CASE EntrypointGivesUp \/ ProcessKilled
    BY <1>4, <1>a DEF EntrypointGivesUp, ProcessKilled, NoProcess, IInv, HealthCheckTypeOK,
                      Traced, PidsOwned
  <1>5. CASE LoopStarts
    <2>1. Write("starting") /\ "starting" \in RecordStates /\ proc.phase # "none"
      BY <1>5 DEF LoopStarts, RecordStates
    <2>2. proc' = [phase |-> "loop", pid |-> proc.pid] /\ begun' = TRUE
      BY <1>5, <1>a DEF LoopStarts, HealthCheckTypeOK
    <2>3. HealthCheckTypeOK'
      BY <1>5, <1>a, <2>1, <2>2, Written DEF LoopStarts, IInv, HealthCheckTypeOK
    <2>4. Traced'
      BY <1>5, <1>a, <2>1, <2>2, Written DEF LoopStarts, Traced, HealthCheckTypeOK
    <2>5. PidsOwned'
      <3>1. check.record.run \in Nat /\ run \in Nat /\ check.record.run < run
        BY <1>5, <1>a DEF LoopStarts, Traced, HealthCheckTypeOK, Records
      <3> QED BY <1>5, <1>a, <2>1, <2>2, <3>1, Written DEF LoopStarts, PidsOwned, HealthCheckTypeOK
    <2> QED BY <2>3, <2>4, <2>5 DEF IInv
  <1>6. CASE LoopWrites
    <2>1. PICK s \in RecordStates : Write(s)
      BY <1>6 DEF LoopWrites
    <2>2. proc.phase = "loop"
      BY <1>6 DEF LoopWrites
    <2>3. HealthCheckTypeOK'
      BY <1>6, <1>a, <2>1, <2>2, Written DEF LoopWrites, IInv, HealthCheckTypeOK
    <2>4. Traced' /\ PidsOwned'
      BY <1>6, <1>a, <2>1, <2>2, Written DEF LoopWrites, Traced, PidsOwned, HealthCheckTypeOK
    <2> QED BY <2>3, <2>4 DEF IInv
  <1>7. CASE LoopHangs
    BY <1>7, <1>a DEF LoopHangs, IInv, HealthCheckTypeOK, Traced, PidsOwned
  <1>8. CASE LoopExits
    <2>1. PICK s \in RecordStates : Write(s)
      BY <1>8 DEF LoopExits, RecordStates
    <2>2. proc.phase = "loop" /\ proc' = NoProcess
      BY <1>8 DEF LoopExits
    <2>3. HealthCheckTypeOK'
      BY <1>8, <1>a, <2>1, <2>2, Written DEF LoopExits, NoProcess, HealthCheckTypeOK
    <2>4. Traced' /\ PidsOwned'
      BY <1>8, <1>a, <2>1, <2>2, Written DEF LoopExits, NoProcess, Traced, PidsOwned,
            HealthCheckTypeOK
    <2> QED BY <2>3, <2>4 DEF IInv
  <1>9. CASE CheckBegins
    <2>1. NoRecord \in Records
      BY DEF NoRecord, Records
    <2> DEFINE gone == begun /\ proc.phase = "none"
    <2>a. gone \in BOOLEAN /\ 0 \in 0..CheckTimeout
      OBVIOUS
    <2>b. check' = [at |-> "read", took |-> 0, record |-> NoRecord, gone |-> gone]
      BY <1>9, Zenon DEF CheckBegins, NoCheck
    <2> HIDE DEF gone
    <2>2. /\ check' \in [at : {"idle", "read", "missing", "judge"}, took : 0..CheckTimeout,
                         record : Records, gone : BOOLEAN]
          /\ check'.at = "read" /\ check'.record = NoRecord
          /\ check'.gone => gone
      BY <2>a, <2>b, <2>1
    <2>3. NoRecord.run = 0 /\ run \in Nat
      BY <1>a DEF NoRecord, HealthCheckTypeOK
    <2>4. HealthCheckTypeOK'
      BY <1>9, <1>a, <2>2 DEF CheckBegins, HealthCheckTypeOK
    <2>5. Traced' /\ PidsOwned'
      BY <1>9, <1>a, <2>2, <2>3 DEF CheckBegins, Traced, PidsOwned, gone
    <2> QED BY <2>4, <2>5 DEF IInv
  <1>10. CASE ReadRecord
    <2>1. check.took \in 0..CheckTimeout /\ file.age \in -MaxAge..MaxAge /\ file \in Records
      BY <1>a DEF HealthCheckTypeOK, Traced
    <2>2. file.age - check.took \in (-MaxAge - CheckTimeout)..MaxAge
      BY <2>1
    <2>3. [file EXCEPT !.age = file.age - check.took] \in Records
      BY <2>1, <2>2 DEF Records
    <2>4. CASE file.state \in {"absent", "torn"}
      BY <1>10, <1>a, <2>4 DEF ReadRecord, IInv, HealthCheckTypeOK, Traced, PidsOwned
    <2>5. CASE file.state \notin {"absent", "torn"}
      <3>1. /\ check' \in [at : {"idle", "read", "missing", "judge"}, took : 0..CheckTimeout,
                           record : Records, gone : BOOLEAN]
            /\ check'.at = "judge" /\ check'.gone = check.gone
            /\ check'.record = [file EXCEPT !.age = file.age - check.took]
        BY <1>10, <1>a, <2>3, <2>5 DEF ReadRecord, HealthCheckTypeOK
      <3>2. check'.record.run = file.run /\ check'.record.pid = file.pid
        BY <2>1, <3>1 DEF Records
      <3>3. HealthCheckTypeOK'
        BY <1>10, <1>a, <3>1 DEF ReadRecord, HealthCheckTypeOK
      <3>4. Traced' /\ PidsOwned'
        BY <1>10, <1>a, <2>5, <3>1, <3>2 DEF ReadRecord, Traced, PidsOwned
      <3> QED BY <3>3, <3>4 DEF IInv
    <2> QED BY <2>4, <2>5
  <1>11. CASE RecordMissing \/ JudgeRecord \/ CheckFails
    <2>1. check' = NoCheck /\ UNCHANGED <<file, silence, proc, torPid, run, begun>>
      BY <1>11 DEF RecordMissing, JudgeRecord, CheckFails, Concludes
    <2>2. verdict' \in {"none", "success", "starting", "loading", "failure"}
      BY <1>11 DEF RecordMissing, JudgeRecord, CheckFails, Concludes, StartosResult
    <2> QED BY <1>a, <2>1, <2>2 DEF NoCheck, NoRecord, IInv, HealthCheckTypeOK, Traced,
                                    PidsOwned, Records
  <1>12. CASE TimePasses
    <2>1. silence \in 0..MaxAge /\ file \in Records /\ file.age \in -MaxAge..MaxAge
      BY <1>a DEF HealthCheckTypeOK, Traced
    <2>2. Clamp(silence + 1) \in 0..MaxAge /\ Clamp(file.age + 1) \in -MaxAge..MaxAge
      BY <2>1 DEF Clamp
    <2>3. /\ file' \in Records /\ file'.age \in -MaxAge..MaxAge
          /\ file'.state = file.state /\ file'.run = file.run /\ file'.pid = file.pid
          /\ file = NoRecord => file' = NoRecord
      BY <1>12, <2>1, <2>2 DEF TimePasses, Records
    <2>4. /\ check' \in [at : {"idle", "read", "missing", "judge"}, took : 0..CheckTimeout,
                         record : Records, gone : BOOLEAN]
          /\ check'.at = check.at /\ check'.record = check.record /\ check'.gone = check.gone
      BY <1>12, <1>a DEF TimePasses, HealthCheckTypeOK
    <2>5. HealthCheckTypeOK'
      BY <1>12, <1>a, <2>2, <2>3, <2>4 DEF TimePasses, HealthCheckTypeOK
    <2>6. Traced' /\ PidsOwned'
      BY <1>12, <1>a, <2>3, <2>4 DEF TimePasses, Traced, PidsOwned
    <2> QED BY <2>5, <2>6 DEF IInv
  <1>13. CASE ClockSet
    <2>1. PICK d \in ClockSteps : file' = [file EXCEPT !.age = Clamp(file.age + d)]
      BY <1>13 DEF ClockSet
    <2>2. d \in Int /\ file.age \in -MaxAge..MaxAge /\ file \in Records
      BY <1>a, HealthCheckAssumption DEF Traced, HealthCheckTypeOK
    <2>3. Clamp(file.age + d) \in -MaxAge..MaxAge
      BY <2>2 DEF Clamp
    <2>4. /\ file' \in Records /\ file'.age \in -MaxAge..MaxAge
          /\ file'.state = file.state /\ file'.run = file.run /\ file'.pid = file.pid
      BY <2>1, <2>2, <2>3 DEF Records
    <2>5. file.state # "absent"
      BY <1>13, <1>a DEF ClockSet, Traced
    <2> QED BY <1>13, <1>a, <2>4, <2>5 DEF ClockSet, IInv, HealthCheckTypeOK, Traced, PidsOwned
  <1>14. CASE UNCHANGED vars
    BY <1>14, <1>a DEF vars, IInv, HealthCheckTypeOK, Traced, PidsOwned
  <1> QED
    BY <1>1, <1>2, <1>3, <1>4, <1>5, <1>6, <1>7, <1>8, <1>9, <1>10, <1>11, <1>12, <1>13, <1>14
       DEF Next, Process, Check

\* The record, its writer and its reader hang together in every state.
THEOREM Invariant == Spec => []IInv
  BY InitInv, StepInv, PTL DEF Spec

\* Every state is well typed, StartOS is given only results it knows, and no two
\* processes share a pid, whether pids are given again or not.
THEOREM HealthCheckTypeCorrect == Spec => []HealthCheckTypeOK
  <1>1. IInv => HealthCheckTypeOK
    BY DEF IInv
  <1> QED BY <1>1, Invariant, PTL

-----------------------------------------------------------------------------
(* What a verdict rests on.                                                  *)

\* A check concludes by a judgement, by a record it could not read, or by failing.
LEMMA ConclusionSteps ==
    ASSUME IInv, [Next]_vars, Concluding
    PROVE  /\ RecordMissing \/ JudgeRecord \/ CheckFails
           /\ UNCHANGED <<file, silence, proc, torPid, run, begun>>
  <1>1. ~(ContainerStarts \/ TorStarts \/ TorDies \/ EntrypointGivesUp \/ ProcessKilled)
    BY DEF Concluding, ContainerStarts, TorStarts, TorDies, EntrypointGivesUp, ProcessKilled,
           IInv, HealthCheckTypeOK
  <1>2. ~(LoopStarts \/ LoopWrites \/ LoopHangs \/ LoopExits)
    BY DEF Concluding, LoopStarts, LoopWrites, LoopHangs, LoopExits
  <1>3. ~(CheckBegins \/ ReadRecord)
    BY DEF Concluding, CheckBegins, ReadRecord, IInv, HealthCheckTypeOK
  <1>4. ~(TimePasses \/ ClockSet \/ UNCHANGED vars)
    BY DEF Concluding, TimePasses, ClockSet, vars, IInv, HealthCheckTypeOK
  <1>5. RecordMissing \/ JudgeRecord \/ CheckFails
    BY <1>1, <1>2, <1>3, <1>4 DEF Next, Process, Check
  <1> QED BY <1>5 DEF RecordMissing, JudgeRecord, CheckFails

\* Only a judgement is a success: of a healthy record that is not stale, whose
\* process is there.
LEMMA SuccessMeans ==
    ASSUME IInv, [Next]_vars, Concluding, verdict' = "success"
    PROVE  /\ check.at = "judge"
           /\ check.record.state = "healthy_active"
           /\ check.record.age <= StaleAfter
           /\ ProcessAlive(check.record.pid)
           /\ UNCHANGED <<file, silence, proc, torPid, run, begun>>
  <1>1. JudgeRecord
    BY ConclusionSteps DEF RecordMissing, CheckFails, Concludes, StartosResult
  <1>2. check.at = "judge" /\ StartosResult(StateOf(check.record)) = "success"
    BY <1>1 DEF JudgeRecord, Concludes
  <1>3. StateOf(check.record) = "healthy_active"
    BY <1>2 DEF StartosResult
  <1>4. /\ check.record.state = "healthy_active"
        /\ ~(check.record.age > StaleAfter)
        /\ ProcessAlive(check.record.pid)
    BY <1>3 DEF StateOf
  <1>5. check.record.age \in Int /\ StaleAfter \in Int
    BY Constants DEF IInv, HealthCheckTypeOK, Records
  <1> QED BY <1>2, <1>4, <1>5, ConclusionSteps

\* Although pids start again with every start, a success stands for a record of the
\* process that runs the loop when the check looks, or for one of an earlier start.
THEOREM SuccessIsOfALiveProcess == Spec => SuccessFromLiveProcess
  <1>1. IInv /\ [Next]_vars =>
          (Concluding /\ verdict' = "success"
              => \/ /\ check.record.run = run
                    /\ check.record.pid = proc.pid
                    /\ proc.phase \in {"loop", "hung"}
                 \/ check.record.run < run /\ check.record.pid \in LivePids)
    <2> SUFFICES ASSUME IInv, [Next]_vars, Concluding, verdict' = "success",
                        ~(check.record.run < run /\ check.record.pid \in LivePids)
                 PROVE  /\ check.record.run = run
                        /\ check.record.pid = proc.pid
                        /\ proc.phase \in {"loop", "hung"}
      OBVIOUS
    <2>1. check.at = "judge" /\ check.record.pid \in LivePids
      BY SuccessMeans DEF ProcessAlive
    <2>2. run \in Nat /\ check.record.run \in Nat /\ check.record.run <= run
      BY Constants DEF IInv, HealthCheckTypeOK, Records, Traced
    <2>3. check.record.run = run
      BY <2>1, <2>2
    <2>4. torPid # NoPid => check.record.pid # torPid
      BY <2>1, <2>3 DEF IInv, PidsOwned
    <2>5. check.record.pid = proc.pid /\ proc.pid # NoPid
      BY <2>1, <2>4 DEF LivePids
    <2>6. proc.phase \notin {"none", "entrypoint", "waiting"}
      BY <2>2, <2>3, <2>5 DEF IInv, Traced, HealthCheckTypeOK
    <2> QED BY <2>3, <2>5, <2>6 DEF IInv, HealthCheckTypeOK
  <1> QED BY <1>1, Invariant, PTL DEF Spec, SuccessFromLiveProcess

\* A supplier that has begun and is gone all through the check is a failure, unless
\* its record is of an earlier start and this start's Tor daemon has its pid.
THEOREM AbsenceIsFailure == Spec => GoneIsFailure
  <1>1. IInv /\ [Next]_vars =>
          (Concluding /\ check.gone
              => \/ verdict' = "failure"
                 \/ check.at = "judge" /\ check.record.run < run /\ check.record.pid = torPid)
    <2> SUFFICES ASSUME IInv, [Next]_vars, Concluding, check.gone
                 PROVE  \/ verdict' = "failure"
                        \/ check.at = "judge" /\ check.record.run < run
                              /\ check.record.pid = torPid
      OBVIOUS
    <2>1. begun /\ proc.phase = "none" /\ proc.pid = NoPid /\ file.state # "absent"
      BY DEF IInv, Traced, HealthCheckTypeOK
    <2>2. CASE RecordMissing
      <3>1. file # NoRecord
        BY <2>1 DEF NoRecord
      <3> QED BY <2>2, <3>1 DEF RecordMissing, Concludes, StartosResult
    <2>3. CASE JudgeRecord
      <3>1. run \in Nat /\ check.record.run \in Nat /\ check.record.run <= run
        BY Constants DEF IInv, HealthCheckTypeOK, Records, Traced
      <3>2. CASE ProcessAlive(check.record.pid)
        <4>1. check.at = "judge" /\ check.record.pid = torPid /\ torPid # NoPid
          BY <2>1, <2>3, <3>2 DEF ProcessAlive, LivePids, JudgeRecord
        <4>2. check.record.run # run
          BY <4>1 DEF IInv, PidsOwned
        <4> QED BY <3>1, <4>1, <4>2
      <3>3. CASE ~ProcessAlive(check.record.pid)
        <4>1. StateOf(check.record) \in {"stopped", "dead"}
          BY <3>3 DEF StateOf
        <4> QED BY <2>3, <4>1 DEF JudgeRecord, Concludes, StartosResult
      <3> QED BY <3>2, <3>3
    <2>4. CASE CheckFails
      BY <2>4 DEF CheckFails
    <2> QED BY <2>2, <2>3, <2>4, ConclusionSteps
  <1> QED BY <1>1, Invariant, PTL DEF Spec, GoneIsFailure

-----------------------------------------------------------------------------
(* The age of what a success stands for, on a clock that is never set back.  *)

SilenceSeen ==
    /\ file.state # "absent" => silence <= file.age
    /\ check.at = "judge" => silence <= check.record.age + check.took

LEMMA SilenceStep ==
    ASSUME ClockSteps \subseteq Nat, IInv, IInv', SilenceSeen, [Next]_vars
    PROVE  SilenceSeen'
  <1> USE Constants
  <1>a. /\ silence \in 0..MaxAge /\ file.age \in -MaxAge..MaxAge /\ file \in Records
        /\ check.took \in 0..CheckTimeout /\ check.record \in Records
        /\ check.record.age \in Int
    BY DEF IInv, HealthCheckTypeOK, Traced, Records
  <1>1. CASE ContainerStarts
    <2>1. check'.at = check.at /\ check'.record = check.record /\ check'.took = check.took
      BY <1>1 DEF ContainerStarts, IInv, HealthCheckTypeOK
    <2> QED BY <1>1, <2>1 DEF ContainerStarts, SilenceSeen
  <1>2. CASE TorStarts \/ TorDies \/ EntrypointGivesUp \/ LoopHangs \/ ProcessKilled
    BY <1>2 DEF TorStarts, TorDies, EntrypointGivesUp, LoopHangs, ProcessKilled, SilenceSeen
  <1>3. CASE LoopStarts \/ LoopWrites \/ LoopExits
    <2>1. silence' = 0 /\ file'.age = 0 /\ check' = check
      BY <1>3 DEF LoopStarts, LoopWrites, LoopExits, Write
    <2> QED BY <1>a, <2>1 DEF SilenceSeen
  <1>4. CASE CheckBegins
    BY <1>4 DEF CheckBegins, NoCheck, SilenceSeen
  <1>5. CASE ReadRecord
    <2>1. check'.at # "judge" \/ file.state # "absent"
      BY <1>5 DEF ReadRecord, IInv, HealthCheckTypeOK
    <2>2. check'.at = "judge" => check'.record.age = file.age - check.took /\ check'.took = check.took
      BY <1>5, <1>a DEF ReadRecord, IInv, HealthCheckTypeOK, Records
    <2> QED BY <1>5, <1>a, <2>1, <2>2 DEF ReadRecord, SilenceSeen
  <1>6. CASE RecordMissing \/ JudgeRecord \/ CheckFails
    BY <1>6 DEF RecordMissing, JudgeRecord, CheckFails, Concludes, NoCheck, SilenceSeen
  <1>7. CASE TimePasses
    <2>1. silence' = Clamp(silence + 1)
      BY <1>7 DEF TimePasses
    <2>2. file.state # "absent" => file'.age = Clamp(file.age + 1)
      BY <1>7, <1>a DEF TimePasses, NoRecord, Records
    <2>3. file'.state = file.state
      BY <1>7, <1>a DEF TimePasses, Records
    <2>4. file'.state # "absent" => silence' <= file'.age
      BY <1>a, <2>1, <2>2, <2>3 DEF Clamp, SilenceSeen
    <2>5. check'.at = check.at /\ check'.record = check.record
          /\ (check.at = "judge" => check'.took = check.took + 1)
      BY <1>7 DEF TimePasses, IInv, HealthCheckTypeOK
    <2>6. silence' <= silence + 1 /\ silence' \in Int
      BY <1>a, <2>1 DEF Clamp
    <2> QED BY <1>a, <2>4, <2>5, <2>6 DEF SilenceSeen
  <1>8. CASE ClockSet
    <2>1. PICK d \in ClockSteps : file' = [file EXCEPT !.age = Clamp(file.age + d)]
      BY <1>8 DEF ClockSet
    <2>2. d \in Nat /\ file'.age = Clamp(file.age + d) /\ file'.state = file.state
      BY <1>a, <2>1 DEF Records
    <2> QED BY <1>8, <1>a, <2>2 DEF ClockSet, Clamp, SilenceSeen
  <1>9. CASE UNCHANGED vars
    BY <1>9 DEF vars, SilenceSeen
  <1> QED
    BY <1>1, <1>2, <1>3, <1>4, <1>5, <1>6, <1>7, <1>8, <1>9 DEF Next, Process, Check

\* Unless the clock is set back, a success stands for a record written no longer
\* ago than the stale guard and the check itself.
THEOREM SuccessIsRecent == ASSUME ClockSteps \subseteq Nat PROVE Spec => SuccessIsFresh
  <1>1. Init => SilenceSeen
    BY DEF Init, SilenceSeen, NoRecord, NoCheck
  <1>2. IInv /\ IInv' /\ SilenceSeen /\ [Next]_vars => SilenceSeen'
    BY SilenceStep
  <1>3. IInv /\ SilenceSeen /\ [Next]_vars =>
          (Concluding /\ verdict' = "success" => silence <= StaleAfter + CheckTimeout)
    <2> SUFFICES ASSUME IInv, SilenceSeen, [Next]_vars, Concluding, verdict' = "success"
                 PROVE  silence <= StaleAfter + CheckTimeout
      OBVIOUS
    <2>1. /\ silence \in Int /\ check.record.age \in Int /\ check.took \in Int
          /\ check.took <= CheckTimeout
      BY Constants DEF IInv, HealthCheckTypeOK, Records
    <2> QED BY <2>1, SuccessMeans, Constants DEF SilenceSeen
  <1> QED BY <1>1, <1>2, <1>3, Invariant, PTL DEF Spec, SuccessIsFresh
=============================================================================
