--------------------------- MODULE Supplier_proofs ---------------------------
(* The supplier, its record and its check together: what is proved of the check  *)
(* holds here too, and a success is backed by an acceptance of bounded age.      *)
EXTENDS Supplier, HealthCheck_proofs

\* A step of the composition is a step of the process, its record and its check.
LEMMA Composes == [SupplierNext]_supplierVars => [Next]_vars
  <1>1. Reports => Next
    BY DEF Reports, RunBegins, Heartbeats, PublicationBegins, PublicationAccepted, Withdraws,
           RunEnds, SameReport, Next, Process
  <1>2. Killed \/ Ages \/ Elsewhere => Next
    BY DEF Killed, Ages, Elsewhere, Next, Process
  <1> QED BY <1>1, <1>2 DEF SupplierNext, supplierVars

\* The contract takes nothing from the check: whatever holds of HealthCheck holds
\* of the supplier whose reports it restricts.
THEOREM SupplierIsHealthCheck == SupplierSpec => Spec
  <1>1. SupplierInit => Init
    BY DEF SupplierInit
  <1> QED BY <1>1, Composes, PTL DEF SupplierSpec, Spec

-----------------------------------------------------------------------------
(* The age of the acceptance behind a claim.                                 *)

LeaseHeld ==
    /\ acceptAge \in 0..MaxAcceptAge
    /\ proc.phase = "loop" /\ Claims => acceptAge <= Lease
    /\ Claims => acceptAge <= Lease + silence
    /\ check.at = "judge" /\ check.record.state = "healthy_active"
          => acceptAge <= Lease + check.record.age + check.took

LEMMA LeaseInit == SupplierInit => LeaseHeld
  <1>1. MaxAcceptAge \in Nat
    BY LeaseAssumption, Constants DEF MaxAcceptAge
  <1> QED BY <1>1 DEF SupplierInit, Init, LeaseHeld, Claims, NoRecord, NoCheck, NoProcess

\* A report is seen by a check in progress only if it is read: what the check has
\* read before stays as it was.
LEMMA ReportSteps ==
    ASSUME Reports
    PROVE  /\ check' = check
           /\ silence' = 0
           /\ \/ acceptAge' = 0
              \/ acceptAge' = acceptAge /\ ~Claims'
              \/ acceptAge' = acceptAge /\ proc.phase = "loop" /\ Claims
  <1>1. CASE RunBegins
    BY <1>1 DEF RunBegins, LoopStarts, Write, Claims
  <1>2. CASE Heartbeats \/ PublicationBegins
    BY <1>2 DEF Heartbeats, PublicationBegins, SameReport, LoopWrites, Write, Claims
  <1>3. CASE PublicationAccepted
    BY <1>3 DEF PublicationAccepted, LoopWrites, Write
  <1>4. CASE Withdraws
    BY <1>4 DEF Withdraws, LoopWrites, Write, Contract!Withdraw
  <1>5. CASE RunEnds
    BY <1>5 DEF RunEnds, LoopExits, Write, Claims
  <1> QED BY <1>1, <1>2, <1>3, <1>4, <1>5 DEF Reports

LEMMA LeaseStep ==
    ASSUME IInv, IInv', SilenceSeen, LeaseHeld, [SupplierNext]_supplierVars
    PROVE  LeaseHeld'
  <1> USE Constants, LeaseAssumption
  <1>a. /\ silence \in 0..MaxAge /\ silence' \in 0..MaxAge
        /\ check.took \in Int /\ check.record.age \in Int
        /\ file \in Records /\ file.age \in Int
        /\ MaxAcceptAge = Lease + MaxAge
        /\ acceptAge \in 0..MaxAcceptAge
    BY DEF IInv, HealthCheckTypeOK, Records, LeaseHeld, MaxAcceptAge
  <1>1. CASE Reports
    <2>1. acceptAge' \in 0..MaxAcceptAge /\ acceptAge' <= acceptAge
      BY <1>1, <1>a, ReportSteps
    <2>2. Claims' => acceptAge' <= Lease
      BY <1>1, <1>a, ReportSteps DEF LeaseHeld
    <2>3. check' = check /\ silence' = 0
      BY <1>1, ReportSteps
    <2> QED BY <1>a, <2>1, <2>2, <2>3 DEF LeaseHeld, MaxAcceptAge
  <1>2. CASE Killed
    BY <1>2 DEF Killed, ProcessKilled, NoProcess, LeaseHeld, Claims, MaxAcceptAge
  <1>3. CASE Ages
    <2>1. TimePasses
      BY <1>3 DEF Ages
    <2>2. /\ file'.state = file.state /\ proc' = proc
          /\ silence' = Clamp(silence + 1)
          /\ check'.at = check.at /\ check'.record = check.record
          /\ check.at = "judge" => check'.took = check.took + 1
      BY <1>a, <2>1 DEF TimePasses, NoRecord, Records, IInv, HealthCheckTypeOK
    <2>3. acceptAge' \in 0..MaxAcceptAge /\ acceptAge' <= acceptAge + 1
      BY <1>3, <1>a DEF Ages
    <2>4. proc.phase = "loop" /\ Claims => acceptAge' <= Lease
      <3> SUFFICES ASSUME proc.phase = "loop", Claims PROVE acceptAge' <= Lease
        OBVIOUS
      <3>1. Contract!Tick
        BY <1>3 DEF Ages
      <3>2. Claims'
        BY <2>2 DEF Claims
      <3>3. acceptAge' \in acceptAge..Lease
        BY <3>1, <3>2 DEF Contract!Tick
      <3> QED BY <1>a, <3>3
    <2>5. Claims => acceptAge' <= Lease + silence'
      BY <1>a, <2>2, <2>3 DEF Clamp, LeaseHeld
    <2>6. check.at = "judge" /\ check.record.state = "healthy_active"
            => acceptAge' <= Lease + check.record.age + check'.took
      BY <1>a, <2>2, <2>3 DEF LeaseHeld
    <2>7. Claims' = Claims /\ MaxAcceptAge' = MaxAcceptAge
      BY <2>2 DEF Claims, MaxAcceptAge
    <2> QED BY <2>2, <2>3, <2>4, <2>5, <2>6, <2>7 DEF LeaseHeld
  <1>4. CASE Elsewhere
    <2>1. CASE ContainerStarts
      <3>1. check'.at = check.at /\ check'.record = check.record /\ check'.took = check.took
        BY <2>1 DEF ContainerStarts, IInv, HealthCheckTypeOK
      <3>2. proc'.phase = "entrypoint" /\ file' = file /\ silence' = silence
        BY <2>1 DEF ContainerStarts
      <3> QED BY <1>4, <3>1, <3>2 DEF Elsewhere, LeaseHeld, Claims, MaxAcceptAge
    <2>2. CASE TorStarts \/ TorDies \/ EntrypointGivesUp \/ LoopHangs
      <3>1. /\ proc'.phase = "loop" => proc.phase = "loop"
            /\ file' = file /\ silence' = silence /\ check' = check
        BY <2>2 DEF TorStarts, TorDies, EntrypointGivesUp, LoopHangs, NoProcess, IInv,
                    HealthCheckTypeOK
      <3> QED BY <1>4, <3>1 DEF Elsewhere, LeaseHeld, Claims, MaxAcceptAge
    <2>3. CASE CheckBegins \/ RecordMissing \/ JudgeRecord \/ CheckFails
      <3>1. check'.at # "judge" /\ proc' = proc /\ file' = file /\ silence' = silence
        <4>1. CASE CheckBegins
          BY <4>1, Zenon DEF CheckBegins, NoCheck
        <4>2. CASE RecordMissing \/ JudgeRecord \/ CheckFails
          <5>1. check' = NoCheck /\ UNCHANGED <<proc, file, silence>>
            BY <4>2 DEF RecordMissing, JudgeRecord, CheckFails, Concludes
          <5> QED BY <5>1 DEF NoCheck
        <4> QED BY <2>3, <4>1, <4>2
      <3> QED BY <1>4, <3>1 DEF Elsewhere, LeaseHeld, Claims, MaxAcceptAge
    <2>4. CASE ReadRecord
      <3>1. /\ check'.at = "judge" => /\ file.state # "absent"
                                      /\ check'.record.age = file.age - check.took
                                      /\ check'.record.state = file.state
                                      /\ check'.took = check.took
            /\ proc' = proc /\ file' = file /\ silence' = silence
        BY <1>a, <2>4 DEF ReadRecord, IInv, HealthCheckTypeOK, Records
      <3>2. file.state # "absent" => silence <= file.age
        BY DEF SilenceSeen
      <3>3. acceptAge' = acceptAge /\ Claims' = Claims
        BY <1>4, <3>1 DEF Elsewhere, Claims
      <3>4. check'.at = "judge" /\ check'.record.state = "healthy_active"
              => acceptAge' <= Lease + check'.record.age + check'.took
        BY <1>a, <3>1, <3>2, <3>3 DEF LeaseHeld, Claims
      <3> QED BY <3>1, <3>3, <3>4 DEF LeaseHeld, MaxAcceptAge
    <2>5. CASE ClockSet
      <3>1. file'.state = file.state /\ proc' = proc /\ silence' = silence /\ check' = check
        BY <1>a, <2>5 DEF ClockSet, Records
      <3> QED BY <1>4, <3>1 DEF Elsewhere, LeaseHeld, Claims, MaxAcceptAge
    <2> QED BY <1>4, <2>1, <2>2, <2>3, <2>4, <2>5 DEF Elsewhere, Check
  <1>5. CASE UNCHANGED supplierVars
    BY <1>5 DEF supplierVars, vars, LeaseHeld, Claims, MaxAcceptAge
  <1> QED BY <1>1, <1>2, <1>3, <1>4, <1>5 DEF SupplierNext

\* Unless the clock is set back, a success is shown only if the pool accepted a
\* template no longer ago than the lease, the stale guard and the check itself.
THEOREM ActiveIsEarned == ASSUME ClockSteps \subseteq Nat PROVE SupplierSpec => SuccessIsEarned
  <1>1. Init => SilenceSeen
    BY DEF Init, SilenceSeen, NoRecord, NoCheck
  <1>2. IInv /\ IInv' /\ SilenceSeen /\ [SupplierNext]_supplierVars => SilenceSeen'
    BY SilenceStep, Composes
  <1>3. IInv /\ IInv' /\ SilenceSeen /\ LeaseHeld /\ [SupplierNext]_supplierVars => LeaseHeld'
    BY LeaseStep
  <1>4. IInv /\ LeaseHeld /\ [SupplierNext]_supplierVars =>
          (Concluding /\ verdict' = "success" => acceptAge <= Lease + StaleAfter + CheckTimeout)
    <2> SUFFICES ASSUME IInv, LeaseHeld, [SupplierNext]_supplierVars, Concluding,
                        verdict' = "success"
                 PROVE  acceptAge <= Lease + StaleAfter + CheckTimeout
      OBVIOUS
    <2>1. /\ check.at = "judge" /\ check.record.state = "healthy_active"
          /\ check.record.age <= StaleAfter
      BY SuccessMeans, Composes
    <2>2. /\ acceptAge \in Int /\ check.record.age \in Int /\ check.took \in Int
          /\ check.took <= CheckTimeout
      BY Constants DEF IInv, HealthCheckTypeOK, Records, LeaseHeld
    <2> QED BY <2>1, <2>2, Constants, LeaseAssumption DEF LeaseHeld
  <1>5. SupplierInit => Init
    BY DEF SupplierInit
  <1> QED
    BY <1>1, <1>2, <1>3, <1>4, <1>5, LeaseInit, SupplierIsHealthCheck, Invariant, PTL
       DEF SupplierSpec, SuccessIsEarned
=============================================================================
