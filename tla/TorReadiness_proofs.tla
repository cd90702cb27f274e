------------------------- MODULE TorReadiness_proofs -------------------------
(* For every value of the timing constants that satisfies the assumptions of    *)
(* TorReadiness: type correctness, a record that is never stale while the       *)
(* supplier waits, a route that was proved, and a blame that is kept.           *)
EXTENDS TorReadiness, TLAPS

\* How old the record is at each point of the wait: an attempt starts with a fresh
\* one and each of its operations adds at most its timeout.
WaitAge ==
    /\ pc \in {"sleeping", "backoff"} => recordAge = 0
    /\ pc \in {"start", "check", "socks", "announce", "expired"} =>
            recordAge <= TorPollInterval \/ recordAge <= RetryInterval
    /\ pc = "failed" => recordAge <= StaleAfter
    /\ pc = "ready" => recordAge <= 6 * AttemptTimeout
    /\ pc = "probe" /\ stage = 1 => recordAge = 0
    /\ pc = "probe" /\ stage = 2 => recordAge <= AttemptTimeout
    /\ pc = "probe" /\ stage = 3 => recordAge <= 2 * AttemptTimeout
    /\ pc = "probe" /\ stage = 4 => recordAge <= 3 * AttemptTimeout
    /\ pc = "probe" /\ stage = 5 => recordAge <= 4 * AttemptTimeout
    /\ pc = "probe" /\ stage = 6 => recordAge <= 5 * AttemptTimeout

\* How old the target's answer is at each point after it.
RouteAge ==
    /\ pc \in {"socks", "announce", "probe", "ready"} => sentinel
    /\ pc = "probe" /\ stage = 4 => routeAge = 0
    /\ pc = "probe" /\ stage = 5 => routeAge <= AttemptTimeout
    /\ pc = "probe" /\ stage = 6 => routeAge <= 2 * AttemptTimeout
    /\ pc = "ready" => routeAge <= 3 * AttemptTimeout

\* Once an attempt of this window has ended, error is the failure last seen.
ErrorIsObserved == untried \/ error = observed

\* An attempt is announced only while there is time left.
TimeLeft == pc = "announce" => remaining > 0

TorInv == TorTypeOK /\ TimeLeft /\ WaitAge /\ RouteAge /\ ErrorIsObserved

-----------------------------------------------------------------------------
LEMMA StageFacts ==
    /\ Len(Stages) = 6
    /\ AttemptBound = 6 * AttemptTimeout
    /\ \A i \in 1..6 : Stages[i] = "reply" <=> i = 3
  BY DEF Stages, AttemptBound

LEMMA TorBounds ==
    /\ Window \in Nat /\ PortTimeout \in Nat /\ RetryInterval \in Nat
    /\ StaleAfter \in Nat /\ MaxAge \in Nat
    /\ TorPollInterval \in Nat /\ TorPollInterval > 0
    /\ AttemptTimeout \in Nat /\ AttemptTimeout > 0
    /\ 6 * AttemptTimeout <= StaleAfter
    /\ TorPollInterval + PortTimeout <= StaleAfter
    /\ RetryInterval + PortTimeout <= StaleAfter
    /\ StaleAfter < MaxAge
    /\ \A d \in OpDelays : d \in Nat
  BY TorTimingAssumption, HeartbeatSafeAssumption, StageFacts

\* Letting d pass keeps the times typed and adds at most d to the ages.
LEMMA PassingTime ==
    ASSUME TorTypeOK, NEW d \in Nat, Elapse(d)
    PROVE  /\ remaining' \in 0..Window
           /\ recordAge' \in 0..MaxAge /\ recordAge' <= recordAge + d
           /\ routeAge' \in 0..MaxAge /\ routeAge' <= routeAge + d
  BY TorBounds DEF TorTypeOK, Elapse, Min

\* An operation takes no longer than the attempt's timeout.
LEMMA OperationTime ==
    ASSUME TorTypeOK, NEW d, Takes(d)
    PROVE  d \in Nat /\ d <= AttemptTimeout
  BY TorBounds DEF TorTypeOK, Takes

THEOREM TorInit == Init => TorInv
  BY TorBounds, StageFacts
     DEF Init, TorInv, TorTypeOK, TimeLeft, WaitAge, RouteAge, ErrorIsObserved, Locations, Failures

\* Time passes in an operation that is answered.
LEMMA SuccessStep ==
    ASSUME TorInv, OperationSucceeds \/ TargetReached
    PROVE  TorInv'
  <1> USE TorBounds, StageFacts
  <1>a. TorTypeOK /\ WaitAge /\ RouteAge /\ ErrorIsObserved
    BY DEF TorInv
  <1>b. stage \in 1..6 /\ recordAge \in Nat /\ routeAge \in Nat /\ limit \in Nat
    BY <1>a DEF TorTypeOK
  <1>1. CASE OperationSucceeds
    <2>1. PICK d \in OpDelays : Takes(d) /\ Elapse(d)
      BY <1>1 DEF OperationSucceeds
    <2>2. /\ remaining' \in 0..Window
          /\ recordAge' \in 0..MaxAge /\ recordAge' <= recordAge + AttemptTimeout
          /\ routeAge' \in 0..MaxAge /\ routeAge' <= routeAge + AttemptTimeout
      BY <2>1, <1>a, <1>b, OperationTime, PassingTime
    <2>3. CASE stage = 6
      <3>1. pc = "probe" /\ pc' = "ready" /\ stage' = stage /\ sentinel' = sentinel
        BY <1>1, <2>3 DEF OperationSucceeds, outsideVars
      <3>2. TorTypeOK'
        BY <1>1, <1>a, <2>2, <3>1 DEF OperationSucceeds, TorTypeOK, outsideVars, Locations
      <3>3. WaitAge' /\ RouteAge' /\ TimeLeft'
        BY <1>a, <1>b, <2>2, <2>3, <3>1 DEF WaitAge, RouteAge, TimeLeft
      <3>4. ErrorIsObserved'
        BY <1>1, <1>a DEF OperationSucceeds, ErrorIsObserved
      <3> QED BY <3>2, <3>3, <3>4 DEF TorInv
    <2>4. CASE stage # 6
      <3>1. pc = "probe" /\ pc' = "probe" /\ stage' = stage + 1 /\ sentinel' = sentinel /\ stage # 3
        BY <1>1, <2>4, <1>b DEF OperationSucceeds, outsideVars
      <3>2. TorTypeOK'
        BY <1>1, <1>a, <1>b, <2>2, <2>4, <3>1 DEF OperationSucceeds, TorTypeOK, outsideVars, Locations
      <3>3. WaitAge'
        BY <1>a, <1>b, <2>2, <2>4, <3>1 DEF WaitAge
      <3>4. RouteAge' /\ TimeLeft'
        BY <1>a, <1>b, <2>2, <2>4, <3>1 DEF RouteAge, TimeLeft
      <3>5. ErrorIsObserved'
        BY <1>1, <1>a DEF OperationSucceeds, ErrorIsObserved
      <3> QED BY <3>2, <3>3, <3>4, <3>5 DEF TorInv
    <2> QED BY <2>3, <2>4
  <1>2. CASE TargetReached
    <2>1. PICK d \in OpDelays :
             /\ Takes(d)
             /\ remaining' = IF d > remaining THEN 0 ELSE remaining - d
             /\ recordAge' = Min(recordAge + d, MaxAge)
      BY <1>2 DEF TargetReached
    <2>2. d \in Nat /\ d <= AttemptTimeout
      BY <2>1, <1>a, OperationTime
    <2>3. /\ remaining' \in 0..Window
          /\ recordAge' \in 0..MaxAge /\ recordAge' <= recordAge + AttemptTimeout
      BY <2>1, <2>2, <1>a DEF TorTypeOK, Min
    <2>4. pc = "probe" /\ pc' = "probe" /\ stage = 3 /\ stage' \in {4, 5} /\ routeAge' = 0
      BY <1>2, <1>b DEF TargetReached
    <2>5. TorTypeOK'
      BY <1>2, <1>a, <2>3, <2>4 DEF TargetReached, TorTypeOK, outsideVars, Locations
    <2>6. WaitAge'
      BY <1>a, <1>b, <2>3, <2>4 DEF WaitAge
    <2>7. RouteAge' /\ TimeLeft'
      BY <1>2, <1>a, <2>4 DEF TargetReached, RouteAge, TimeLeft, outsideVars
    <2>8. ErrorIsObserved'
      BY <1>2, <1>a DEF TargetReached, ErrorIsObserved
    <2> QED BY <2>5, <2>6, <2>7, <2>8 DEF TorInv
  <1> QED BY <1>1, <1>2

\* Time passes until a failure is seen.
LEMMA FailureStep ==
    ASSUME TorInv,
           SentinelAbsent \/ SocksPortClosed \/ TargetRefused \/ OperationTimesOut \/ ProxyFails
    PROVE  TorInv'
  <1> USE TorBounds, StageFacts
  <1>a. TorTypeOK /\ WaitAge /\ RouteAge
    BY DEF TorInv
  <1>b. stage \in 1..6 /\ recordAge \in Nat /\ routeAge \in Nat /\ limit \in Nat
        /\ limit <= AttemptTimeout
    BY <1>a DEF TorTypeOK
  <1>1. PICK f \in Failures : Observe(f)
    BY DEF SentinelAbsent, SocksPortClosed, TargetRefused, OperationTimesOut, ProxyFails, Failures
  <1>2. UNCHANGED <<stage, limit, record, outsideVars>>
    BY DEF SentinelAbsent, SocksPortClosed, TargetRefused, OperationTimesOut, ProxyFails
  <1>3. /\ remaining' \in 0..Window
        /\ recordAge' \in 0..MaxAge /\ recordAge' <= StaleAfter
        /\ routeAge' \in 0..MaxAge
    <2>1. CASE SentinelAbsent
      <3>1. recordAge' = recordAge /\ routeAge' = routeAge /\ remaining' = remaining /\ pc = "check"
        BY <2>1 DEF SentinelAbsent, Instant
      <3> QED BY <3>1, <1>a, <1>b DEF TorTypeOK, WaitAge
    <2>2. CASE SocksPortClosed
      <3>1. PICK d \in {0, PortTimeout} : Elapse(d)
        BY <2>2 DEF SocksPortClosed
      <3>2. recordAge' <= recordAge + PortTimeout
        BY <3>1, <1>a, <1>b, PassingTime
      <3>3. pc = "socks"
        BY <2>2 DEF SocksPortClosed
      <3> QED BY <3>1, <3>2, <3>3, <1>a, <1>b, PassingTime DEF WaitAge
    <2>3. CASE TargetRefused \/ OperationTimesOut \/ ProxyFails
      <3>1. \E d \in Nat : d <= AttemptTimeout /\ Elapse(d)
        <4>1. CASE TargetRefused
          BY <4>1, <1>a, OperationTime DEF TargetRefused
        <4>2. CASE OperationTimesOut
          BY <4>2, <1>b DEF OperationTimesOut
        <4>3. CASE ProxyFails
          BY <4>3, <1>a, OperationTime DEF ProxyFails
        <4> QED BY <2>3, <4>1, <4>2, <4>3
      <3>2. PICK d \in Nat : d <= AttemptTimeout /\ Elapse(d)
        BY <3>1
      <3>3. /\ remaining' \in 0..Window
            /\ recordAge' \in 0..MaxAge /\ recordAge' <= recordAge + d
            /\ routeAge' \in 0..MaxAge
        BY <3>2, <1>a, PassingTime
      <3>4. pc = "probe"
        BY <2>3 DEF TargetRefused, OperationTimesOut, ProxyFails
      <3>5. recordAge <= 5 * AttemptTimeout
        BY <3>4, <1>a, <1>b DEF WaitAge
      <3> QED BY <3>2, <3>3, <3>5, <1>b
    <2> QED BY <2>1, <2>2, <2>3
  <1>4. TorTypeOK'
    BY <1>1, <1>2, <1>3, <1>a DEF Observe, TorTypeOK, outsideVars, Locations, Failures
  <1>5. WaitAge' /\ RouteAge' /\ TimeLeft' /\ ErrorIsObserved'
    BY <1>1, <1>3 DEF Observe, WaitAge, RouteAge, TimeLeft, ErrorIsObserved
  <1> QED BY <1>4, <1>5 DEF TorInv

\* A step between two attempts, or the start of one.
LEMMA IdleStep ==
    ASSUME TorInv,
           StartWindow \/ SentinelPresent \/ SocksPortOpen \/ ReportFailure \/ WindowExpires
    PROVE  TorInv'
  <1> USE TorBounds
  <1>a. TorTypeOK /\ WaitAge /\ RouteAge /\ ErrorIsObserved
    BY DEF TorInv
  <1>1. CASE StartWindow
    BY <1>1, <1>a DEF StartWindow, TorInv, TorTypeOK, TimeLeft, WaitAge, RouteAge,
          ErrorIsObserved, outsideVars, Locations, Failures
  <1>2. CASE SentinelPresent
    BY <1>2, <1>a DEF SentinelPresent, Instant, TorInv, TorTypeOK, TimeLeft, WaitAge, RouteAge,
          ErrorIsObserved, outsideVars, Locations
  <1>3. CASE SocksPortOpen
    BY <1>3, <1>a DEF SocksPortOpen, Instant, TorInv, TorTypeOK, TimeLeft, WaitAge, RouteAge,
          ErrorIsObserved, outsideVars, Locations
  <1>4. CASE ReportFailure
    BY <1>4, <1>a DEF ReportFailure, Report, HealthStateOf, TorInv, TorTypeOK, TimeLeft, WaitAge,
          RouteAge, ErrorIsObserved, outsideVars, Locations
  <1>5. CASE WindowExpires
    BY <1>5, <1>a DEF WindowExpires, Report, HealthStateOf, TorInv, TorTypeOK, TimeLeft, WaitAge,
          RouteAge, ErrorIsObserved, outsideVars, Locations
  <1> QED BY <1>1, <1>2, <1>3, <1>4, <1>5

LEMMA BeginStep ==
    ASSUME TorInv, BeginAttempt
    PROVE  TorInv'
  <1> USE TorBounds
  <1>a. TorTypeOK /\ TimeLeft /\ RouteAge /\ ErrorIsObserved /\ pc = "announce"
    BY DEF TorInv, BeginAttempt, AttemptStarts
  <1>1. remaining \in Nat /\ remaining > 0 /\ sentinel
    BY <1>a DEF TorTypeOK, TimeLeft, RouteAge
  <1>2. limit' \in 0..AttemptTimeout /\ limit' > 0 /\ stage' = 1 /\ stage' \in 1..Len(Stages)
    BY <1>1, StageFacts DEF BeginAttempt, AttemptStarts, Min
  <1>3. TorTypeOK'
    BY <1>a, <1>2 DEF BeginAttempt, AttemptStarts, Report, HealthStateOf, TorTypeOK,
          outsideVars, Locations
  <1>4. WaitAge' /\ RouteAge' /\ TimeLeft' /\ ErrorIsObserved'
    BY <1>a, <1>1, <1>2 DEF BeginAttempt, AttemptStarts, Report, WaitAge, RouteAge, TimeLeft,
          ErrorIsObserved, outsideVars
  <1> QED BY <1>3, <1>4 DEF TorInv

LEMMA SleepStep ==
    ASSUME TorInv, Sleep \/ Backoff
    PROVE  TorInv'
  <1> USE TorBounds
  <1>a. TorTypeOK /\ WaitAge /\ ErrorIsObserved
    BY DEF TorInv
  <1>1. CASE Sleep
    <2>1. Min(TorPollInterval, remaining) \in Nat /\ Min(TorPollInterval, remaining) <= TorPollInterval
      BY <1>a DEF TorTypeOK, Min
    <2>2. /\ remaining' \in 0..Window
          /\ recordAge' \in 0..MaxAge /\ recordAge' <= recordAge + Min(TorPollInterval, remaining)
          /\ routeAge' \in 0..MaxAge
      BY <1>1, <1>a, <2>1, PassingTime DEF Sleep
    <2>3. pc' = "check" /\ recordAge = 0
      BY <1>1, <1>a DEF Sleep, WaitAge
    <2>4. recordAge' <= TorPollInterval
      BY <2>1, <2>2, <2>3
    <2> QED BY <1>1, <1>a, <2>2, <2>3, <2>4 DEF Sleep, TorInv, TorTypeOK, TimeLeft, WaitAge,
          RouteAge, ErrorIsObserved, outsideVars, Locations
  <1>2. CASE Backoff
    <2>1. /\ remaining' \in 0..Window
          /\ recordAge' \in 0..MaxAge /\ recordAge' <= recordAge + RetryInterval
          /\ routeAge' \in 0..MaxAge
      BY <1>2, <1>a, PassingTime DEF Backoff
    <2>2. pc' = "start" /\ recordAge = 0
      BY <1>2, <1>a DEF Backoff, WaitAge
    <2>3. recordAge' <= RetryInterval
      BY <2>1, <2>2
    <2> QED BY <1>2, <1>a, <2>1, <2>2, <2>3 DEF Backoff, TorInv, TorTypeOK, TimeLeft, WaitAge,
          RouteAge, ErrorIsObserved, outsideVars, Locations
  <1> QED BY <1>1, <1>2

LEMMA TorStep == TorInv /\ [Next]_vars => TorInv'
  <1> SUFFICES ASSUME TorInv, [Next]_vars PROVE TorInv'
    OBVIOUS
  <1>1. CASE OperationSucceeds \/ TargetReached
    BY <1>1, SuccessStep
  <1>2. CASE SentinelAbsent \/ SocksPortClosed \/ TargetRefused \/ OperationTimesOut \/ ProxyFails
    BY <1>2, FailureStep
  <1>3. CASE StartWindow \/ SentinelPresent \/ SocksPortOpen \/ ReportFailure \/ WindowExpires
    BY <1>3, IdleStep
  <1>4. CASE BeginAttempt
    BY <1>4, BeginStep
  <1>5. CASE Sleep \/ Backoff
    BY <1>5, SleepStep
  <1>6. CASE TorChanges \/ TargetChanges \/ UNCHANGED vars
    <2>1. UNCHANGED waitVars
      BY <1>6 DEF TorChanges, TargetChanges, vars, waitVars
    <2>2. tor' \in {"open", "stalled", "closed"} /\ target' \in {"reachable", "refused", "silent"}
      BY <1>6 DEF TorChanges, TargetChanges, vars, TorInv, TorTypeOK
    <2> QED BY <2>1, <2>2 DEF waitVars, TorInv, TorTypeOK, TimeLeft, WaitAge, RouteAge,
          ErrorIsObserved
  <1> QED BY <1>1, <1>2, <1>3, <1>4, <1>5, <1>6 DEF Next, Wait

THEOREM TorInvariant == Spec => []TorInv
  BY TorInit, TorStep, PTL DEF Spec

\* Type correctness; no socket operation of an attempt is given a timeout of 0.
THEOREM TorTypeCorrect == Spec => []TorTypeOK
  <1>1. TorInv => TorTypeOK
    BY DEF TorInv
  <1> QED BY <1>1, TorInvariant, PTL

\* README.md:144-146: the record of a supplier that waits for Tor is never stale,
\* for every timeout and interval that keeps the attempt and the two waits within
\* the stale guard.
THEOREM WaitingTheorem == Spec => []WaitingNeverStale
  <1>1. TorInv => WaitingNeverStale
    <2> SUFFICES ASSUME TorInv PROVE recordAge <= StaleAfter
      BY DEF WaitingNeverStale
    <2>1. /\ pc \in Locations /\ stage \in 1..6 /\ recordAge \in Nat /\ WaitAge
      BY TorBounds, StageFacts DEF TorInv, TorTypeOK
    <2>2. CASE pc # "probe"
      BY <2>1, <2>2, TorBounds DEF WaitAge, Locations
    <2>3. CASE pc = "probe"
      BY <2>1, <2>3, TorBounds DEF WaitAge
    <2> QED BY <2>2, <2>3
  <1> QED BY <1>1, TorInvariant, PTL

\* main.py:15-16: the wait ends only with a route whose target has just answered.
THEOREM RouteTheorem == Spec => []RouteProved
  <1>1. TorInv => RouteProved
    BY DEF TorInv, RouteAge, RouteProved
  <1> QED BY <1>1, TorInvariant, PTL

\* tor.py:219-222: within a window the blame does not move from the target to Tor
\* unless Tor was seen to fail.
THEOREM BlameTheorem == Spec => BlameKeptInWindow
  <1>1. TorInv /\ [Next]_vars => [BlameShifts => observed = "tor" \/ untried]_vars
    <2> SUFFICES ASSUME TorInv, Next, BlameShifts PROVE observed = "tor" \/ untried
      OBVIOUS
    <2>1. record' # record
      BY DEF BlameShifts
    <2>2. BeginAttempt \/ ReportFailure \/ WindowExpires
      BY <2>1 DEF Next, Wait, StartWindow, SentinelAbsent, SentinelPresent, SocksPortClosed,
            SocksPortOpen, OperationSucceeds, TargetReached, TargetRefused, OperationTimesOut,
            ProxyFails, Sleep, Backoff, TorChanges, TargetChanges, waitVars
    <2>3. record' = HealthStateOf(error)
      BY <2>2 DEF BeginAttempt, ReportFailure, WindowExpires, Report
    <2>4. error = "tor"
      BY <2>3 DEF BlameShifts, HealthStateOf, TorInv, TorTypeOK, Failures
    <2> QED BY <2>4 DEF TorInv, ErrorIsObserved
  <1> QED BY <1>1, TorInvariant, PTL DEF Spec, BlameKeptInWindow
=============================================================================
