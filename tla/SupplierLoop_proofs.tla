------------------------- MODULE SupplierLoop_proofs -------------------------
(* Type correctness, the ages of the record and of the claim, and the           *)
(* refinement of SupplierContract, for every value of the constants.            *)
EXTENDS SupplierRefinement, TLAPS

\* How old the record can be at each point of the loop. Idle steps leave it at
\* most HeartbeatInterval old; every other iteration rewrites it.
CallAge == IF lastHeight = NoHeight THEN StartGap - 2 * RpcTimeout
           ELSE HeartbeatInterval + PollInterval

RecordAgeByLocation ==
    /\ pc = "netinfo" => age.record = 0 /\ lastHeight = NoHeight
    /\ pc = "chaininfo" => age.record <= CallAge
    /\ pc \in {"evaluate", "template"} => age.record <= CallAge + RpcTimeout
    /\ pc = "templated" => age.record <= CallAge + 2 * RpcTimeout
    /\ pc = "publishing" => age.record = 0
    /\ pc = "answered" => age.record <= PublishTimeout
    /\ pc = "sleeping" => age.record <= HeartbeatInterval

\* How old the acceptance behind a healthy record can be at each point. As long as
\* the loop may idle, the acceptance is not older than last_sent.
ClaimAgeByLocation ==
    /\ age.sent < PublishInterval => acceptAge <= age.sent
    /\ pc # "netinfo"
    /\ pc = "sleeping" => acceptAge <= PublishInterval
    /\ pc = "chaininfo" => acceptAge <= PublishInterval + PollInterval
    /\ pc \in {"evaluate", "template"} =>
            acceptAge <= PublishInterval + PollInterval + RpcTimeout
    /\ pc \in {"templated", "publishing"} =>
            acceptAge <= PublishInterval + PollInterval + 2 * RpcTimeout
    /\ pc = "answered" => acceptAge <= ActiveGap

ClaimInv ==
    record = "healthy_active" =>
        /\ outcome.end = "accepted"
        /\ lastHeight # NoHeight
        /\ Live => ClaimAgeByLocation

\* The state in memory is the one in the file, but for a stop that was swallowed:
\* until the failed call it struck is reported, or, when that was the best-effort
\* first call, until a first publication is answered.
MemoryInv ==
    /\ pc = "netinfo" => lastHeight = NoHeight
    /\ Live /\ memory # record =>
            /\ memory = "stopped"
            /\ \/ lastHeight = NoHeight
               \/ pc \in {"evaluate", "templated"} /\ answer.kind = "error"
               \/ pc = "answered" /\ answer.kind \in {"publish_error", "tor_not_ready"}

IInv == TypeOK /\ RecordAgeByLocation /\ MemoryInv /\ ClaimInv

-----------------------------------------------------------------------------
(* Type correctness.                                                         *)

USE DEF NoHeight, Ages

LEMMA AgeBounds ==
    /\ PollInterval \in Nat /\ PublishInterval \in Nat /\ HeartbeatInterval \in Nat
    /\ RpcTimeout \in Nat /\ PublishTimeout \in Nat /\ StaleAfter \in Nat
    /\ MaxAge \in Nat /\ MaxHeight \in Nat
    /\ PublishTimeout <= StaleAfter
    /\ MaxAge > StartGap /\ MaxAge > ActiveGap /\ MaxAge > StaleAfter
    /\ \A d \in RpcDelays : d \in Nat /\ d <= RpcTimeout
    /\ \A d \in PublishDelays : d \in Nat /\ d <= PublishTimeout
    /\ StartGap \in Nat /\ ActiveGap \in Nat
    /\ StartGap >= ReportGap /\ StartGap >= 3 * RpcTimeout
  BY TimingAssumption, BoundAssumption, DeadlineAssumption, SMT
     DEF StartGap, ActiveGap, ReportGap

\* Letting d pass keeps the ages typed and adds at most d to each of them.
LEMMA ElapseBounds ==
    ASSUME TypeOK, NEW d \in Nat, Elapse(d)
    PROVE  /\ age' \in Ages
           /\ acceptAge' \in 0..MaxAge
           /\ age'.record <= age.record + d
           /\ acceptAge' <= acceptAge + d
           /\ acceptAge <= acceptAge'
           /\ age'.sent < PublishInterval => age'.sent = age.sent + d
  BY AgeBounds, SMT DEF TypeOK, Elapse, Aged, Saturate

\* A swallowed stop is a call that returns: within the timeout of that call, with a
\* failure, the record kept or rewritten as stopped.
LEMMA SwallowedCall ==
    ASSUME TypeOK, StopSwallowed
    PROVE  \E d \in Nat :
              /\ \/ pc = "netinfo" /\ pc' = "chaininfo" /\ d <= RpcTimeout
                       /\ answer' = Reply("none") /\ Elapse(d) /\ record' = record
                 \/ pc = "chaininfo" /\ pc' = "evaluate" /\ d <= RpcTimeout
                       /\ answer' = Reply("error") /\ Elapse(d) /\ record' = record
                 \/ pc = "template" /\ pc' = "templated" /\ d <= RpcTimeout
                       /\ answer' = Reply("error") /\ Elapse(d) /\ record' = record
                 \/ /\ pc = "publishing" /\ pc' = "answered" /\ d <= PublishTimeout
                    /\ answer' \in {Reply("publish_error"), Reply("tor_not_ready")}
                    /\ \/ Elapse(d) /\ record' = record
                       \/ record' = "stopped" /\ age' = [Aged(d) EXCEPT !.record = 0]
                             /\ acceptAge' = Saturate(acceptAge + d, MaxAge)
              /\ memory' = "stopped"
              /\ UNCHANGED <<height, lastHeight, outcome, node, outside>>
  <1> USE AgeBounds
  <1>1. CASE WriteFailsInCall
    <2>1. CASE Swallows("netinfo", "chaininfo", RpcDelays, {Reply("none")})
      BY <2>1 DEF Swallows
    <2>2. CASE Swallows("chaininfo", "evaluate", RpcDelays, {Reply("error")})
      BY <2>2 DEF Swallows
    <2>3. CASE Swallows("template", "templated", RpcDelays, {Reply("error")})
      BY <2>3 DEF Swallows
    <2>4. CASE Swallows("publishing", "answered", PublishDelays,
                        {Reply("tor_not_ready"), Reply("publish_error")})
      BY <2>4 DEF Swallows
    <2> QED BY <1>1, <2>1, <2>2, <2>3, <2>4 DEF WriteFailsInCall
  <1>2. CASE Swallows("publishing", "answered", PublishDelays, {Reply("publish_error")})
    BY <1>2 DEF Swallows
  <1>3. CASE AlarmAfterWrite
    BY <1>3 DEF AlarmAfterWrite
  <1> QED BY <1>1, <1>2, <1>3 DEF StopSwallowed

\* So the ages stay typed and grow by the time of that call only, and the call is
\* never one that the past-the-gate height could be missing for.
LEMMA SwallowedAges ==
    ASSUME TypeOK, StopSwallowed
    PROVE  /\ age' \in Ages
           /\ acceptAge' \in 0..MaxAge
           /\ age'.sent < PublishInterval => acceptAge' - acceptAge <= age'.sent - age.sent
           /\ age.sent <= age'.sent
           /\ age.post >= PollInterval => age'.post >= PollInterval
           /\ \/ /\ pc = "netinfo" /\ pc' = "chaininfo" /\ answer' = Reply("none")
                 /\ age'.record <= age.record + RpcTimeout /\ record' = record
              \/ /\ \/ pc = "chaininfo" /\ pc' = "evaluate"
                    \/ pc = "template" /\ pc' = "templated"
                 /\ answer' = Reply("error") /\ record' = record
                 /\ age'.record <= age.record + RpcTimeout
                 /\ acceptAge' <= acceptAge + RpcTimeout
              \/ /\ pc = "publishing" /\ pc' = "answered" /\ record' \in {record, "stopped"}
                 /\ answer' \in {Reply("publish_error"), Reply("tor_not_ready")}
                 /\ age'.record <= age.record + PublishTimeout
                 /\ acceptAge' <= acceptAge + PublishTimeout
           /\ memory' = "stopped"
           /\ UNCHANGED <<height, lastHeight, outcome, node, outside>>
  <1>1. PICK d \in Nat :
              /\ \/ pc = "netinfo" /\ pc' = "chaininfo" /\ d <= RpcTimeout
                       /\ answer' = Reply("none") /\ Elapse(d) /\ record' = record
                 \/ pc = "chaininfo" /\ pc' = "evaluate" /\ d <= RpcTimeout
                       /\ answer' = Reply("error") /\ Elapse(d) /\ record' = record
                 \/ pc = "template" /\ pc' = "templated" /\ d <= RpcTimeout
                       /\ answer' = Reply("error") /\ Elapse(d) /\ record' = record
                 \/ /\ pc = "publishing" /\ pc' = "answered" /\ d <= PublishTimeout
                    /\ answer' \in {Reply("publish_error"), Reply("tor_not_ready")}
                    /\ \/ Elapse(d) /\ record' = record
                       \/ record' = "stopped" /\ age' = [Aged(d) EXCEPT !.record = 0]
                             /\ acceptAge' = Saturate(acceptAge + d, MaxAge)
              /\ memory' = "stopped"
              /\ UNCHANGED <<height, lastHeight, outcome, node, outside>>
    BY SwallowedCall
  <1>2. age \in Ages /\ acceptAge \in 0..MaxAge
    BY DEF TypeOK
  <1>3. /\ acceptAge' = Saturate(acceptAge + d, MaxAge)
        /\ age' = Aged(d) \/ age' = [Aged(d) EXCEPT !.record = 0]
    BY <1>1 DEF Elapse
  <1>4. /\ age' \in Ages
        /\ acceptAge' \in 0..MaxAge
        /\ age'.record <= age.record + d
        /\ acceptAge' <= acceptAge + d
        /\ age'.sent < PublishInterval => age'.sent = age.sent + d
        /\ age.sent <= age'.sent
        /\ age.post >= PollInterval => age'.post >= PollInterval
    BY <1>2, <1>3, AgeBounds, SMT DEF Aged, Saturate
  <1>5. /\ age.record \in Nat /\ acceptAge \in Nat /\ age'.record \in Nat /\ acceptAge' \in Nat
        /\ age.sent \in Nat /\ age'.sent \in Nat
    BY <1>2, <1>4, AgeBounds
  <1>6. age'.sent < PublishInterval => acceptAge' - acceptAge <= age'.sent - age.sent
    BY <1>4, <1>5
  <1>7. d <= RpcTimeout =>
          age'.record <= age.record + RpcTimeout /\ acceptAge' <= acceptAge + RpcTimeout
    BY <1>4, <1>5, AgeBounds
  <1>8. d <= PublishTimeout =>
          age'.record <= age.record + PublishTimeout /\ acceptAge' <= acceptAge + PublishTimeout
    BY <1>4, <1>5, AgeBounds
  <1> QED BY <1>1, <1>4, <1>6, <1>7, <1>8

\* What the node and the pool answer is typed.
LEMMA AnswersTyped ==
    ASSUME TypeOK
    PROVE  ChainAnswers \subseteq Answers /\ TemplateAnswers \subseteq Answers
           /\ PublishAnswers \subseteq Answers /\ Reply("none") \in Answers
  <1>1. \A k \in {"none", "error", "nonobject", "tor_not_ready",
                  "publish_error", "accepted", "refused"} : Reply(k) \in Answers
    BY DEF Reply, Answers, PlainReplies
  <1>2. Snapshot \in ChainInfos /\ MalformedInfos \subseteq ChainInfos
    BY AgeBounds DEF TypeOK, Snapshot, MalformedInfos, ChainInfos, Nodes, IbdFlags, Heights
  <1>3. ChainAnswers \subseteq Answers
    BY <1>1, <1>2 DEF ChainAnswers, Answers
  <1>4. [kind |-> "template", tip |-> Tip, synced |-> NodeSynced] \in Answers
    BY DEF TypeOK, Answers, Templates, Nodes, NodeSynced, Tip, Tips
  <1>5. TemplateAnswers \subseteq Answers
    BY <1>1, <1>4 DEF TemplateAnswers
  <1>6. PublishAnswers \subseteq Answers
    <2>1. outside.pool \in {"accepts", "rejects", "down"}
      BY DEF TypeOK, Outsides
    <2> QED BY <1>1, <2>1 DEF PublishAnswers
  <1> QED BY <1>1, <1>3, <1>5, <1>6

\* A call that returns with a typed answer after a bounded delay.
LEMMA ReturnsTyped ==
    ASSUME TypeOK, NEW from, NEW to, NEW delays, NEW answers,
           Returns(from, to, delays, answers),
           \A d \in delays : d \in Nat,
           answers \subseteq Answers,
           to \in Locations,
           to \in {"templated", "answered"} => height # NoHeight,
           to # "template" /\ to # "publishing"
    PROVE  TypeOK'
  <1>1. PICK d \in delays : Elapse(d)
    BY DEF Returns
  <1>2. /\ age' \in Ages
        /\ acceptAge' \in 0..MaxAge
    BY <1>1, ElapseBounds
  <1> QED BY <1>2 DEF TypeOK, Returns, Nodes, Outsides

THEOREM TypeInit == Init => TypeOK
  BY AgeBounds DEF Init, TypeOK, Reply, Answers, PlainReplies, Locations, HealthStates,
                   Outcomes, NoTip, Nodes, Outsides, Heights, Branches

LEMMA TypeStep == TypeOK /\ [Next]_vars => TypeOK'
  <1> SUFFICES ASSUME TypeOK, [Next]_vars PROVE TypeOK'
    OBVIOUS
  <1>0. \A k \in {"none", "error", "publish_error", "tor_not_ready"} : Reply(k) \in Answers
    BY DEF Reply, Answers, PlainReplies
  <1>a. [age EXCEPT !.record = 0] \in Ages
    BY AgeBounds DEF TypeOK
  <1> USE AgeBounds
  <1>1. CASE NetInfoReturns
    BY <1>1, <1>0, ReturnsTyped DEF NetInfoReturns, Locations
  <1>2. CASE ChainInfoReturns
    BY <1>2, AnswersTyped, ReturnsTyped DEF ChainInfoReturns, Locations
  <1>3. CASE NodeUnavailable \/ NotSynchronized \/ TemplateUnavailable
    BY <1>3, <1>0, <1>a DEF NodeUnavailable, NotSynchronized, TemplateUnavailable, Report,
          EndIteration, TypeOK, Locations, HealthStates, Nodes, Outsides
  <1>4. CASE Idle
    BY <1>4, <1>0, <1>a DEF Idle, Heartbeat, EndIteration, TypeOK, Locations
  <1>5. CASE RequestTemplate
    <2>1. answer \in ChainInfos
      BY <1>5 DEF RequestTemplate, TypeOK, Answers, ChainInfos, Templates, PlainReplies
    <2>2. height' \in Heights
      BY <1>5, <2>1 DEF RequestTemplate, NodeSyncStatus, ValidHeight, ChainInfos, Heights
    <2>3. age' \in Ages
      BY <1>5 DEF RequestTemplate, TypeOK
    <2>4. height' # NoHeight
      BY <2>2 DEF Heights
    <2> QED BY <1>5, <1>0, <2>2, <2>3, <2>4 DEF RequestTemplate, TypeOK, Locations
  <1>6. CASE TemplateReturns
    BY <1>6, AnswersTyped, ReturnsTyped DEF TemplateReturns, TypeOK, Returns, Locations
  <1>7. CASE BeginPublication
    <2>1. age' \in Ages
      <3>1. 0 \in 0..MaxAge /\ 0 \in 0..PollInterval
        OBVIOUS
      <3>2. age' = [age EXCEPT !.record = 0, !.post = 0]
        BY <1>7 DEF BeginPublication
      <3> QED BY <3>1, <3>2 DEF TypeOK
    <2>2. answer.tip \in Tips
      BY <1>7 DEF BeginPublication, TypeOK, Answers, ChainInfos, Templates, PlainReplies
    <2>3. outcome' \in Outcomes
      BY <1>7, <2>2 DEF BeginPublication, TypeOK, Outcomes
    <2> QED BY <1>7, <2>1, <2>3 DEF BeginPublication, TypeOK, Locations
  <1>8. CASE PublicationReturns
    BY <1>8, AnswersTyped, ReturnsTyped DEF PublicationReturns, TypeOK, Returns, Locations
  <1>9. CASE PublishTorNotReady \/ PublishFailed
    BY <1>9, <1>0, <1>a DEF PublishTorNotReady, PublishFailed, Report, EndIteration, TypeOK,
          Locations, HealthStates, Outcomes
  <1>10. CASE PublishAnswered
    <2>1. age' \in Ages
      <3>1. age.iter \in 0..PublishInterval /\ 0 \in 0..MaxAge
        BY DEF TypeOK
      <3>2. age' = [age EXCEPT !.record = 0, !.sent = age.iter]
        BY <1>10 DEF PublishAnswered
      <3> QED BY <3>1, <3>2 DEF TypeOK
    <2> QED BY <1>10, <1>0, <2>1 DEF PublishAnswered, EndIteration, TypeOK, Locations,
          HealthStates, Outcomes
  <1>11. CASE Wakes
    <2>1. /\ age' \in Ages
          /\ acceptAge' \in 0..MaxAge
      BY <1>11, ElapseBounds DEF Wakes
    <2> QED BY <1>11, <2>1 DEF Wakes, TypeOK, Locations
  <1>12. CASE UnexpectedException \/ StorageFails \/ Stopped \/ Killed
    <2>1. PICK s \in HealthStates : Terminates(s)
      BY <1>12 DEF UnexpectedException, StorageFails, Stopped, Killed, HealthStates, TypeOK
    <2>2. age' \in Ages
      BY <2>1, <1>a DEF Terminates, TypeOK
    <2> QED BY <2>1, <2>2, <1>0 DEF Terminates, TypeOK, Locations
  <1>13. CASE StopSwallowed
    <2>1. answer' \in Answers
      BY <1>13, <1>0, SwallowedAges
    <2> QED BY <1>13, <2>1, SwallowedAges DEF TypeOK, Locations, HealthStates
  <1>14. CASE NodeChanges
    <2>1. node' \in Nodes
      <3>1. CASE HeaderArrives \/ BlockConnected
        BY <3>1 DEF HeaderArrives, BlockConnected, TypeOK, Nodes, Heights
      <3>2. CASE ChainReorganized
        <4>1. CASE \E h \in 0..(node.blocks - 1) :
                     node' = [node EXCEPT !.blocks = h, !.headers = h, !.branch = "main"]
          <5>1. PICK h \in 0..(node.blocks - 1) :
                     node' = [node EXCEPT !.blocks = h, !.headers = h, !.branch = "main"]
            BY <4>1
          <5>2. h \in Heights
            BY <5>1 DEF TypeOK, Nodes, Heights
          <5> QED BY <5>1, <5>2 DEF TypeOK, Nodes, Branches
        <4>2. CASE node' = [node EXCEPT !.branch = "fork"]
          BY <4>2 DEF TypeOK, Nodes, Branches
        <4> QED BY <3>2, <4>1, <4>2 DEF ChainReorganized
      <3>3. CASE NodeStops \/ DownloadCompletes
        BY <3>3 DEF NodeStops, DownloadCompletes, TypeOK, Nodes, IbdFlags
      <3>4. CASE NodeStarts
        <4>1. PICK i \in {"yes", "no"} : node' = [node EXCEPT !.up = TRUE, !.ibd = i]
          BY <3>4 DEF NodeStarts
        <4> QED BY <4>1 DEF TypeOK, Nodes, IbdFlags
      <3> QED BY <1>14, <3>1, <3>2, <3>3, <3>4 DEF NodeChanges
    <2> QED BY <1>14, <2>1 DEF NodeChanges, loopVars, TypeOK
  <1>15. CASE PoolChanges \/ TorChanges
    <2>1. outside' \in Outsides
      BY <1>15 DEF PoolChanges, TorChanges, TypeOK, Outsides
    <2> QED BY <1>15, <2>1 DEF PoolChanges, TorChanges, loopVars, TypeOK
  <1>16. CASE UNCHANGED vars
    BY <1>16 DEF vars, TypeOK
  <1> QED
    BY <1>1, <1>2, <1>3, <1>4, <1>5, <1>6, <1>7, <1>8, <1>9, <1>10, <1>11, <1>12, <1>13,
       <1>14, <1>15, <1>16 DEF Next, LoopStep, End, Environment

\* Every reachable state of the loop is well typed; the assertion at main.py:258
\* never fails.
THEOREM TypeCorrect == Spec => []TypeOK
  BY TypeInit, TypeStep, PTL DEF Spec

-----------------------------------------------------------------------------
(* The age of the record.                                                    *)

THEOREM RecordAgeInit == Init => RecordAgeByLocation
  BY DEF Init, RecordAgeByLocation

LEMMA RecordAgeStep == TypeOK /\ RecordAgeByLocation /\ [Next]_vars => RecordAgeByLocation'
  <1> SUFFICES ASSUME TypeOK, RecordAgeByLocation, [Next]_vars PROVE RecordAgeByLocation'
    OBVIOUS
  <1> USE AgeBounds
  <1>a. age.record \in Nat /\ acceptAge \in Nat
    BY DEF TypeOK
  <1>c. HeartbeatInterval + PollInterval <= CallAge /\ CallAge \in Nat
    BY DEF CallAge, ReportGap, StartGap
  <1>d. [age EXCEPT !.record = 0].record = 0
    BY DEF TypeOK
  <1>1. CASE NetInfoReturns
    <2>1. PICK d \in RpcDelays : Elapse(d)
      BY <1>1 DEF NetInfoReturns, Returns
    <2>2. age'.record <= age.record + d
      BY <2>1, ElapseBounds
    <2>3. age'.record \in Nat
      BY <2>1, ElapseBounds
    <2>4. lastHeight = NoHeight /\ age.record = 0 /\ lastHeight' = lastHeight /\ pc' = "chaininfo"
      BY <1>1 DEF NetInfoReturns, Returns, RecordAgeByLocation
    <2>5. age'.record <= CallAge'
      BY <2>2, <2>3, <2>4 DEF CallAge
    <2> QED BY <2>4, <2>5 DEF RecordAgeByLocation
  <1>2. CASE ChainInfoReturns
    <2>1. PICK d \in RpcDelays : Elapse(d)
      BY <1>2 DEF ChainInfoReturns, Returns
    <2>2. age'.record <= age.record + d /\ age'.record \in Nat
      BY <2>1, ElapseBounds
    <2>3. age.record <= CallAge /\ lastHeight' = lastHeight /\ pc' = "evaluate"
      BY <1>2 DEF ChainInfoReturns, Returns, RecordAgeByLocation
    <2>4. CallAge' = CallAge
      BY <2>3 DEF CallAge
    <2> QED BY <2>2, <2>3, <2>4, <1>a, <1>c DEF RecordAgeByLocation
  <1>3. CASE NodeUnavailable \/ NotSynchronized \/ TemplateUnavailable
            \/ PublishTorNotReady \/ PublishFailed
    <2>1. pc' = "sleeping" /\ age' = [age EXCEPT !.record = 0]
      BY <1>3 DEF NodeUnavailable, NotSynchronized, TemplateUnavailable, Report,
            PublishTorNotReady, PublishFailed, EndIteration
    <2> QED BY <2>1, <1>d DEF RecordAgeByLocation
  <1>4. CASE Idle
    <2>1. age'.record <= HeartbeatInterval
      BY <1>4, <1>a, <1>d DEF Idle, Heartbeat
    <2> QED BY <1>4, <2>1 DEF Idle, EndIteration, RecordAgeByLocation
  <1>5. CASE RequestTemplate
    <2>1. age'.record = age.record
      BY <1>5 DEF RequestTemplate, TypeOK
    <2>2. CallAge' = CallAge
      BY <1>5 DEF RequestTemplate, CallAge
    <2> QED BY <1>5, <2>1, <2>2 DEF RequestTemplate, RecordAgeByLocation
  <1>6. CASE TemplateReturns
    <2>1. PICK d \in RpcDelays : Elapse(d)
      BY <1>6 DEF TemplateReturns, Returns
    <2>2. age'.record <= age.record + d /\ age'.record \in Nat
      BY <2>1, ElapseBounds
    <2>3. age.record <= CallAge + RpcTimeout /\ lastHeight' = lastHeight /\ pc' = "templated"
      BY <1>6 DEF TemplateReturns, Returns, RecordAgeByLocation
    <2>4. CallAge' = CallAge
      BY <2>3 DEF CallAge
    <2> QED BY <2>2, <2>3, <2>4, <1>a, <1>c DEF RecordAgeByLocation
  <1>7. CASE BeginPublication
    <2>1. age'.record = 0
      BY <1>7 DEF BeginPublication, TypeOK
    <2> QED BY <1>7, <2>1 DEF BeginPublication, RecordAgeByLocation
  <1>8. CASE PublicationReturns
    <2>1. PICK d \in PublishDelays : Elapse(d)
      BY <1>8 DEF PublicationReturns, Returns
    <2>2. age'.record <= age.record + d /\ age'.record \in Nat
      BY <2>1, ElapseBounds
    <2>3. age.record = 0 /\ pc' = "answered"
      BY <1>8 DEF PublicationReturns, Returns, RecordAgeByLocation
    <2> QED BY <2>2, <2>3 DEF RecordAgeByLocation
  <1>9. CASE PublishAnswered
    <2>1. age'.record = 0
      BY <1>9 DEF PublishAnswered, TypeOK
    <2> QED BY <1>9, <2>1 DEF PublishAnswered, EndIteration, RecordAgeByLocation
  <1>10. CASE Wakes
    <2>1. age'.record <= age.record + PollInterval /\ age'.record \in Nat
      BY <1>10, ElapseBounds DEF Wakes
    <2>2. age.record <= HeartbeatInterval /\ lastHeight' = lastHeight /\ pc' = "chaininfo"
      BY <1>10 DEF Wakes, RecordAgeByLocation
    <2>3. CallAge' = CallAge
      BY <2>2 DEF CallAge
    <2> QED BY <2>1, <2>2, <2>3, <1>a, <1>c DEF RecordAgeByLocation
  <1>11. CASE UnexpectedException \/ StorageFails \/ Stopped \/ Killed
    <2>1. pc' = "ended"
      BY <1>11 DEF UnexpectedException, StorageFails, Stopped, Killed, Terminates
    <2> QED BY <2>1 DEF RecordAgeByLocation
  <1>12. CASE StopSwallowed
    <2>1. CallAge' = CallAge
      BY <1>12, SwallowedAges DEF CallAge
    <2>2. age'.record \in Nat
      BY <1>12, SwallowedAges
    <2>3. CASE pc = "netinfo" /\ pc' = "chaininfo" /\ age'.record <= age.record + RpcTimeout
      <3>1. lastHeight = NoHeight /\ age.record = 0
        BY <2>3 DEF RecordAgeByLocation
      <3>2. age'.record <= CallAge
        BY <2>2, <2>3, <3>1 DEF CallAge
      <3> QED BY <2>1, <2>3, <3>2 DEF RecordAgeByLocation
    <2>4. CASE pc = "chaininfo" /\ pc' = "evaluate" /\ age'.record <= age.record + RpcTimeout
      BY <2>1, <2>2, <2>4, <1>a, <1>c DEF RecordAgeByLocation
    <2>5. CASE pc = "template" /\ pc' = "templated" /\ age'.record <= age.record + RpcTimeout
      BY <2>1, <2>2, <2>5, <1>a, <1>c DEF RecordAgeByLocation
    <2>6. CASE pc = "publishing" /\ pc' = "answered" /\ age'.record <= age.record + PublishTimeout
      BY <2>2, <2>6 DEF RecordAgeByLocation
    <2> QED BY <1>12, <2>3, <2>4, <2>5, <2>6, SwallowedAges
  <1>13. CASE NodeChanges \/ PoolChanges \/ TorChanges \/ UNCHANGED vars
    <2>1. UNCHANGED loopVars
      BY <1>13 DEF NodeChanges, PoolChanges, TorChanges, vars, loopVars
    <2> QED BY <2>1 DEF loopVars, RecordAgeByLocation, CallAge
  <1> QED
    BY <1>1, <1>2, <1>3, <1>4, <1>5, <1>6, <1>7, <1>8, <1>9, <1>10, <1>11, <1>12, <1>13
       DEF Next, LoopStep, End, Environment

LEMMA RecordAgeUse == TypeOK /\ RecordAgeByLocation => RecordAgeBounded /\ FreshWhilePublishing
  <1> SUFFICES ASSUME TypeOK, RecordAgeByLocation
               PROVE  RecordAgeBounded /\ FreshWhilePublishing
    OBVIOUS
  <1>1. pc \in Locations /\ age.record \in Nat
    BY AgeBounds DEF TypeOK
  <1>2. FreshWhilePublishing
    BY <1>1, AgeBounds DEF RecordAgeByLocation, FreshWhilePublishing
  <1> DEFINE bound == IF lastHeight = NoHeight THEN StartGap ELSE ReportGap
  <1>3. CallAge + 2 * RpcTimeout = bound /\ CallAge \in Nat
    BY AgeBounds DEF CallAge, ReportGap, StartGap
  <1>4. Live /\ pc \notin {"publishing", "answered"} => age.record <= bound
    BY <1>1, <1>3, AgeBounds DEF RecordAgeByLocation, Live, Locations, ReportGap
  <1> QED BY <1>2, <1>4 DEF RecordAgeBounded

THEOREM AgeInvariant == Spec => [](TypeOK /\ RecordAgeByLocation)
  BY TypeInit, TypeStep, RecordAgeInit, RecordAgeStep, PTL DEF Spec

\* A live loop rewrites the record at least every ReportGap (StartGap at first),
\* whatever the node, Tor and the pool do within their timeouts.
THEOREM RecordAgeTheorem == Spec => []RecordAgeBounded
  BY AgeInvariant, RecordAgeUse, PTL

\* Inside a publication the record is never older than the publication's own
\* timeout, which is within the stale guard: main.py:292-294 for every timing.
THEOREM FreshTheorem == Spec => []FreshWhilePublishing
  BY AgeInvariant, RecordAgeUse, PTL

-----------------------------------------------------------------------------
(* The age of the acceptance behind a healthy record.                        *)

LEMMA MemoryStep == TypeOK /\ MemoryInv /\ [Next]_vars => MemoryInv'
  <1> SUFFICES ASSUME TypeOK, MemoryInv, [Next]_vars PROVE MemoryInv'
    OBVIOUS
  <1>a. \A k \in {"error", "publish_error", "tor_not_ready"} : Reply(k).kind = k
    BY DEF Reply
  <1>1. CASE NetInfoReturns \/ ChainInfoReturns \/ TemplateReturns \/ PublicationReturns \/ Wakes
    BY <1>1 DEF NetInfoReturns, ChainInfoReturns, TemplateReturns, PublicationReturns, Wakes,
          Returns, MemoryInv, Live
  <1>2. CASE NodeUnavailable \/ NotSynchronized \/ TemplateUnavailable
            \/ PublishTorNotReady \/ PublishFailed \/ PublishAnswered
    BY <1>2 DEF NodeUnavailable, NotSynchronized, TemplateUnavailable, Report, EndIteration,
          PublishTorNotReady, PublishFailed, PublishAnswered, MemoryInv
  <1>3. CASE Idle \/ RequestTemplate \/ BeginPublication
    BY <1>3 DEF Idle, Heartbeat, RequestTemplate, BeginPublication, EndIteration, MemoryInv, Live
  <1>4. CASE UnexpectedException \/ StorageFails \/ Stopped \/ Killed
    BY <1>4 DEF UnexpectedException, StorageFails, Stopped, Killed, Terminates, MemoryInv, Live
  <1>5. CASE StopSwallowed
    BY <1>5, <1>a, SwallowedAges DEF MemoryInv, Live
  <1>6. CASE NodeChanges \/ PoolChanges \/ TorChanges \/ UNCHANGED vars
    <2>1. UNCHANGED loopVars
      BY <1>6 DEF NodeChanges, PoolChanges, TorChanges, vars, loopVars
    <2> QED BY <2>1 DEF loopVars, MemoryInv, Live
  <1> QED
    BY <1>1, <1>2, <1>3, <1>4, <1>5, <1>6 DEF Next, LoopStep, End, Environment

\* Only a touch can write "stopped" again, from memory, and MemoryInv says when it may.
LEMMA LostStopStep ==
    TypeOK /\ MemoryInv /\ LostStopIsBrief /\ [Next]_vars => LostStopIsBrief'
  <1> SUFFICES ASSUME TypeOK, MemoryInv, LostStopIsBrief, [Next]_vars PROVE LostStopIsBrief'
    OBVIOUS
  <1>1. CASE NetInfoReturns \/ ChainInfoReturns \/ TemplateReturns \/ PublicationReturns \/ Wakes
    <2>1. CASE PublicationReturns
      BY <2>1 DEF PublicationReturns, Returns, LostStopIsBrief, Live
    <2>2. CASE ~PublicationReturns
      BY <1>1, <2>2 DEF NetInfoReturns, ChainInfoReturns, TemplateReturns, Wakes, Returns,
            LostStopIsBrief, Live
    <2> QED BY <2>1, <2>2
  <1>2. CASE NodeUnavailable \/ NotSynchronized \/ TemplateUnavailable
            \/ PublishTorNotReady \/ PublishFailed \/ PublishAnswered
    BY <1>2 DEF NodeUnavailable, NotSynchronized, TemplateUnavailable, Report,
          PublishTorNotReady, PublishFailed, PublishAnswered, LostStopIsBrief
  <1>3. CASE Idle
    <2>1. record # "stopped" /\ lastHeight # NoHeight
      BY <1>3 DEF Idle, NothingToPublish, NodeSyncStatus, ValidHeight, LostStopIsBrief, Live
    <2>2. memory = record
      BY <1>3, <2>1 DEF Idle, MemoryInv, Live
    <2> QED BY <1>3, <2>1, <2>2 DEF Idle, Heartbeat, LostStopIsBrief
  <1>4. CASE RequestTemplate
    BY <1>4 DEF RequestTemplate, LostStopIsBrief, Live
  <1>5. CASE BeginPublication
    <2>1. record # "stopped"
      BY <1>5 DEF BeginPublication, LostStopIsBrief, Live
    <2>2. memory = record \/ lastHeight = NoHeight
      BY <1>5 DEF BeginPublication, MemoryInv, Live
    <2> QED BY <1>5, <2>1, <2>2 DEF BeginPublication, LostStopIsBrief
  <1>6. CASE UnexpectedException \/ StorageFails \/ Stopped \/ Killed
    BY <1>6 DEF UnexpectedException, StorageFails, Stopped, Killed, Terminates, LostStopIsBrief,
          Live
  <1>7. CASE StopSwallowed
    <2>1. CASE WriteFailsInCall
      BY <2>1 DEF WriteFailsInCall, Swallows, LostStopIsBrief, Live
    <2>2. CASE Swallows("publishing", "answered", PublishDelays, {Reply("publish_error")})
              \/ AlarmAfterWrite
      BY <2>2 DEF Swallows, AlarmAfterWrite, Reply, LostStopIsBrief, Live
    <2> QED BY <1>7, <2>1, <2>2 DEF StopSwallowed
  <1>8. CASE NodeChanges \/ PoolChanges \/ TorChanges \/ UNCHANGED vars
    <2>1. UNCHANGED loopVars
      BY <1>8 DEF NodeChanges, PoolChanges, TorChanges, vars, loopVars
    <2> QED BY <2>1 DEF loopVars, LostStopIsBrief, Live
  <1> QED
    BY <1>1, <1>2, <1>3, <1>4, <1>5, <1>6, <1>7, <1>8 DEF Next, LoopStep, End, Environment

\* A loop that goes on under a record that says stopped is about to report that its
\* publication failed, or is inside one and none has been answered yet, whatever
\* stops, failing writes and alarms came together: this is all that is left of
\* health.py:201-202, which the run stop_not_final refutes as it stands.
THEOREM LostStopTheorem == Spec => []LostStopIsBrief
  <1>1. Init => MemoryInv /\ LostStopIsBrief
    BY DEF Init, MemoryInv, LostStopIsBrief
  <1> QED BY <1>1, TypeInit, TypeStep, MemoryStep, LostStopStep, PTL DEF Spec

THEOREM ClaimInit == Init => MemoryInv /\ ClaimInv
  BY DEF Init, MemoryInv, ClaimInv

LEMMA ClaimStep == TypeOK /\ MemoryInv /\ ClaimInv /\ [Next]_vars => ClaimInv'
  <1> SUFFICES ASSUME TypeOK, MemoryInv, ClaimInv, [Next]_vars, record' = "healthy_active"
               PROVE  /\ outcome'.end = "accepted"
                      /\ lastHeight' # NoHeight
                      /\ Live' => ClaimAgeByLocation'
    BY DEF ClaimInv
  <1> USE AgeBounds
  <1>a. acceptAge \in Nat /\ age.sent \in Nat /\ age.iter \in Nat /\ age.record \in Nat
    BY DEF TypeOK
  <1>1. CASE NetInfoReturns
    BY <1>1 DEF NetInfoReturns, Returns, ClaimInv, ClaimAgeByLocation, Live
  <1>2. CASE ChainInfoReturns
    <2>1. PICK d \in RpcDelays : Elapse(d)
      BY <1>2 DEF ChainInfoReturns, Returns
    <2>2. /\ acceptAge' <= acceptAge + d /\ acceptAge' \in Nat
          /\ age'.sent < PublishInterval => age'.sent = age.sent + d
      BY <2>1, ElapseBounds
    <2>3. /\ pc = "chaininfo" /\ pc' = "evaluate" /\ record = "healthy_active"
          /\ lastHeight' = lastHeight /\ outcome' = outcome
      BY <1>2 DEF ChainInfoReturns, Returns
    <2>4. ClaimAgeByLocation /\ outcome.end = "accepted" /\ lastHeight # NoHeight
      BY <2>3 DEF ClaimInv, Live
    <2> QED BY <2>2, <2>3, <2>4, <1>a DEF ClaimAgeByLocation
  <1>3. CASE TemplateReturns
    <2>1. PICK d \in RpcDelays : Elapse(d)
      BY <1>3 DEF TemplateReturns, Returns
    <2>2. /\ acceptAge' <= acceptAge + d /\ acceptAge' \in Nat
          /\ age'.sent < PublishInterval => age'.sent = age.sent + d
      BY <2>1, ElapseBounds
    <2>3. /\ pc = "template" /\ pc' = "templated" /\ record = "healthy_active"
          /\ lastHeight' = lastHeight /\ outcome' = outcome
      BY <1>3 DEF TemplateReturns, Returns
    <2>4. ClaimAgeByLocation /\ outcome.end = "accepted" /\ lastHeight # NoHeight
      BY <2>3 DEF ClaimInv, Live
    <2> QED BY <2>2, <2>3, <2>4, <1>a DEF ClaimAgeByLocation
  <1>4. CASE PublicationReturns
    <2>1. PICK d \in PublishDelays : Elapse(d)
      BY <1>4 DEF PublicationReturns, Returns
    <2>2. /\ acceptAge' <= acceptAge + d /\ acceptAge' \in Nat
          /\ age'.sent < PublishInterval => age'.sent = age.sent + d
      BY <2>1, ElapseBounds
    <2>3. /\ pc = "publishing" /\ pc' = "answered" /\ record = "healthy_active"
          /\ lastHeight' = lastHeight /\ outcome' = outcome
      BY <1>4 DEF PublicationReturns, Returns
    <2>4. ClaimAgeByLocation /\ outcome.end = "accepted" /\ lastHeight # NoHeight
      BY <2>3 DEF ClaimInv, Live
    <2> QED BY <2>2, <2>3, <2>4, <1>a DEF ClaimAgeByLocation, ActiveGap
  <1>5. CASE Wakes
    <2>1. /\ acceptAge' <= acceptAge + PollInterval /\ acceptAge' \in Nat
          /\ age'.sent < PublishInterval => age'.sent = age.sent + PollInterval
      BY <1>5, ElapseBounds DEF Wakes
    <2>2. /\ pc = "sleeping" /\ pc' = "chaininfo" /\ record = "healthy_active"
          /\ lastHeight' = lastHeight /\ outcome' = outcome
      BY <1>5 DEF Wakes
    <2>3. ClaimAgeByLocation /\ outcome.end = "accepted" /\ lastHeight # NoHeight
      BY <2>2 DEF ClaimInv, Live
    <2> QED BY <2>1, <2>2, <2>3, <1>a DEF ClaimAgeByLocation
  <1>6. CASE NodeUnavailable \/ NotSynchronized \/ TemplateUnavailable
            \/ PublishTorNotReady \/ PublishFailed
    BY <1>6 DEF NodeUnavailable, NotSynchronized, TemplateUnavailable, Report,
          PublishTorNotReady, PublishFailed
  <1>7. CASE Idle
    <2>1. /\ pc = "evaluate" /\ pc' = "sleeping" /\ record = "healthy_active"
          /\ lastHeight' = lastHeight /\ outcome' = outcome /\ acceptAge' = acceptAge
      BY <1>7 DEF Idle, Heartbeat, EndIteration, MemoryInv, Live
    <2>2. age.sent < PublishInterval
      BY <1>7 DEF Idle, NothingToPublish
    <2>3. age'.sent = age.sent
      BY <1>7 DEF Idle, Heartbeat, TypeOK
    <2>4. ClaimAgeByLocation /\ outcome.end = "accepted" /\ lastHeight # NoHeight
      BY <2>1 DEF ClaimInv, Live
    <2> QED BY <2>1, <2>2, <2>3, <2>4, <1>a DEF ClaimAgeByLocation
  <1>8. CASE RequestTemplate
    <2>1. /\ pc = "evaluate" /\ pc' = "template" /\ record = "healthy_active"
          /\ lastHeight' = lastHeight /\ outcome' = outcome /\ acceptAge' = acceptAge
      BY <1>8 DEF RequestTemplate
    <2>2. age'.sent = age.sent
      BY <1>8 DEF RequestTemplate, TypeOK
    <2>3. ClaimAgeByLocation /\ outcome.end = "accepted" /\ lastHeight # NoHeight
      BY <2>1 DEF ClaimInv, Live
    <2> QED BY <2>1, <2>2, <2>3, <1>a DEF ClaimAgeByLocation
  <1>9. CASE BeginPublication
    <2>1. /\ pc = "templated" /\ pc' = "publishing" /\ record = "healthy_active"
          /\ lastHeight' = lastHeight /\ outcome'.end = outcome.end /\ acceptAge' = acceptAge
      BY <1>9 DEF BeginPublication, MemoryInv, Live, TypeOK, Outcomes
    <2>2. age'.sent = age.sent
      BY <1>9 DEF BeginPublication, TypeOK
    <2>3. ClaimAgeByLocation /\ outcome.end = "accepted" /\ lastHeight # NoHeight
      BY <2>1 DEF ClaimInv, Live
    <2> QED BY <2>1, <2>2, <2>3, <1>a DEF ClaimAgeByLocation
  <1>10. CASE PublishAnswered
    <2>1. /\ pc = "answered" /\ pc' = "sleeping" /\ answer.kind = "accepted"
          /\ lastHeight' = height /\ outcome'.end = "accepted" /\ acceptAge' = 0
      BY <1>10 DEF PublishAnswered, EndIteration, TypeOK, Outcomes
    <2>2. age'.sent = age.iter
      BY <1>10 DEF PublishAnswered, TypeOK
    <2>3. height # NoHeight
      BY <2>1 DEF TypeOK
    <2> QED BY <2>1, <2>2, <2>3, <1>a DEF ClaimAgeByLocation
  <1>11. CASE UnexpectedException \/ StorageFails \/ Stopped \/ Killed
    <2>1. /\ pc' = "ended" /\ record = "healthy_active"
          /\ lastHeight' = lastHeight /\ outcome' = outcome
      BY <1>11 DEF UnexpectedException, StorageFails, Stopped, Killed, Terminates
    <2> QED BY <2>1 DEF ClaimInv, Live
  <1>12. CASE StopSwallowed
    <2>1. record = "healthy_active" /\ lastHeight' = lastHeight /\ outcome' = outcome
      BY <1>12, SwallowedAges
    <2>2. pc # "ended"
      BY <1>12, SwallowedAges
    <2>3. ClaimAgeByLocation /\ outcome.end = "accepted" /\ lastHeight # NoHeight
      BY <2>1, <2>2 DEF ClaimInv, Live
    <2>4. /\ age'.sent < PublishInterval => acceptAge' - acceptAge <= age'.sent - age.sent
          /\ acceptAge' \in Nat /\ age'.sent \in Nat
          /\ age'.sent < PublishInterval => age.sent < PublishInterval
      BY <1>12, SwallowedAges, <1>a
    <2>5. age'.sent < PublishInterval => acceptAge' <= age'.sent
      BY <2>3, <2>4, <1>a DEF ClaimAgeByLocation
    <2>6. CASE /\ \/ pc = "chaininfo" /\ pc' = "evaluate"
                  \/ pc = "template" /\ pc' = "templated"
               /\ acceptAge' <= acceptAge + RpcTimeout
      BY <2>1, <2>3, <2>4, <2>5, <2>6, <1>a DEF ClaimAgeByLocation
    <2>7. CASE pc = "publishing" /\ pc' = "answered" /\ acceptAge' <= acceptAge + PublishTimeout
      BY <2>1, <2>3, <2>4, <2>5, <2>7, <1>a DEF ClaimAgeByLocation, ActiveGap
    <2>8. pc # "netinfo"
      BY <2>3 DEF ClaimAgeByLocation
    <2> QED BY <1>12, <2>6, <2>7, <2>8, SwallowedAges
  <1>13. CASE NodeChanges \/ PoolChanges \/ TorChanges \/ UNCHANGED vars
    <2>1. UNCHANGED loopVars
      BY <1>13 DEF NodeChanges, PoolChanges, TorChanges, vars, loopVars
    <2> QED BY <2>1 DEF loopVars, ClaimInv, ClaimAgeByLocation, Live
  <1> QED
    BY <1>1, <1>2, <1>3, <1>4, <1>5, <1>6, <1>7, <1>8, <1>9, <1>10, <1>11, <1>12, <1>13
       DEF Next, LoopStep, End, Environment

LEMMA ClaimUse == TypeOK /\ ClaimInv => HealthyIsEarned
  <1> SUFFICES ASSUME TypeOK, ClaimInv, record = "healthy_active", Live
               PROVE  acceptAge <= ActiveGap
    BY DEF ClaimInv, HealthyIsEarned
  <1>1. ClaimAgeByLocation /\ pc \in Locations /\ acceptAge \in Nat
    BY AgeBounds DEF ClaimInv, TypeOK
  <1> QED BY <1>1, AgeBounds DEF ClaimAgeByLocation, ActiveGap, Live, Locations

THEOREM ClaimInvariant == Spec => [](TypeOK /\ MemoryInv /\ ClaimInv)
  BY TypeInit, TypeStep, MemoryStep, ClaimInit, ClaimStep, PTL DEF Spec

\* A healthy record stands for an acceptance at most ActiveGap old, with no failed
\* publication since, for every timing of the calls.
THEOREM HealthyTheorem == Spec => []HealthyIsEarned
  BY ClaimInvariant, ClaimUse, PTL

-----------------------------------------------------------------------------
(* The rate of the publications.                                             *)

\* From the sleep to the next publication the last one began a poll ago.
PostAgeByLocation ==
    pc \in {"netinfo", "chaininfo", "evaluate", "template", "templated"} =>
        age.post >= PollInterval

LEMMA ElapsePost ==
    ASSUME TypeOK, NEW d \in Nat, Elapse(d)
    PROVE  /\ age.post >= PollInterval => age'.post >= PollInterval
           /\ d >= PollInterval => age'.post >= PollInterval
  BY AgeBounds, SMT DEF TypeOK, Elapse, Aged, Saturate

LEMMA PostAgeStep == TypeOK /\ PostAgeByLocation /\ [Next]_vars => PostAgeByLocation'
  <1> SUFFICES ASSUME TypeOK, PostAgeByLocation, [Next]_vars PROVE PostAgeByLocation'
    OBVIOUS
  <1> USE AgeBounds
  <1>1. CASE NetInfoReturns \/ ChainInfoReturns \/ TemplateReturns
    <2>1. PICK d \in RpcDelays : Elapse(d)
      BY <1>1 DEF NetInfoReturns, ChainInfoReturns, TemplateReturns, Returns
    <2>2. age.post >= PollInterval
      BY <1>1 DEF NetInfoReturns, ChainInfoReturns, TemplateReturns, Returns, PostAgeByLocation
    <2> QED BY <2>1, <2>2, ElapsePost DEF PostAgeByLocation
  <1>2. CASE Wakes
    BY <1>2, ElapsePost DEF Wakes, PostAgeByLocation
  <1>3. CASE RequestTemplate
    <2>1. age'.post = age.post /\ age.post >= PollInterval
      BY <1>3 DEF RequestTemplate, TypeOK, PostAgeByLocation
    <2> QED BY <2>1 DEF PostAgeByLocation
  <1>4. CASE NodeUnavailable \/ NotSynchronized \/ TemplateUnavailable \/ Idle
            \/ PublishTorNotReady \/ PublishFailed \/ PublishAnswered
    BY <1>4 DEF NodeUnavailable, NotSynchronized, TemplateUnavailable, Idle, EndIteration,
          PublishTorNotReady, PublishFailed, PublishAnswered, PostAgeByLocation
  <1>5. CASE BeginPublication \/ PublicationReturns
    BY <1>5 DEF BeginPublication, PublicationReturns, Returns, PostAgeByLocation
  <1>6. CASE UnexpectedException \/ StorageFails \/ Stopped \/ Killed
    BY <1>6 DEF UnexpectedException, StorageFails, Stopped, Killed, Terminates, PostAgeByLocation
  <1>7. CASE StopSwallowed
    BY <1>7, SwallowedAges DEF PostAgeByLocation
  <1>8. CASE NodeChanges \/ PoolChanges \/ TorChanges \/ UNCHANGED vars
    <2>1. UNCHANGED loopVars
      BY <1>8 DEF NodeChanges, PoolChanges, TorChanges, vars, loopVars
    <2> QED BY <2>1 DEF loopVars, PostAgeByLocation
  <1> QED
    BY <1>1, <1>2, <1>3, <1>4, <1>5, <1>6, <1>7, <1>8 DEF Next, LoopStep, End, Environment

\* Two publications begin at least a poll interval apart: every branch of the
\* loop, failures included, goes through the sleep.
THEOREM PostsTheorem == Spec => PostsPolled
  <1>1. Init => PostAgeByLocation
    BY AgeBounds DEF Init, PostAgeByLocation
  <1>2. PostAgeByLocation => (pc = "templated" /\ pc' = "publishing" => age.post >= PollInterval)
    BY DEF PostAgeByLocation
  <1> QED BY <1>1, <1>2, TypeInit, TypeStep, PostAgeStep, PTL DEF Spec, PostsPolled

-----------------------------------------------------------------------------
(* The loop implements the contract.                                         *)

LEMMA ContractInit == Init => Contract!Init
  BY DEF Init, Contract!Init, Phase, Active

\* A call that returns is a tick of the contract's lease, or nothing to it.
LEMMA TickOrStutter ==
    ASSUME TypeOK, TypeOK', ClaimInv', Live, Live', NEW d \in Nat, Elapse(d),
           Phase' = Phase, record' = record
    PROVE  [Contract!Next]_(Contract!contractVars)
  <1>1. CASE Active
    <2>1. acceptAge <= acceptAge' /\ acceptAge \in Nat /\ acceptAge' \in Nat
      BY ElapseBounds, AgeBounds DEF TypeOK
    <2>2. acceptAge' <= ActiveGap
      <3>1. HealthyIsEarned'
        BY ClaimUse, PTL
      <3> QED BY <1>1, <3>1 DEF HealthyIsEarned, Active
    <2>3. acceptAge' \in acceptAge..ActiveGap
      BY <2>1, <2>2, AgeBounds
    <2>4. Phase # "over"
      BY DEF Phase, Live
    <2>5. Contract!Tick
      BY <1>1, <2>3, <2>4 DEF Contract!Tick, Active
    <2> QED BY <2>5 DEF Contract!Next
  <1>2. CASE ~Active
    BY <1>2 DEF Active, Contract!contractVars
  <1> QED BY <1>1, <1>2

LEMMA ContractStep ==
    TypeOK /\ TypeOK' /\ MemoryInv /\ ClaimInv /\ ClaimInv' /\ [Next]_vars
        => [Contract!Next]_(Contract!contractVars)
  <1> SUFFICES ASSUME TypeOK, TypeOK', MemoryInv, ClaimInv, ClaimInv', [Next]_vars
               PROVE  [Contract!Next]_(Contract!contractVars)
    OBVIOUS
  <1> USE AgeBounds
  <1>1. CASE NetInfoReturns \/ ChainInfoReturns \/ TemplateReturns
    <2>1. PICK d \in RpcDelays : Elapse(d)
      BY <1>1 DEF NetInfoReturns, ChainInfoReturns, TemplateReturns, Returns
    <2>2. Phase' = Phase /\ record' = record /\ Live /\ Live'
      BY <1>1 DEF NetInfoReturns, ChainInfoReturns, TemplateReturns, Returns, Phase, Live
    <2> QED BY <2>1, <2>2, TickOrStutter
  <1>2. CASE PublicationReturns
    <2>1. PICK d \in PublishDelays : Elapse(d)
      BY <1>2 DEF PublicationReturns, Returns
    <2>2. Phase' = Phase /\ record' = record /\ Live /\ Live'
      BY <1>2 DEF PublicationReturns, Returns, Phase, Live
    <2> QED BY <2>1, <2>2, TickOrStutter
  <1>3. CASE Wakes
    <2>1. Phase' = Phase /\ record' = record /\ Live /\ Live' /\ Elapse(PollInterval)
      BY <1>3 DEF Wakes, Phase, Live
    <2> QED BY <2>1, TickOrStutter
  <1>4. CASE NodeUnavailable \/ NotSynchronized \/ TemplateUnavailable
            \/ PublishTorNotReady \/ PublishFailed
    <2>1. Phase # "over" /\ Phase' = "watching" /\ ~Active'
      BY <1>4 DEF NodeUnavailable, NotSynchronized, TemplateUnavailable, Report,
            PublishTorNotReady, PublishFailed, EndIteration, Phase, Active
    <2> QED BY <2>1 DEF Contract!Next, Contract!Withdraw
  <1>5. CASE Idle \/ RequestTemplate
    <2>1. Phase' = Phase /\ Active' = Active /\ acceptAge' = acceptAge
      <3>1. CASE Idle
        <4>1. record' = record
          <5>1. lastHeight # NoHeight
            <6>1. answer \in ChainInfos
              BY <3>1 DEF Idle, TypeOK, Answers, ChainInfos, Templates, PlainReplies
            <6> QED BY <3>1, <6>1 DEF Idle, NothingToPublish, NodeSyncStatus, ValidHeight,
                      ChainInfos, Heights
          <5> QED BY <3>1, <5>1 DEF Idle, Heartbeat, MemoryInv, Live
        <4> QED BY <3>1, <4>1 DEF Idle, EndIteration, Phase, Active
      <3>2. CASE RequestTemplate
        BY <3>2 DEF RequestTemplate, Phase, Active
      <3> QED BY <1>5, <3>1, <3>2
    <2> QED BY <2>1 DEF Contract!contractVars
  <1>6. CASE BeginPublication
    <2>1. Phase = "watching" /\ Phase' = "publishing" /\ Active' = Active /\ acceptAge' = acceptAge
      <3>1. record = "healthy_active" => lastHeight # NoHeight
        BY DEF ClaimInv
      <3> QED BY <1>6, <3>1 DEF BeginPublication, MemoryInv, Live, Phase, Active
    <2> QED BY <2>1 DEF Contract!Next, Contract!Begin
  <1>7. CASE PublishAnswered
    <2>1. Phase = "publishing" /\ Phase' = "watching"
      BY <1>7 DEF PublishAnswered, EndIteration, Phase
    <2>2. CASE answer.kind = "accepted"
      <3>1. Active' /\ acceptAge' = 0
        BY <1>7, <2>2 DEF PublishAnswered, Active
      <3> QED BY <2>1, <3>1 DEF Contract!Next, Contract!Accept, Active
    <2>3. CASE answer.kind # "accepted"
      <3>1. ~Active'
        BY <1>7, <2>3 DEF PublishAnswered, Active
      <3> QED BY <2>1, <3>1 DEF Contract!Next, Contract!Withdraw, Active
    <2> QED BY <2>2, <2>3
  <1>8. CASE UnexpectedException \/ StorageFails \/ Stopped \/ Killed
    <2>1. PICK s \in {record, "failed", "stopped"} : Terminates(s)
      BY <1>8 DEF UnexpectedException, StorageFails, Stopped, Killed
    <2>2. Phase # "over" /\ Phase' = "over" /\ record' = s /\ acceptAge' = acceptAge
      BY <1>8, <2>1 DEF UnexpectedException, StorageFails, Stopped, Killed, Terminates, Phase
    <2>3. CASE s = record
      BY <2>2, <2>3 DEF Contract!Next, Contract!Finish, Active
    <2>4. CASE s # record
      BY <2>1, <2>2, <2>4 DEF Contract!Next, Contract!Finish, Active
    <2> QED BY <2>3, <2>4
  <1>9. CASE StopSwallowed
    <2>1. Phase' = Phase /\ Phase # "over" /\ Live /\ Live'
      BY <1>9, SwallowedAges DEF Phase, Live
    <2>2. CASE record' = "stopped"
      <3>1. ~Active'
        BY <2>2 DEF Active
      <3> QED BY <2>1, <3>1 DEF Contract!Next, Contract!Withdraw
    <2>3. CASE record' # "stopped"
      <3>1. PICK d \in Nat : Elapse(d) /\ record' = record
        BY <1>9, <2>3, SwallowedCall
      <3> QED BY <2>1, <3>1, TickOrStutter
    <2> QED BY <2>2, <2>3
  <1>10. CASE NodeChanges \/ PoolChanges \/ TorChanges \/ UNCHANGED vars
    <2>1. UNCHANGED loopVars
      BY <1>10 DEF NodeChanges, PoolChanges, TorChanges, vars, loopVars
    <2> QED BY <2>1 DEF loopVars, Contract!contractVars, Phase, Active
  <1> QED
    BY <1>1, <1>2, <1>3, <1>4, <1>5, <1>6, <1>7, <1>8, <1>9, <1>10
       DEF Next, LoopStep, End, Environment

\* The loop, polling, gating, retrying and heartbeating, is an implementation of
\* the lease of SupplierContract with Limit = ActiveGap.
THEOREM Refinement == Spec => ImplementsContract
  <1>1. Spec => Contract!Init /\ [][Contract!Next]_(Contract!contractVars)
    BY ContractInit, ContractStep, ClaimInvariant, PTL DEF Spec
  <1> QED BY <1>1, PTL DEF ImplementsContract, Contract!Spec
=============================================================================
