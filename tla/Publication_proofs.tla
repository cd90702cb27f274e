------------------------- MODULE Publication_proofs -------------------------
(* The invariants of Publication for every deadline, probe timeout, set of      *)
(* network modes and behaviour of the disk.                                     *)
EXTENDS Publication, TLAPS

\* What each kind of step does with the step and the outcome of the call.
LEMMA RaisesCases ==
    ASSUME NEW o, Raises(o)
    PROVE  /\ outcome' = o
           /\ Posting => step' = "disarm"
           /\ ~Posting => step' = IF o = "exit" THEN "ended" ELSE "idle"
           /\ UNCHANGED <<network, handler, saved, spent, pool>>
  BY DEF Raises, Leaves

\* What may come of an exception, by where it strikes.
LEMMA FailuresCases ==
    /\ Failures \subseteq {"tor_not_ready", "publish_error", "exit"}
    /\ "tor_not_ready" \in Failures => step = "probe"
    /\ step \notin {"probe", "prepare"} => Failures = {"publish_error"}
  BY DEF Failures

\* The assumptions the steps use.
LEMMA Times == /\ Deadline \in Nat /\ Deadline > 0
               /\ ProbeTimeout \in Nat
  BY PublicationAssumption

-----------------------------------------------------------------------------
(* Types. The timer never has more left than a whole deadline, and a call never *)
(* arms it later than the probe's timeout.                                      *)

LEMMA SavedFields ==
    ASSUME saved \in Saveds
    PROVE  /\ saved.handler \in {"default", "expire"}
           /\ saved.delay \in 0..Deadline
           /\ saved.started \in 0..Limit
  BY DEF Saveds

LEMMA ArmSaves ==
    ASSUME timer \in Off..Deadline, handler \in {"default", "expire"},
           spent \in 0..Limit, Arm
    PROVE  saved' \in Saveds /\ saved'.started = spent /\ (timer = Off => saved'.delay = 0)
  <1>1. (IF timer = Off THEN 0 ELSE timer) \in 0..Deadline
    BY Times DEF Off
  <1> QED
    BY <1>1 DEF Arm, Saveds

TimesBounded ==
    /\ step \in {"probe", "prepare"} => spent <= ProbeTimeout
    /\ step \in {"arm", "armed"} \/ Posting \/ Finally => saved.started <= spent

TypeInv == PublicationTypeOK /\ TimesBounded

LEMMA TypeInit == Init => TypeInv
  <1> SUFFICES ASSUME Init PROVE TypeInv
    OBVIOUS
  <1>1. network \in {"tor", "clearnet"}
    BY PublicationAssumption DEF Init
  <1>2. saved \in Saveds /\ saved.started = 0
    BY Times DEF Init, Saveds, Limit
  <1>3. PublicationTypeOK
    BY <1>1, <1>2, Times DEF Init, PublicationTypeOK, Outcomes, Steps, Off, Limit
  <1> QED
    BY <1>2, <1>3 DEF Init, TypeInv, TimesBounded

LEMMA TypeStep == TypeInv /\ [Next]_vars => TypeInv'
  <1> SUFFICES ASSUME TypeInv, [Next]_vars PROVE TypeInv'
    OBVIOUS
  <1> USE Times, SavedFields
      DEF TypeInv, PublicationTypeOK, TimesBounded, Outcomes, Steps, Off, Limit, alarmVars,
          Posting, Finally
  <1>1. CASE Begin
    BY <1>1 DEF Begin
  <1>2. CASE Probes
    BY <1>2 DEF Probes, Leaves
  <1>12. CASE Arm
    <2>1. saved' \in Saveds /\ saved'.started = spent
      BY <1>12, ArmSaves DEF Arm
    <2> QED
      BY <1>12, <2>1 DEF Arm
  <1>13. CASE SetTimer \/ Enter
    BY <1>13 DEF SetTimer, Enter
  <1>3. CASE Sends
    BY <1>3 DEF Sends
  <1>4. CASE Answered \/ Fails
    BY <1>4 DEF Answered, Fails, Ends
  <1>5. CASE Disarm
    BY <1>5 DEF Disarm
  <1>6. CASE Restore
    <2>1. Rest \in Off..Deadline
      BY <1>6 DEF Rest, Restore
    <2> QED
      BY <1>6, <2>1 DEF Restore, Leaves, Surfaces
  <1>7. CASE AlarmGoesOff
    <2>1. PICK o \in Failures : Raises(o)
      BY <1>7 DEF AlarmGoesOff
    <2>2. step' \in {"disarm", "idle", "ended"} /\ outcome' \in Outcomes
      BY <2>1, RaisesCases, FailuresCases
    <2>3. UNCHANGED <<network, handler, saved, spent, pool>>
      BY <2>1, RaisesCases
    <2>4. step' = "disarm" => Posting
      BY <2>1, RaisesCases
    <2>5. timer' \in Off..Deadline
      BY <1>7 DEF AlarmGoesOff
    <2> QED
      BY <1>7, <2>2, <2>3, <2>4, <2>5 DEF AlarmGoesOff
  <1>8. CASE LateAlarm \/ StopArrives \/ PoolDecides
    BY <1>8 DEF LateAlarm, StopArrives, PoolDecides
  <1>9. CASE StopExits \/ StopFails
    <2>1. PICK o \in Failures \cup {"exit"} : Raises(o)
      BY <1>9 DEF StopExits, StopFails
    <2>2. step' \in {"disarm", "idle", "ended"} /\ outcome' \in Outcomes
      BY <2>1, RaisesCases, FailuresCases
    <2>3. /\ UNCHANGED <<network, handler, saved, spent, pool>>
          /\ step' = "disarm" => Posting
      BY <2>1, RaisesCases
    <2>4. stop' \in {"exiting", "failed"} /\ leak' \in {"never", "once"}
          /\ UNCHANGED <<timer, alarm>>
      BY <1>9 DEF StopExits, StopFails
    <2> QED
      BY <2>2, <2>3, <2>4
  <1>10. CASE TimePasses
    BY <1>10 DEF TimePasses, Blocked
  <1>11. CASE UNCHANGED vars
    BY <1>11 DEF vars
  <1> QED
    BY <1>1, <1>2, <1>3, <1>4, <1>5, <1>6, <1>7, <1>8, <1>9, <1>10, <1>11, <1>12, <1>13
       DEF Next, Thread, Handlers

\* Every variable of Publication keeps its type.
THEOREM PublicationTypeCorrect == Spec => []PublicationTypeOK
  <1>1. TypeInv => PublicationTypeOK
    BY DEF TypeInv
  <1> QED
    BY <1>1, TypeInit, TypeStep, PTL DEF Spec

-----------------------------------------------------------------------------
(* The deadline. Once it is set the timer runs while the POST is out, and what  *)
(* it has left and what was spent never exceed the bound together.              *)

TimerCovers ==
    /\ step = "armed" \/ Posting => timer # Off /\ spent + timer <= Limit
    /\ step = "disarm" /\ timer # Off => spent + timer <= Limit
    /\ step = "arm" => spent <= ProbeTimeout
    /\ spent <= Limit

LEMMA TimerInit == Init => TimerCovers
  BY Times DEF Init, TimerCovers, Posting, Limit

LEMMA TimerStep == TypeInv /\ TimerCovers /\ [Next]_vars => TimerCovers'
  <1> SUFFICES ASSUME TypeInv, TimerCovers, [Next]_vars PROVE TimerCovers'
    OBVIOUS
  <1> USE Times
      DEF TypeInv, PublicationTypeOK, TimesBounded, TimerCovers, Posting, Off, Limit, alarmVars
  <1>1. CASE Begin
    BY <1>1 DEF Begin
  <1>2. CASE Probes \/ Arm \/ SetTimer \/ Enter
    BY <1>2 DEF Probes, Leaves, Arm, SetTimer, Enter
  <1>3. CASE Sends
    BY <1>3 DEF Sends
  <1>4. CASE Answered \/ Fails
    BY <1>4 DEF Answered, Fails, Ends
  <1>5. CASE Disarm
    BY <1>5 DEF Disarm
  <1>6. CASE Restore
    BY <1>6 DEF Restore, Leaves
  <1>7. CASE AlarmGoesOff \/ StopExits \/ StopFails
    <2>1. /\ step' \in {"disarm", "idle", "ended"} /\ spent' = spent
          /\ step' = "disarm" => Posting
      BY <1>7, RaisesCases DEF AlarmGoesOff, StopExits, StopFails
    <2>2. CASE AlarmGoesOff
      <3>1. step' = "disarm" => timer' = Off
        BY <2>1, <2>2 DEF AlarmGoesOff
      <3> QED
        BY <2>1, <3>1
    <2>3. CASE StopExits \/ StopFails
      <3>1. timer' = timer
        BY <2>3 DEF StopExits, StopFails
      <3> QED
        BY <2>1, <3>1
    <2> QED
      BY <1>7, <2>2, <2>3
  <1>8. CASE LateAlarm \/ StopArrives \/ PoolDecides
    BY <1>8 DEF LateAlarm, StopArrives, PoolDecides
  <1>9. CASE TimePasses
    BY <1>9 DEF TimePasses, Blocked
  <1>10. CASE UNCHANGED vars
    BY <1>10 DEF vars
  <1> QED
    BY <1>1, <1>2, <1>3, <1>4, <1>5, <1>6, <1>7, <1>8, <1>9, <1>10
       DEF Next, Thread, Handlers

\* However the answer trickles in, a publication does not outlast ProbeTimeout +
\* Deadline: the bound SupplierLoop takes for PublishTimeout.
THEOREM DeadlineIsKept == Spec => []DeadlineKept
  <1>1. TimerCovers => DeadlineKept
    BY DEF TimerCovers, DeadlineKept
  <1> QED
    BY <1>1, TypeInit, TypeStep, TimerInit, TimerStep, PTL DEF Spec

-----------------------------------------------------------------------------
(* The verdict. Nothing is sent before the POST, and the outcome of a call is   *)
(* not an answer before one was read.                                           *)

Honest ==
    /\ VerdictIsPools
    /\ step = "probe" \/ Arming \/ step = "request" => pool = "none"
    /\ step = "probe" \/ Arming \/ Posting => outcome = "none"

LEMMA HonestInit == Init => Honest
  BY DEF Init, Honest, VerdictIsPools, Arming, Posting

LEMMA HonestStep == Honest /\ [Next]_vars => Honest'
  <1> SUFFICES ASSUME Honest, [Next]_vars PROVE Honest'
    OBVIOUS
  <1> USE DEF Honest, VerdictIsPools, Posting, Arming
  <1>1. CASE Begin
    BY <1>1 DEF Begin
  <1>2. CASE Probes \/ Arm \/ SetTimer \/ Enter
    BY <1>2 DEF Probes, Leaves, Arm, SetTimer, Enter
  <1>3. CASE Sends
    BY <1>3 DEF Sends
  <1>4. CASE Answered \/ Fails
    BY <1>4 DEF Answered, Fails, Ends
  <1>5. CASE Disarm
    BY <1>5 DEF Disarm
  <1>6. CASE Restore
    BY <1>6 DEF Restore, Leaves, Surfaces
  <1>7. CASE AlarmGoesOff \/ StopExits \/ StopFails
    <2>1. PICK o \in {"exit"} \cup Failures : Raises(o)
      BY <1>7 DEF AlarmGoesOff, StopExits, StopFails
    <2>2. /\ outcome' = o
          /\ step' \in {"disarm", "idle", "ended"}
          /\ pool' = pool
      BY <2>1, RaisesCases
    <2>3. o = "tor_not_ready" => pool = "none"
      BY <2>1, FailuresCases
    <2>4. o \notin {"accepted", "refused"}
      BY <2>1, FailuresCases
    <2> QED
      BY <2>2, <2>3, <2>4
  <1>8. CASE LateAlarm \/ StopArrives \/ TimePasses
    BY <1>8 DEF LateAlarm, StopArrives, TimePasses
  <1>9. CASE PoolDecides
    BY <1>9 DEF PoolDecides
  <1>10. CASE UNCHANGED vars
    BY <1>10 DEF vars
  <1> QED
    BY <1>1, <1>2, <1>3, <1>4, <1>5, <1>6, <1>7, <1>8, <1>9, <1>10
       DEF Next, Thread, Handlers

\* What the loop is told is what the pool decided on this very POST.
THEOREM VerdictIsThePools == Spec => []VerdictIsPools
  <1>1. Honest => VerdictIsPools
    BY DEF Honest
  <1> QED
    BY <1>1, HonestInit, HonestStep, PTL DEF Spec

-----------------------------------------------------------------------------
(* Stops. The handler runs only in a call; the SystemExit it raises is on its   *)
(* way out or has ended the process.                                            *)

StopTraced ==
    /\ stop = "running" => Blocked \/ Arming \/ Finally
    /\ stop = "exiting" => (Finally /\ outcome = "exit") \/ step = "ended"
    /\ stop = "cut" => alarm = "fired"

LEMMA StopInit == Init => StopTraced
  BY DEF Init, StopTraced

LEMMA StopStep == PublicationTypeOK /\ StopTraced /\ [Next]_vars => StopTraced'
  <1> SUFFICES ASSUME PublicationTypeOK, StopTraced, [Next]_vars PROVE StopTraced'
    OBVIOUS
  <1> USE DEF StopTraced, Blocked, Arming, Finally, Posting
  <1>1. CASE Begin
    BY <1>1 DEF Begin
  <1>2. CASE Probes \/ Arm \/ SetTimer \/ Enter
    BY <1>2 DEF Probes, Leaves, Arm, SetTimer, Enter, Uninterrupted
  <1>3. CASE Sends
    BY <1>3 DEF Sends, Uninterrupted
  <1>4. CASE Answered \/ Fails
    BY <1>4 DEF Answered, Fails, Ends, Uninterrupted
  <1>5. CASE Disarm
    BY <1>5 DEF Disarm, Uninterrupted
  <1>6. CASE Restore
    BY <1>6 DEF Restore, Leaves, Surfaces, Uninterrupted
  <1>7. CASE AlarmGoesOff
    BY <1>7, RaisesCases DEF AlarmGoesOff
  <1>8. CASE StopExits
    BY <1>8, RaisesCases DEF StopExits
  <1>9. CASE StopFails
    BY <1>9 DEF StopFails
  <1>10. CASE LateAlarm \/ StopArrives \/ PoolDecides \/ TimePasses
    BY <1>10 DEF LateAlarm, StopArrives, PoolDecides, TimePasses
  <1>11. CASE UNCHANGED vars
    BY <1>11 DEF vars
  <1> QED
    BY <1>1, <1>2, <1>3, <1>4, <1>5, <1>6, <1>7, <1>8, <1>9, <1>10, <1>11
       DEF Next, Thread, Handlers

\* A stop taken inside publish ends the process unless the alarm cut it short or
\* its write failed.
THEOREM StopEndsTheProcess == Spec => []StopEndsProcess
  <1>1. PublicationTypeOK /\ StopTraced => StopEndsProcess
    BY DEF PublicationTypeOK, StopTraced, StopEndsProcess, Blocked, Arming, Finally
  <1> QED
    BY <1>1, StopInit, StopStep, PublicationTypeCorrect, PTL DEF Spec

-----------------------------------------------------------------------------
(* The alarm belongs to the call. Unless it was leaked, the timer is off outside *)
(* the POST and its finally clause, so no call finds one to save.                *)

Owned ==
    leak = "never" =>
        /\ step \in {"idle", "probe", "prepare", "arm", "restore"} => timer = Off
        /\ saved.delay = 0
        /\ step = "armed" \/ Posting => spent + timer >= Deadline
        /\ step = "disarm" /\ timer # Off => spent + timer >= Deadline
        /\ alarm = "fired" => spent >= Deadline
        /\ step \in {"probe", "prepare", "arm", "armed"} => alarm = "quiet"

LEMMA OwnedInit == Init => Owned
  BY DEF Init, Owned, Posting

LEMMA OwnedStep == TypeInv /\ TimerCovers /\ StopTraced /\ Owned /\ [Next]_vars => Owned'
  <1> SUFFICES ASSUME TypeInv, TimerCovers, StopTraced, Owned, [Next]_vars, leak' = "never"
               PROVE  Owned'
    BY DEF Owned
  <1> USE Times
      DEF TypeInv, PublicationTypeOK, TimesBounded, TimerCovers, Owned, Posting, Off, Limit,
          alarmVars
  <1>0. leak = "never"
    BY DEF Next, Thread, Handlers, Begin, Probes, Arm, SetTimer, Enter, Sends, Answered, Fails,
           Ends, Disarm, Restore, AlarmGoesOff, LateAlarm, StopArrives, StopExits, StopFails,
           PoolDecides, TimePasses, vars
  <1>1. CASE Begin
    BY <1>0, <1>1 DEF Begin
  <1>2. CASE Probes \/ SetTimer \/ Enter
    BY <1>0, <1>2 DEF Probes, Leaves, SetTimer, Enter
  <1>12. CASE Arm
    <2>1. spent \in 0..Limit /\ timer = Off /\ step = "prepare"
      BY <1>0, <1>12 DEF Arm
    <2>2. saved'.delay = 0
      BY <1>12, <2>1, ArmSaves
    <2>3. step' = "arm" /\ timer' = timer /\ alarm' = alarm
      BY <1>12 DEF Arm
    <2> QED
      BY <1>0, <2>1, <2>2, <2>3
  <1>3. CASE Sends
    BY <1>0, <1>3 DEF Sends
  <1>4. CASE Answered \/ Fails
    BY <1>0, <1>4 DEF Answered, Fails, Ends
  <1>5. CASE Disarm
    BY <1>0, <1>5 DEF Disarm
  <1>6. CASE Restore
    BY <1>0, <1>6 DEF Restore, Rest, Leaves
  <1>7. CASE AlarmGoesOff
    <2>1. step \in {"armed", "request", "response", "disarm"}
      BY <1>0, <1>7 DEF AlarmGoesOff, Blocked, Arming, Finally
    <2>2. Raises("publish_error") /\ timer' = Off
      BY <1>7, <2>1, FailuresCases DEF AlarmGoesOff
    <2>3. step' \in {"disarm", "idle"} /\ spent' = spent /\ saved' = saved
      BY <2>2, RaisesCases
    <2>4. spent >= Deadline
      BY <1>0, <1>7, <2>1 DEF AlarmGoesOff
    <2> QED
      BY <1>0, <1>7, <2>2, <2>3, <2>4 DEF AlarmGoesOff
  <1>8. CASE StopExits \/ StopFails
    <2>1. /\ timer' = timer /\ alarm' = alarm /\ spent' = spent /\ saved' = saved
          /\ step \in {"request", "response"} => step' = "disarm"
          /\ step \notin {"request", "response"} => step' \in {"idle", "ended"}
      BY <1>8, RaisesCases DEF StopExits, StopFails
    <2>2. CASE step \in {"request", "response"}
      BY <1>0, <2>1, <2>2
    <2>3. CASE step \in {"probe", "prepare", "arm", "restore"}
      BY <1>0, <2>1, <2>3
    <2>4. CASE step \in {"armed", "disarm"}
      <3>1. CASE StopFails
        <4>1. timer = Off
          BY <2>4, <3>1 DEF StopFails
        <4> QED
          BY <1>0, <2>1, <2>4, <4>1
      <3>2. CASE StopExits
        <4>1. step' = "ended"
          BY <2>4, <3>2, RaisesCases DEF StopExits
        <4> QED
          BY <1>0, <2>1, <4>1
      <3> QED
        BY <1>8, <3>1, <3>2
    <2>5. CASE step \in {"idle", "ended"}
      BY <1>8, <2>5 DEF StopExits, StopFails, StopTraced, Blocked, Arming, Finally
    <2> QED
      BY <2>2, <2>3, <2>4, <2>5 DEF Steps
  <1>9. CASE LateAlarm \/ StopArrives \/ PoolDecides
    BY <1>0, <1>9 DEF LateAlarm, StopArrives, PoolDecides
  <1>10. CASE TimePasses
    BY <1>0, <1>10 DEF TimePasses, Blocked
  <1>11. CASE UNCHANGED vars
    BY <1>0, <1>11 DEF vars
  <1> QED
    BY <1>1, <1>2, <1>3, <1>4, <1>5, <1>6, <1>7, <1>8, <1>9, <1>10, <1>11, <1>12
       DEF Next, Thread, Handlers

\* The alarm goes off neither early nor outside the call it was set for, until a stop's
\* write has failed while the timer ran outside the try of pyblock.py:77.
THEOREM AlarmBelongsToItsCall == Spec => []AlarmIsOwn
  <1>1. Owned => AlarmIsOwn
    BY DEF Owned, AlarmIsOwn
  <1> QED
    <2>1. TypeInv => PublicationTypeOK
      BY DEF TypeInv
    <2> QED
      BY <1>1, <2>1, TypeInit, TypeStep, TimerInit, TimerStep, StopInit, StopStep, OwnedInit,
         OwnedStep, PTL DEF Spec

\* In the finally clause only a stop and the alarm change the outcome.
LEMMA FinallyKeeps ==
    ASSUME [Next]_vars, Finally, outcome' # outcome,
           outcome \in {"accepted", "refused"}
    PROVE  \/ stop' # "none"
           \/ alarm' = "fired" /\ spent' = spent /\ (leak' = "never" <=> leak = "never")
  <1> USE DEF Finally, alarmVars
  <1>1. ~(Begin \/ Probes \/ Arm \/ SetTimer \/ Enter \/ Sends \/ Answered \/ Fails)
    BY DEF Begin, Probes, Arm, SetTimer, Enter, Sends, Answered, Fails, Posting
  <1>2. ~(Disarm \/ Restore \/ LateAlarm \/ StopArrives \/ PoolDecides \/ TimePasses
          \/ UNCHANGED vars)
    BY DEF Disarm, Restore, Leaves, Surfaces, LateAlarm, StopArrives, PoolDecides, TimePasses, vars
  <1>3. CASE AlarmGoesOff
    BY <1>3, RaisesCases DEF AlarmGoesOff
  <1>4. CASE StopExits \/ StopFails
    BY <1>4 DEF StopExits, StopFails
  <1> QED
    BY <1>1, <1>2, <1>3, <1>4 DEF Next, Thread, Handlers

\* An answer that was read is lost to a stop or to a deadline that has passed, and to
\* nothing else.
THEOREM AnswersAreTold == Spec => AnswerIsTold
  <1>1. Owned' /\ [Next]_vars =>
          [Finally /\ outcome \in {"accepted", "refused"} /\ outcome' # outcome =>
              \/ stop' # "none"
              \/ alarm' = "fired" /\ (leak = "never" => spent >= Deadline)]_vars
    BY FinallyKeeps DEF Owned
  <1> QED
    <2>1. TypeInv => PublicationTypeOK
      BY DEF TypeInv
    <2> QED
      BY <1>1, <2>1, TypeInit, TypeStep, TimerInit, TimerStep, StopInit, StopStep, OwnedInit,
         OwnedStep, PTL DEF Spec, AnswerIsTold
=============================================================================
