------------------------ MODULE SensorWatchdogProofs ------------------------
(***************************************************************************)
(* SensorWatchdog for every interval, timeout and latency: a healthy node  *)
(* is never reset, and a dead one always is.  Both follow from one         *)
(* inductive invariant, which relates the last feed to the next expiry of  *)
(* the sensor timer and to the deadlines that time does not pass.  From a  *)
(* second, smaller one: no step publishes within the grace unseen.         *)
(***************************************************************************)
EXTENDS SensorWatchdog, TLAPS

Flags == /\ armed \in BOOLEAN
         /\ hung \in BOOLEAN
         /\ commissioned \in BOOLEAN
         /\ mWasCommissioned \in BOOLEAN
         /\ mShtReady \in BOOLEAN

Times == /\ now \in Nat
         /\ main \in MainPhases
         /\ lastFed \in Nat
         /\ sensorDue \in Nat
         /\ mCommissionedAtMs \in Nat
         /\ lastTrouble \in Nat
         /\ deadFrom \in Nat
         /\ mainFed \in Nat
         /\ commissionedFrom \in Nat

(* The type invariant, split by the prover that handles each part.        *)
LEMMA TypeOKParts == TypeOK <=> Flags /\ Times
BY DEF TypeOK, Flags, Times

(* The initial state is well typed.                                       *)
LEMMA InitTypeOK == Init => TypeOK
<1>1. Init => Flags
  BY Zenon DEF Init, Flags
<1>2. Init => Times
  BY DEF Init, Times, Start, MainPhases
<1> QED
  BY <1>1, <1>2, TypeOKParts

(* Type correctness: no phase, flag or time leaves its range.              *)
THEOREM TypeCorrect == Spec => []TypeOK
<1>1. Init => TypeOK
  BY InitTypeOK
<1>2. TypeOK /\ [Next]_vars => TypeOK'
  <2> SUFFICES ASSUME TypeOK, [Next]_vars PROVE TypeOK'
    OBVIOUS
  <2> USE TimingAssumption DEF TypeOK, MainPhases
  <2>1. CASE StartupFails
    BY <2>1 DEF StartupFails, observed
  <2>2. CASE DiagInitWatchdog
    BY <2>2 DEF DiagInitWatchdog, observed, history
  <2>3. CASE StartTimers
    BY <2>3 DEF StartTimers, observed, history
  <2>4. CASE FirstUpdate
    <3>1. Flags'
      BY <2>4, Zenon DEF FirstUpdate, NoticeFabrics, Flags
    <3>2. Times'
      BY <2>4 DEF FirstUpdate, NoticeFabrics, DiagFeedWatchdog, Times
    <3> QED
      BY <3>1, <3>2 DEF Flags, Times
  <2>5. CASE DispatchUiTask
    BY <2>5 DEF DispatchUiTask, DiagFeedWatchdog, observed, history
  <2>6. ASSUME NEW fetched \in BOOLEAN, SensorWork(fetched) PROVE TypeOK'
    <3>1. Flags'
      BY <2>6, Zenon DEF SensorWork, NoticeFabrics, Flags
    <3>2. lastFed' \in {now, lastFed} /\ lastTrouble' \in {now, lastTrouble}
      BY <2>6, Zenon DEF SensorWork, DiagFeedWatchdog
    <3>3. /\ mCommissionedAtMs' \in {mCommissionedAtMs, now, 0}
          /\ sensorDue' = sensorDue + SensorInterval
          /\ UNCHANGED <<now, main, deadFrom, mainFed, commissionedFrom>>
      BY <2>6, Zenon DEF SensorWork, NoticeFabrics
    <3>4. Times'
      BY <3>2, <3>3 DEF Times
    <3> QED
      BY <3>1, <3>4 DEF Flags, Times
  <2>7. CASE LoseWork
    BY <2>7 DEF LoseWork, observed
  <2>8. CASE Tick
    BY <2>8 DEF Tick, observed, history
  <2>9. CASE MatterHangs
    BY <2>9 DEF MatterHangs, observed
  <2>10. CASE FabricsChange
    BY <2>10 DEF FabricsChange, observed
  <2>11. CASE WatchdogBites
    BY <2>11 DEF WatchdogBites, Reboot, Start
  <2>12. CASE PowerCycle
    BY <2>12 DEF PowerCycle, Reboot, Start
  <2>13. CASE UNCHANGED vars
    BY <2>13 DEF vars, observed, history
  <2> QED
    BY <2>1, <2>2, <2>3, <2>4, <2>5, <2>6, <2>7, <2>8, <2>9, <2>10, <2>11,
       <2>12, <2>13 DEF Next
<1> QED
  BY <1>1, <1>2, PTL DEF Spec

-----------------------------------------------------------------------------
(* The inductive invariant, in parts.                                      *)

\* A running watchdog was fed in this boot, and has not bitten yet.
FedInTime ==
  /\ Start <= now
  /\ armed =>
       Start <= lastFed /\ lastFed <= now /\ now <= lastFed + WdtTimeout

\* The main thread keeps its deadline until it has returned or loops.
StartsInTime ==
  main \in {"init", "armed", "first"} => now <= Start + BootLatency

\* The sensor timer is never more than an interval ahead, and the Matter
\* thread, if it lives, serves it in time.
ServedInTime ==
  TimersRun => /\ sensorDue <= now + SensorInterval
               /\ ~hung => now <= sensorDue + Latency

\* Since the last feed the timer has not been served, unless by trouble.
FedOrTrouble ==
  armed /\ main = "loop" =>
    \/ lastTrouble >= lastFed
    \/ sensorDue <= lastFed + SensorInterval

\* Nothing feeds once the Matter thread hangs or start-up failed, except the
\* main thread as it enters its loop and with every board UI task.
Dead ==
  /\ hung => TimersRun
  /\ deadFrom <= now
  /\ armed /\ (hung \/ main = "exited") =>
       lastFed <= deadFrom \/ lastFed <= mainFed

WatchdogInv ==
  TypeOK /\ FedInTime /\ StartsInTime /\ ServedInTime /\ FedOrTrouble /\ Dead

(* The invariant holds at power-on.                                       *)
LEMMA WatchdogInit == Init => WatchdogInv
<1> SUFFICES ASSUME Init PROVE WatchdogInv
  OBVIOUS
<1>1. main = "init" /\ armed = FALSE /\ hung = FALSE /\ now = 1 /\ deadFrom = 0
  BY DEF Init, Start
<1>2. FedInTime /\ StartsInTime /\ ServedInTime /\ FedOrTrouble /\ Dead
  BY <1>1, TimingAssumption DEF FedInTime, StartsInTime, ServedInTime,
    FedOrTrouble, Dead, TimersRun, Start
<1> QED
  BY <1>2, InitTypeOK DEF WatchdogInv

(* Every step keeps the invariant.                                        *)
LEMMA WatchdogStep == WatchdogInv /\ TypeOK' /\ [Next]_vars => WatchdogInv'
<1> SUFFICES ASSUME WatchdogInv, TypeOK', [Next]_vars PROVE WatchdogInv'
  OBVIOUS
<1> USE TimingAssumption DEF WatchdogInv, TypeOK, MainPhases, FedInTime,
    StartsInTime, ServedInTime, FedOrTrouble, Dead, TimersRun, Start
<1>1. CASE StartupFails
  BY <1>1 DEF StartupFails
<1>2. CASE DiagInitWatchdog
  <2>1. /\ main = "init" /\ main' = "armed"
        /\ UNCHANGED <<now, sensorDue, hung, deadFrom, mainFed>>
    BY <1>2 DEF DiagInitWatchdog, history
  <2>2. lastFed' = now \/ UNCHANGED <<armed, lastFed>>
    BY <1>2 DEF DiagInitWatchdog
  <2>3. FedInTime'
    <3>1. lastFed' = now => FedInTime'
      BY <2>1
    <3>2. UNCHANGED <<armed, lastFed, now>> => FedInTime'
      <4> SUFFICES ASSUME UNCHANGED <<armed, lastFed, now>> PROVE FedInTime'
        OBVIOUS
      <4>1. lastFed' = lastFed /\ now' = now
        OBVIOUS
      <4>2. armed' => armed
        BY Zenon
      <4> QED
        BY <4>1, <4>2
    <3> QED
      BY <2>1, <2>2, <3>1, <3>2
  <2>4. StartsInTime' /\ ServedInTime' /\ FedOrTrouble'
    BY <2>1
  <2>5. Dead'
    BY <2>1
  <2> QED
    BY <2>3, <2>4, <2>5
<1>3. CASE StartTimers
  BY <1>3 DEF StartTimers, history
<1>4. CASE FirstUpdate
  BY <1>4 DEF FirstUpdate, DiagFeedWatchdog
<1>5. CASE DispatchUiTask
  BY <1>5 DEF DispatchUiTask, DiagFeedWatchdog, history
<1>6. ASSUME NEW fetched \in BOOLEAN, SensorWork(fetched) PROVE WatchdogInv'
  <2>1. /\ TimersRun /\ ~hung /\ now >= sensorDue
        /\ sensorDue' = sensorDue + SensorInterval
        /\ UNCHANGED <<now, main, armed, hung, deadFrom, mainFed>>
    BY <1>6 DEF SensorWork
  <2>2. \/ lastFed' = (IF armed THEN now ELSE lastFed) /\ lastTrouble' = lastTrouble
        \/ lastFed' = lastFed /\ lastTrouble' = now
    BY <1>6, Zenon DEF SensorWork, DiagFeedWatchdog
  <2>3. ~armed => ~armed'
    BY <2>1, Zenon
  <2>4. FedInTime' /\ FedOrTrouble'
    <3>1. CASE ~armed
      BY <2>1, <2>3, <3>1
    <3>2. CASE armed
      <4>1. \/ lastFed' = now
            \/ lastFed' = lastFed /\ lastTrouble' = now
        BY <2>2, <3>2
      <4>2. now' = now /\ sensorDue' = sensorDue + SensorInterval
        BY <2>1
      <4>3. sensorDue <= now + SensorInterval /\ sensorDue <= now
        BY <2>1
      <4>4. Start <= lastFed /\ lastFed <= now /\ now <= lastFed + WdtTimeout
        BY <3>2
      <4>5. /\ now \in Nat /\ lastFed \in Nat /\ sensorDue \in Nat
            /\ SensorInterval \in Nat /\ WdtTimeout \in Nat
        OBVIOUS
      <4> HIDE DEF WatchdogInv, TypeOK, FedInTime, FedOrTrouble, ServedInTime,
            StartsInTime, Dead
      <4>6. /\ Start <= lastFed' /\ lastFed' <= now' /\ now' <= lastFed' + WdtTimeout
            /\ Start <= now'
        BY <4>1, <4>2, <4>4, <4>5
      <4>7. lastTrouble' >= lastFed' \/ sensorDue' <= lastFed' + SensorInterval
        BY <4>1, <4>2, <4>3, <4>4, <4>5
      <4> QED
        BY ONLY <4>6, <4>7 DEF FedInTime, FedOrTrouble
    <3> QED
      BY <3>1, <3>2
  <2>5. StartsInTime' /\ ServedInTime'
    BY <2>1
  <2>6. Dead'
    BY <2>1
  <2> QED
    BY <2>4, <2>5, <2>6
<1>7. CASE LoseWork
  BY <1>7 DEF LoseWork
<1>8. CASE Tick
  BY <1>8 DEF Tick, history
<1>9. CASE MatterHangs
  BY <1>9 DEF MatterHangs
<1>10. CASE FabricsChange
  BY <1>10 DEF FabricsChange
<1>11. CASE WatchdogBites
  BY <1>11 DEF WatchdogBites, Reboot
<1>12. CASE PowerCycle
  BY <1>12 DEF PowerCycle, Reboot
<1>13. CASE UNCHANGED vars
  BY <1>13 DEF vars, history
<1> QED
  BY <1>1, <1>2, <1>3, <1>4, <1>5, <1>6, <1>7, <1>8, <1>9, <1>10, <1>11,
     <1>12, <1>13 DEF Next

(* The parts above hold in every reachable state.                          *)
THEOREM WatchdogInvariant == Spec => []WatchdogInv
<1> QED
  BY WatchdogInit, WatchdogStep, TypeCorrect, PTL DEF Spec

-----------------------------------------------------------------------------
(* A healthy node never comes to a watchdog reset, if the timeout is longer *)
(* than the gap between two samples and than the start-up: the constants    *)
(* of a build have to satisfy this, and nothing in the source checks it.    *)
THEOREM HealthyNotReset ==
  ASSUME WdtTimeout > SensorInterval + Latency, WdtTimeout > BootLatency
  PROVE  Spec => []TimeoutNeedsTrouble
<1>1. WatchdogInv => TimeoutNeedsTrouble
  BY TimingAssumption DEF WatchdogInv, TypeOK, MainPhases, FedInTime, StartsInTime,
    ServedInTime, FedOrTrouble, TimersRun, Start, TimedOut, TimeoutNeedsTrouble
<1> QED
  BY <1>1, WatchdogInvariant, PTL

(* A dead node does not outlive the watchdog, whatever the constants.       *)
THEOREM DeadNodeReset == Spec => []DeadDeviceReset
<1>1. WatchdogInv => DeadDeviceReset
  BY TimingAssumption DEF WatchdogInv, TypeOK, FedInTime, Dead, DeadDeviceReset,
    Later
<1> QED
  BY <1>1, WatchdogInvariant, PTL

-----------------------------------------------------------------------------
(* The grace.  Any commissioning that UpdateSensorReadings noticed in this  *)
(* boot has its time, past 0, which stands for none.                        *)

GraceInv ==
  /\ Start <= now
  /\ commissionedFrom <= now
  /\ mWasCommissioned => mCommissionedAtMs > 0

(* A commissioning that is noticed is given its time, which is never 0.     *)
LEMMA NoticedWithTime ==
  ASSUME TypeOK, GraceInv, NoticeFabrics
  PROVE  mWasCommissioned' => mCommissionedAtMs' > 0
<1>1. CASE commissioned = mWasCommissioned
  <2>1. mWasCommissioned' = mWasCommissioned /\ mCommissionedAtMs' = mCommissionedAtMs
    BY <1>1, Zenon DEF NoticeFabrics
  <2> QED
    BY <2>1 DEF GraceInv
<1>2. CASE commissioned # mWasCommissioned /\ commissioned
  <2>1. mCommissionedAtMs' = now
    BY <1>2, Zenon DEF NoticeFabrics
  <2> QED
    BY <2>1 DEF GraceInv, TypeOK, Start
<1>3. CASE ~commissioned
  <2>1. ~mWasCommissioned'
    BY <1>3, Zenon DEF NoticeFabrics
  <2> QED
    BY <2>1
<1> QED
  BY <1>1, <1>2, <1>3, Zenon

(* Every step keeps the invariant.                                          *)
LEMMA GraceStep == TypeOK /\ GraceInv /\ [Next]_vars => GraceInv'
<1> SUFFICES ASSUME TypeOK, GraceInv, [Next]_vars PROVE GraceInv'
  OBVIOUS
<1> USE DEF TypeOK, GraceInv, observed, history
<1>1. CASE StartupFails \/ DiagInitWatchdog \/ StartTimers
  BY <1>1 DEF StartupFails, DiagInitWatchdog, StartTimers
<1>2. CASE FirstUpdate
  <2>1. UNCHANGED <<now, commissionedFrom>> /\ NoticeFabrics
    BY <1>2 DEF FirstUpdate
  <2> QED
    BY <2>1, NoticedWithTime
<1>3. CASE DispatchUiTask \/ LoseWork \/ MatterHangs
  BY <1>3 DEF DispatchUiTask, LoseWork, MatterHangs
<1>4. ASSUME NEW fetched \in BOOLEAN, SensorWork(fetched) PROVE GraceInv'
  <2>1. UNCHANGED <<now, commissionedFrom>> /\ NoticeFabrics
    BY <1>4 DEF SensorWork
  <2> QED
    BY <2>1, NoticedWithTime
<1>5. CASE Tick
  <2>1. now' = now + 1 /\ UNCHANGED <<commissionedFrom, mCommissionedAtMs, mWasCommissioned>>
    BY <1>5 DEF Tick
  <2>2. mWasCommissioned' => mCommissionedAtMs > 0
    BY <2>1, Zenon
  <2>3. Start <= now' /\ commissionedFrom' <= now'
    BY <2>1 DEF Start
  <2> QED
    BY <2>1, <2>2, <2>3
<1>6. CASE FabricsChange
  BY <1>6 DEF FabricsChange
<1>7. CASE WatchdogBites \/ PowerCycle
  BY <1>7 DEF WatchdogBites, PowerCycle, Reboot, Start
<1>8. CASE UNCHANGED vars
  BY <1>8 DEF vars
<1> QED
  BY <1>1, <1>2, <1>3, <1>4, <1>5, <1>6, <1>7, <1>8 DEF Next

(* Only a work item that sampled publishes without being forced to.         *)
LEMMA OnlySampledWorkPublishes ==
  ASSUME TypeOK, [Next]_vars, PublishedUnforced
  PROVE  /\ NoticeFabrics
         /\ commissioned
         /\ ~InGrace(mCommissionedAtMs')
<1> USE DEF TypeOK, PublishedUnforced, observed, history
<1>1. CASE StartupFails \/ DiagInitWatchdog \/ StartTimers
  BY <1>1 DEF StartupFails, DiagInitWatchdog, StartTimers, MainPhases
<1>2. CASE FirstUpdate \/ DispatchUiTask \/ Tick \/ MatterHangs \/ FabricsChange
  BY <1>2 DEF FirstUpdate, DispatchUiTask, Tick, MatterHangs, FabricsChange
<1>3. ASSUME NEW fetched \in BOOLEAN, SensorWork(fetched)
      PROVE  NoticeFabrics /\ commissioned /\ ~InGrace(mCommissionedAtMs')
  <2>1. NoticeFabrics /\ (Samples(FALSE, fetched) \/ lastTrouble' = now)
    BY <1>3 DEF SensorWork
  <2>2. lastTrouble' # now
    OBVIOUS
  <2> QED
    BY <2>1, <2>2 DEF Samples
<1>4. CASE LoseWork
  BY <1>4 DEF LoseWork
<1>5. CASE WatchdogBites \/ PowerCycle
  BY <1>5 DEF WatchdogBites, PowerCycle, Reboot
<1>6. CASE UNCHANGED vars
  BY <1>6 DEF vars
<1> QED
  BY <1>1, <1>2, <1>3, <1>4, <1>5, <1>6 DEF Next

(* The grace after a commissioning is kept, unless the node was decommis-   *)
(* sioned and commissioned again between two work items, so that the Matter *)
(* thread never saw the change: the one case in which a sample is published *)
(* in a grace, for every interval and every grace.                          *)
THEOREM GraceKept == Spec => GraceKeptUnlessUnseen
<1>1. Init => GraceInv
  BY DEF Init, GraceInv, Start
<1>2. ASSUME TypeOK, GraceInv, [Next]_vars, PublishedUnforced,
             now < commissionedFrom + CommissionGrace
      PROVE  mWasCommissioned /\ mCommissionedAtMs < commissionedFrom
  <2>1. /\ NoticeFabrics
        /\ commissioned
        /\ ~InGrace(mCommissionedAtMs')
    BY <1>2, OnlySampledWorkPublishes
  <2>2. /\ now \in Nat /\ commissionedFrom \in Nat /\ CommissionGrace \in Nat
        /\ mCommissionedAtMs \in Nat /\ now > 0 /\ commissionedFrom <= now
    BY <1>2, TimingAssumption DEF TypeOK, GraceInv, Start
  <2>3. mWasCommissioned
    <3>1. SUFFICES ASSUME ~mWasCommissioned PROVE FALSE
      OBVIOUS
    <3>2. mCommissionedAtMs' = now
      BY <2>1, <3>1, <1>2, Zenon DEF NoticeFabrics, TypeOK
    <3>3. now < now + CommissionGrace
      BY <1>2, <2>2
    <3> QED
      BY <2>1, <2>2, <3>2, <3>3 DEF InGrace
  <2>4. mCommissionedAtMs' = mCommissionedAtMs
    <3>1. commissioned = mWasCommissioned
      BY <1>2, <2>1, <2>3, Zenon DEF TypeOK
    <3> QED
      BY <2>1, <3>1, Zenon DEF NoticeFabrics
  <2>5. mCommissionedAtMs > 0
    BY <1>2, <2>3 DEF GraceInv
  <2>6. now >= mCommissionedAtMs + CommissionGrace
    BY <2>1, <2>2, <2>4, <2>5 DEF InGrace
  <2>7. mCommissionedAtMs < commissionedFrom
    BY <1>2, <2>2, <2>6
  <2> QED
    BY <2>3, <2>7
<1>3. TypeOK /\ GraceInv /\ [Next]_vars =>
        [PublishedUnforced /\ now < commissionedFrom + CommissionGrace
           => mWasCommissioned /\ mCommissionedAtMs < commissionedFrom]_vars
  BY <1>2
<1> QED
  BY <1>1, <1>3, GraceStep, TypeCorrect, PTL DEF Spec, GraceKeptUnlessUnseen

=============================================================================
