----------------------- MODULE CommissioningHoldProofs -----------------------
(***************************************************************************)
(* CommissioningHold for every period, latency, grace and power: the hold  *)
(* takes effect, lasts and ends in bounded time.  The inductive invariant  *)
(* bounds the expiry of the policy timer that has not been served, due,    *)
(* by whatever the radio does not reflect yet: as a work item is done at   *)
(* due + Latency, that bounds how long the radio may disagree.             *)
(***************************************************************************)
EXTENDS CommissioningHold, TLAPS

Flags == /\ running \in BOOLEAN
         /\ windowOpen \in BOOLEAN
         /\ mCommissioningWindowOpen \in BOOLEAN

Powers == /\ radioPower \in {FullPower, LowPower, DefaultPower}
          /\ mAppliedThreadTxPowerDbm \in {NotApplied, FullPower, LowPower}

Times == /\ now \in Nat
         /\ due \in Nat
         /\ nowMs \in Nat
         /\ mStayAwakeUntilMs \in Nat
         /\ mLastAwakeKickMs \in Nat
         /\ openedFrom \in Nat
         /\ closedFrom \in Nat
         /\ owedUntil \in Nat
         /\ lastLost \in Nat
         /\ lastFailed \in Nat
         /\ kickedAt \in Nat

(* The type invariant, split by the prover that handles each part.        *)
LEMMA TypeOKParts == TypeOK <=> Flags /\ Powers /\ Times
BY DEF TypeOK, Flags, Powers, Times

(* What a boot assigns has its type.                                      *)
LEMMA BootTypes == Boot => running \in BOOLEAN /\ mCommissioningWindowOpen \in BOOLEAN
                           /\ Powers /\ Times
<1> SUFFICES ASSUME Boot
             PROVE  running \in BOOLEAN /\ mCommissioningWindowOpen \in BOOLEAN
                    /\ Powers /\ Times
  OBVIOUS
<1>1. running = FALSE /\ mCommissioningWindowOpen = FALSE
  BY Zenon DEF Boot
<1>2. radioPower = DefaultPower /\ mAppliedThreadTxPowerDbm = NotApplied
  BY Zenon DEF Boot
<1>3. Times
  BY HoldAssumption DEF Boot, Times
<1> QED
  BY <1>1, <1>2, <1>3 DEF Powers

(* The policy work item: what each of its parts leaves.                    *)
LEMMA ObserveWindowTypes ==
  ASSUME TypeOK, ObserveWindow
  PROVE  mCommissioningWindowOpen' \in BOOLEAN /\ mStayAwakeUntilMs' \in Nat
<1>1. mCommissioningWindowOpen' \in BOOLEAN
  BY Zenon DEF ObserveWindow, TypeOK
<1>2. mStayAwakeUntilMs' \in {mStayAwakeUntilMs, 0, nowMs + PostCloseGrace}
  BY Zenon DEF ObserveWindow
<1> QED
  BY <1>1, <1>2, HoldAssumption DEF TypeOK

(* The three outcomes of ApplyThreadTxPower.                              *)
LEMMA ApplyCases ==
  ASSUME NEW power, ApplyThreadTxPower(power)
  PROVE  \/ mAppliedThreadTxPowerDbm = power /\ UNCHANGED radio
         \/ mAppliedThreadTxPowerDbm' = power /\ radioPower' = power /\ UNCHANGED lastFailed
         \/ lastFailed' = now /\ UNCHANGED <<mAppliedThreadTxPowerDbm, radioPower>>
BY Zenon DEF ApplyThreadTxPower

(* The three outcomes of the kick.                                        *)
LEMMA KickCases ==
  ASSUME Kick(HoldActive)
  PROVE  \/ HoldActive /\ mLastAwakeKickMs' = nowMs /\ kickedAt' = now
         \/ ~HoldActive /\ UNCHANGED kick
         \/ ~(nowMs - mLastAwakeKickMs >= PollPeriod) /\ UNCHANGED kick
BY Zenon DEF Kick

(* Type correctness: in particular the radio only ever has one of the      *)
(* three powers, and the stay-awake time is never negative.                *)
THEOREM TypeCorrect == Spec => []TypeOK
<1>1. Init => TypeOK
  BY BootTypes, TypeOKParts DEF Init, Flags
<1>2. TypeOK /\ [Next]_vars => TypeOK'
  <2> SUFFICES ASSUME TypeOK, [Next]_vars PROVE TypeOK'
    OBVIOUS
  <2> USE HoldAssumption
  <2>1. CASE ReadClock
    BY <2>1 DEF ReadClock, TypeOK, window, radio, hold, kick
  <2>2. CASE UpdateCommissioningAwakePolicy
    <3>1. mCommissioningWindowOpen' \in BOOLEAN /\ mStayAwakeUntilMs' \in Nat
      BY <2>2, ObserveWindowTypes DEF UpdateCommissioningAwakePolicy
    <3>2. PICK power \in {FullPower, LowPower} : ApplyThreadTxPower(power)
      BY <2>2, Zenon DEF UpdateCommissioningAwakePolicy
    <3>3. Powers' /\ lastFailed' \in Nat
      BY <3>2, ApplyCases DEF TypeOK, Powers, radio
    <3>4. mLastAwakeKickMs' \in Nat /\ kickedAt' \in Nat
      <4>1. mLastAwakeKickMs' \in {nowMs, mLastAwakeKickMs} /\ kickedAt' \in {now, kickedAt}
        BY <2>2, KickCases, Zenon DEF UpdateCommissioningAwakePolicy, kick
      <4> QED
        BY <4>1 DEF TypeOK
    <3>5. /\ running' = FALSE /\ nowMs' = 0 /\ due' = due + PollPeriod
          /\ UNCHANGED <<now, windowOpen, openedFrom, closedFrom, owedUntil, lastLost>>
      BY <2>2, Zenon DEF UpdateCommissioningAwakePolicy, window
    <3>6. Flags'
      BY <3>1, <3>5, Zenon DEF TypeOK, Flags
    <3>7. Times'
      BY <3>1, <3>3, <3>4, <3>5 DEF TypeOK, Times
    <3> QED
      BY <3>3, <3>6, <3>7 DEF TypeOK, Flags, Powers, Times
  <2>3. CASE LoseWork
    BY <2>3 DEF LoseWork, TypeOK, window, radio, hold, kick
  <2>4. CASE Tick
    BY <2>4 DEF Tick, TypeOK, item, window, radio, hold, kick
  <2>5. CASE OpenWindow
    BY <2>5 DEF OpenWindow, TypeOK, item, radio, hold, kick
  <2>6. CASE CloseWindow
    <3>1. owedUntil' \in {now + PostCloseGrace, owedUntil}
      BY <2>6, Zenon DEF CloseWindow
    <3>2. windowOpen' = FALSE /\ closedFrom' = now
          /\ UNCHANGED <<now, item, openedFrom, radio, hold, kick, lastLost>>
      BY <2>6, Zenon DEF CloseWindow
    <3>3. owedUntil' \in Nat
      BY <3>1 DEF TypeOK
    <3> QED
      BY <3>2, <3>3 DEF TypeOK, item, radio, hold, kick
  <2>7. CASE Reset
    BY <2>7 DEF Reset, TypeOK
  <2>8. CASE UNCHANGED vars
    BY <2>8 DEF vars, TypeOK, item, window, radio, hold, kick
  <2> QED
    BY <2>1, <2>2, <2>3, <2>4, <2>5, <2>6, <2>7, <2>8 DEF Next
<1> QED
  BY <1>1, <1>2, PTL DEF Spec

-----------------------------------------------------------------------------
(* The inductive invariant, in parts.                                      *)

OnTime ==
  /\ due <= now + PollPeriod
  /\ now <= due + Latency
  /\ running => due <= nowMs /\ nowMs <= now /\ closedFrom <= nowMs

InThePast ==
  /\ openedFrom <= now
  /\ closedFrom <= now
  /\ lastLost <= now
  /\ lastFailed <= now
  /\ owedUntil <= closedFrom + PostCloseGrace

RadioAsApplied ==
  mAppliedThreadTxPowerDbm # NotApplied => radioPower = mAppliedThreadTxPowerDbm

\* No work item has run since the last trouble.
TroublePending == due <= lastLost + PollPeriod \/ due <= lastFailed + PollPeriod

OpenServed ==
  windowOpen =>
    radioPower = FullPower \/ TroublePending \/ due <= openedFrom + PollPeriod

SeenServed ==
  mCommissioningWindowOpen => radioPower = FullPower \/ TroublePending

OwedServed ==
  now < owedUntil => radioPower = FullPower \/ TroublePending

OwedKept == ~mCommissioningWindowOpen => owedUntil <= mStayAwakeUntilMs

CloseUnseen ==
  mCommissioningWindowOpen /\ ~windowOpen =>
    due <= closedFrom + PollPeriod \/ due <= lastLost + PollPeriod

GraceBounded ==
  \/ mStayAwakeUntilMs <= closedFrom + PollPeriod + Latency + PostCloseGrace
  \/ mStayAwakeUntilMs <= lastLost + PollPeriod + Latency + PostCloseGrace

EndServed ==
  ~windowOpen => \/ radioPower = LowPower
                 \/ TroublePending
                 \/ due <= closedFrom + PollPeriod
                 \/ due <= mStayAwakeUntilMs + PollPeriod

HoldInv ==
  /\ OnTime /\ InThePast /\ RadioAsApplied
  /\ OpenServed /\ SeenServed /\ OwedServed /\ OwedKept
  /\ CloseUnseen /\ GraceBounded /\ EndServed

(* A fresh boot satisfies the invariant, the window open or not.           *)
LEMMA HoldInit == Init => HoldInv
<1> SUFFICES ASSUME Init PROVE HoldInv
  OBVIOUS
<1>1. /\ now = 0 /\ due = PollPeriod /\ mStayAwakeUntilMs = 0
      /\ openedFrom = 0 /\ closedFrom = 0 /\ owedUntil = 0 /\ lastLost = 0 /\ lastFailed = 0
  BY DEF Init, Boot
<1>2. ~running /\ ~mCommissioningWindowOpen
  BY Zenon DEF Init, Boot
<1>3. mAppliedThreadTxPowerDbm = NotApplied
  BY DEF Init, Boot
<1>4. OnTime /\ RadioAsApplied /\ SeenServed /\ CloseUnseen
  BY <1>1, <1>2, <1>3, HoldAssumption
    DEF OnTime, RadioAsApplied, SeenServed, CloseUnseen
<1>5. InThePast /\ OpenServed /\ OwedServed /\ OwedKept /\ GraceBounded /\ EndServed
  BY <1>1, HoldAssumption
    DEF InThePast, OpenServed, OwedServed, OwedKept, GraceBounded, EndServed
<1> QED
  BY <1>4, <1>5 DEF HoldInv

(* A reset ends in an initial state.                                      *)
LEMMA ResetInit == Reset => Init'
BY DEF Reset, Init, Boot

(* A power is applied, or the radio just refused it.                       *)
LEMMA Applied ==
  ASSUME RadioAsApplied, NEW power \in {FullPower, LowPower}, ApplyThreadTxPower(power)
  PROVE  /\ RadioAsApplied'
         /\ radioPower' = power \/ lastFailed' = now
         /\ lastFailed' \in {lastFailed, now}
<1>1. power # NotApplied
  BY HoldAssumption
<1>2. CASE mAppliedThreadTxPowerDbm = power /\ UNCHANGED radio
  BY <1>1, <1>2 DEF RadioAsApplied, radio
<1>3. CASE mAppliedThreadTxPowerDbm' = power /\ radioPower' = power /\ UNCHANGED lastFailed
  BY <1>3 DEF RadioAsApplied
<1>4. CASE lastFailed' = now /\ UNCHANGED <<mAppliedThreadTxPowerDbm, radioPower>>
  BY <1>4 DEF RadioAsApplied
<1> QED
  BY <1>2, <1>3, <1>4, ApplyCases

(* The work item of a window that is open.                                 *)
LEMMA PolicyWhenOpen ==
  ASSUME TypeOK, TypeOK', HoldInv, UpdateCommissioningAwakePolicy, windowOpen
  PROVE  HoldInv'
<1> USE HoldAssumption
<1>1. /\ running /\ ~running'
      /\ windowOpen' /\ mCommissioningWindowOpen'
  BY Zenon DEF UpdateCommissioningAwakePolicy, window, ObserveWindow
<1>2. /\ due' = due + PollPeriod
      /\ UNCHANGED <<now, openedFrom, closedFrom, owedUntil, lastLost>>
  BY DEF UpdateCommissioningAwakePolicy, window
<1>3. mStayAwakeUntilMs' \in {mStayAwakeUntilMs, 0}
  BY Zenon DEF UpdateCommissioningAwakePolicy, ObserveWindow
<1>4. ApplyThreadTxPower(FullPower)
  BY Zenon DEF UpdateCommissioningAwakePolicy, HoldActive
<1>5. /\ RadioAsApplied'
      /\ radioPower' = FullPower \/ lastFailed' = now
      /\ lastFailed' \in {lastFailed, now}
  BY <1>4, Applied DEF HoldInv
<1>6. due <= now
  BY <1>1 DEF HoldInv, OnTime, TypeOK
<1>7. radioPower' = FullPower \/ TroublePending'
  <2>1. due' = due + PollPeriod /\ due <= now /\ due \in Nat /\ now \in Nat
    BY <1>2, <1>6 DEF TypeOK
  <2>2. lastFailed' = now => TroublePending'
    BY <2>1 DEF TroublePending
  <2> QED
    BY <1>5, <2>2
<1>8. OnTime' /\ InThePast'
  <2>1. OnTime'
    BY <1>1, <1>2, <1>6 DEF HoldInv, OnTime, TypeOK
  <2>2. InThePast'
    BY <1>2, <1>5 DEF HoldInv, InThePast, TypeOK
  <2> QED
    BY <2>1, <2>2
<1>9. OpenServed' /\ SeenServed' /\ OwedServed'
  BY <1>7 DEF OpenServed, SeenServed, OwedServed
<1>10. OwedKept' /\ CloseUnseen' /\ EndServed'
  BY <1>1, Zenon DEF OwedKept, CloseUnseen, EndServed
<1>11. GraceBounded'
  BY <1>2, <1>3 DEF HoldInv, GraceBounded, TypeOK
<1> QED
  BY <1>5, <1>8, <1>9, <1>10, <1>11 DEF HoldInv

(* The work item of a window that is closed: when the hold is over, so is  *)
(* every grace that is owed.                                               *)
LEMMA StayAwakeCoversOwed ==
  ASSUME TypeOK, TypeOK', HoldInv, UpdateCommissioningAwakePolicy, ~windowOpen
  PROVE  /\ owedUntil <= mStayAwakeUntilMs'
         /\ GraceBounded'
<1> USE HoldAssumption
<1>1. running
  BY Zenon DEF UpdateCommissioningAwakePolicy
<1>2. UNCHANGED <<now, closedFrom, owedUntil, lastLost>>
  BY DEF UpdateCommissioningAwakePolicy, window
<1>3. CASE mCommissioningWindowOpen
  <2>1. mStayAwakeUntilMs' = nowMs + PostCloseGrace
    BY <1>3, Zenon DEF UpdateCommissioningAwakePolicy, ObserveWindow
  <2>2. nowMs <= now /\ closedFrom <= nowMs /\ now <= due + Latency
    BY <1>1 DEF HoldInv, OnTime
  <2>3. due <= closedFrom + PollPeriod \/ due <= lastLost + PollPeriod
    BY <1>3 DEF HoldInv, CloseUnseen
  <2>4. owedUntil <= mStayAwakeUntilMs'
    BY <2>1, <2>2 DEF HoldInv, InThePast, TypeOK
  <2>5. GraceBounded'
    BY <1>2, <2>1, <2>2, <2>3 DEF GraceBounded, TypeOK
  <2> QED
    BY <2>4, <2>5
<1>4. CASE ~mCommissioningWindowOpen
  <2>1. mStayAwakeUntilMs' = mStayAwakeUntilMs
    <3>1. windowOpen = mCommissioningWindowOpen
      BY <1>4, Zenon DEF TypeOK
    <3> QED
      BY <3>1, Zenon DEF UpdateCommissioningAwakePolicy, ObserveWindow
  <2> QED
    BY <1>2, <1>4, <2>1 DEF HoldInv, OwedKept, GraceBounded
<1> QED
  BY <1>3, <1>4

(* Addition is monotonic.                                                 *)
LEMMA NotLater ==
  ASSUME NEW t \in Nat, NEW u \in Nat, NEW v \in Nat, NEW d \in Nat, t <= u, v > u
  PROVE  t + d <= v + d
OBVIOUS

(* The work item of a window that is closed preserves the invariant.      *)
LEMMA PolicyWhenClosed ==
  ASSUME TypeOK, TypeOK', HoldInv, UpdateCommissioningAwakePolicy, ~windowOpen
  PROVE  HoldInv'
<1> USE HoldAssumption
<1>1. /\ running /\ ~running'
      /\ ~windowOpen' /\ ~mCommissioningWindowOpen'
  BY Zenon DEF UpdateCommissioningAwakePolicy, window, ObserveWindow
<1>2. /\ due' = due + PollPeriod
      /\ UNCHANGED <<now, openedFrom, closedFrom, owedUntil, lastLost>>
  BY DEF UpdateCommissioningAwakePolicy, window
<1>3. due <= nowMs /\ nowMs <= now
  BY <1>1 DEF HoldInv, OnTime, TypeOK
<1>4. PICK power \in {FullPower, LowPower} :
        /\ ApplyThreadTxPower(power)
        /\ mStayAwakeUntilMs' > nowMs => power = FullPower
        /\ ~(mStayAwakeUntilMs' > nowMs) => power = LowPower
  BY Zenon DEF UpdateCommissioningAwakePolicy, HoldActive
<1>5. /\ RadioAsApplied'
      /\ radioPower' = power \/ lastFailed' = now
      /\ lastFailed' \in {lastFailed, now}
  BY <1>4, Applied DEF HoldInv
<1>6. radioPower' = power \/ TroublePending'
  <2>1. /\ due' = due + PollPeriod /\ due <= nowMs /\ nowMs <= now
        /\ due \in Nat /\ nowMs \in Nat /\ now \in Nat
    BY <1>2, <1>3 DEF TypeOK
  <2>2. lastFailed' = now => TroublePending'
    BY <2>1 DEF TroublePending
  <2> QED
    BY <1>5, <2>2
<1>7. OnTime'
  BY <1>1, <1>2, <1>3 DEF HoldInv, OnTime, TypeOK
<1>8. InThePast'
  BY <1>2, <1>5 DEF HoldInv, InThePast, TypeOK
<1>9. OwedServed'
  <2>1. now' < owedUntil' => mStayAwakeUntilMs' > nowMs
    BY <1>2, <1>3, StayAwakeCoversOwed DEF TypeOK
  <2> QED
    BY <1>4, <1>6, <2>1 DEF OwedServed
<1>10. EndServed'
  <2>1. mStayAwakeUntilMs' > nowMs => due' <= mStayAwakeUntilMs' + PollPeriod
    <3>1. /\ due \in Nat /\ nowMs \in Nat /\ mStayAwakeUntilMs' \in Nat
          /\ PollPeriod \in Nat
      BY DEF TypeOK
    <3>2. mStayAwakeUntilMs' > nowMs => due + PollPeriod <= mStayAwakeUntilMs' + PollPeriod
      BY <1>3, <3>1, NotLater
    <3> QED
      BY <1>2, <3>2
  <2> QED
    BY <1>4, <1>6, <2>1 DEF EndServed
<1>11. OpenServed' /\ SeenServed' /\ CloseUnseen'
  BY <1>1, Zenon DEF OpenServed, SeenServed, CloseUnseen
<1>12. OwedKept' /\ GraceBounded'
  BY <1>2, StayAwakeCoversOwed DEF OwedKept
<1> QED
  BY <1>5, <1>7, <1>8, <1>9, <1>10, <1>11, <1>12 DEF HoldInv

(* Every step preserves the invariant.                                     *)
LEMMA HoldStep == TypeOK /\ TypeOK' /\ HoldInv /\ [Next]_vars => HoldInv'
<1> SUFFICES ASSUME TypeOK, TypeOK', HoldInv, [Next]_vars PROVE HoldInv'
  OBVIOUS
<1> USE HoldAssumption
<1>1. CASE ReadClock
  <2>1. /\ now' = now /\ due' = due /\ nowMs' = now /\ now >= due
        /\ UNCHANGED <<openedFrom, closedFrom, owedUntil, lastLost, lastFailed, radioPower>>
        /\ UNCHANGED <<mAppliedThreadTxPowerDbm, mStayAwakeUntilMs>>
    BY <1>1 DEF ReadClock, window, radio, hold
  <2>2. UNCHANGED <<window, radio, hold, lastLost>>
    BY <1>1, Zenon DEF ReadClock
  <2>3. OnTime'
    BY <2>1 DEF HoldInv, OnTime, InThePast, TypeOK
  <2>4. InThePast' /\ RadioAsApplied' /\ GraceBounded'
    BY <2>1 DEF HoldInv, InThePast, RadioAsApplied, GraceBounded
  <2>5. OpenServed' /\ SeenServed' /\ OwedServed' /\ OwedKept' /\ CloseUnseen' /\ EndServed'
    BY <2>1, <2>2, Zenon DEF HoldInv, OpenServed, SeenServed, OwedServed, OwedKept,
      CloseUnseen, EndServed, TroublePending, window, hold
  <2> QED
    BY <2>3, <2>4, <2>5 DEF HoldInv
<1>2. CASE UpdateCommissioningAwakePolicy
  BY <1>2, PolicyWhenOpen, PolicyWhenClosed
<1>3. CASE LoseWork
  <2>1. /\ now' = now /\ due' = due + PollPeriod /\ lastLost' = now /\ now >= due
        /\ ~running'
        /\ UNCHANGED <<openedFrom, closedFrom, owedUntil, lastFailed, radioPower>>
        /\ UNCHANGED <<mAppliedThreadTxPowerDbm, mStayAwakeUntilMs>>
    BY <1>3 DEF LoseWork, window, radio, hold
  <2>2. TroublePending'
    BY <2>1 DEF TroublePending, TypeOK
  <2>3. OnTime'
    BY <2>1 DEF HoldInv, OnTime, TypeOK
  <2>4. InThePast' /\ RadioAsApplied'
    BY <2>1 DEF HoldInv, InThePast, RadioAsApplied, TypeOK
  <2>5. OpenServed' /\ SeenServed' /\ OwedServed' /\ EndServed'
    BY <2>2 DEF OpenServed, SeenServed, OwedServed, EndServed
  <2>6. GraceBounded'
    BY <2>1 DEF HoldInv, InThePast, GraceBounded, TypeOK
  <2>7. due' <= lastLost' + PollPeriod
    BY <2>1 DEF TypeOK
  <2>8. UNCHANGED hold
    BY <1>3 DEF LoseWork
  <2>9. OwedKept' /\ CloseUnseen'
    BY <2>1, <2>7, <2>8, Zenon DEF HoldInv, OwedKept, CloseUnseen, hold
  <2> QED
    BY <2>3, <2>4, <2>5, <2>6, <2>9 DEF HoldInv
<1>4. CASE Tick
  <2>1. /\ now' = now + 1 /\ now < due + Latency
        /\ UNCHANGED <<due, nowMs, openedFrom, closedFrom, owedUntil, lastLost, lastFailed>>
        /\ UNCHANGED <<radioPower, mAppliedThreadTxPowerDbm, mStayAwakeUntilMs>>
    BY <1>4 DEF Tick, item, window, radio, hold
  <2>2. UNCHANGED <<item, window, radio, hold, lastLost>>
    BY <1>4, Zenon DEF Tick
  <2>3. running' => running
    BY <2>2, Zenon DEF item
  <2>4. OnTime'
    <3>1. due' <= now' + PollPeriod /\ now' <= due' + Latency
      BY <2>1 DEF HoldInv, OnTime, TypeOK
    <3>2. running => due' <= nowMs' /\ nowMs' <= now' /\ closedFrom' <= nowMs'
      BY <2>1 DEF HoldInv, OnTime, TypeOK
    <3> QED
      BY <2>3, <3>1, <3>2 DEF OnTime
  <2>5. InThePast' /\ RadioAsApplied' /\ GraceBounded'
    BY <2>1 DEF HoldInv, InThePast, RadioAsApplied, GraceBounded, TypeOK
  <2>6. OwedServed'
    BY <2>1 DEF HoldInv, OwedServed, TroublePending, TypeOK
  <2>7. OpenServed' /\ SeenServed' /\ OwedKept' /\ CloseUnseen' /\ EndServed'
    BY <2>1, <2>2, Zenon DEF HoldInv, OpenServed, SeenServed, OwedKept, CloseUnseen,
      EndServed, TroublePending, window, hold
  <2> QED
    BY <2>4, <2>5, <2>6, <2>7 DEF HoldInv
<1>5. CASE OpenWindow
  <2>1. /\ openedFrom' = now /\ windowOpen' /\ ~running'
        /\ UNCHANGED <<now, due, closedFrom, owedUntil, lastLost, lastFailed>>
        /\ UNCHANGED <<radioPower, mAppliedThreadTxPowerDbm, mStayAwakeUntilMs>>
    BY <1>5 DEF OpenWindow, item, radio, hold
  <2>2. UNCHANGED hold
    BY <1>5 DEF OpenWindow
  <2>3. OnTime' /\ InThePast' /\ RadioAsApplied' /\ GraceBounded'
    BY <2>1 DEF HoldInv, OnTime, InThePast, RadioAsApplied, GraceBounded, TypeOK
  <2>4. OpenServed'
    BY <2>1 DEF HoldInv, OnTime, OpenServed
  <2>5. SeenServed' /\ OwedServed' /\ OwedKept' /\ CloseUnseen' /\ EndServed'
    BY <2>1, <2>2, Zenon DEF HoldInv, SeenServed, OwedServed, OwedKept, CloseUnseen,
      EndServed, TroublePending, hold
  <2> QED
    BY <2>3, <2>4, <2>5 DEF HoldInv
<1>6. CASE CloseWindow
  <2>1. /\ closedFrom' = now /\ ~windowOpen' /\ ~running'
        /\ UNCHANGED <<now, due, openedFrom, lastLost, lastFailed>>
        /\ UNCHANGED <<radioPower, mAppliedThreadTxPowerDbm, mStayAwakeUntilMs>>
    BY <1>6 DEF CloseWindow, item, radio, hold
  <2>2. UNCHANGED hold
    BY <1>6 DEF CloseWindow
  <2>3. \/ mCommissioningWindowOpen /\ owedUntil' = now + PostCloseGrace
        \/ owedUntil' = owedUntil
    BY <1>6, Zenon DEF CloseWindow
  <2>4. InThePast'
    BY <2>1, <2>3 DEF HoldInv, InThePast, TypeOK
  <2>5. OnTime' /\ RadioAsApplied' /\ GraceBounded'
    BY <2>1 DEF HoldInv, InThePast, OnTime, RadioAsApplied, GraceBounded, TypeOK
  <2>6. due' <= closedFrom' + PollPeriod
    BY <2>1 DEF HoldInv, OnTime
  <2>7. OpenServed' /\ CloseUnseen' /\ EndServed'
    BY <2>1, <2>6, Zenon DEF OpenServed, CloseUnseen, EndServed
  <2>8. SeenServed'
    BY <2>1, <2>2, Zenon DEF HoldInv, SeenServed, TroublePending, hold
  <2>9. OwedServed'
    BY <2>1, <2>3, Zenon DEF HoldInv, OwedServed, SeenServed, TroublePending
  <2>10. OwedKept'
    <3>1. mCommissioningWindowOpen => mCommissioningWindowOpen'
      BY <2>2, Zenon DEF hold
    <3> QED
      BY <2>1, <2>2, <2>3, <3>1, Zenon DEF HoldInv, OwedKept, hold
  <2> QED
    BY <2>4, <2>5, <2>7, <2>8, <2>9, <2>10 DEF HoldInv
<1>7. CASE Reset
  <2>1. Init' => HoldInv'
    BY HoldInit, PTL
  <2> QED
    BY <1>7, <2>1, ResetInit
<1>8. CASE UNCHANGED vars
  BY <1>8, Zenon DEF HoldInv, OnTime, InThePast, RadioAsApplied, OpenServed, SeenServed,
    OwedServed, OwedKept, CloseUnseen, GraceBounded, EndServed, TroublePending, vars,
    item, window, radio, hold
<1> QED
  BY <1>1, <1>2, <1>3, <1>4, <1>5, <1>6, <1>7, <1>8 DEF Next

(* The parts above hold in every reachable state.                          *)
THEOREM HoldInvariant == Spec => []HoldInv
BY HoldInit, HoldStep, TypeCorrect, PTL DEF Spec

-----------------------------------------------------------------------------
(* A sampling delay after t and the last trouble, due has moved on.        *)
LEMMA SampledPast ==
  ASSUME TypeOK, OnTime, NEW t \in Nat, Sampled(t)
  PROVE  ~TroublePending /\ ~(due <= t + PollPeriod)
<1>1. /\ now > t + PollPeriod + Latency
      /\ now > lastLost + PollPeriod + Latency
      /\ now > lastFailed + PollPeriod + Latency
  BY HoldAssumption DEF Sampled, LastTrouble, Later, TypeOK
<1> QED
  BY <1>1, HoldAssumption DEF TypeOK, OnTime, TroublePending

(* The hold takes effect within a sampling delay of the window's opening,  *)
(* and lasts through the grace.                                            *)
THEOREM FullPowerTheorem == Spec => []FullPowerInHold
<1>1. TypeOK /\ HoldInv => FullPowerInHold
  <2> SUFFICES ASSUME TypeOK, HoldInv PROVE FullPowerInHold
    OBVIOUS
  <2>1. OnTime
    BY DEF HoldInv
  <2>2. ASSUME windowOpen, Sampled(openedFrom) PROVE radioPower = FullPower
    <3>1. ~TroublePending /\ ~(due <= openedFrom + PollPeriod)
      BY <2>1, <2>2, SampledPast DEF TypeOK
    <3> QED
      BY <2>2, <3>1 DEF HoldInv, OpenServed
  <2>3. ASSUME now < owedUntil, Sampled(0) PROVE radioPower = FullPower
    <3>1. ~TroublePending
      BY <2>1, <2>3, SampledPast
    <3> QED
      BY <2>3, <3>1 DEF HoldInv, OwedServed
  <2> QED
    BY <2>2, <2>3 DEF FullPowerInHold
<1> QED
  BY <1>1, HoldInvariant, TypeCorrect, PTL

(* The hold ends: full power does not outlast the grace by more than two   *)
(* sampling delays.                                                        *)
THEOREM HoldEnds == Spec => []LowPowerAfterHold
<1>1. TypeOK /\ HoldInv => LowPowerAfterHold
  <2> DEFINE end == Later(closedFrom, LastTrouble) + PollPeriod + Latency + PostCloseGrace
  <2> SUFFICES ASSUME TypeOK, HoldInv, ~windowOpen, Sampled(end)
               PROVE  radioPower = LowPower
    BY DEF LowPowerAfterHold
  <2>1. /\ end \in Nat
        /\ mStayAwakeUntilMs <= end
        /\ closedFrom <= end
    BY HoldAssumption DEF HoldInv, GraceBounded, LastTrouble, Later, TypeOK
  <2>2. ~TroublePending /\ ~(due <= end + PollPeriod)
    <3> HIDE DEF end
    <3> QED
      BY <2>1, SampledPast DEF HoldInv
  <2>3. ~(due <= closedFrom + PollPeriod) /\ ~(due <= mStayAwakeUntilMs + PollPeriod)
    <3> HIDE DEF end
    <3> QED
      BY <2>1, <2>2, HoldAssumption DEF TypeOK
  <2> QED
    BY <2>2, <2>3 DEF HoldInv, EndServed
<1> QED
  BY <1>1, HoldInvariant, TypeCorrect, PTL

(* No work item lowers the power while the window is open or a grace is    *)
(* owed.                                                                   *)
THEOREM NeverLowers == Spec => NeverLowersInHold
<1> DEFINE Lowers == UpdateCommissioningAwakePolicy /\ radioPower' \notin {radioPower, FullPower}
<1>1. TypeOK /\ TypeOK' /\ HoldInv /\ [Next]_vars =>
        [Lowers => ~windowOpen /\ nowMs >= owedUntil]_vars
  <2> SUFFICES ASSUME TypeOK, TypeOK', HoldInv, Lowers
               PROVE  ~windowOpen /\ nowMs >= owedUntil
    OBVIOUS
  <2>1. PICK power \in {FullPower, LowPower} :
          /\ ApplyThreadTxPower(power)
          /\ HoldActive => power = FullPower
    BY Zenon DEF UpdateCommissioningAwakePolicy
  <2>2. radioPower' \in {radioPower, power}
    BY <2>1, ApplyCases DEF radio
  <2>3. ~HoldActive
    BY <2>1, <2>2
  <2>4. ~windowOpen /\ ~(mStayAwakeUntilMs' > nowMs)
    BY <2>3, Zenon DEF HoldActive
  <2>5. owedUntil <= mStayAwakeUntilMs'
    BY <2>4, StayAwakeCoversOwed
  <2> QED
    BY <2>4, <2>5 DEF TypeOK
<1> QED
  BY <1>1, HoldInvariant, TypeCorrect, PTL DEF Spec, NeverLowersInHold

-----------------------------------------------------------------------------
(* The kick.  A work item that does not kick, because it comes too early   *)
(* after the last one that did, leaves the next one to kick.               *)

KickPending(t) ==
  \/ due <= t + PollPeriod
  \/ due <= t + 2 * PollPeriod /\ mLastAwakeKickMs + PollPeriod <= due

KickInv ==
  /\ mLastAwakeKickMs <= due
  /\ windowOpen => KickPending(openedFrom) \/ KickPending(lastLost) \/ KickPending(kickedAt)

(* While the window is open, the gap between two kicks is at most two      *)
(* periods and a latency, if a work item is done before the next is due.   *)
THEOREM KickedTheorem ==
  ASSUME Latency <= PollPeriod
  PROVE  Spec => []KickedInHold
<1> USE HoldAssumption
<1>1. Init => KickInv
  BY DEF Init, Boot, KickInv, KickPending
<1>2. TypeOK /\ TypeOK' /\ HoldInv /\ KickInv /\ [Next]_vars => KickInv'
  <2> SUFFICES ASSUME TypeOK, TypeOK', HoldInv, KickInv, [Next]_vars PROVE KickInv'
    OBVIOUS
  <2>1. CASE UpdateCommissioningAwakePolicy
    <3>1. /\ due' = due + PollPeriod
          /\ UNCHANGED <<now, openedFrom, lastLost>>
      BY <2>1 DEF UpdateCommissioningAwakePolicy, window
    <3>2. running /\ (windowOpen' <=> windowOpen)
      BY <2>1, Zenon DEF UpdateCommissioningAwakePolicy, window
    <3>3. due <= nowMs /\ nowMs <= now /\ now <= due + Latency
      BY <3>2 DEF HoldInv, OnTime
    <3>4. CASE mLastAwakeKickMs' = nowMs /\ kickedAt' = now
      <4>1. mLastAwakeKickMs' <= due' /\ due' <= kickedAt' + PollPeriod
        BY <3>1, <3>3, <3>4 DEF TypeOK
      <4> QED
        BY <4>1 DEF KickInv, KickPending
    <3>5. CASE ~HoldActive /\ UNCHANGED kick
      <4>1. mLastAwakeKickMs' <= due'
        BY <3>1, <3>5 DEF TypeOK, KickInv, kick
      <4>2. ~windowOpen
        BY <3>5, Zenon DEF HoldActive
      <4> QED
        BY <3>2, <4>1, <4>2, Zenon DEF KickInv
    <3>6. CASE ~(nowMs - mLastAwakeKickMs >= PollPeriod) /\ UNCHANGED kick
      <4>1. /\ mLastAwakeKickMs' = mLastAwakeKickMs /\ kickedAt' = kickedAt
            /\ mLastAwakeKickMs' <= due'
            /\ mLastAwakeKickMs' + PollPeriod <= due'
            /\ ~(mLastAwakeKickMs + PollPeriod <= due)
        BY <3>1, <3>3, <3>6 DEF TypeOK, KickInv, kick
      <4>2. ASSUME NEW t \in Nat, KickPending(t)
            PROVE  due' <= t + 2 * PollPeriod
        BY <3>1, <4>1, <4>2 DEF TypeOK, KickPending
      <4>3. KickPending(openedFrom) => KickPending(openedFrom)'
        BY <3>1, <4>1, <4>2 DEF TypeOK, KickPending
      <4>4. KickPending(lastLost) => KickPending(lastLost)'
        BY <3>1, <4>1, <4>2 DEF TypeOK, KickPending
      <4>5. KickPending(kickedAt) => KickPending(kickedAt)'
        BY <3>1, <4>1, <4>2 DEF TypeOK, KickPending
      <4> QED
        BY <3>2, <4>1, <4>3, <4>4, <4>5, Zenon DEF KickInv
    <3> QED
      BY <2>1, <3>4, <3>5, <3>6, KickCases, Zenon DEF UpdateCommissioningAwakePolicy
  <2>2. CASE LoseWork
    <3>1. /\ due' = due + PollPeriod /\ lastLost' = now /\ now >= due
          /\ mLastAwakeKickMs' = mLastAwakeKickMs
      BY <2>2 DEF LoseWork, kick
    <3>2. due' <= lastLost' + PollPeriod /\ mLastAwakeKickMs' <= due'
      BY <3>1 DEF TypeOK, KickInv
    <3> QED
      BY <3>2 DEF KickInv, KickPending
  <2>3. CASE OpenWindow
    <3>1. /\ due' = due /\ openedFrom' = now /\ mLastAwakeKickMs' = mLastAwakeKickMs
      BY <2>3 DEF OpenWindow, item, kick
    <3>2. due' <= openedFrom' + PollPeriod /\ mLastAwakeKickMs' <= due'
      BY <3>1 DEF HoldInv, OnTime, KickInv
    <3> QED
      BY <3>2 DEF KickInv, KickPending
  <2>4. CASE ReadClock \/ Tick \/ CloseWindow \/ UNCHANGED vars
    <3>1. UNCHANGED <<due, openedFrom, lastLost, kickedAt, mLastAwakeKickMs>>
      BY <2>4 DEF ReadClock, Tick, CloseWindow, vars, item, window, kick
    <3>2. windowOpen' => windowOpen
      BY <2>4, Zenon DEF ReadClock, Tick, CloseWindow, vars, window
    <3> QED
      BY <3>1, <3>2, Zenon DEF KickInv, KickPending
  <2>5. CASE Reset
    <3>1. due' = PollPeriod /\ openedFrom' = 0 /\ mLastAwakeKickMs' = 0
      BY <2>5 DEF Reset
    <3> QED
      BY <3>1 DEF KickInv, KickPending
  <2> QED
    BY <2>1, <2>2, <2>3, <2>4, <2>5 DEF Next
<1>3. TypeOK /\ HoldInv /\ KickInv => KickedInHold
  <2> SUFFICES ASSUME TypeOK, HoldInv, KickInv, windowOpen
               PROVE  now <= Later(Later(openedFrom, lastLost), kickedAt)
                               + 2 * PollPeriod + Latency
    BY DEF KickedInHold
  <2>1. now <= due + Latency
    BY DEF HoldInv, OnTime
  <2>2. \/ due <= openedFrom + 2 * PollPeriod
        \/ due <= lastLost + 2 * PollPeriod
        \/ due <= kickedAt + 2 * PollPeriod
    BY DEF KickInv, KickPending, TypeOK
  <2> QED
    BY <2>1, <2>2 DEF Later, TypeOK
<1> QED
  BY <1>1, <1>2, <1>3, HoldInvariant, TypeCorrect, PTL DEF Spec

=============================================================================
