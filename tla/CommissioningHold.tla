-------------------------- MODULE CommissioningHold --------------------------
(***************************************************************************)
(* The commissioning hold of UpdateCommissioningAwakePolicy and            *)
(* ApplyThreadTxPower (src/app_task.cpp): while the commissioning window   *)
(* is open, and for a grace after it closes, the radio gets full power and *)
(* the ICD manager is kicked; otherwise the radio gets the power of the    *)
(* build.                                                                  *)
(*                                                                         *)
(* The window belongs to the Matter server.  The policy work item samples  *)
(* it every PollPeriod, after it has read the clock and waited for the     *)
(* Thread lock; it runs on the Matter thread, as everything that opens or  *)
(* closes the window does.                                                 *)
(***************************************************************************)
EXTENDS Integers

CONSTANTS
  PollPeriod,      \* kCommissionAwakeKickPeriodMs, also the period of the policy timer
  Latency,         \* how late the Matter thread may be done with a work item
  PostCloseGrace,  \* kCommissionWindowPostCloseGraceMs
  FullPower,       \* kCommissioningThreadTxPowerDbm
  LowPower,        \* kPostCommissionThreadTxPowerDbm
  DefaultPower,    \* OPENTHREAD_DEFAULT_TX_POWER
  MaxUptime        \* bound: the uptime a boot is explored to

NotApplied == -128

ASSUME HoldAssumption ==
  /\ PollPeriod \in Nat \ {0}
  /\ Latency \in Nat
  /\ PostCloseGrace \in Nat
  /\ FullPower \in Int \ {NotApplied}
  /\ LowPower \in Int \ {NotApplied}
  /\ DefaultPower \in Int
  /\ MaxUptime \in Nat

VARIABLES
  now,                       \* k_uptime_get()
  due,                       \* expiry of mCommissionPolicyTimer not served yet
  running,                   \* the work item has read the clock
  nowMs,                     \* what it read; 0 when it does not run
  windowOpen,                \* IsCommissioningWindowOpen()
  radioPower,                \* the transmit power the radio uses
  mCommissioningWindowOpen,
  mStayAwakeUntilMs,
  mLastAwakeKickMs,
  mAppliedThreadTxPowerDbm,
  \* History, read by the properties only:
  openedFrom,                \* when the window last opened
  closedFrom,                \* when it last closed
  owedUntil,                 \* end of the grace after the last window that was seen
  lastLost,                  \* when a work item was last lost
  lastFailed,                \* when the radio last refused a power
  kickedAt                   \* when OnNetworkActivity was last called

window == <<windowOpen, openedFrom, closedFrom, owedUntil>>
radio == <<radioPower, mAppliedThreadTxPowerDbm, lastFailed>>
hold == <<mCommissioningWindowOpen, mStayAwakeUntilMs>>
kick == <<mLastAwakeKickMs, kickedAt>>
item == <<due, running, nowMs>>
vars == <<now, item, window, radio, hold, kick, lastLost>>

Boot ==
  /\ now = 0
  /\ due = PollPeriod
  /\ running = FALSE
  /\ nowMs = 0
  /\ radioPower = DefaultPower
  /\ mCommissioningWindowOpen = FALSE
  /\ mStayAwakeUntilMs = 0
  /\ mLastAwakeKickMs = 0
  /\ mAppliedThreadTxPowerDbm = NotApplied
  /\ openedFrom = 0
  /\ closedFrom = 0
  /\ owedUntil = 0
  /\ lastLost = 0
  /\ lastFailed = 0
  /\ kickedAt = 0

\* Pairing autostart opens the window of a node without fabrics.
Init == Boot /\ windowOpen \in BOOLEAN

-----------------------------------------------------------------------------
(* The policy work item.                                                   *)

ReadClock ==
  /\ ~running
  /\ now >= due
  /\ running' = TRUE
  /\ nowMs' = now
  /\ UNCHANGED <<now, due, window, radio, hold, kick, lastLost>>

\* Mutants: a grace at every sample of a closed window; no grace.
ObserveWindowLevel ==
  /\ mCommissioningWindowOpen' = windowOpen
  /\ mStayAwakeUntilMs' = IF windowOpen THEN 0 ELSE nowMs + PostCloseGrace
ObserveWindowNoGrace ==
  /\ mCommissioningWindowOpen' = windowOpen
  /\ mStayAwakeUntilMs' = 0

ObserveWindow ==
  /\ mCommissioningWindowOpen' = windowOpen
  /\ mStayAwakeUntilMs' = IF windowOpen = mCommissioningWindowOpen THEN mStayAwakeUntilMs
                          ELSE IF windowOpen THEN 0 ELSE nowMs + PostCloseGrace

\* Mutant: the power counts as applied although the radio refused it.
ApplyThreadTxPowerOnce(power) ==
  \/ mAppliedThreadTxPowerDbm = power /\ UNCHANGED radio
  \/ /\ mAppliedThreadTxPowerDbm # power
     /\ mAppliedThreadTxPowerDbm' = power
     /\ \/ radioPower' = power /\ UNCHANGED lastFailed
        \/ lastFailed' = now /\ UNCHANGED radioPower

\* No OpenThread instance, or an error of otPlatRadioSetTransmitPower, leaves
\* everything for the next work item to try again.
ApplyThreadTxPower(power) ==
  \/ mAppliedThreadTxPowerDbm = power /\ UNCHANGED radio
  \/ /\ mAppliedThreadTxPowerDbm # power
     /\ mAppliedThreadTxPowerDbm' = power
     /\ radioPower' = power
     /\ UNCHANGED lastFailed
  \/ /\ mAppliedThreadTxPowerDbm # power
     /\ lastFailed' = now
     /\ UNCHANGED <<mAppliedThreadTxPowerDbm, radioPower>>

\* Mutant: no kick while the window is open.
KickInGraceOnly(holdActive) ==
  \/ /\ mStayAwakeUntilMs' > nowMs /\ nowMs - mLastAwakeKickMs >= PollPeriod
     /\ mLastAwakeKickMs' = nowMs
     /\ kickedAt' = now
  \/ /\ ~(mStayAwakeUntilMs' > nowMs /\ nowMs - mLastAwakeKickMs >= PollPeriod)
     /\ UNCHANGED kick

Kick(holdActive) ==
  \/ /\ holdActive /\ nowMs - mLastAwakeKickMs >= PollPeriod
     /\ mLastAwakeKickMs' = nowMs
     /\ kickedAt' = now
  \/ /\ ~(holdActive /\ nowMs - mLastAwakeKickMs >= PollPeriod)
     /\ UNCHANGED kick

HoldActive == windowOpen \/ mStayAwakeUntilMs' > nowMs

UpdateCommissioningAwakePolicy ==
  /\ running
  /\ running' = FALSE
  /\ nowMs' = 0
  /\ due' = due + PollPeriod
  /\ ObserveWindow
  /\ ApplyThreadTxPower(IF HoldActive THEN FullPower ELSE LowPower)
  /\ Kick(HoldActive)
  /\ UNCHANGED <<now, window, lastLost>>

\* The event queue is full; nobody looks at the result of ScheduleWork.
LoseWork ==
  /\ ~running
  /\ now >= due
  /\ due' = due + PollPeriod
  /\ lastLost' = now
  /\ UNCHANGED <<now, running, nowMs, window, radio, hold, kick>>

-----------------------------------------------------------------------------
(* The environment.                                                        *)

Tick ==
  /\ now < MaxUptime
  /\ now < due + Latency
  /\ now' = now + 1
  /\ UNCHANGED <<item, window, radio, hold, kick, lastLost>>

OpenWindow ==
  /\ ~running
  /\ ~windowOpen
  /\ windowOpen' = TRUE
  /\ openedFrom' = now
  /\ UNCHANGED <<now, item, closedFrom, owedUntil, radio, hold, kick, lastLost>>

\* Commissioning is complete, the window timed out, or it was revoked.
CloseWindow ==
  /\ ~running
  /\ windowOpen
  /\ windowOpen' = FALSE
  /\ closedFrom' = now
  /\ owedUntil' = IF mCommissioningWindowOpen THEN now + PostCloseGrace ELSE owedUntil
  /\ UNCHANGED <<now, item, openedFrom, radio, hold, kick, lastLost>>

\* Of any kind, between any two steps: the hold lives in RAM.
Reset ==
  /\ now' = 0
  /\ due' = PollPeriod
  /\ running' = FALSE
  /\ nowMs' = 0
  /\ radioPower' = DefaultPower
  /\ mCommissioningWindowOpen' = FALSE
  /\ mStayAwakeUntilMs' = 0
  /\ mLastAwakeKickMs' = 0
  /\ mAppliedThreadTxPowerDbm' = NotApplied
  /\ openedFrom' = 0
  /\ closedFrom' = 0
  /\ owedUntil' = 0
  /\ lastLost' = 0
  /\ lastFailed' = 0
  /\ kickedAt' = 0
  /\ windowOpen' \in BOOLEAN

Next ==
  \/ ReadClock
  \/ UpdateCommissioningAwakePolicy
  \/ LoseWork
  \/ Tick
  \/ OpenWindow
  \/ CloseWindow
  \/ Reset

Spec == Init /\ [][Next]_vars

-----------------------------------------------------------------------------
(* Properties.                                                             *)

TypeOK ==
  /\ now \in Nat
  /\ due \in Nat
  /\ running \in BOOLEAN
  /\ nowMs \in Nat
  /\ windowOpen \in BOOLEAN
  /\ radioPower \in {FullPower, LowPower, DefaultPower}
  /\ mCommissioningWindowOpen \in BOOLEAN
  /\ mStayAwakeUntilMs \in Nat
  /\ mLastAwakeKickMs \in Nat
  /\ mAppliedThreadTxPowerDbm \in {NotApplied, FullPower, LowPower}
  /\ openedFrom \in Nat
  /\ closedFrom \in Nat
  /\ owedUntil \in Nat
  /\ lastLost \in Nat
  /\ lastFailed \in Nat
  /\ kickedAt \in Nat

Later(a, b) == IF a >= b THEN a ELSE b

LastTrouble == Later(lastLost, lastFailed)

\* A work item that began after t, and after the last trouble, is done.
Sampled(t) == now > Later(t, LastTrouble) + PollPeriod + Latency

(* Full power in the hold: one sampling delay after the window opened, or  *)
(* the last failure, the radio has full power, and it keeps it for the     *)
(* whole grace after the window closed if a work item had seen it open.    *)
FullPowerInHold ==
  /\ windowOpen /\ Sampled(openedFrom) => radioPower = FullPower
  /\ now < owedUntil /\ Sampled(0) => radioPower = FullPower

(* The hold ends: two sampling delays after the grace is over, the radio   *)
(* has the power of the build, and the battery is not drained for ever.    *)
LowPowerAfterHold ==
  ~windowOpen /\ Sampled(Later(closedFrom, LastTrouble) + PollPeriod + Latency + PostCloseGrace)
    => radioPower = LowPower

(* No work item lowers the power while the window is open or its grace     *)
(* runs, not even one that read the clock long before.                     *)
NeverLowersInHold ==
  [][UpdateCommissioningAwakePolicy /\ radioPower' \notin {radioPower, FullPower}
       => ~windowOpen /\ nowMs >= owedUntil]_vars

(* While the window is open the ICD manager is kicked at least every other *)
(* period: a work item that starts early after a late one does not kick.   *)
KickedInHold ==
  windowOpen =>
    now <= Later(Later(openedFrom, lastLost), kickedAt) + 2 * PollPeriod + Latency

=============================================================================
