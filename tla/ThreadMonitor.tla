--------------------------- MODULE ThreadMonitor ---------------------------
(***************************************************************************)
(* The detached-node supervisor of AppTask: HandleThreadStateChange, and   *)
(* the reboot that UpdateCommissioningAwakePolicy decides from what it     *)
(* left behind (src/app_task.cpp).                                         *)
(*                                                                         *)
(* OpenThread changes its device role whenever it likes.  The application  *)
(* learns of it only by sampling: mCommissionPolicyTimer expires every     *)
(* PollPeriod, its ISR queues one work item, and the Matter thread runs it *)
(* at most Latency later, or never when the queue was full: the result of  *)
(* ScheduleWork is ignored.  All the hazards are in that gap.  The rest of *)
(* the same work item (sleep hold, TX power, kick) is CommissioningHold.   *)
(*                                                                         *)
(* This is the build with kEnableDiagnosticMode, the only one that counts  *)
(* and reboots.  The two counters are the RAM ones; what flash keeps of    *)
(* them, with saves that fail or are cut short, is DiagCounters.           *)
(***************************************************************************)
EXTENDS Integers

CONSTANTS
  PollPeriod,       \* kCommissionAwakeKickPeriodMs, the period of the policy timer
  Latency,          \* how late the Matter thread may start a queued work item
  RebootThreshold,  \* kDetachedRebootThresholdMs
  Rlocs,            \* RLOC16s a parent may have; 0 is a legal one
  CounterSize,      \* values of a uint32_t diagnostic counter
  MaxUptime         \* bound: the uptime a boot is explored to

ASSUME TimingAssumption ==
  /\ PollPeriod \in Nat \ {0}
  /\ Latency \in Nat
  /\ RebootThreshold \in Nat
  /\ CounterSize \in Nat \ {0}
  /\ MaxUptime \in Nat

Roles == {"disabled", "detached", "child", "router", "leader"}

VARIABLES
  uptime,                  \* k_uptime_get()
  phase,                   \* "running", or "rebooting" after sys_reboot or a reset
  due,                     \* expiry of the policy timer not served yet
  otInstance,              \* openthread_get_default_instance() != nullptr
  role,                    \* what otThreadGetDeviceRole() would return now
  commissioned,            \* FabricCount() > 0
  mLastThreadRole,
  mThreadDetached,
  mThreadDetachedSinceMs,
  mHasLastParent,
  mLastParentRloc16,
  detachCount,             \* mDiagThreadDetachCount
  reattachCount,           \* mDiagThreadReattachCount
  \* History, read by the properties only:
  detachedFrom,            \* when the role became "detached", 0 while it is another
  commissionedFrom,        \* when the node became commissioned, 0 while it is not
  attachedPoll,            \* the last poll that saw another role than "detached"
  lastLost,                \* the last policy work item lost since the role changed, or 0
  loadedGap                \* detachCount - reattachCount as this boot loaded them

env == <<otInstance, role, commissioned, detachedFrom, commissionedFrom>>
roleVars == <<mLastThreadRole, mThreadDetached, mThreadDetachedSinceMs,
              detachCount, reattachCount>>
parentVars == <<mHasLastParent, mLastParentRloc16>>
history == <<attachedPoll, lastLost, loadedGap>>
vars == <<uptime, phase, due, env, roleVars, parentVars, history>>

\* Mutants: a counter that saturates, and one that outgrows its width.
IncrementSaturates(n) == IF n = CounterSize - 1 THEN n ELSE n + 1
IncrementUnbounded(n) == n + 1

\* ++counter on a uint32_t.
Increment(n) == IF n = CounterSize - 1 THEN 0 ELSE n + 1

\* DiagOnBoot: any two values may come back from flash.  A save may have
\* failed or been cut short, a load may fail, wipe_settings erases.
LoadCounters(detached, reattached) ==
  /\ detachCount' = detached
  /\ reattachCount' = reattached
  /\ loadedGap' = IF detached >= reattached THEN detached - reattached
                  ELSE detached - reattached + CounterSize

-----------------------------------------------------------------------------
(* Power-on: the constructor's values, the policy timer just started.      *)

Init ==
  /\ uptime = 0
  /\ phase = "running"
  /\ due = PollPeriod
  /\ otInstance \in BOOLEAN
  /\ role = "disabled"
  /\ commissioned \in BOOLEAN
  /\ mLastThreadRole = "disabled"
  /\ mThreadDetached = FALSE
  /\ mThreadDetachedSinceMs = 0
  /\ mHasLastParent = FALSE
  /\ mLastParentRloc16 = 0
  /\ detachCount = 0
  /\ reattachCount = 0
  /\ detachedFrom = 0
  /\ commissionedFrom = 0
  /\ attachedPoll = 0
  /\ lastLost = 0
  /\ loadedGap = 0

-----------------------------------------------------------------------------
(* HandleThreadStateChange, called with every flag set and under the       *)
(* Thread stack lock: the role cannot change while it runs.                *)

LostNetwork == role = "detached" /\ ~mThreadDetached
FoundNetwork == role # "detached" /\ mThreadDetached

NoteLost ==
  /\ LostNetwork
  /\ mThreadDetached' = TRUE
  /\ mThreadDetachedSinceMs' = uptime
  /\ detachCount' = Increment(detachCount)
  /\ UNCHANGED reattachCount

\* Mutant: the start of the detachment is not cleared.
NoteFoundKeepsSince ==
  /\ FoundNetwork
  /\ mThreadDetached' = FALSE
  /\ reattachCount' = Increment(reattachCount)
  /\ UNCHANGED <<mThreadDetachedSinceMs, detachCount>>

NoteFound ==
  /\ FoundNetwork
  /\ mThreadDetached' = FALSE
  /\ mThreadDetachedSinceMs' = 0
  /\ reattachCount' = Increment(reattachCount)
  /\ UNCHANGED detachCount

NoteOther ==
  /\ ~LostNetwork /\ ~FoundNetwork
  /\ UNCHANGED <<mThreadDetached, mThreadDetachedSinceMs, detachCount, reattachCount>>

\* Mutant: without the comparison with mLastThreadRole, every detached
\* poll stamps the detachment again.
ObserveRoleEveryPoll ==
  \/ /\ role = "detached"
     /\ mLastThreadRole' = role
     /\ mThreadDetached' = TRUE
     /\ mThreadDetachedSinceMs' = uptime
     /\ detachCount' = IF mThreadDetached THEN detachCount ELSE Increment(detachCount)
     /\ UNCHANGED reattachCount
  \/ /\ role # "detached"
     /\ mLastThreadRole' = role
     /\ NoteFound \/ NoteOther

ObserveRole ==
  \/ role = mLastThreadRole /\ UNCHANGED roleVars
  \/ /\ role # mLastThreadRole
     /\ mLastThreadRole' = role
     /\ NoteLost \/ NoteFound \/ NoteOther

\* parent is {} when otThreadGetParentInfo fails, else the RLOC16 it returns.
ObserveParent(parent) ==
  \/ /\ role = "child"
     /\ parent = {}
     /\ UNCHANGED parentVars
  \/ /\ role = "child"
     /\ mLastParentRloc16' \in parent
     /\ mHasLastParent' = TRUE
  \/ /\ role # "child"
     /\ mHasLastParent' = FALSE
     /\ mLastParentRloc16' = IF mHasLastParent THEN 0 ELSE mLastParentRloc16

HandleThreadStateChange(parent) ==
  \/ ~otInstance /\ UNCHANGED <<roleVars, parentVars>>
  \/ otInstance /\ ObserveRole /\ ObserveParent(parent)

-----------------------------------------------------------------------------
(* The policy work item.                                                   *)

DetachedTooLong(detached, since) ==
  commissioned /\ detached /\ since > 0 /\ uptime - since > RebootThreshold

\* Mutant: decides from what the previous poll left, before it observes.
PollDecidesFirst ==
  /\ phase = "running"
  /\ uptime >= due
  /\ due' = due + PollPeriod
  /\ \E parent \in {{}} \cup {{r} : r \in Rlocs} : HandleThreadStateChange(parent)
  /\ phase' = IF DetachedTooLong(mThreadDetached, mThreadDetachedSinceMs)
              THEN "rebooting" ELSE "running"
  /\ attachedPoll' = IF role = "detached" THEN attachedPoll ELSE uptime
  /\ UNCHANGED <<uptime, env, lastLost, loadedGap>>

Poll ==
  /\ phase = "running"
  /\ uptime >= due
  /\ due' = due + PollPeriod
  /\ \E parent \in {{}} \cup {{r} : r \in Rlocs} : HandleThreadStateChange(parent)
  /\ phase' = IF DetachedTooLong(mThreadDetached', mThreadDetachedSinceMs')
              THEN "rebooting" ELSE "running"
  /\ attachedPoll' = IF role = "detached" THEN attachedPoll ELSE uptime
  /\ UNCHANGED <<uptime, env, lastLost, loadedGap>>

\* The event queue is full, and nobody looks at the result of ScheduleWork.
LoseWork ==
  /\ phase = "running"
  /\ uptime >= due
  /\ due' = due + PollPeriod
  /\ lastLost' = uptime
  /\ UNCHANGED <<uptime, phase, env, roleVars, parentVars, attachedPoll, loadedGap>>

-----------------------------------------------------------------------------
(* The environment: time, OpenThread, the fabric table, other resets.      *)

Tick ==
  /\ phase = "running"
  /\ uptime < due + Latency
  /\ uptime < MaxUptime
  /\ uptime' = uptime + 1
  /\ UNCHANGED <<phase, due, env, roleVars, parentVars, history>>

RoleChanges(r) ==
  /\ phase = "running"
  /\ otInstance
  /\ r # role
  /\ role' = r
  /\ detachedFrom' = IF r = "detached" THEN uptime ELSE 0
  /\ lastLost' = 0
  /\ UNCHANGED <<uptime, phase, due, otInstance, commissioned, commissionedFrom,
                 roleVars, parentVars, attachedPoll, loadedGap>>

FabricsChange ==
  /\ phase = "running"
  /\ commissioned' = ~commissioned
  /\ commissionedFrom' = IF commissioned THEN 0 ELSE uptime
  /\ UNCHANGED <<uptime, phase, due, otInstance, role, detachedFrom,
                 roleVars, parentVars, history>>

\* A watchdog reset, a power cycle or another sys_reboot.
Reset ==
  /\ phase = "running"
  /\ phase' = "rebooting"
  /\ UNCHANGED <<uptime, due, env, roleVars, parentVars, history>>

\* RAM starts over; fabrics come back from flash, and what it has of counters.
Boot ==
  /\ phase = "rebooting"
  /\ uptime' = 0
  /\ phase' = "running"
  /\ due' = PollPeriod
  /\ role' = "disabled"
  /\ mLastThreadRole' = "disabled"
  /\ mThreadDetached' = FALSE
  /\ mThreadDetachedSinceMs' = 0
  /\ mHasLastParent' = FALSE
  /\ mLastParentRloc16' = 0
  /\ detachedFrom' = 0
  /\ commissionedFrom' = 0
  /\ attachedPoll' = 0
  /\ lastLost' = 0
  /\ \E d, r \in 0..CounterSize - 1 : LoadCounters(d, r)
  /\ UNCHANGED <<otInstance, commissioned>>

Next ==
  \/ Tick
  \/ Poll
  \/ LoseWork
  \/ \E r \in Roles : RoleChanges(r)
  \/ FabricsChange
  \/ Reset
  \/ Boot

Spec == Init /\ [][Next]_vars

-----------------------------------------------------------------------------
(* Properties.                                                             *)

TypeOK ==
  /\ uptime \in Nat
  /\ phase \in {"running", "rebooting"}
  /\ due \in Nat
  /\ otInstance \in BOOLEAN
  /\ role \in Roles
  /\ commissioned \in BOOLEAN
  /\ mLastThreadRole \in Roles
  /\ mThreadDetached \in BOOLEAN
  /\ mThreadDetachedSinceMs \in Nat
  /\ mHasLastParent \in BOOLEAN
  /\ mLastParentRloc16 \in Rlocs \cup {0}
  /\ detachCount \in 0..CounterSize - 1
  /\ reattachCount \in 0..CounterSize - 1
  /\ detachedFrom \in Nat
  /\ commissionedFrom \in Nat
  /\ attachedPoll \in Nat
  /\ lastLost \in Nat
  /\ loadedGap \in 0..CounterSize - 1

(* The three role variables are written by different branches of           *)
(* HandleThreadStateChange, and a parent by a third: whatever the order of *)
(* role changes, failed parent reads and resets, they tell one story.      *)
MonitorConsistent ==
  /\ mThreadDetached <=> mLastThreadRole = "detached"
  /\ mThreadDetached <=> mThreadDetachedSinceMs > 0
  /\ mThreadDetachedSinceMs <= uptime
  /\ mHasLastParent => mLastThreadRole = "child"
  /\ ~mHasLastParent => mLastParentRloc16 = 0

Later(a, b) == IF a >= b THEN a ELSE b

(* The reboot comes in time: a running node that is detached and           *)
(* commissioned has not been so for longer than the threshold and the two  *)
(* sampling delays, that of the poll that noticed the detachment and that  *)
(* of the poll that must reboot, whichever of the two conditions came last *)
(* and however the role flapped before.  A lost work item may have been    *)
(* either poll, so the last one lost starts the wait over, and no more.    *)
RebootDeadline ==
  phase = "running" /\ role = "detached" /\ commissioned
    => uptime <= Later(Later(detachedFrom, lastLost) + PollPeriod + Latency + RebootThreshold,
                       commissionedFrom)
                 + PollPeriod + Latency

SupervisorReboots ==
  phase = "running" /\ phase' = "rebooting" /\ due' # due

(* The reboot does not come early: every poll of the last RebootThreshold, *)
(* the one that reboots included, found the node detached, so one attached *)
(* poll always restarts the wait.                                          *)
RebootOnlyAfterDetachedPolls ==
  [][SupervisorReboots => uptime - attachedPoll' > RebootThreshold]_vars

(* Every detachment this boot has counted is paired with a reattachment it *)
(* counted or is the current one: since the boot, the gap between the two  *)
(* counters has grown by the current detachment and nothing else, modulo   *)
(* their width and whatever flash gave back.  Across boots the code keeps  *)
(* no such balance.                                                        *)
DetachesAccounted ==
  detachCount =
    (reattachCount + loadedGap + (IF mThreadDetached THEN 1 ELSE 0)) % CounterSize

(* What README.md says of the reboot, taken by the word: the node stayed   *)
(* detached for longer than the threshold.  The polls miss a shorter       *)
(* reattachment, so the code does not keep it.                             *)
RebootOnlyIfDetachedThroughout ==
  [][SupervisorReboots => uptime - detachedFrom > RebootThreshold]_vars

=============================================================================
