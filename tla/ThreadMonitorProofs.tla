------------------------- MODULE ThreadMonitorProofs ------------------------
(***************************************************************************)
(* What TLAPS proves of ThreadMonitor, for every period, latency,          *)
(* threshold, set of RLOC16s, counter width and uptime.                    *)
(***************************************************************************)
EXTENDS ThreadMonitor, TLAPS

(* A counter keeps its width.                                             *)
LEMMA IncrementType ==
  ASSUME NEW n \in 0..CounterSize - 1
  PROVE  Increment(n) \in 0..CounterSize - 1
BY TimingAssumption DEF Increment

(* Whatever comes back from flash, the counters and their gap have it.    *)
LEMMA LoadedType ==
  ASSUME NEW d \in 0..CounterSize - 1, NEW r \in 0..CounterSize - 1, LoadCounters(d, r)
  PROVE  /\ detachCount' \in 0..CounterSize - 1
         /\ reattachCount' \in 0..CounterSize - 1
         /\ loadedGap' \in 0..CounterSize - 1
BY TimingAssumption DEF LoadCounters

(* A poll due within a period of one of three times is due within a       *)
(* period of the latest.                                                   *)
LEMMA PollInTime ==
  ASSUME NEW d \in Nat, NEW s \in Nat, NEW t \in Nat, NEW c \in Nat, NEW f \in Nat,
         NEW p \in Nat, d <= s + t + p
  PROVE  d <= Later(Later(s + t, c), f) + p
BY DEF Later

(* The arithmetic of the reboot threshold.                                *)
LEMMA LongerThan ==
  ASSUME NEW now \in Nat, NEW since \in Nat, NEW from \in Nat, NEW t \in Nat,
         now - since > t, from <= since
  PROVE  now - from > t
OBVIOUS

(* The initial state is well typed.                                       *)
LEMMA InitType == Init => TypeOK
<1>1. 0 \in 0..CounterSize - 1
  BY TimingAssumption
<1>2. PollPeriod \in Nat
  BY TimingAssumption
<1>3. Init => /\ otInstance \in BOOLEAN
              /\ commissioned \in BOOLEAN
              /\ mThreadDetached \in BOOLEAN
              /\ mHasLastParent \in BOOLEAN
  BY Zenon DEF Init
<1> QED
  BY <1>1, <1>2, <1>3 DEF Init, TypeOK, Roles

(* Every step keeps the types.                                            *)
LEMMA StepType ==
  ASSUME TypeOK, [Next]_vars
  PROVE  TypeOK'
<1> USE TimingAssumption
<1>1. CASE Tick
  BY <1>1 DEF Tick, TypeOK, env, roleVars, parentVars, history
<1>2. CASE Poll
  <2>1. PICK parent \in {{}} \cup {{r} : r \in Rlocs} : HandleThreadStateChange(parent)
    BY <1>2 DEF Poll
  <2>2. /\ mLastThreadRole' \in Roles
        /\ mThreadDetached' \in BOOLEAN
        /\ mThreadDetachedSinceMs' \in Nat
        /\ detachCount' \in 0..CounterSize - 1
        /\ reattachCount' \in 0..CounterSize - 1
    <3>1. CASE UNCHANGED roleVars
      BY <3>1 DEF TypeOK, roleVars
    <3>2. CASE mLastThreadRole' = role /\ NoteLost
      BY <3>2, IncrementType DEF TypeOK, NoteLost
    <3>3. CASE mLastThreadRole' = role /\ NoteFound
      BY <3>3, IncrementType DEF TypeOK, NoteFound
    <3>4. CASE mLastThreadRole' = role /\ NoteOther
      BY <3>4 DEF TypeOK, NoteOther
    <3> QED
      BY <2>1, <3>1, <3>2, <3>3, <3>4 DEF HandleThreadStateChange, ObserveRole
  <2>3. mHasLastParent' \in BOOLEAN /\ mLastParentRloc16' \in Rlocs \cup {0}
    BY <2>1 DEF TypeOK, HandleThreadStateChange, ObserveParent, parentVars
  <2> QED
    BY <1>2, <2>2, <2>3 DEF Poll, TypeOK, env
<1>3. ASSUME NEW r \in Roles, RoleChanges(r) PROVE TypeOK'
  BY <1>3 DEF RoleChanges, TypeOK, roleVars, parentVars
<1>4. CASE FabricsChange
  BY <1>4 DEF FabricsChange, TypeOK, roleVars, parentVars, history
<1>5. CASE Reset
  BY <1>5 DEF Reset, TypeOK, env, roleVars, parentVars, history
<1>6. CASE Boot
  <2>1. /\ detachCount' \in 0..CounterSize - 1
        /\ reattachCount' \in 0..CounterSize - 1
        /\ loadedGap' \in 0..CounterSize - 1
    BY <1>6, LoadedType DEF Boot
  <2> QED
    BY <1>6, <2>1 DEF Boot, TypeOK, Roles
<1>7. CASE LoseWork
  BY <1>7 DEF LoseWork, TypeOK, env, roleVars, parentVars
<1>8. CASE UNCHANGED vars
  BY <1>8 DEF TypeOK, vars, env, roleVars, parentVars, history
<1> QED
  BY <1>1, <1>2, <1>3, <1>4, <1>5, <1>6, <1>7, <1>8 DEF Next

(* Type correctness, for every value of the constants. *)
THEOREM TypeCorrect == Spec => []TypeOK
<1>1. TypeOK /\ [Next]_vars => TypeOK'
  BY StepType
<1> QED
  BY <1>1, InitType, PTL DEF Spec

-----------------------------------------------------------------------------
(* The invariant behind the other theorems.  The first conjunct is the     *)
(* timer's: an expiry is served or lost within Latency, and the next is    *)
(* never further ahead than a period.                                      *)

PollClock ==
  /\ uptime <= due + Latency
  /\ due <= uptime + PollPeriod
  /\ due >= PollPeriod
  /\ attachedPoll <= uptime
  /\ lastLost <= uptime

\* Since when the role has been "detached" with every work item served.
ServedFrom == Later(detachedFrom, lastLost)

\* What the supervisor still has to notice, or has noticed and when.
DetachmentSeen ==
  role = "detached" =>
    IF mThreadDetached
    THEN mThreadDetachedSinceMs <= ServedFrom + PollPeriod + Latency
    ELSE due <= ServedFrom + PollPeriod

\* Once a poll has let a detached commissioned node run, the next is in time.
WaitNotOver ==
  phase = "running" /\ role = "detached" /\ mThreadDetached /\ commissioned =>
    due <= Later(Later(mThreadDetachedSinceMs + RebootThreshold, commissionedFrom),
                 ServedFrom) + PollPeriod

NeverDetachedWithoutStack ==
  otInstance \/ (role # "detached" /\ ~mThreadDetached)

DetachedSinceAttachedPoll ==
  mThreadDetached => attachedPoll <= mThreadDetachedSinceMs

MonitorInv ==
  /\ TypeOK
  /\ MonitorConsistent
  /\ PollClock
  /\ NeverDetachedWithoutStack
  /\ DetachmentSeen
  /\ WaitNotOver
  /\ DetachedSinceAttachedPoll

\* What HandleThreadStateChange does to the role variables in a poll.
LEMMA ObservedRole ==
  ASSUME MonitorInv, NEW parent, HandleThreadStateChange(parent)
  PROVE  \/ ~otInstance /\ UNCHANGED <<roleVars, parentVars>>
         \/ /\ otInstance
            /\ mLastThreadRole' = role
            /\ mThreadDetached' = (role = "detached")
            /\ mThreadDetachedSinceMs' =
                 IF role = "detached"
                 THEN IF mThreadDetached THEN mThreadDetachedSinceMs ELSE uptime
                 ELSE 0
<1>1. CASE ~otInstance
  BY <1>1 DEF HandleThreadStateChange
<1>2. CASE otInstance
  <2>1. ObserveRole
    BY <1>2 DEF HandleThreadStateChange
  <2>2. CASE role = mLastThreadRole /\ UNCHANGED roleVars
    <3>1. CASE mThreadDetached
      BY <1>2, <2>2, <3>1 DEF MonitorInv, MonitorConsistent, TypeOK, roleVars
    <3>2. CASE ~mThreadDetached
      BY <1>2, <2>2, <3>2 DEF MonitorInv, MonitorConsistent, TypeOK, roleVars
    <3> QED
      BY <3>1, <3>2
  <2>3. CASE mLastThreadRole' = role /\ NoteLost
    BY <1>2, <2>3 DEF NoteLost, LostNetwork
  <2>4. CASE mLastThreadRole' = role /\ NoteFound
    BY <1>2, <2>4 DEF NoteFound, FoundNetwork
  <2>5. CASE mLastThreadRole' = role /\ role # mLastThreadRole /\ NoteOther
    BY <1>2, <2>5 DEF NoteOther, LostNetwork, FoundNetwork, MonitorInv,
      MonitorConsistent, TypeOK
  <2> QED
    BY <2>1, <2>2, <2>3, <2>4, <2>5 DEF ObserveRole
<1> QED
  BY <1>1, <1>2

(* The invariant holds at power-on.                                       *)
LEMMA InitMonitor == Init => MonitorInv
<1> SUFFICES ASSUME Init PROVE MonitorInv
  OBVIOUS
<1>1. TypeOK
  BY InitType
<1>2. MonitorConsistent
  BY DEF Init, MonitorConsistent
<1>3. PollClock
  BY TimingAssumption DEF Init, PollClock
<1> QED
  BY <1>1, <1>2, <1>3 DEF Init, MonitorInv, DetachmentSeen, WaitNotOver,
    DetachedSinceAttachedPoll, NeverDetachedWithoutStack

\* The poll, the only step that reads the role.
LEMMA PollMonitor ==
  ASSUME MonitorInv, Poll
  PROVE  MonitorInv'
<1> USE TimingAssumption DEF MonitorInv
<1>1. PICK parent \in {{}} \cup {{r} : r \in Rlocs} : HandleThreadStateChange(parent)
  BY DEF Poll
<1>2. \/ ~otInstance /\ UNCHANGED <<roleVars, parentVars>>
      \/ /\ otInstance
         /\ mLastThreadRole' = role
         /\ mThreadDetached' = (role = "detached")
         /\ mThreadDetachedSinceMs' =
              IF role = "detached"
              THEN IF mThreadDetached THEN mThreadDetachedSinceMs ELSE uptime
              ELSE 0
  BY <1>1, ObservedRole
<1>3. TypeOK'
  BY StepType DEF Next
<1>4. /\ uptime >= due /\ uptime > 0
      /\ due' = due + PollPeriod
      /\ UNCHANGED <<uptime, otInstance, role, commissioned, detachedFrom, commissionedFrom,
                     lastLost>>
      /\ attachedPoll' = IF role = "detached" THEN attachedPoll ELSE uptime
      /\ phase' = "running" => ~DetachedTooLong(mThreadDetached', mThreadDetachedSinceMs')
  BY DEF Poll, env, PollClock, TypeOK
<1>5. MonitorConsistent'
  <2>1. CASE ~otInstance /\ UNCHANGED <<roleVars, parentVars>>
    BY <1>4, <2>1 DEF MonitorConsistent, roleVars, parentVars
  <2>2. CASE otInstance
    <3>1. /\ mThreadDetached' <=> mLastThreadRole' = "detached"
          /\ mThreadDetached' <=> mThreadDetachedSinceMs' > 0
          /\ mThreadDetachedSinceMs' <= uptime'
      <4>1. CASE role = "detached"
        <5>1. mLastThreadRole' = "detached" /\ mThreadDetached'
          BY <1>2, <2>2, <4>1
        <5>2. mThreadDetachedSinceMs' =
                IF mThreadDetached THEN mThreadDetachedSinceMs ELSE uptime
          BY <1>2, <2>2, <4>1
        <5>3. mThreadDetachedSinceMs' > 0 /\ mThreadDetachedSinceMs' <= uptime'
          BY <1>4, <5>2 DEF MonitorConsistent, TypeOK
        <5> QED
          BY <5>1, <5>3
      <4>2. CASE role # "detached"
        BY <1>2, <1>4, <2>2, <4>2 DEF MonitorConsistent, TypeOK
      <4> QED
        BY <4>1, <4>2
    <3>2. ObserveParent(parent)
      BY <1>1, <2>2 DEF HandleThreadStateChange
    <3>3. /\ mHasLastParent' => mLastThreadRole' = "child"
          /\ ~mHasLastParent' => mLastParentRloc16' = 0
      BY <1>2, <2>2, <3>2 DEF ObserveParent, MonitorConsistent, TypeOK, parentVars
    <3> QED
      BY <3>1, <3>3 DEF MonitorConsistent
  <2> QED
    BY <1>2, <2>1, <2>2
<1>6. PollClock'
  BY <1>4 DEF PollClock, TypeOK
<1>7. CASE ~otInstance
  <2>1. role' # "detached" /\ ~mThreadDetached'
    BY <1>2, <1>4, <1>7 DEF NeverDetachedWithoutStack, roleVars
  <2> QED
    BY <1>3, <1>4, <1>5, <1>6, <1>7, <2>1
      DEF DetachmentSeen, WaitNotOver, DetachedSinceAttachedPoll, NeverDetachedWithoutStack
<1>8. CASE otInstance /\ role # "detached"
  <2>1. ~mThreadDetached' /\ role' # "detached"
    BY <1>2, <1>4, <1>8
  <2> QED
    BY <1>3, <1>4, <1>5, <1>6, <1>8, <2>1
      DEF DetachmentSeen, WaitNotOver, DetachedSinceAttachedPoll, NeverDetachedWithoutStack
<1>9. CASE otInstance /\ role = "detached"
  <2>1. /\ mThreadDetached'
        /\ mThreadDetachedSinceMs' = IF mThreadDetached THEN mThreadDetachedSinceMs ELSE uptime
    BY <1>2, <1>9
  <2>2. DetachmentSeen'
    BY <1>4, <1>9, <2>1 DEF DetachmentSeen, ServedFrom, Later, PollClock, TypeOK
  <2>3. WaitNotOver'
    <3>1. CASE phase' = "running" /\ commissioned
      <4>1. due' <= mThreadDetachedSinceMs' + RebootThreshold + PollPeriod
        BY <1>3, <1>4, <1>5, <2>1, <3>1 DEF DetachedTooLong, TypeOK, MonitorConsistent
      <4>2. /\ due' \in Nat /\ mThreadDetachedSinceMs' \in Nat /\ commissionedFrom' \in Nat
            /\ detachedFrom' \in Nat /\ lastLost' \in Nat
            /\ RebootThreshold \in Nat /\ PollPeriod \in Nat
        BY <1>3 DEF TypeOK
      <4>3. ServedFrom' \in Nat
        BY <4>2 DEF ServedFrom, Later
      <4>4. due' <= Later(Later(mThreadDetachedSinceMs' + RebootThreshold, commissionedFrom'),
                          ServedFrom') + PollPeriod
        BY <4>1, <4>2, <4>3, PollInTime
      <4> QED
        BY <4>4 DEF WaitNotOver
    <3> QED
      BY <1>4, <3>1 DEF WaitNotOver
  <2>4. DetachedSinceAttachedPoll'
    BY <1>4, <1>9, <2>1 DEF DetachedSinceAttachedPoll, PollClock, TypeOK
  <2> QED
    BY <1>3, <1>4, <1>5, <1>6, <1>9, <2>2, <2>3, <2>4 DEF NeverDetachedWithoutStack
<1> QED
  BY <1>7, <1>8, <1>9

(* Every step keeps the invariant.                                        *)
LEMMA StepMonitor ==
  ASSUME MonitorInv, [Next]_vars
  PROVE  MonitorInv'
<1> USE TimingAssumption DEF MonitorInv
<1> TypeOK'
  BY StepType
<1>1. CASE Tick
  BY <1>1 DEF Tick, env, roleVars, parentVars, history, TypeOK, MonitorConsistent, PollClock,
    DetachmentSeen, WaitNotOver, ServedFrom, Later, DetachedSinceAttachedPoll,
    NeverDetachedWithoutStack
<1>2. CASE Poll
  BY <1>2, PollMonitor
<1>3. CASE LoseWork
  <2>1. /\ phase = "running" /\ uptime >= due
        /\ due' = due + PollPeriod
        /\ lastLost' = uptime
        /\ UNCHANGED <<uptime, phase, otInstance, role, commissioned, detachedFrom,
                       commissionedFrom, mLastThreadRole, mThreadDetached,
                       mThreadDetachedSinceMs, mHasLastParent, mLastParentRloc16,
                       attachedPoll>>
    BY <1>3 DEF LoseWork, env, roleVars, parentVars
  <2>2. MonitorConsistent' /\ NeverDetachedWithoutStack' /\ DetachedSinceAttachedPoll'
    BY <2>1 DEF MonitorConsistent, NeverDetachedWithoutStack, DetachedSinceAttachedPoll
  <2>3. PollClock'
    BY <2>1 DEF PollClock, TypeOK
  <2>4. DetachmentSeen' /\ WaitNotOver'
    BY <2>1 DEF DetachmentSeen, WaitNotOver, ServedFrom, Later, PollClock, TypeOK
  <2> QED
    BY <2>2, <2>3, <2>4
<1>4. ASSUME NEW r \in Roles, RoleChanges(r) PROVE MonitorInv'
  BY <1>4 DEF RoleChanges, roleVars, parentVars, TypeOK, MonitorConsistent, PollClock,
    DetachmentSeen, WaitNotOver, ServedFrom, Later, DetachedSinceAttachedPoll,
    NeverDetachedWithoutStack
<1>5. CASE FabricsChange
  BY <1>5 DEF FabricsChange, roleVars, parentVars, history, TypeOK, MonitorConsistent,
    PollClock, DetachmentSeen, WaitNotOver, ServedFrom, Later, DetachedSinceAttachedPoll,
    NeverDetachedWithoutStack
<1>6. CASE Reset
  BY <1>6 DEF Reset, env, roleVars, parentVars, history, TypeOK, MonitorConsistent, PollClock,
    DetachmentSeen, WaitNotOver, ServedFrom, DetachedSinceAttachedPoll,
    NeverDetachedWithoutStack
<1>7. CASE Boot
  BY <1>7 DEF Boot, TypeOK, MonitorConsistent, PollClock, DetachmentSeen, WaitNotOver,
    DetachedSinceAttachedPoll, NeverDetachedWithoutStack
<1>8. CASE UNCHANGED vars
  BY <1>8 DEF vars, env, roleVars, parentVars, history, TypeOK, MonitorConsistent, PollClock,
    DetachmentSeen, WaitNotOver, ServedFrom, DetachedSinceAttachedPoll,
    NeverDetachedWithoutStack
<1> QED
  BY <1>1, <1>2, <1>3, <1>4, <1>5, <1>6, <1>7, <1>8 DEF Next

(* The five facts below hold of every behaviour, for every value of the    *)
(* constants.                                                              *)
THEOREM MonitorInvariant == Spec => []MonitorInv
<1>1. MonitorInv /\ [Next]_vars => MonitorInv'
  BY StepMonitor
<1> QED
  BY <1>1, InitMonitor, PTL DEF Spec

(* The role variables and the parent always tell one story. *)
THEOREM Consistent == Spec => []MonitorConsistent
<1>1. MonitorInv => MonitorConsistent
  BY DEF MonitorInv
<1> QED
  BY <1>1, MonitorInvariant, PTL

(* A node that stays detached and commissioned is rebooted within          *)
(* 2 * (PollPeriod + Latency) of the threshold, counted from the last work *)
(* item lost when one was.                                                 *)
THEOREM RebootInTime == Spec => []RebootDeadline
<1>1. MonitorInv => RebootDeadline
  <2> SUFFICES ASSUME MonitorInv, phase = "running", role = "detached", commissioned
               PROVE  uptime <= Later(ServedFrom + PollPeriod + Latency + RebootThreshold,
                                      commissionedFrom)
                                + PollPeriod + Latency
    BY DEF RebootDeadline, ServedFrom
  <2> USE TimingAssumption DEF MonitorInv, TypeOK, PollClock, Later
  <2>1. ServedFrom \in Nat
    BY DEF ServedFrom
  <2>2. CASE mThreadDetached
    BY <2>1, <2>2 DEF DetachmentSeen, WaitNotOver
  <2>3. CASE ~mThreadDetached
    BY <2>1, <2>3 DEF DetachmentSeen
  <2> QED
    BY <2>2, <2>3
<1> QED
  BY <1>1, MonitorInvariant, PTL

(* A reboot follows a whole threshold of polls that found it detached. *)
THEOREM RebootNotEarly == Spec => RebootOnlyAfterDetachedPolls
<1>1. MonitorInv /\ MonitorInv' /\ [Next]_vars =>
        [SupervisorReboots => uptime - attachedPoll' > RebootThreshold]_vars
  <2> SUFFICES ASSUME MonitorInv, MonitorInv', [Next]_vars, SupervisorReboots
               PROVE  uptime - attachedPoll' > RebootThreshold
    OBVIOUS
  <2>1. Poll
    BY DEF Next, Tick, LoseWork, RoleChanges, FabricsChange, Reset, Boot, vars,
      SupervisorReboots
  <2>2. /\ uptime' = uptime
        /\ mThreadDetached'
        /\ uptime - mThreadDetachedSinceMs' > RebootThreshold
    BY <2>1 DEF Poll, SupervisorReboots, DetachedTooLong
  <2>3. attachedPoll' <= mThreadDetachedSinceMs'
    BY <2>2 DEF MonitorInv, DetachedSinceAttachedPoll
  <2>4. uptime - mThreadDetachedSinceMs' > RebootThreshold
    BY <2>2
  <2>5. /\ uptime \in Nat /\ attachedPoll' \in Nat
        /\ mThreadDetachedSinceMs' \in Nat /\ RebootThreshold \in Nat
    BY <2>2, TimingAssumption DEF MonitorInv, TypeOK
  <2> QED
    BY <2>3, <2>4, <2>5, LongerThan
<1> QED
  BY <1>1, MonitorInvariant, PTL DEF Spec, RebootOnlyAfterDetachedPolls

-----------------------------------------------------------------------------
(* The balance of the two counters within a boot.  A sum modulo the width  *)
(* is not inductive by itself; said without the modulus it is: what was    *)
(* reattached, the gap loaded at boot and the current detachment are what  *)
(* was detached, or a whole width more.                                    *)

Ended == reattachCount + loadedGap + (IF mThreadDetached THEN 1 ELSE 0)

Balanced == Ended = detachCount \/ Ended = detachCount + CounterSize

\* The modulus sees no whole width.
LEMMA ModuloOneWidth ==
  ASSUME NEW n \in Nat \ {0}, NEW d \in 0..n - 1
  PROVE  d % n = d /\ (d + n) % n = d
<1>1. d % n = d
  OBVIOUS
<1>2. (d + n) % n = d
  OBVIOUS
<1> QED
  BY <1>1, <1>2

\* The three ways in which a poll moves the counters.
LEMMA PollBalance ==
  ASSUME TypeOK, Balanced, Poll
  PROVE  Balanced'
<1> USE TimingAssumption DEF TypeOK
<1>1. PICK parent \in {{}} \cup {{r} : r \in Rlocs} : HandleThreadStateChange(parent)
  BY DEF Poll
<1>2. loadedGap' = loadedGap
  BY DEF Poll
<1>3. CASE UNCHANGED <<mThreadDetached, detachCount, reattachCount>>
  BY <1>2, <1>3 DEF Balanced, Ended
<1>4. CASE NoteLost
  <2>1. /\ ~mThreadDetached /\ mThreadDetached'
        /\ reattachCount' = reattachCount
        /\ detachCount' = IF detachCount = CounterSize - 1 THEN 0 ELSE detachCount + 1
    BY <1>4 DEF NoteLost, LostNetwork, Increment
  <2>2. Ended' = Ended + 1 /\ Ended <= 2 * CounterSize - 2
    BY <1>2, <2>1 DEF Ended
  <2> QED
    BY <2>1, <2>2 DEF Balanced, Ended
<1>5. CASE NoteFound
  <2>1. /\ mThreadDetached /\ ~mThreadDetached'
        /\ detachCount' = detachCount
        /\ reattachCount' = IF reattachCount = CounterSize - 1 THEN 0 ELSE reattachCount + 1
    BY <1>5 DEF NoteFound, FoundNetwork, Increment
  <2> QED
    BY <1>2, <2>1 DEF Balanced, Ended
<1> QED
  BY <1>1, <1>3, <1>4, <1>5
    DEF HandleThreadStateChange, ObserveRole, roleVars, NoteOther

(* The counters balance in every reachable state, for every width.        *)
LEMMA StepBalance ==
  ASSUME TypeOK, Balanced, [Next]_vars
  PROVE  Balanced'
<1>1. CASE Poll
  BY <1>1, PollBalance
<1>2. CASE Boot
  <2>1. ~mThreadDetached'
    BY <1>2 DEF Boot
  <2>2. PICK d, r \in 0..CounterSize - 1 : LoadCounters(d, r)
    BY <1>2 DEF Boot
  <2> QED
    BY <2>1, <2>2, TimingAssumption DEF LoadCounters, Balanced, Ended
<1>3. CASE UNCHANGED <<mThreadDetached, detachCount, reattachCount, loadedGap>>
  BY <1>3 DEF Balanced, Ended
<1> QED
  BY <1>1, <1>2, <1>3
    DEF Next, Tick, LoseWork, RoleChanges, FabricsChange, Reset, vars, roleVars, history

(* Whatever flash gave back at boot, the detachments this boot counts are  *)
(* the reattachments it counts and the current detachment, however often   *)
(* the counters wrap.                                                      *)
THEOREM CountersBalance == Spec => []DetachesAccounted
<1>1. Init => Balanced
  BY DEF Init, Balanced, Ended
<1>2. TypeOK /\ Balanced /\ [Next]_vars => Balanced'
  BY StepBalance
<1>3. TypeOK /\ Balanced => DetachesAccounted
  BY TimingAssumption, ModuloOneWidth DEF TypeOK, Balanced, Ended, DetachesAccounted
<1> QED
  BY <1>1, <1>2, <1>3, TypeCorrect, PTL DEF Spec

=============================================================================
