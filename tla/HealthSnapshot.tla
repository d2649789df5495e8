--------------------------- MODULE HealthSnapshot ---------------------------
(***************************************************************************)
(* MaybeLogAndPersistHealthSnapshot of AppTask (src/app_task.cpp): uptime  *)
(* and Thread role go to flash, at most once per interval, so that after a *)
(* reset they tell how long the node lived and what it was doing.          *)
(*                                                                         *)
(* The main thread calls it once, after its first sample, the Matter       *)
(* thread at the end of every policy work item and of every sensor work    *)
(* item that sampled.  The rate limit is a plain field tested and set      *)
(* without a lock, and both threads block in the flash writes, so every    *)
(* step may be interleaved.                                                *)
(***************************************************************************)
EXTENDS Integers

CONSTANTS
  Interval,    \* kDiagSnapshotIntervalMs
  PollPeriod,  \* kCommissionAwakeKickPeriodMs, the period of the policy timer
  Latency,     \* how late the Matter thread may start a queued work item
  WriteTime,   \* how long a call may take, its two flash writes included
  Roles,       \* values of mLastThreadRole
  MaxUptime    \* bound: the uptime a boot is explored to

ASSUME SnapshotAssumption ==
  /\ Interval \in Nat \ {0}
  /\ PollPeriod \in Nat \ {0}
  /\ Latency \in Nat
  /\ WriteTime \in Nat
  /\ MaxUptime \in Nat

\* The interval is 600 s unless configured otherwise, a call two writes of a
\* few bytes.
ASSUME WritesAreShort == 2 * WriteTime < Interval

Threads == {"main", "matter"}

VARIABLES
  uptime,                 \* k_uptime_get()
  due,                    \* expiry of the policy timer not served yet
  mainDone,               \* the main thread has made its one call
  pc,                     \* where each thread stands in the function
  nowMs,                  \* the local of each thread
  mLastHealthSnapshotMs,
  mLastThreadRole,
  savedUptime,            \* flash: kDiagKeyLastUptimeSec
  savedRole,              \* flash: kDiagKeyLastThreadRole
  \* History, read by the properties only:
  savedRoleAt,            \* when the saved role was read
  snapshots,              \* calls of this boot that went on to write
  saveFailed,             \* a write of this boot failed or was erased again
  lastLost                \* when a policy work item of this boot was last lost

record == <<savedUptime, savedRole, savedRoleAt>>
calls == <<pc, nowMs>>
timer == <<due, lastLost>>
snapshotVars == <<uptime, timer, mainDone, calls, mLastHealthSnapshotMs, mLastThreadRole, record,
          snapshots, saveFailed>>

Idle == \A t \in Threads : pc[t] = "idle"

\* Uptime starts at 1: the kernel runs for a while before any of this.
Boot ==
  /\ uptime' = 1
  /\ due' = PollPeriod
  /\ mainDone' = FALSE
  /\ pc' = [t \in Threads |-> "idle"]
  /\ nowMs' = [t \in Threads |-> 0]
  /\ mLastHealthSnapshotMs' = 0
  /\ mLastThreadRole' \in Roles
  /\ snapshots' = 0
  /\ saveFailed' = FALSE
  /\ lastLost' = 0

SnapshotInit ==
  /\ uptime = 1
  /\ due = PollPeriod
  /\ mainDone = FALSE
  /\ pc = [t \in Threads |-> "idle"]
  /\ nowMs = [t \in Threads |-> 0]
  /\ mLastHealthSnapshotMs = 0
  /\ mLastThreadRole \in Roles
  /\ savedUptime = 0
  /\ savedRole \in Roles
  /\ savedRoleAt = 0
  /\ snapshots = 0
  /\ saveFailed = FALSE
  /\ lastLost = 0

-----------------------------------------------------------------------------
Enter(t) ==
  /\ pc[t] = "idle"
  /\ pc' = [pc EXCEPT ![t] = "test"]
  /\ nowMs' = [nowMs EXCEPT ![t] = uptime]

\* The local of a call dies with it.
Return(t) ==
  /\ pc' = [pc EXCEPT ![t] = "idle"]
  /\ nowMs' = [nowMs EXCEPT ![t] = 0]

\* StartApp: only if the first sample succeeded, so perhaps never.
MainCalls ==
  /\ ~mainDone
  /\ mainDone' = TRUE
  /\ Enter("main")
  /\ UNCHANGED <<uptime, timer, mLastHealthSnapshotMs, mLastThreadRole, record, snapshots,
                 saveFailed>>

\* HandleThreadStateChange comes before it in the same work item.
WorkItemCalls ==
  /\ uptime >= due
  /\ due' = due + PollPeriod
  /\ mLastThreadRole' \in Roles
  /\ Enter("matter")
  /\ UNCHANGED <<uptime, lastLost, mainDone, mLastHealthSnapshotMs, record, snapshots,
                 saveFailed>>

\* The event queue is full: the timer's ISR ignores the result of ScheduleWork.
LoseWork ==
  /\ uptime >= due
  /\ due' = due + PollPeriod
  /\ lastLost' = uptime
  /\ UNCHANGED <<uptime, mainDone, calls, mLastHealthSnapshotMs, mLastThreadRole, record,
                 snapshots, saveFailed>>

\* The sensor work item calls it too if it sampled, between two policy items.
SensorWorkItemCalls ==
  /\ Enter("matter")
  /\ UNCHANGED <<uptime, timer, mainDone, mLastHealthSnapshotMs, mLastThreadRole, record,
                 snapshots, saveFailed>>

\* Mutant: one snapshot per boot.
TooSoonForEver(t) == mLastHealthSnapshotMs # 0

TooSoon(t) ==
  /\ mLastHealthSnapshotMs # 0
  /\ nowMs[t] - mLastHealthSnapshotMs < Interval

Test(t) ==
  /\ pc[t] = "test"
  /\ IF TooSoon(t) THEN Return(t)
     ELSE pc' = [pc EXCEPT ![t] = "stamp"] /\ UNCHANGED nowMs
  /\ UNCHANGED <<uptime, timer, mainDone, mLastHealthSnapshotMs, mLastThreadRole,
                 record, snapshots, saveFailed>>

\* Mutant: the rate limit is not set.
StampForgotten(t) ==
  /\ pc[t] = "stamp"
  /\ snapshots' = snapshots + 1
  /\ pc' = [pc EXCEPT ![t] = "uptime"]
  /\ UNCHANGED <<uptime, timer, mainDone, nowMs, mLastHealthSnapshotMs, mLastThreadRole,
                 record, saveFailed>>

Stamp(t) ==
  /\ pc[t] = "stamp"
  /\ mLastHealthSnapshotMs' = nowMs[t]
  /\ snapshots' = snapshots + 1
  /\ pc' = [pc EXCEPT ![t] = "uptime"]
  /\ UNCHANGED <<uptime, timer, mainDone, nowMs, mLastThreadRole, record, saveFailed>>

\* SaveDiagValue, whose result is dropped: the next step comes either way.
SaveUptime(t) ==
  /\ pc[t] = "uptime"
  /\ pc' = [pc EXCEPT ![t] = "role"]
  /\ \/ savedUptime' = nowMs[t] /\ UNCHANGED saveFailed
     \/ saveFailed' = TRUE /\ UNCHANGED savedUptime
  /\ UNCHANGED <<uptime, timer, mainDone, nowMs, mLastHealthSnapshotMs, mLastThreadRole,
                 savedRole, savedRoleAt, snapshots>>

\* Mutant: the flash is spared while the role stays.
SaveRoleIfChanged(t) ==
  /\ pc[t] = "role"
  /\ Return(t)
  /\ IF savedRole # mLastThreadRole
     THEN savedRole' = mLastThreadRole /\ savedRoleAt' = uptime
     ELSE UNCHANGED <<savedRole, savedRoleAt>>
  /\ UNCHANGED <<uptime, timer, mainDone, mLastHealthSnapshotMs, mLastThreadRole,
                 savedUptime, snapshots, saveFailed>>

SaveRole(t) ==
  /\ pc[t] = "role"
  /\ Return(t)
  /\ \/ savedRole' = mLastThreadRole /\ savedRoleAt' = uptime /\ UNCHANGED saveFailed
     \/ saveFailed' = TRUE /\ UNCHANGED <<savedRole, savedRoleAt>>
  /\ UNCHANGED <<uptime, timer, mainDone, mLastHealthSnapshotMs, mLastThreadRole,
                 savedUptime, snapshots>>

MaybeLogAndPersistHealthSnapshot(t) ==
  Test(t) \/ Stamp(t) \/ SaveUptime(t) \/ SaveRole(t)

\* cmd_wipe_settings of the shell got at the record.  The node runs on, for
\* 100 ms and then through a reset, or for good if the erase failed.
EraseRecord ==
  /\ savedUptime' = 0
  /\ savedRoleAt' = 0
  /\ saveFailed' = TRUE
  /\ UNCHANGED <<uptime, timer, mainDone, calls, mLastHealthSnapshotMs, mLastThreadRole,
                 savedRole, snapshots>>

\* A reset at any point: the flash keeps whatever was written.
ResetNode == Boot /\ UNCHANGED record

Tick ==
  /\ uptime < MaxUptime
  /\ uptime < due + Latency
  /\ \A t \in Threads : pc[t] # "idle" => uptime < nowMs[t] + WriteTime
  /\ uptime' = uptime + 1
  /\ UNCHANGED <<timer, mainDone, calls, mLastHealthSnapshotMs, mLastThreadRole, record,
                 snapshots, saveFailed>>

SnapshotNext ==
  \/ MainCalls
  \/ WorkItemCalls
  \/ LoseWork
  \/ SensorWorkItemCalls
  \/ \E t \in Threads : MaybeLogAndPersistHealthSnapshot(t)
  \/ EraseRecord
  \/ ResetNode
  \/ Tick

SnapshotSpec == SnapshotInit /\ [][SnapshotNext]_snapshotVars

-----------------------------------------------------------------------------
SnapshotTypeOK ==
  /\ uptime \in Nat /\ due \in Nat /\ snapshots \in Nat /\ lastLost \in Nat
  /\ mainDone \in BOOLEAN /\ saveFailed \in BOOLEAN
  /\ pc \in [Threads -> {"idle", "test", "stamp", "uptime", "role"}]
  /\ nowMs \in [Threads -> Nat]
  /\ mLastHealthSnapshotMs \in Nat
  /\ mLastThreadRole \in Roles
  /\ savedUptime \in Nat /\ savedRole \in Roles /\ savedRoleAt \in Nat

\* The flash wears by at most one snapshot per interval and one that the two
\* threads may take together, whatever the interleaving.
SnapshotBudget == snapshots <= 2 + uptime \div Interval

\* If no write failed and none was erased, the uptime found after a reset is at most an interval,
\* a late poll and two slow calls behind the moment the node died: the work
\* item whose turn it is may wait in its test until the main thread has
\* stamped, and so leave the writes to it.  While policy work items are lost
\* nobody writes; the next one that is not makes the record recent again.
SavedUptimeRecent ==
  LET catchUp == PollPeriod + Latency + 2 * WriteTime
  IN  ~saveFailed /\ uptime > lastLost + catchUp =>
        /\ snapshots > 0
        /\ savedUptime >= uptime - (Interval + catchUp)
        /\ savedUptime <= uptime

\* Between calls the two records belong together: the role was read no
\* earlier than the uptime beside it and within a slow write of it, also if
\* the calls of the two threads overlapped.
RecordCoherent ==
  Idle /\ snapshots > 0 /\ ~saveFailed =>
    savedUptime <= savedRoleAt /\ savedRoleAt <= savedUptime + 2 * WriteTime

=============================================================================
