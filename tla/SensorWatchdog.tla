--------------------------- MODULE SensorWatchdog ---------------------------
(***************************************************************************)
(* The minute-by-minute life of a diagnostic build (src/app_task.cpp): the *)
(* main thread brings the node up, arms the watchdog, takes the first      *)
(* sample and then only dispatches board UI tasks; the sensor timer queues *)
(* a work item every SensorInterval for the Matter thread, which samples,  *)
(* publishes and feeds the watchdog, in that order.                        *)
(*                                                                         *)
(* A work item that does not sample does not feed either: the watchdog     *)
(* supervises the whole chain, for better or worse.                        *)
(***************************************************************************)
EXTENDS Naturals

CONSTANTS
  SensorInterval,   \* kSensorUpdateIntervalMs
  CommissionGrace,  \* kCommissionGraceMs
  WdtTimeout,       \* CONFIG_TINYENV_DIAG_WATCHDOG_TIMEOUT_SEC
  Latency,          \* how late the Matter thread may start a queued work item
  BootLatency,      \* how long the main thread may take from reset to its loop
  BoardUi,          \* ~CONFIG_TINYENV_DISABLE_BOARD_UI: UI tasks wake the main loop
  AdvertisingTime,  \* how long an uncommissioned node is to advertise
  MaxUptime         \* bound: the uptime a boot is explored to

ASSUME TimingAssumption ==
  /\ SensorInterval \in Nat \ {0}
  /\ CommissionGrace \in Nat
  /\ WdtTimeout \in Nat \ {0}
  /\ Latency \in Nat
  /\ BootLatency \in Nat
  /\ BoardUi \in BOOLEAN
  /\ AdvertisingTime \in Nat
  /\ MaxUptime \in Nat

(* The main thread: before DiagInitWatchdog, before k_timer_start, before  *)
(* the first sample, in the dispatch loop, or returned from StartApp.      *)
MainPhases == {"init", "armed", "first", "loop", "exited"}

VARIABLES
  now,                \* k_uptime_get(), which is past 0 when main starts
  main,
  armed,              \* mWdtChannel >= 0
  lastFed,            \* when the watchdog was started or last fed
  sensorDue,          \* expiry of mTimer not served yet
  hung,               \* the Matter thread no longer runs work items
  commissioned,       \* IsCommissioned()
  mWasCommissioned,
  mCommissionedAtMs,
  mShtReady,
  \* History:
  lastTrouble,        \* when a work item was last lost, or did not sample
  deadFrom,           \* when the Matter thread hung or the main thread exited
  mainFed,            \* when the main thread last fed, or would have
  commissionedFrom    \* when the node last became commissioned

observed == <<mWasCommissioned, mCommissionedAtMs>>
history == <<lastTrouble, deadFrom, mainFed, commissionedFrom>>
vars == <<now, main, armed, lastFed, sensorDue, hung, commissioned, mShtReady,
          observed, history>>

Start == 1

Init ==
  /\ now = Start
  /\ main = "init"
  /\ armed = FALSE
  /\ lastFed = 0
  /\ sensorDue = 0
  /\ hung = FALSE
  /\ commissioned \in BOOLEAN
  /\ mShtReady \in BOOLEAN
  /\ mWasCommissioned = FALSE
  /\ mCommissionedAtMs = 0
  /\ lastTrouble = 0
  /\ deadFrom = 0
  /\ mainFed = 0
  /\ commissionedFrom = 0

TimersRun == main \in {"first", "loop"}

-----------------------------------------------------------------------------
(* UpdateSensorReadings.                                                   *)

NoticeFabrics ==
  /\ mWasCommissioned' = commissioned
  /\ mCommissionedAtMs' = IF commissioned = mWasCommissioned THEN mCommissionedAtMs
                          ELSE IF commissioned THEN now ELSE 0

InGrace(at) == at > 0 /\ now < at + CommissionGrace

\* Mutant: no grace.
SamplesAtOnce(force, fetched) ==
  /\ force \/ commissioned
  /\ mShtReady
  /\ fetched

\* TRUE iff it returns true; fetched is whether the SHT4x answers.
Samples(force, fetched) ==
  /\ force \/ (commissioned /\ ~InGrace(mCommissionedAtMs'))
  /\ mShtReady
  /\ fetched

DiagFeedWatchdog == lastFed' = IF armed THEN now ELSE lastFed

-----------------------------------------------------------------------------
(* The main thread.                                                        *)

\* PrepareServer, the board or the identify cluster fails, or, with the
\* watchdog running, StartServer or the MinMeasuredValue check of StartApp.
StartupFails ==
  /\ main \in {"init", "armed"}
  /\ main' = "exited"
  /\ deadFrom' = now
  /\ UNCHANGED <<now, armed, lastFed, sensorDue, hung, commissioned, mShtReady,
                 observed, lastTrouble, mainFed, commissionedFrom>>

\* wdt_install_timeout or wdt_setup may fail; mWdtChannel is then -1.
DiagInitWatchdog ==
  /\ main = "init"
  /\ main' = "armed"
  /\ \/ armed' = TRUE /\ lastFed' = now
     \/ UNCHANGED <<armed, lastFed>>
  /\ UNCHANGED <<now, sensorDue, hung, commissioned, mShtReady, observed, history>>

StartTimers ==
  /\ main = "armed"
  /\ main' = "first"
  /\ sensorDue' = now + SensorInterval
  /\ UNCHANGED <<now, armed, lastFed, hung, commissioned, mShtReady, observed, history>>

\* UpdateSensorReadings(true), then the first turn of the loop.
FirstUpdate ==
  /\ main = "first"
  /\ main' = "loop"
  /\ mainFed' = now
  /\ NoticeFabrics
  /\ DiagFeedWatchdog
  /\ UNCHANGED <<now, armed, sensorDue, hung, commissioned, mShtReady,
                 lastTrouble, deadFrom, commissionedFrom>>

\* DispatchNextTask returns: only board UI code posts to its queue.
DispatchUiTask ==
  /\ BoardUi
  /\ main = "loop"
  /\ DiagFeedWatchdog
  /\ mainFed' = now
  /\ UNCHANGED <<now, main, armed, sensorDue, hung, commissioned, mShtReady,
                 observed, lastTrouble, deadFrom, commissionedFrom>>

-----------------------------------------------------------------------------
(* The sensor timer and its work item on the Matter thread.                *)

\* Mutant: samples and publishes, but does not feed.
SensorWorkNoFeed(fetched) ==
  /\ TimersRun
  /\ ~hung
  /\ now >= sensorDue
  /\ sensorDue' = sensorDue + SensorInterval
  /\ NoticeFabrics
  /\ lastTrouble' = IF Samples(FALSE, fetched) THEN lastTrouble ELSE now
  /\ UNCHANGED <<now, main, armed, lastFed, hung, commissioned, mShtReady,
                 deadFrom, mainFed, commissionedFrom>>

\* Mutant: the timer's callback feeds, whatever the Matter thread does.
SensorWorkFedByTimer(fetched) ==
  /\ TimersRun
  /\ now >= sensorDue
  /\ sensorDue' = sensorDue + SensorInterval
  /\ DiagFeedWatchdog
  /\ IF hung THEN UNCHANGED observed ELSE NoticeFabrics
  /\ lastTrouble' = IF Samples(FALSE, fetched) THEN lastTrouble ELSE now
  /\ UNCHANGED <<now, main, armed, hung, commissioned, mShtReady,
                 deadFrom, mainFed, commissionedFrom>>

SensorWork(fetched) ==
  /\ TimersRun
  /\ ~hung
  /\ now >= sensorDue
  /\ sensorDue' = sensorDue + SensorInterval
  /\ NoticeFabrics
  /\ \/ Samples(FALSE, fetched) /\ DiagFeedWatchdog /\ UNCHANGED lastTrouble
     \/ ~Samples(FALSE, fetched) /\ lastTrouble' = now /\ UNCHANGED lastFed
  /\ UNCHANGED <<now, main, armed, hung, commissioned, mShtReady,
                 deadFrom, mainFed, commissionedFrom>>

\* The event queue is full; nobody looks at the result of ScheduleWork.
LoseWork ==
  /\ TimersRun
  /\ now >= sensorDue
  /\ sensorDue' = sensorDue + SensorInterval
  /\ lastTrouble' = now
  /\ UNCHANGED <<now, main, armed, lastFed, hung, commissioned, mShtReady,
                 observed, deadFrom, mainFed, commissionedFrom>>

-----------------------------------------------------------------------------
(* The environment.                                                        *)

\* Time does not pass a deadline somebody keeps: the main thread's start-up,
\* the Matter thread's latency, the watchdog.
Tick ==
  /\ now < MaxUptime
  /\ main \in {"init", "armed", "first"} => now < Start + BootLatency
  /\ TimersRun /\ ~hung => now < sensorDue + Latency
  /\ armed => now < lastFed + WdtTimeout
  /\ now' = now + 1
  /\ UNCHANGED <<main, armed, lastFed, sensorDue, hung, commissioned, mShtReady,
                 observed, history>>

\* A deadlock or a fault: CONFIG_RESET_ON_FATAL_ERROR is n.
MatterHangs ==
  /\ TimersRun
  /\ ~hung
  /\ hung' = TRUE
  /\ deadFrom' = now
  /\ UNCHANGED <<now, main, armed, lastFed, sensorDue, commissioned, mShtReady,
                 observed, lastTrouble, mainFed, commissionedFrom>>

FabricsChange ==
  /\ commissioned' = ~commissioned
  /\ commissionedFrom' = IF commissioned THEN commissionedFrom ELSE now
  /\ UNCHANGED <<now, main, armed, lastFed, sensorDue, hung, mShtReady,
                 observed, lastTrouble, deadFrom, mainFed>>

\* RAM starts over, the fabrics stay, the SHT4x may come up or not.
Reboot ==
  /\ now' = Start
  /\ main' = "init"
  /\ armed' = FALSE
  /\ lastFed' = 0
  /\ sensorDue' = 0
  /\ hung' = FALSE
  /\ mShtReady' \in BOOLEAN
  /\ mWasCommissioned' = FALSE
  /\ mCommissionedAtMs' = 0
  /\ lastTrouble' = 0
  /\ deadFrom' = 0
  /\ mainFed' = 0
  /\ commissionedFrom' = 0
  /\ UNCHANGED commissioned

WatchdogBites ==
  /\ armed
  /\ now >= lastFed + WdtTimeout
  /\ Reboot

\* A power cycle, or a sys_reboot.
PowerCycle == Reboot

Next ==
  \/ StartupFails
  \/ DiagInitWatchdog
  \/ StartTimers
  \/ FirstUpdate
  \/ DispatchUiTask
  \/ \E fetched \in BOOLEAN : SensorWork(fetched)
  \/ LoseWork
  \/ Tick
  \/ MatterHangs
  \/ FabricsChange
  \/ WatchdogBites
  \/ PowerCycle

Spec == Init /\ [][Next]_vars

-----------------------------------------------------------------------------
(* Properties.                                                             *)

TypeOK ==
  /\ now \in Nat
  /\ main \in MainPhases
  /\ armed \in BOOLEAN
  /\ lastFed \in Nat
  /\ sensorDue \in Nat
  /\ hung \in BOOLEAN
  /\ commissioned \in BOOLEAN
  /\ mWasCommissioned \in BOOLEAN
  /\ mCommissionedAtMs \in Nat
  /\ mShtReady \in BOOLEAN
  /\ lastTrouble \in Nat
  /\ deadFrom \in Nat
  /\ mainFed \in Nat
  /\ commissionedFrom \in Nat

TimedOut == armed /\ now >= lastFed + WdtTimeout

(* A healthy node never comes to a watchdog reset: when the watchdog has   *)
(* timed out, since the last feed a work item was lost or did not sample,  *)
(* the Matter thread hung or start-up failed.  This needs a timeout longer *)
(* than the sampling gap, and than the start-up.                           *)
TimeoutNeedsTrouble ==
  TimedOut => lastTrouble >= lastFed \/ hung \/ main = "exited"

Later(a, b) == IF a >= b THEN a ELSE b

(* A dead node is reset: with the watchdog running, a hung Matter thread   *)
(* or a start-up that failed does not outlive the timeout, counted from    *)
(* the last time the main thread fed.  Without board UI that is once, as   *)
(* it enters its loop, and nothing can keep a dead node from its reset.    *)
DeadDeviceReset ==
  armed /\ (hung \/ main = "exited")
    => now <= Later(deadFrom, mainFed) + WdtTimeout

\* An unforced sample was just published: its work item fed the watchdog or
\* would have.
PublishedUnforced ==
  main' = main /\ sensorDue' > sensorDue /\ lastTrouble' < now

(* A sample within the grace after commissioning is published only if the  *)
(* node was decommissioned and commissioned again between two work items:  *)
(* mCommissionedAtMs is then that of the commissioning before.             *)
GraceKeptUnlessUnseen ==
  [][PublishedUnforced /\ now < commissionedFrom + CommissionGrace
       => mWasCommissioned /\ mCommissionedAtMs < commissionedFrom]_vars

(* The comment on kCommissionGraceMs by the word: every commissioning is   *)
(* followed by a grace.                                                    *)
GraceAfterCommissioning ==
  [][PublishedUnforced => now >= commissionedFrom + CommissionGrace]_vars

(* prj.conf has the node advertise for an hour: one that waits to be       *)
(* commissioned is not reset before that.                                  *)
WaitingNodeNotReset ==
  TimedOut => commissioned \/ hung \/ main = "exited" \/ now >= AdvertisingTime

=============================================================================
