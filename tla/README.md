# TinyENV sensor: TLA+ models and proofs

TinyENV is a battery-powered Matter-over-Thread temperature and humidity sensor
on an nRF52840. Nearly all of its own logic is in `src/src/app_task.cpp`; the
Matter server, OpenThread and Zephyr do the rest. This directory models that
logic: how the node comes up or parks, when it reboots itself, what its watchdog
supervises, which diagnostics survive a reset, when its radio runs at full power,
how it measures its battery, and what it shows its user. It also models the
tables and switches that ZAP generated for the data model, as far as commands,
privileges and the attribute store depend on them.

All of it runs unattended for months and fails, if it does, through
coincidences: a role change between two polls, a reset between two flash
writes, a work item that is late, lost or returns early. Those are what the
models explore.

## Inventory

### Threads and how they meet

| Who | Runs | Shares |
| --- | --- | --- |
| main thread | `main`, `AppTask::StartApp`, `Init`, `DiagOnBoot`, the first sample, then a loop that feeds the watchdog and dispatches board UI tasks | members of `AppTask`, flash, watchdog |
| Matter thread | work items queued with `PlatformMgr().ScheduleWork`, the server, fabric and window changes, factory reset | members of `AppTask`, flash, watchdog, radio |
| system clock ISR | `UpdateTemperatureTimeoutCallback` every 60 s, `CommissionPolicyTimeoutCallback` every second; each only queues a work item, and ignores whether it was queued | the event queue |
| OpenThread thread | changes the device role and the parent | role, under the Thread stack lock |
| LED thread (priority 5) | status colours | `sPulseActive` |
| shell thread | `decom`, `wipe_settings`, `diag_dump` | flash |
| hardware | RESETREAS, watchdog, power and pin resets | |

The application never gets a Thread or window event. It samples both, once a
second, in one work item (`UpdateCommissioningAwakePolicy`): first the role, then
the window, then the radio power, the kick, the reboot decision and the health
snapshot.

### Components

| Component | State | Operations | Correct when | Model |
| --- | --- | --- | --- | --- |
| Thread detachment supervisor | `mLastThreadRole`, `mThreadDetached`, `mThreadDetachedSinceMs`, last parent | `HandleThreadStateChange`, reboot decision | its variables agree; it reboots neither late nor early; its counts balance within a boot | `ThreadMonitor` |
| Persistent counters | `mDiag...Count`, `tinyenv/diag/*`, RESETREAS | `DiagOnBoot`, four `DiagOn...` events, `wipe_settings` | flash never overcounts, never goes back but in an erase, and loses at most what a reset cuts | `DiagCounters`, `DurableTally` |
| Sampling and watchdog | `mTimer`, `mWdtChannel`, `mWasCommissioned`, `mCommissionedAtMs`, `mShtReady` | start-up, first sample, sensor work item, feeds | a healthy node is never reset, a dead one always; no sample in the grace | `SensorWatchdog` |
| Commissioning hold | `mCommissioningWindowOpen`, `mStayAwakeUntilMs`, `mLastAwakeKickMs`, `mAppliedThreadTxPowerDbm` | `UpdateCommissioningAwakePolicy`, `ApplyThreadTxPower` | full power in time, through the grace, and not for ever | `CommissioningHold` |
| Health snapshots | `mLastHealthSnapshotMs`, two keys in flash | `MaybeLogAndPersistHealthSnapshot` | flash wears at a bounded rate, the uptime in it is recent, the role belongs to it | `HealthSnapshot` |
| Battery measurement | `sInit`, `sReady`, enable pin | `InitBatterySense`, `ReadBatteryVolts` | the divider is off between readings, on any path; a diagnostic build counts what makes it publish a placeholder | `BatterySense` |
| Battery curve | none | `VoltsToPercent`, voltage and charge attributes | monotonic, no gap, both attributes agree | `Readings`, `BatteryGauge` |
| Sensor conversion | current readings | `lround`, narrowing casts | no wrap within the sensor's range | `Readings` |
| Status LEDs | `sPulseActive`, three pins | `LedStatusThread`, `PulseGreenOnce` | no colour is left behind, the node's state is shown in the end | `StatusLed` |
| Start-up, parking, identity | attributes, provider, `mShtReady`, `mWdtChannel`, partition | `main`, `WipeSettingsAndPark`, `Init`, `StartApp`, identity callbacks | what clients see is consistent at every moment; a late failure is retried | `Startup` |
| Attribute store | one RAM array, data versions | the SDK's walk of the generated tables, every `Set` of the application | each attribute keeps to its bytes, no write is lost | `DataModel`, `AttributeStore` |
| Command dispatch | registered clusters, the request under way | start and stop callbacks of clusters, `DispatchSingleClusterCommand`, access rows | one answer each, advertised is handled, commissioning is for administrators | `AccessTable`, `CommandDispatch` |
| Shell | none of its own | `wipe_settings` (in `DiagCounters`), `decom`, `diag_dump` | | in part |
| Wake button, boot I2C scan, boards, build | | | | not modelled |

### What is hard here

- *Sampling.* Role, window and fabrics change between two samples. What is
  shorter than a period is never seen; what is seen is stamped late.
- *Late and lost work.* A work item runs some latency after its timer, and not at
  all when the event queue is full.
- *Crashes.* A reset of any kind may come between any two steps, in particular
  between two of the three flash writes of `DiagOnBoot`. RAM goes, flash and
  RESETREAS stay. So do the half-erased pages of a `wipe_settings` that was cut, or
  that failed and left the node running.
- *Ignored failures.* No caller looks at the result of a save, a load, a radio
  power change (it is retried) or `ScheduleWork`.
- *Threads without locks.* The first sample of the main thread and the work items
  of the Matter thread use the same fields, the same ADC and the same pins. The
  main thread sets attributes while the Matter thread serves them.
- *Numbers that must agree.* The generated headers hold the same facts several
  times: sizes of attributes, clusters, endpoints and the store; accepted
  commands, dispatch cases and access rows. Nothing compares them.
- *Early returns.* `UpdateSensorReadings(false)` has five; each also skips the
  publication, the pulse, the snapshot and the watchdog feed.

`PROJECT.json` lists each such place with its line and the properties that
would catch it going wrong, or says why none does: a window nobody samples, a record
torn between its two writes, and one thread that turns the divider off under another
are what the code allows, and no text promises otherwise.

## The models

Time is one integer clock per model (`now`, or `uptime`), advanced by `Tick`.
A deadline that somebody keeps is a guard of `Tick`: time does not pass it until
the action it belongs to has been taken. In these models "eventually" is a bound on the
clock, an invariant, which is stronger than a liveness property and is what a
watchdog or a battery budget needs. The bound is honest about what it rests on:
`Latency` is how late the Matter thread is with a work item if it lives at all, and a
Matter thread that hangs is an action of `SensorWatchdog`. Time that stops at `MaxUptime` is a bound of exploration, and a
reset is possible there, so it is no deadlock.

Where only the order of steps matters there is no clock, and three models state
fairness for a liveness property:

- `BatterySense`: weak fairness of a reading that has begun. Every call in it
  returns, and the scheduler runs both threads.
- `StatusLed`: weak fairness of a pulse and of the LED thread's turn once begun, and
  strong fairness of the LED thread finding no pulse. It polls every 50 ms, a pulse
  of 200 ms comes every 60 s, so infinitely many polls fall outside one; weak
  fairness would not do, as every pulse disables the step.
- `Startup`: weak fairness of the main thread, of the server's initialisation and of
  the watchdog. Nothing is assumed to succeed, each step only to be taken.

Variables keep the names of the code where they are members of `AppTask`.
Variables under "History" are read by properties only. Operators marked "Mutant" are
plausible bugs of the definition below them, one or more for every property a run
checks; each makes its property fail.

### ThreadMonitor

`HandleThreadStateChange` (`ObserveRole`, `ObserveParent`) and the reboot of
`UpdateCommissioningAwakePolicy`, in one action `Poll`, since the handler reads the
role under the Thread lock. `LoseWork` is an expiry of the timer whose work item was
not queued: the result of `ScheduleWork` is ignored. `RoleChanges` is OpenThread and takes
any role to any other between polls; `FabricsChange`, `Reset` and `Boot` are the rest of
the environment. The build is a diagnostic one, as no other counts or reboots. The two
counters are those in RAM, have the width `CounterSize`, and wrap. Their saves are in
`DiagCounters`; what `Boot` finds of them may be any two values (`LoadCounters`), as saves
and loads fail, are cut, and are wiped.

- `MonitorConsistent`: the role, the flag, the timestamp and the parent agree.
- `RebootDeadline`: a node that is detached and commissioned is rebooted within the
  threshold and two sampling delays, whichever condition came last, and counted from
  the last work item lost if one was since the detachment: while work items are lost
  nobody decides.
- `RebootOnlyAfterDetachedPolls`: one attached poll restarts the wait.
- `DetachesAccounted`: since the boot, the gap between detach and reattach count has
  grown by the current detachment and nothing else, modulo the counter's width. There
  is no such balance across boots: the two are saved apart, and either save may be
  lost.

Run `thread_monitor` (period 2, latency 1, threshold 3, uptime 12, two parents one of
which has RLOC 0, counters of 3 values): the threshold spans more than a period,
there is time for a detachment, an unseen reattachment and a second full
detachment, and the counters wrap.

Run `thread_monitor_readme` refutes the README's sentence on the reboot taken by the
word: a reattachment between two polls is never seen.

### DiagCounters and DurableTally

`DiagOnBoot` is split where a reset can separate two of its effects: load,
read-and-clear RESETREAS, save the boot count, save the reason, save the watchdog
count. An event is an increment in RAM (`CountEvent`) and a save (`SaveEvent`); a
reset may come between. Four kinds of reset set their RESETREAS bit, which
accumulates until it is cleared or power fails. `SaveMayFail` and `LoadMayFail` are the
sets of keys that may fail, so that the promises are made key by key: what holds of
a reliable key holds whatever happens to the others. `ShellEnabled` is the wipe. Its
erase goes page by page: while it is under way each key may be left at an older record
or none (`EraseCounter`, `EraseReason`); then it has erased everything (`EraseSettings`, with
the reboot 100 ms later), or has failed (`EraseFails`: the command returns its error and
the node runs on over what is left), or a reset has cut it. RAM and the other threads
know nothing of it and save on.

`DurableTally` is the abstract promise: what is recorded lies between what was
recorded before and what has happened, except while a wipe is under way, when single
counts may go back; a wipe that is carried through leaves none. Without a shell no count
ever goes back.

- `NeverOvercounts`: no persisted count exceeds what happened.
- `LossBound`: of a reliable key, a reset loses at most the event being saved, or the
  boot it cuts, apart from what an erase got at.
- `LastResetExplained`: the reason a boot leaves in flash is its own, until an erase gets
  at it.
- `TallySpec`: the counters whose loads work implement `DurableTally`, with the key's
  value in flash for `recorded`. A failed load makes a counter start over; that is
  what the code does, and such keys are outside the refinement.

Run `diagnostics` has one event counter that never fails, one whose saves and loads
may, a watchdog count whose saves may, two events each and three resets:
enough for a reset that cuts a boot, a second one that finds RESETREAS with two
bits, and an event on each side. Erases multiply the states, so they are a part of their
own (`"wipes"`): any number of them, whole, failed or cut, with one event, two resets
and no pin reset (`WipeBound`), which leaves room for an event before, during or after an
erase and for a boot over what is left. The four event counters of the code are
independent and symmetric; two stand for them, one of each kind. The device stops
at its last reset or parks, so deadlock is not checked.

Run `diag_wipe` refutes the help of `wipe_settings`: an event saved in the 100 ms
between the erase and the reboot brings the old count back.

### HealthSnapshot

`MaybeLogAndPersistHealthSnapshot` with its test of the rate limit, its stamp and its
two writes apart, called once by the main thread and from both work items by the
Matter thread, with writes that fail, policy work items that are lost (`LoseWork`), a
`wipe_settings` that takes the record (`EraseRecord`; the node may run on) and resets
between any two steps. The last two properties are about boots in which no write failed
and none was erased again; the next boot is held to them anew.

- `SnapshotBudget`: at most one snapshot an interval and two more, of which one is the
  first of the boot and one may be taken by both threads together.
- `SavedUptimeRecent`: the uptime found after a reset is at most an interval, a late
  poll and two slow calls old, unless policy work items were lost in the last poll and
  two calls: nobody writes while they are. It is two calls, because the work item whose turn it is may
  be held in its test until the main thread has stamped; it then returns and leaves
  the writes to the main thread.
- `RecordCoherent`: between calls, the role in flash was read no earlier than the
  uptime beside it and within two calls of it, also if the calls overlapped.

`WritesAreShort` assumes that two calls fit into an interval: 600 s unless configured
otherwise, against a few bytes of flash. Without it the budget is false: the threads can then
take turns at stamping with old clock readings.

It is checked by run `diagnostics` as well. It uses other keys than the counters and
shares no state with them: the variable `part` of `MCDiagnostics` says which of the two
moves, and a product would only multiply their states. Interval 3, period 1, latency 1,
a call of at most 1, the longest the assumption allows, uptime 9: nearly three
intervals, and past the age that `SavedUptimeRecent` allows. There is one role, as `savedRoleAt` tells when the saved one was read, and no
property looks at its value.

### SensorWatchdog

The main thread's way to its loop (`main`), the watchdog (`armed`, `lastFed`), the
sensor timer (`sensorDue`) and its work item (`SensorWork`, with the early returns
of `UpdateSensorReadings` in `Samples`). `LoseWork` is a full event queue,
`MatterHangs` a dead thread (`CONFIG_RESET_ON_FATAL_ERROR` is `n`), `StartupFails`
the error returns of `Init` and `StartApp`, `DispatchUiTask` a board UI task that
wakes, and so feeds in, the main loop.

- `TimeoutNeedsTrouble`: no watchdog reset unless, since the last feed, a work
  item was lost or did not sample, the thread hung, or start-up failed.
- `DeadDeviceReset`: a node that hung or failed to start is reset within the
  timeout of the hang or of the last feed of the main thread. A build without board
  UI feeds there once; with board UI, events can feed a dead node for ever, and no
  document promises otherwise.
- `GraceKeptUnlessUnseen`: a sample within the grace after commissioning is
  published only if the node was decommissioned and commissioned again
  unnoticed.

Run `watchdog` (interval 3, latency 1, timeout 5, grace 2, start-up 2, uptime 13)
has room for four samples and two timeouts, and UI tasks at any moment.
The timeout is the least that exceeds interval and latency.

Run `watchdog_waiting` refutes the comment that the node advertises for an hour:
before it has a fabric, no work item samples, so none feeds, and a
diagnostic build without board UI is reset at every timeout. Run `watchdog_grace`
shows a recommissioning between two samples that gets no grace.

### CommissioningHold

The rest of the policy work item, in two steps: `ReadClock`, and
`UpdateCommissioningAwakePolicy` with everything after it. Time may pass in
between, as the handler waits for the Thread lock and saves counters before it
uses what it read. The window does not move meanwhile: whatever opens or closes it
runs on the same thread. `ApplyThreadTxPower` may fail at any time.

- `FullPowerInHold`: one sampling delay after the window opens, or after the last
  failure, the radio has full power; it keeps it through the grace of every
  window that a work item saw open.
- `NeverLowersInHold`: no work item lowers the power before that, even with a clock
  reading that is old by then.
- `LowPowerAfterHold`: two sampling delays after the grace, the power is down.
- `KickedInHold`: while the window is open, two kicks are at most two periods and a
  latency apart. It cannot be one period: the code compares with the very period
  of the timer, and a work item that starts early after a late one skips its kick.

Run `hold` (period 2, latency 1, grace 3, uptime 13) reaches the end of a hold that
begins after boot, a window reopened in its grace, and a window nobody saw. The
default power differs from both others, so that a power never applied shows.

### BatterySense

`ReadBatteryVolts` and `InitBatterySense` as a protocol on the enable pin and the ADC, one
step per call of a driver, on two threads. Nothing in the code but the length of
the sensor interval keeps the first reading of the main thread and those of the
Matter thread apart, so they may overlap; `overlap` records that they did. The level
of the pin is what the calls produce: `GPIO_OUTPUT_INACTIVE` on a pin without
`GPIO_ACTIVE_LOW` drives it low, which turns the divider on until the next call.

- `DividerOffBetweenReadings`: the divider draws current only inside a reading or the
  two calls of the set-up, whatever fails and overlaps.
- `DividerReleased` (liveness): what turned it on turns it off.
- `SampledWithDividerOn`: a reading that overlaps none samples with the divider on. One
  that overlaps may find it turned off by the other: no property excludes that, and the
  code does not.
- `PlaceholderExplained`: a reading that overlaps none publishes the placeholder, in a
  diagnostic build, only with a failure of its own counted, or in a boot whose set-up
  failed. A low-power build (`diagnosticMode` false) counts nothing, so its placeholders
  are told by nothing but the log.

Run `battery`: both kinds of build, two threads, all four samples, two failures. The test and the set
of the latch are two steps, so two threads may set the ADC up at once.

### Readings and BatteryGauge

The arithmetic, exact in integers: a voltage is a number of 1/4641 mV, in which both
a sum of ADC samples and the corners of the curve are whole. The charge is the same
as in `float` for all 16381 sums; the millivolts differ by one at five of them, within
an ulp of a half. `BatteryGauge` is what a controller sees as the voltage drifts by one
count, or a reading fails.

- `GaugeIsSmooth`: voltage and charge move together, by at most one percent a count.
- `NearestPercent`: against a reference definition, the charge is the nearest percent
  to the curve, from both sides of every corner.
- `VoltageAndChargeAgree`: the two attributes never tell of more than a percent apart.

### StatusLed

The LED thread and two pulsing threads, call by call, in a build with
`kStatusLedEnabled`.

- `NoColourLeftBehind`: green is on during a pulse only; red and blue never together.
- `StatusShown` (liveness): a window that stays open, or the state a node settles in,
  is shown in the end, however often it pulses.

Run `leds` has no bound: the model is finite. The LED thread may cut a pulse short,
and does; no document promises its length.

### Startup

The main thread from `main` to its loop, every failure and both ways to park, beside
the initialisation of the server on the Matter thread with the identity callbacks.
Where the SDK initialises the server, in `PrepareServer` or in `StartServer`, is not in
this repository: `initIn` takes both.

- `MeasuredInDeclaredRange`: no client ever reads a temperature beside a declared range
  that does not hold it, although the range is set with two calls after the server
  started.
- `RuntimeIdentityServed`: a running server answers with the chip's identity even if
  the SDK installs its own provider, and never reports a cut answer, or a digest that
  could not be computed, as a success.
- `WakeHintExplained`: hint and instruction are of one kind in a running server.
- `WipeBuildParks`: a wipe build never starts Matter, and reports its own erase.
- `LateFailureRetried` (liveness): a diagnostic build that fails after the watchdog is
  armed is reset.

Run `startup`: all 16 builds, readings at both ends of the SHT4x and beyond the
generated maximum, buffers just too small and just large enough, two power cycles.

### DataModel and AttributeStore

`DataModel` holds the tables of `endpoint_config.h` and `gen_config.h` in compressed form:
201 attributes, clusters, endpoints, command lists. `AttributeStore` walks them the
way the SDK does (external): it finds an attribute by adding up the sizes of what it
passes, three kinds of numbers that were generated apart.

- `ReadsOwnBytes`: a read of a stored attribute returns bytes last written to that
  attribute.
- `StoreFits`: the store has exactly the bytes of its attributes, and every change
  finds its data version.
- `NothingLost`: nothing the application sets is refused or cut, and every default fits.

`Reads` are the paths that are read, stored or not; the run has every stored attribute,
and one that is missing at each level of the walk.

### AccessTable and CommandDispatch

`access.h`'s parallel arrays; the start and the stop of each cluster's server
(`CodeDrivenInitShutdown.cpp`, `callback-stub.cpp`); a request from its checks (external)
to `DispatchSingleClusterCommand` and its answer.

- `AnsweredOnce`, `ServersPaired`, `AdvertisedIsHandled`: exactly one answer; every server
  running while serving and none after a stop, over any number of restarts; every
  advertised command that decodes runs its handler. The firmware never stops its servers
  and starts them again, it reboots; `ServersPaired` says that start and stop have the
  same cases.
- `CommissioningGuarded`: commands of the clusters that commission the node and the
  access control list are for administrators; nobody below Manage writes at the root.

Run `datamodel` checks these, the store and the gauge, which share tables and no state;
`part` says which one moves. It has every cluster of the tables and an unknown one, at
both endpoints and a missing one, every command id in use, every privilege, all
stored attributes and every sum of samples. Only handlers' own behaviour is chosen
freely: a command may fail to decode, or be declined.

## The proofs

There are eight modules `...Proofs` with theorems for every value of the constants,
under the assumptions named in the modules they are about: `ThreadMonitor`,
`Diagnostics` (`DiagCounters`, `HealthSnapshot`), `SensorWatchdog`, `CommissioningHold`,
`Battery` (`BatterySense`, `Readings`, `BatteryGauge`), `StatusLed`, `Startup`, and
`DataModel` (`CommandDispatch`, `AttributeStore`). Each has the same shape: a type
invariant, an inductive invariant made of named parts, one step per action, and the
properties as consequences. Every safety property that a passing run checks is a
theorem.

| Theorem | Says | Rests on |
| --- | --- | --- |
| `ThreadMonitorProofs!Consistent`, `RebootInTime`, `RebootNotEarly` | the three properties above | `MonitorInv`: the next poll is at most a period ahead, and the timestamp lies within a sampling delay of the detachment or of the last work item lost |
| `ThreadMonitorProofs!CountersBalance` | `DetachesAccounted` for every counter width and whatever a boot loads | `Balanced`: the same sum without the modulus, up to one width |
| `DiagnosticsProofs!AtMostOnce` | `NeverOvercounts`, whatever fails | `CountInv`: what RAM, flash and the pending watchdog bit hold together is covered by what happened |
| `DiagnosticsProofs!ImplementsTally` | the refinement, for the keys whose loads work, also when an erase fails half-way or is cut | flash is never ahead of RAM for those keys |
| `DiagnosticsProofs!LossBounded` | `LossBound`, for the keys that never fail | RAM and flash differ exactly by the saves under way |
| `DiagnosticsProofs!ReasonExplained` | `LastResetExplained`, until an erase gets at the key | the bits in RESETREAS or in `DiagOnBoot`'s local are causes since the device was last up |
| `DiagnosticsProofs!FlashSpared`, `UptimeIsRecent`, `RecordIsCoherent` | the three properties of the snapshot, for every interval that two calls fit in; the second while no policy work item was just lost | `SnapshotInv`: the Matter thread's stamps are an interval apart although the main thread may set the stamp back by a call; who still owes the writes of the last stamp, and how old the clock reading is that it will save |
| `SensorWatchdogProofs!HealthyNotReset` | `TimeoutNeedsTrouble`, if `WdtTimeout > SensorInterval + Latency` and `WdtTimeout > BootLatency` | `WatchdogInv`: unless there was trouble, the timer is due within an interval of the last feed |
| `SensorWatchdogProofs!DeadNodeReset` | `DeadDeviceReset`, for every constant | nothing feeds after the hang but the main thread entering its loop |
| `SensorWatchdogProofs!GraceKept` | `GraceKeptUnlessUnseen`, an action property | `GraceInv`: a commissioning that was noticed has its time, and that time is not the 0 which stands for none |
| `CommissioningHoldProofs!FullPowerTheorem`, `HoldEnds`, `NeverLowers` | the three properties above | `HoldInv`: the expiry not served yet, `due`, is at most a period after whatever the radio does not reflect |
| `CommissioningHoldProofs!KickedTheorem` | `KickedInHold`, if `Latency <= PollPeriod` | `KickInv`: a work item that skips its kick leaves the next one to do it |
| `BatteryProofs!DividerOff`, `SamplesTheBattery`, `PlaceholderAccounted`, `AverageIsFull` | the safety properties of the battery, for any number of threads and samples and both kinds of build; `FullAverage` is proved and not run | where the pin, the latch and the failure count are at every step of a reading |
| `BatteryProofs!PercentMonotone`, `SmoothGauge`, `AttributesAgree` | the curve never falls, over all integers, and the two properties of the gauge | one lemma per segment of the curve |
| `BatteryProofs!ChargeIsNearest` | `NearestPercent`, in both segments of a corner | in each segment the quotient is the nearest one, and neighbours agree at their corner |
| `BatteryProofs!TemperatureExact`, `HumidityHonest` | no temperature from -40 to 125 degrees is changed by the narrowing; a humidity below zero wraps, but never onto 0 to 100 % | the range of the SHT4x |
| `StatusLedProofs!NoColourStays` | `NoColourLeftBehind` | `LedInv`: once the LED thread has set a pin, the pin shows what the thread saw |
| `StartupProofs!RangeDeclaredFirst` | `MeasuredInDeclaredRange` for any set of readings within the range of the sensor | `IInv`: the server is waited for, and the range is set before the first value |
| `StartupProofs!ChipIdentityServed` | `RuntimeIdentityServed`, for any sizes of buffers | `IdentityInv`: a server that is ready has been through the callback after the initialisation of the SDK |
| `StartupProofs!HintAndInstructionAgree` | `WakeHintExplained` | `HintInv`: between the two Sets the hint is ahead, and no load of the attributes comes in between |
| `StartupProofs!WipeParks` | `WipeBuildParks` | `WipeInv`: the wipe build and the others go separate ways from `main` on |
| `DataModelProofs!AnsweredExactlyOnce` | `AnsweredOnce` for any set of requests | no answer before the last step of a request |
| `DataModelProofs!EveryClusterServed` | `ServersPaired` | `ServersInv`: what is registered is what the position in the tables says |
| `DataModelProofs!ListedIsHandled`, `OnlyAdministratorsCommission` | `AdvertisedIsHandled` and `CommissioningGuarded` for any set of requests | `RequestInv`: a request that is dispatched is listed and authorized; and lemmas that go through the lists of commands, the cases of the dispatcher and the rows of `access.h` |
| `DataModelProofs!ReadsReturnOwnBytes`, `NothingIsLost`, `StoreNeverOverrun` | the three properties of the store, for any set of reads | `StoreInv`: wherever a walk is, its offset is the first byte of that endpoint, cluster or attribute; a write is aimed at an attribute it fits, still ahead of the walk; every attribute loaded so far owns its bytes, but for the one being written |

`StoreInv` rests on what the generated numbers have in common, and the lemmas say it of
all of them: an attribute starts where the one before it ends (`StartsAddUp`), the size
declared for a cluster is the sum of its attributes' (`ClusterSizes`), no byte belongs to
two attributes and none to nobody (`BytesApart`, `EveryByteOwned`), whatever
the application sets has its attribute and the room (`Homes`, `PublishedLand`,
`DefaultsLand`), and every cluster has a data version (`SlotsFit`). The tables are
constants of the repository, so each of these goes through their rows once; the walk is
not, and is what the invariant is for.

Most of the properties are not inductive. A node at full power in an open window
tells nothing of the step after; that the failure, the loss or the opening which
excuses another power is less than a period old does. The proof of
`SavedUptimeRecent` has to follow the work item that is held in its test while the main
thread stamps; the age of what is in flash is then bounded through the local of
another thread. The proof of
`HealthyNotReset` has assumptions that nothing in the source checks: the range of
`TINYENV_DIAG_WATCHDOG_TIMEOUT_SEC` in `src/Kconfig` starts at 30 s, half the sampling
interval, and with such a timeout a healthy node is reset.

Type correctness is proved for every model with state, for every value of the
constants (in `StatusLed` and `BatteryGauge` as a part of `LedInv` and `GaugeInv`). The runs
repeat it for `ThreadMonitor` only, where it holds a counter to its width.

Only model-checked:

- `DividerReleased`, `StatusShown`, `LateFailureRetried`: liveness under fairness needs
  `ENABLED`, which is out of the prover's reach. What they rest on is proved where it is
  safety: the divider is on inside a reading only, no colour is left behind.
- Nothing is proved by induction over data, which is out of reach too. The offset of
  an attribute is a sum over the table; the proof has it as a column (`StartOf`), and
  compares neighbours with the generated sizes.
- The four runs below that end in a violation: a proof shows that something holds.

## What the code does and a text denies

| Run | Text | Code |
| --- | --- | --- |
| `thread_monitor_readme` | README: reboots if a node "remains" detached | a reattachment shorter than the poll period does not count |
| `diag_wipe` | help: erase and reboot | saves go on between the two |
| `watchdog_waiting` | `prj.conf`: announce for one hour | the watchdog resets an uncommissioned diagnostic node every timeout |
| `watchdog_grace` | `app_task.h`: a grace to allow initial networking | none after a recommissioning between two samples |

## Not modelled

- The wake button: `InitWakeButton` configures a pin that no board of the repository
  gives an alias. It and the board's buttons only call the ICD manager of the SDK.
- The boot I2C scan sends a soft reset and logs; nothing depends on it.
- `decom` only calls the Matter server's factory reset, `diag_dump` only prints.
- Kconfig options, boards and overlays are constants of the models.
- In ZAP's headers: the event list, client counts, device types and command flags,
  which no code of the repository reads; values and types of attributes.
- Matter, OpenThread and Zephyr appear as the environment: what they may do between
  two steps, never how.

Assumptions about what is outside: the SHT4x delivers -40 to 125 degrees and -6 to
119 % (its data sheet's formulas); the SDK finds attributes by the walk of
`AttributeStore`; it checks existence, then privilege, then dispatches; a row of
`access.h` applies to a cluster whether its code registers itself or not (a cluster
in code may bring its own privileges, which the repository does not show); an
`emberAf...Callback` that returns true has sent its answer.

## Plan

Done: `ThreadMonitor`, `DiagCounters` over `DurableTally`, `SensorWatchdog`,
`CommissioningHold`, `HealthSnapshot`, `BatterySense`, `Readings` with `BatteryGauge`,
`StatusLed`, `Startup`, `DataModel` with `AttributeStore`, `AccessTable` with
`CommandDispatch`; and the proofs of all their safety properties.

1. `PolicyWorkItem`: `ThreadMonitor` and `CommissioningHold` composed over one clock
   and one work item, with the reboot between kick and snapshot; then both timers and
   their work items on one Matter thread, as the scheduler that the constant `Latency`
   stands for.
2. With it, proofs that the safety properties of `ThreadMonitor` and
   `CommissioningHold` carry over to the composition: each of its steps is a step or a
   stutter of either part.
