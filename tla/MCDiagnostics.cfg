\* A parked device stops, and so does one at its last reset.
CHECK_DEADLOCK FALSE

CONSTANTS
  e1 = e1
  e2 = e2
  EventCounters <- MCEventCounters
  SaveMayFail <- MCSaveMayFail
  LoadMayFail <- MCLoadMayFail
  ShellEnabled = TRUE
  MaxHappened = 2
  MaxResets = 3
  Interval = 3
  PollPeriod = 1
  Latency = 1
  WriteTime = 1
  Roles = {"child"}
  MaxUptime = 9

SPECIFICATION MCSpec

INVARIANTS
  NeverOvercounts
  LossBound
  LastResetExplained
  SnapshotBudget
  SavedUptimeRecent
  RecordCoherent

PROPERTIES
  TallySpec
