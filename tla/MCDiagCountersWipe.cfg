\* A parked device stops, and so does one at its last reset.
CHECK_DEADLOCK FALSE

CONSTANTS
  EventCounters = {e1, e2}
  SaveMayFail = {}
  LoadMayFail = {}
  ShellEnabled = TRUE
  MaxHappened = 2
  MaxResets = 3

SPECIFICATION Spec
SYMMETRY EventSymmetry

INVARIANTS
  WipedEventsStartOver
