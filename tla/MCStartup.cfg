SPECIFICATION FairSpec
CONSTANTS
  Null = Null
  Readings <- MCReadings
  BufferSizes <- MCBufferSizes
  MaxCycles = 2
INVARIANTS
  MeasuredInDeclaredRange
  RuntimeIdentityServed
  WakeHintExplained
  WipeBuildParks
PROPERTY LateFailureRetried
CHECK_DEADLOCK FALSE
