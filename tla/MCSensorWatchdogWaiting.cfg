CONSTANTS
  SensorInterval = 3
  CommissionGrace = 2
  WdtTimeout = 5
  Latency = 1
  BootLatency = 2
  BoardUi = FALSE
  AdvertisingTime = 10
  MaxUptime = 12

SPECIFICATION Spec

INVARIANTS
  WaitingNodeNotReset
