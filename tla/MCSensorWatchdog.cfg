CONSTANTS
  SensorInterval = 3
  CommissionGrace = 2
  WdtTimeout = 5
  Latency = 1
  BootLatency = 2
  BoardUi = TRUE
  AdvertisingTime = 20
  MaxUptime = 13

SPECIFICATION Spec

INVARIANTS
  TimeoutNeedsTrouble
  DeadDeviceReset

PROPERTIES
  GraceKeptUnlessUnseen
