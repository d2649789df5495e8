CONSTANTS
  PollPeriod = 2
  Latency = 1
  PostCloseGrace = 3
  FullPower = 8
  LowPower = 4
  DefaultPower = 0
  MaxUptime = 13

SPECIFICATION Spec

INVARIANTS
  FullPowerInHold
  LowPowerAfterHold
  KickedInHold

PROPERTIES
  NeverLowersInHold
