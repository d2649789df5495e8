CONSTANTS
  PollPeriod = 2
  Latency = 1
  RebootThreshold = 3
  Rlocs <- MCRlocs
  CounterSize = 3
  MaxUptime = 12

SPECIFICATION Spec

PROPERTIES
  RebootOnlyIfDetachedThroughout
