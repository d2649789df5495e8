SPECIFICATION MCSpec
CONSTANTS
  Requests <- MCRequests
  Reads <- MCReads
INVARIANTS
  ServersPaired
  AnsweredOnce
  AdvertisedIsHandled
  CommissioningGuarded
  ReadsOwnBytes
  StoreFits
  NothingLost
  NearestPercent
  VoltageAndChargeAgree
PROPERTIES
  GaugeIsSmooth
