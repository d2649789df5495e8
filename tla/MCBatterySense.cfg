CONSTANTS
  main = main
  matter = matter
  Threads <- MCThreads
  Once <- MCOnce
  SampleCount = 4
  MaxFailures = 2

SPECIFICATION FairSpec

INVARIANTS
  DividerOffBetweenReadings
  SampledWithDividerOn
  PlaceholderExplained

PROPERTIES
  DividerReleased
