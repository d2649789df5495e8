SPECIFICATION FairSpec

INVARIANTS
  NoColourLeftBehind

PROPERTIES
  StatusShown
