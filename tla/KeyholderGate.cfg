\* One import at a time, other calls in between, one soul a second.
SPECIFICATION Spec
CONSTANTS
  Peers = {p1}
  Keys = {k1, k2}
  Importers = {i1}
  Skew = 1
  MidImport = FALSE
  MaxTime = 3
  MaxPerSecond = 1
  None = None
INVARIANTS HighWaterMeansApplied SoulOnce NewestIsWelcome
PROPERTY HighWaterRises
