\* Three memories and a window of two; a log of two rows that is trimmed at
\* every second id.
SPECIFICATION Spec
CONSTANTS
  Files = {1, 2, 3}
  Searchers = {s1}
  LogMax = 2
  Slice = 1
  MaxEvery = 64
  MaxId = 4
  DecayAge = 1
  ScanLimit = 2
  Batch = 2
  MaxTime = 1
  MaxCalls = 4
INVARIANTS CountersHaveRows LogUnderCeiling
PROPERTIES DecayIsFair QuietRowsGo
\* The calls are bounded.
CHECK_DEADLOCK FALSE
