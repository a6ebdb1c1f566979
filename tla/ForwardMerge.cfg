SPECIFICATION Spec
CONSTANTS
  Sources = {a, b}
  Payloads = {x}
  Feeders = {p1}
  MaxTime = 2
  MaxCaptures = 2
  Contents = {1, 2}
  Noses = {1, 2}
  MaxCalls = 5
INVARIANTS  ScentIsCurrent
PROPERTIES BackfillEnds
CHECK_DEADLOCK FALSE
