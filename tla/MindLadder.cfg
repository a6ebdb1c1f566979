\* Two memories, two shelves.
SPECIFICATION Spec
CONSTANTS
  Memories = {m1, m2}
  Shelves = {1, 2}
  Themes <- SomeThemes
  Touchy = {TRUE, FALSE}
  TargetN = 2
  PromoteN = 2
  MinPatternN = 1
  PromoteAge = 0
  FreshDays = 1
  HorizonDays = 3
  MaxDay = 2
  MaxRows = 5
  MaxEvents = 5
INVARIANTS TypeOK OneCarrier RowsMatchLedger
PROPERTIES StableIdentity CarriedAreGuarded Fades
