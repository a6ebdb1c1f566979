SPECIFICATION ShelfSpec
CONSTANTS
  Callers = {c1, c2}
  RecentDays = 0
  DailyDays = 1
  WeeklyDays = 3
  HardCap = 3
  Week = 2
  Month = 3
  MaxSnaps = 4
  MaxDay = 5
  MaxFaults = 2
SYMMETRY Symmetry
INVARIANTS ListedMeansThere ShelfBounded
PROPERTIES ReapedForAReason
CHECK_DEADLOCK FALSE
