\* One caller, crashes anywhere, journals lost; fair.
SPECIFICATION FairSpec
CONSTANTS
  Writes = {v1, v2, v3}
  Callers = {c1}
  MaxSnaps = 3
  None = None
INVARIANTS NeverEmptyAgain NoWriteLost AllOrNothing
PROPERTIES SwapEnds ComesBack
