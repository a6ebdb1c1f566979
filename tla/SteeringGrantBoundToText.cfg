\* Two callers whose statements interleave.
SPECIFICATION Spec
CONSTANTS
  Ids = {r1}
  Texts = {t1, t2}
  NoText = NoText
  Callers = {c1, c2}
  MaxGrants = 1
  MaxNow = 0
  MaxSnaps = 0
SYMMETRY Symmetry
INVARIANT GrantBoundToText
