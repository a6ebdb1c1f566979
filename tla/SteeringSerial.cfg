\* One caller: calls are serial, everything the API promises holds.
SPECIFICATION Spec
CONSTANTS
  Ids = {r1}
  Texts = {t1, t2}
  NoText = NoText
  Callers = {c1}
  MaxGrants = 1
  MaxNow = 1
  MaxSnaps = 1
INVARIANTS GrantFloor GrantBoundToText RevokeHolds
PROPERTIES OnlyByAuthority
SYMMETRY Symmetry
