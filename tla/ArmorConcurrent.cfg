\* Two callers; the instance breaks twice, in either way.
SPECIFICATION ArmorSpec
CONSTANTS
  Users = {c1, c2}
  Modes = {"dead", "silent"}
  MaxBreaks = 2
INVARIANTS NoFalseEmpty NoZombie
PROPERTY CallsEnd
