\* Two devices: a tombstone that both have seen is reaped on one of them.
SPECIFICATION PruneSpec
CONSTANTS
  Devices = {d1, d2}
  MaxContent = 1
  Writers = {w1}
  Policies = {"demote"}
  MaxEdits = 2
SYMMETRY Symmetry
INVARIANT SafelyReaped
