\* Two devices, serial calls, two edits each.
SPECIFICATION Spec
CONSTANTS
  Devices = {d1, d2}
  MaxContent = 2
  Writers = {w1}
  Policies = {"demote", "preserve"}
  MaxEdits = 2
SYMMETRY Symmetry
INVARIANTS NoEditLost MergeAgrees
PROPERTIES KnowledgeGrows
