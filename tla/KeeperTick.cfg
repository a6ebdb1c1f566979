\* Three memories, shelves of two or more.
SPECIFICATION Spec
CONSTANTS
  Memories = {1, 2, 3}
  Shelves = {1, 2, 3, 4}
  Texts <- SomeTexts
  Subject <- Subjects
  Library <- AllTea
  Crisis = {"pain"}
  MinShelf = 2
  Batch = 2
  NudgeTicks = 2
  MaxEvents = 3
INVARIANTS TypeOK WatermarkHonest ShelvesMirrorGraph
PROPERTIES AskedOnce QueueDrains
