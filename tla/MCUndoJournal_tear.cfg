\* A power loss may also tear a write of undo itself; no other tool writes.
SPECIFICATION Spec
CONSTANTS
  Sectors = 2
  Versions = {0, 1}
  TearUndo = TRUE
  ReuseInode = FALSE
  MaxCommands = 1
  MaxDeaths = 2
  MaxEdits = 0
INVARIANTS AdviceHolds
CHECK_DEADLOCK FALSE
