\* The filesystem gives the inode of a deleted journal to the next one.
SPECIFICATION Spec
CONSTANTS
  Sectors = 2
  Versions = {0, 1}
  TearUndo = FALSE
  ReuseInode = TRUE
  MaxCommands = 2
  MaxDeaths = 2
  MaxEdits = 0
PROPERTIES RecordsStay
CHECK_DEADLOCK FALSE
