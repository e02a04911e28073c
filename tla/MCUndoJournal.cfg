\* Two commands, two deaths, one edit by another tool.
SPECIFICATION Spec
CONSTANTS
  Sectors = 2
  Versions = {0, 1}
  TearUndo = FALSE
  ReuseInode = FALSE
  MaxCommands = 2
  MaxDeaths = 2
  MaxEdits = 1
INVARIANTS TypeOK Reversible UndoneMeansOrigin AdviceHolds OneTransaction
PROPERTIES ForeignBytesStay RecordsStay EventuallyReleased
CHECK_DEADLOCK FALSE
