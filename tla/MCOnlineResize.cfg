\* Every tool may fail, third parties edit, remount and reformat, runs die.
SPECIFICATION Spec
CONSTANTS
  Situations <- SmallSituations
  Requests <- SmallRequests
  Usable = 6
  Extent = 2
  Elsewhere = 1
  ElsewhereRoom = 4
  MaxCrashes = 1
  MaxFaults = 2
  MaxEdits = 1
  MaxRemounts = 1
INVARIANTS NothingOverruns RefusedMeansUntouched
PROPERTIES DoneMeansDone AnotherFsUntouched
CHECK_DEADLOCK FALSE
