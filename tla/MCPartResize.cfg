\* Crashes, failing tools, third parties, undo and abandon around every job.
SPECIFICATION Spec
CONSTANTS
  DiskSize = 8
  Usable = 8
  Situations <- SmallSituations
  Requests <- SmallRequests
  MinFs = 2
  Extent = 2
  RedoWindow = 2
  MaxBatch = 64
  Claimable = {6}
  MaxCrashes = 2
  MaxFaults = 1
  MaxEdits = 1
INVARIANTS Recoverable OthersHoldTheirs FsFits
PROPERTIES DoneMeansDone
