\* Third parties edit the table between runs; swap members; tool failures.
SPECIFICATION Spec
CONSTANTS
  DiskSize = 10
  FirstUsable = 1
  Jobs <- AllJobs
  Chunks = {1, 2}
  BatchCap = 2
  MaxCrashes = 1
  MaxToolFailures = 1
  MaxEdits = 2
INVARIANTS ThirdPartyUntouched Recoverable TableNeverOverlaps DoneMeansDone
CHECK_DEADLOCK FALSE
