\* Copying with power losses at any step, no third party.
SPECIFICATION FairSpec
CONSTANTS
  DiskSize = 10
  FirstUsable = 1
  Jobs <- DataJobs
  Chunks = {1, 3}
  BatchCap = 2
  MaxCrashes = 2
  MaxToolFailures = 1
  MaxEdits = 0
INVARIANTS TypeOK Recoverable TableTellsTheTruth TableNeverOverlaps DoneMeansDone
PROPERTIES KeepsTheScene ProgressIsMonotone RelocationIsAtomic EventuallyDone
CHECK_DEADLOCK FALSE
