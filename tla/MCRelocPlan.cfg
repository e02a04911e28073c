\* Every table of at most three blockers in a small usable area.
SPECIFICATION Spec
CONSTANTS
  FirstUsable = 1
  LastUsable = 9
  Layouts <- MCLayouts
  Requests <- MCRequests
  MaxBlockers = 3
  TargetEnd = 2
INVARIANTS TypeOK PlanIsExecutable ReplanLandsTheSame
PROPERTIES ShiftGrowsExactly PlanIsOptimal
CHECK_DEADLOCK FALSE
