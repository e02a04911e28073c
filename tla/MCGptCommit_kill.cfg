\* A kill leaves an unsynced header behind; abandon frees the target at once.
SPECIFICATION Spec
CONSTANTS
  Slots = {1, 2}
  Values = {"a", "b"}
  Ends = {1, 2}
  Script <- TwoMoves
  MaxDeaths = 2
  MaxForeign = 0
  MaxDamage = 0
  Writeback = FALSE
  DamageInJob = FALSE
INVARIANTS TableSurvives
CHECK_DEADLOCK FALSE
