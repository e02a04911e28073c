\* Kills, power losses, other tools, damage, growth; none in a pending job.
SPECIFICATION Spec
CONSTANTS
  Slots = {1, 2}
  Values = {"a", "b"}
  Ends = {1, 2}
  Script <- TwoMoves
  MaxDeaths = 2
  MaxForeign = 1
  MaxDamage = 1
  Writeback = TRUE
  DamageInJob = FALSE
INVARIANTS TypeOK TableSurvives RedundancyRestored
PROPERTIES CommitIsAtomic
CHECK_DEADLOCK FALSE
