\* The primary copy becomes unreadable while a relocation lies interrupted.
SPECIFICATION Spec
CONSTANTS
  Slots = {1, 2}
  Values = {"a", "b"}
  Ends = {1, 2}
  Script <- TwoMoves
  MaxDeaths = 2
  MaxForeign = 0
  MaxDamage = 1
  Writeback = TRUE
  DamageInJob = TRUE
INVARIANTS TableSurvives
CHECK_DEADLOCK FALSE
