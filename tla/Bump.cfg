CONSTANTS
  p1 = p1  p2 = p2  p3 = p3  i1 = i1  i2 = i2
  NoRun = NoRun
  Promotion <- MCPromotions
  Starts <- MCStarts
  Schedule <- MCSchedule
  Instance <- MCInstances
  Batch = 2
  Broken <- MCBroken
  MaxDay = 1
  Budgets <- MCBudgets
SPECIFICATION FairBumpSpec
CHECK_DEADLOCK FALSE
INVARIANTS EachDayOnce
PROPERTIES DueIsExecuted
