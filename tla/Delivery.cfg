CONSTANTS
  r1 = r1  r2 = r2  h1 = h1  h2 = h2
  Idle = Idle
  Event <- MCEvents
  Relay <- MCRelays
  Handler <- MCHandlers
  BatchSize = 2
  MaxDeliver = 2
  Budgets <- MCBudgets
SPECIFICATION FairSpec
CHECK_DEADLOCK FALSE
INVARIANTS NothingIsLostOrDoubled
PROPERTIES ImplementsContract EnqueuedIsHandled
