CONSTANTS
  c1 = c1  c2 = c2  c3 = c3  k1 = k1  k2 = k2
  m1 = m1  m2 = m2  r1 = r1  r2 = r2
  None = None
  Gone = Gone
  Ad = {1, 2}
  Content = {c1, c2, c3}
  Suspect = {c2, c3}
  Connection = {k1}
  Lifetime = 1
  Budgets <- MCBudgets
  Moderator = {m1, m2}
  Report = {r1}
  Target <- MCTarget
SPECIFICATION Spec
CHECK_DEADLOCK FALSE
INVARIANTS ReviewIsSound TakedownHoldsUnlessRaced 
PROPERTIES EndsAreRespected 
