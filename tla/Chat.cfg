CONSTANTS
  Free = 0
  seller = seller
  User = {buyer, seller}
  Replica = {r1, r2}
  Connection = {1, 2}
  Request = {1, 2, 3}
  Ad = {a}
  Owner <- MCOwner
  SendBuffer = 1
  Burst = 1
  Budgets <- MCBudgets
SPECIFICATION Spec
CHECK_DEADLOCK FALSE
INVARIANTS ConnectionsAreServed MessagesAreKept
PROPERTIES ChatSettles
