\* Two purchases of a set with every fault, over two days.
CONSTANTS
  u1 = u1  a1 = a1  r1 = r1  r2 = r2  w1 = w1
  None = None  Idle = Idle  Never = Never
  User <- MCUsers
  Reference <- MCAds
  Ad <- MCAds
  Owner <- MCOwner
  Request <- MCRequests
  Worker <- MCWorkers
  Plan <- MCPlans
  Funds = 10
  MaxTime = 2
  Faults <- AllFaults
SPECIFICATION PromotionsSpec
SYMMETRY MCSymmetry
CHECK_DEADLOCK FALSE
INVARIANTS  PaidTimeConserved RemovedAdHasNoService
 
