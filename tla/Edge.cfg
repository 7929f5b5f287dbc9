\* One user and one address, which are the keys of the limiters, as is the
\* user of a forged header.  A bucket holds two requests and gains two thirds
\* of one per tick; a window of auth takes one request.
CONSTANTS
  Absent = Absent
  User = {u1}
  Address = {a1}
  Client = {u1, a1, "forged"}
  Caller = {c1, c2}
  Rate = 2
  Burst = 6
  Cost = 3
  Limit = 1
  Window = 2
  MaxTime = 5
SPECIFICATION EdgeSpec
CHECK_DEADLOCK FALSE
INVARIANTS RequestsReachTheirHandler
PROPERTIES LimitsAreKept
