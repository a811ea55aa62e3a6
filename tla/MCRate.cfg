SPECIFICATION FairSpec
CONSTANTS
  IPs = {a}
  Requests = {q1, q2}
  Rate = 1
  Burst = 1
  TTL = 4
  MaxDelay = 1
  MaxTime = 6
INVARIANTS TypeOK RefusedIsOverdrawn
PROPERTIES KeepsContract IdleIsForgotten
CHECK_DEADLOCK FALSE
