SPECIFICATION FairSpec
CONSTANTS
  FileIDs = {f1, f2}
  IPs = {a, b}
  MaxPending = 2
  PendingTimeout = 1
  MaxTime = 3
CHECK_DEADLOCK FALSE
INVARIANTS TypeOK IndexSound
PROPERTY EntriesExpire
