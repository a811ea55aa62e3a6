SPECIFICATION FairSpec
CONSTANTS
  FileIDs = {f1, f2}
  Hashes = {h1, h2}
  Requests = {q1, q2}
  Sizes = {1}
  PendingTimeout = 1
  HostDuration = 3
  ZoneOffset = 0
  MaxTime = 0
  MaxFaults = 0
  ChannelCap = 2
  MaxCrashes = 0
  AcksMayBeLost = FALSE
PROPERTY SettledIsCredited
CHECK_DEADLOCK FALSE
