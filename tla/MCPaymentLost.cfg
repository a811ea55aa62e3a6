SPECIFICATION FairSpec
CONSTANTS
  FileIDs = {f1}
  Hashes = {h1}
  Requests = {q1}
  Sizes = {1}
  PendingTimeout = 1
  HostDuration = 3
  ZoneOffset = 0
  MaxTime = 0
  MaxFaults = 0
  ChannelCap = 1
  MaxCrashes = 1
  AcksMayBeLost = FALSE
PROPERTY SettledIsCredited
CHECK_DEADLOCK FALSE
