SPECIFICATION DownloadSpec
CONSTANTS
  FileIDs = {f1}
  Hashes = {}
  Sizes = {1}
  PendingTimeout = 1
  HostDuration = 2
  ZoneOffset = 1
  MaxTime = 4
  MaxFaults = 0
  MaxCrashes = 0
  AtomicPut = TRUE
  WebUploads = {f1}
  LatePayments = FALSE
PROPERTY PaidUntilExpiry
CHECK_DEADLOCK FALSE
